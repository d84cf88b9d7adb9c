---------------------------- MODULE SensorsDoze -----------------------------
(***************************************************************************)
(* The doze service of cmactions: SensorsDozeService.java and the three    *)
(* sensor wrappers it drives.  Everything runs on the main thread, one     *)
(* handler at a time; what varies is the order in which display            *)
(* broadcasts, sensor events and changes of the settings come.             *)
(*                                                                         *)
(* Times are ages: sinceStowed and sincePulse count ticks up to the limit  *)
(* the code compares them with.  A sensor that is registered may report at *)
(* any time; one that is not registered never does.                        *)
(***************************************************************************)
EXTENDS Naturals, FiniteSets

CONSTANTS Limit,       \* HANDWAVE_DELTA_NS and PULSE_MIN_INTERVAL_MS, in ticks
          MaxChanges   \* bound on changes of the user's settings

VARIABLES prefs,         \* the gestures enabled in the preferences
          dozeSetting,   \* Settings.Secure.DOZE_ENABLED
          mDozeEnabled,  \* the copy getDozeEnabled last made
          flags,         \* which of mHandwaveDoze, mPickUpDoze, mPocketDoze are set
          mPickUpState, mProximityNear,
          orientation, pickUp, proximity,  \* the wrappers: [mEnabled, mReady, mState]
          hasMagnetic,   \* the device has a magnetometer
          sinceStowed, sincePulse,         \* ages; sincePulse = Limit when none counts
          display,       \* "on" or "off", as the last handled broadcast said
          broadcasts,    \* a display broadcast is on its way
          changes,       \* changes of the settings so far
          settled        \* no setting changed since the display went off

vars == <<prefs, dozeSetting, mDozeEnabled, flags, mPickUpState, mProximityNear,
          orientation, pickUp, proximity, hasMagnetic, sinceStowed, sincePulse,
          display, broadcasts, changes, settled>>

Gestures == {"handwave", "pickup", "pocket"}
Attitudes == {"UNKNOWN", "FACE_DOWN", "FACE_UP", "VERTICAL"}
Sensor(states) == [mEnabled: BOOLEAN, mReady: BOOLEAN, mState: states]

TypeOK == /\ prefs \subseteq Gestures /\ flags \subseteq Gestures
          /\ {dozeSetting, mDozeEnabled, mPickUpState, mProximityNear, hasMagnetic,
              settled, broadcasts} \subseteq BOOLEAN
          /\ orientation \in Sensor(Attitudes)
          /\ pickUp \in Sensor({"UNKNOWN", "FALSE", "TRUE"})
          /\ proximity \in Sensor(BOOLEAN)
          /\ sinceStowed \in 0..Limit /\ sincePulse \in 0..Limit
          /\ display \in {"on", "off"} /\ changes \in 0..MaxChanges

(* onCreate, loadPreferences and onStartCommand while the display is on. *)
Init == /\ prefs \in SUBSET Gestures /\ dozeSetting = TRUE /\ mDozeEnabled = FALSE
        /\ flags = {} /\ mPickUpState = FALSE /\ mProximityNear = FALSE
        /\ orientation = [mEnabled |-> FALSE, mReady |-> FALSE, mState |-> "UNKNOWN"]
        /\ pickUp = orientation
        /\ proximity = [mEnabled |-> FALSE, mReady |-> FALSE, mState |-> FALSE]
        /\ hasMagnetic \in BOOLEAN
        /\ sinceStowed = Limit /\ sincePulse = Limit
        /\ display = "on" /\ broadcasts = FALSE
        /\ changes = 0 /\ settled = TRUE

-----------------------------------------------------------------------------
(* The wrappers.  OrientationSensor.enable does nothing without both of    *)
(* its sensors; the other sensors are taken to exist.                      *)
OrientationEnable(s) ==
  IF ~s.mEnabled /\ hasMagnetic
  THEN [mEnabled |-> TRUE, mReady |-> FALSE, mState |-> "UNKNOWN"] ELSE s

PickUpEnable(s) ==
  IF ~s.mEnabled THEN [mEnabled |-> TRUE, mReady |-> FALSE, mState |-> "UNKNOWN"] ELSE s

Disable(s) == [s EXCEPT !.mEnabled = FALSE]

OrientationReset(s) == [s EXCEPT !.mReady = FALSE]
PickUpReset(s) == [s EXCEPT !.mReady = FALSE, !.mState = "UNKNOWN"]

ProximityEnable(s) == [s EXCEPT !.mEnabled = TRUE]
ProximityReset(s) == [s EXCEPT !.mReady = FALSE, !.mState = FALSE]

(* ProximitySensor.onSensorChanged: the first reading after a reset, or a  *)
(* change; other readings are not reported to the service.                 *)
ProximityReads(isNear, first) ==
  /\ proximity.mEnabled /\ proximity.mReady = ~first
  /\ first \/ proximity.mState # isNear
  /\ proximity' = [proximity EXCEPT !.mReady = TRUE, !.mState = isNear]

(* setOrientationSensor(true, false) and setPickUpSensor(true, false):     *)
(* starting one of the two motion sensors stops the other.                 *)
OrientationOn(o, p) == [orientation |-> OrientationEnable(o), pickUp |-> Disable(p)]
PickUpOn(o, p) == [orientation |-> Disable(o), pickUp |-> PickUpEnable(p)]

MotionOff(o, p) == [orientation |-> Disable(o), pickUp |-> Disable(p)]
MotionReset(o, p) == MotionOff(OrientationReset(o), PickUpReset(p))

Motion(m) == orientation' = m.orientation /\ pickUp' = m.pickUp

resetValues == flags' = {}

isEnabled(gesture) == gesture \in prefs /\ mDozeEnabled'

getDozeEnabled == mDozeEnabled' = dozeSetting

(* launchDozePulse: not within PULSE_MIN_INTERVAL_MS of the one before. *)
launchDozePulse == sincePulse' = IF sincePulse = Limit THEN 0 ELSE sincePulse

NoPulse == UNCHANGED sincePulse

(* analyseDoze without its restoring of the pick-up sensor. *)
NoRestore(o, p) == [orientation |-> o, pickUp |-> p]

(* analyseDoze: which gesture is recognised, then restore the pick-up      *)
(* sensor and forget the gestures.  o, p: the motion sensors so far; f:    *)
(* the gestures still possible.                                            *)
RestorePickUp(o, p) ==
  IF ~mProximityNear' /\ isEnabled("pickup") THEN PickUpOn(o, p)
                                             ELSE [orientation |-> o, pickUp |-> p]

analyseDoze(o, p, f) ==
  LET faceDown == o.mReady /\ o.mState = "FACE_DOWN"
      vertical == o.mReady /\ o.mState = "VERTICAL"
      wave == "handwave" \in f /\ ~faceDown
      lift == "pickup" \in f /\ IF mPickUpState' THEN ~mProximityNear' ELSE faceDown
      pocket == "pocket" \in f /\ vertical
  IN  /\ getDozeEnabled
      /\ IF wave \/ lift \/ pocket THEN launchDozePulse ELSE NoPulse
      /\ Motion(RestorePickUp(o, p))
      /\ resetValues

-----------------------------------------------------------------------------
(* The first reading of the proximity sensor: the service's onInit.        *)
ProximityInit(isNear) ==
  /\ ProximityReads(isNear, TRUE)
  /\ sinceStowed' = 0
  /\ mProximityNear' = isNear
  /\ UNCHANGED mDozeEnabled
  /\ IF flags = {} /\ ~isNear /\ isEnabled("pickup")
     THEN Motion(PickUpOn(orientation, pickUp))
     ELSE UNCHANGED <<orientation, pickUp>>
  /\ NoPulse
  /\ UNCHANGED <<prefs, dozeSetting, flags, mPickUpState, hasMagnetic, display,
                 broadcasts, changes, settled>>

(* handleProximity when the sensor is released: the gestures that the      *)
(* release may be the start of, and the sensor that will tell them apart.  *)
Released(quickWave) ==
  LET found == {g \in Gestures : isEnabled(g) /\ (g = "handwave") = quickWave}
  IN  /\ flags' = found
      /\ CASE found # {} -> Motion(OrientationOn(orientation, pickUp))
           [] found = {} /\ isEnabled("pickup") -> Motion(PickUpOn(orientation, pickUp))
           [] OTHER -> UNCHANGED <<orientation, pickUp>>

(* A change of the proximity sensor, and handleProximity. *)
ProximityEvent(isNear) ==
  /\ ProximityReads(isNear, FALSE)
  /\ mProximityNear' = isNear
  /\ getDozeEnabled
  /\ IF isNear
     THEN /\ sinceStowed' = 0
          /\ Motion(MotionOff(orientation, pickUp))
          /\ UNCHANGED flags
     ELSE /\ Released(sinceStowed < Limit)
          /\ UNCHANGED sinceStowed
  /\ NoPulse
  /\ UNCHANGED <<prefs, dozeSetting, mPickUpState, hasMagnetic, display, broadcasts,
                 changes, settled>>

(* OrientationSensor.onSensorChanged once both sensors have reported, and  *)
(* the service's onEvent: the sensor is stopped before it is used.         *)
OrientationEvent(attitude) ==
  /\ orientation.mEnabled
  /\ UNCHANGED <<mProximityNear, mPickUpState>>
  /\ LET o == [mEnabled |-> FALSE, mReady |-> TRUE, mState |-> attitude]
     IN  IF mProximityNear
         THEN /\ Motion([orientation |-> o, pickUp |-> pickUp])
              /\ NoPulse /\ UNCHANGED <<mDozeEnabled, flags>>
         ELSE analyseDoze(o, pickUp, flags)
  /\ UNCHANGED <<prefs, dozeSetting, proximity, hasMagnetic, sinceStowed, display,
                 broadcasts, changes, settled>>

(* handlePickUp, when the device was picked up or laid down. *)
handlePickUp(p) ==
  /\ mPickUpState' = (p.mReady /\ p.mState = "TRUE")
  /\ getDozeEnabled
  /\ IF mPickUpState' /\ isEnabled("pickup")
     THEN analyseDoze(orientation, p, flags \cup {"pickup"})
     ELSE /\ flags' = flags \ {"pickup"}
          /\ Motion([orientation |-> orientation, pickUp |-> p])
          /\ NoPulse

(* PickUpSensor.onSensorChanged: above the threshold the device is up,     *)
(* below the safe zone it is down, between them ("UNKNOWN") nothing        *)
(* changes.  The first reading only sets mPickUpState (onInit).            *)
PickUpEvent(to) ==
  /\ pickUp.mEnabled
  /\ UNCHANGED mProximityNear
  /\ IF pickUp.mReady
     THEN to \notin {pickUp.mState, "UNKNOWN"} /\ handlePickUp([pickUp EXCEPT !.mState = to])
     ELSE /\ pickUp' = [pickUp EXCEPT !.mReady = TRUE, !.mState = to]
          /\ mPickUpState' = (to = "TRUE")
          /\ NoPulse /\ UNCHANGED <<mDozeEnabled, flags, orientation>>
  /\ UNCHANGED <<prefs, dozeSetting, proximity, hasMagnetic, sinceStowed, display,
                 broadcasts, changes, settled>>

-----------------------------------------------------------------------------
(* The display changes; its broadcast is delivered later. *)
DisplayChange == /\ ~broadcasts /\ broadcasts' = TRUE /\ NoPulse
                 /\ UNCHANGED <<prefs, dozeSetting, mDozeEnabled, flags, mPickUpState,
                                mProximityNear, orientation, pickUp, proximity, hasMagnetic,
                                sinceStowed, display, changes, settled>>

(* onDisplayOn that leaves the pick-up sensor registered. *)
OnDisplayOnKeepsPickUp(o, p) == [orientation |-> Disable(OrientationReset(o)), pickUp |-> PickUpReset(p)]

(* The motion sensors after onDisplayOn. *)
OnDisplayOnMotion(o, p) == MotionReset(o, p)

onDisplayOn ==
  /\ broadcasts /\ display = "off"
  /\ broadcasts' = FALSE /\ display' = "on"
  /\ Motion(OnDisplayOnMotion(orientation, pickUp))
  /\ proximity' = Disable(ProximityReset(proximity))
  /\ NoPulse
  /\ UNCHANGED <<prefs, dozeSetting, mDozeEnabled, flags, mPickUpState, mProximityNear,
                 hasMagnetic, sinceStowed, changes, settled>>

onDisplayOff ==
  /\ broadcasts /\ display = "on"
  /\ broadcasts' = FALSE /\ display' = "off" /\ settled' = TRUE
  /\ getDozeEnabled
  /\ sincePulse' = Limit
  /\ IF \E g \in Gestures : isEnabled(g)
     THEN /\ resetValues
          /\ Motion(MotionReset(orientation, pickUp))
          /\ proximity' = ProximityEnable(ProximityReset(proximity))
     ELSE UNCHANGED <<flags, orientation, pickUp, proximity>>
  /\ UNCHANGED <<prefs, dozeSetting, mPickUpState, mProximityNear, hasMagnetic,
                 sinceStowed, changes>>

(* onSharedPreferenceChanged, or a change of the doze setting, which the   *)
(* service only reads when it handles an event.                            *)
SettingChange ==
  /\ changes < MaxChanges /\ changes' = changes + 1 /\ settled' = FALSE
  /\ \/ /\ \E g \in Gestures : prefs' = (prefs \ {g}) \cup ({g} \ prefs)
        /\ UNCHANGED dozeSetting
     \/ dozeSetting' = ~dozeSetting /\ UNCHANGED prefs
  /\ NoPulse
  /\ UNCHANGED <<mDozeEnabled, flags, mPickUpState, mProximityNear, orientation, pickUp,
                 proximity, hasMagnetic, sinceStowed, display, broadcasts>>

(* The service is destroyed and, being START_STICKY, created again: its    *)
(* onStartCommand goes by the display as it is, not by a broadcast.        *)
Restart ==
  /\ changes < MaxChanges /\ changes' = changes + 1 /\ settled' = TRUE
  /\ display' = IF broadcasts THEN (IF display = "on" THEN "off" ELSE "on") ELSE display
  /\ broadcasts' = FALSE
  /\ mDozeEnabled' = (display' = "off" /\ dozeSetting)
  /\ flags' = {} /\ mPickUpState' = FALSE /\ mProximityNear' = FALSE
  /\ orientation' = [mEnabled |-> FALSE, mReady |-> FALSE, mState |-> "UNKNOWN"]
  /\ pickUp' = orientation'
  /\ proximity' = [mEnabled |-> \E g \in Gestures : isEnabled(g),
                   mReady |-> FALSE, mState |-> FALSE]
  /\ sinceStowed' = Limit /\ sincePulse' = Limit
  /\ UNCHANGED <<prefs, dozeSetting, hasMagnetic>>

(* Time passes. *)
Tick == /\ sinceStowed < Limit \/ sincePulse < Limit
        /\ sinceStowed' = IF sinceStowed < Limit THEN sinceStowed + 1 ELSE Limit
        /\ sincePulse' = IF sincePulse < Limit THEN sincePulse + 1 ELSE Limit
        /\ UNCHANGED <<prefs, dozeSetting, mDozeEnabled, flags, mPickUpState, mProximityNear,
                       orientation, pickUp, proximity, hasMagnetic, display, broadcasts,
                       changes, settled>>

Next == \/ \E isNear \in BOOLEAN : ProximityInit(isNear) \/ ProximityEvent(isNear)
        \/ \E attitude \in Attitudes : OrientationEvent(attitude)
        \/ \E to \in {"UNKNOWN", "FALSE", "TRUE"} : PickUpEvent(to)
        \/ DisplayChange \/ onDisplayOn \/ onDisplayOff
        \/ SettingChange \/ Restart \/ Tick

Spec == Init /\ [][Next]_vars

-----------------------------------------------------------------------------
(* setOrientationSensor and setPickUpSensor call each other so that only   *)
(* one of the two accelerometer listeners is registered, and with the      *)
(* display on no sensor is registered at all (onDisplayOn).                *)
SensorsInCheck == /\ ~(orientation.mEnabled /\ pickUp.mEnabled)
                  /\ display = "on" =>
                       ~(orientation.mEnabled \/ pickUp.mEnabled \/ proximity.mEnabled)

(* While the display is off and the device uncovered, no gesture goes      *)
(* unwatched: a gesture under analysis has the orientation sensor running, *)
(* and an enabled pick-up gesture has one of the motion sensors running,   *)
(* restored whenever the orientation sensor is done.  Needed: settings     *)
(* left alone since the display went off, and a device with a              *)
(* magnetometer; without one OrientationSensor.enable does nothing.        *)
GesturesAreWatched ==
  (/\ display = "off" /\ settled /\ hasMagnetic
   /\ proximity.mReady /\ ~mProximityNear) =>
     /\ flags # {} => orientation.mEnabled
     /\ ("pickup" \in prefs /\ mDozeEnabled) => (orientation.mEnabled \/ pickUp.mEnabled)

=============================================================================
