------------------------------- MODULE PartsMC ------------------------------
(***************************************************************************)
(* The parts of the repository that have only safety properties, for TLC:  *)
(* the adapters of the GPS core library, NMEA, XTRA and the other data     *)
(* that pass through, the reader of configuration files, and of the device *)
(* the key handler, the doze service, the lights and the camera wrapper.   *)
(* They are independent of each other, so a behaviour is one of a single   *)
(* module, chosen at the start.                                            *)
(***************************************************************************)
EXTENDS Integers, FiniteSets

CONSTANTS Adapters, MAX_ADAPTERS, Events, MaxCalls, MaxEvents,
          Prns, MaxSvs, MaxReports,
          Scancodes, MaxKeys, MaxTorch,
          Limit, MaxChanges,
          Alphas, Times, Levels,
          NumCameras, MaxStrings, MaxOpens,
          Slots, SizeOf, MaxData, MaxAsked, MaxInits,
          Table, LogTable, Unknown, MaxLines

\* A byte of a colour, milliseconds, and what a vendor's HAL may count; the
\* bounds are numbers.  Tables are finite, and the caller's is not empty
\* (loc_update_conf returns at once if it is).
ASSUME PartsAssumption ==
  /\ Alphas \subseteq 0..255 /\ Times \subseteq Nat /\ Levels \subseteq 0..255
  /\ NumCameras \in Nat /\ MaxStrings \in Nat /\ MaxOpens \in Nat
  /\ MAX_ADAPTERS \in Nat /\ MaxKeys \in Nat /\ Limit \in Nat /\ MaxReports \in Nat
  /\ MaxSvs \in Nat
  /\ "NULL" \notin Adapters
  /\ Slots \in Nat /\ SizeOf \in Nat \ {0}
  /\ IsFiniteSet(Table) /\ IsFiniteSet(LogTable) /\ Table # {}

VARIABLES part,
          contexts, mInjectContext, mLocAdapters, change, created, mEvtMask, q, registered, open,
          walk, configured, modem, calls, events,
          sv_used_mask, dop, nmea, view, reports, usedBy,
          mEventHandler, calling, sensing, listeners, mProximityWakeLock, mTorchEnabled,
          mRearCameraId, torch, torchCb, keys, done, dropped, raced, torchMoves,
          prefs, dozeSetting, mDozeEnabled, flags, mPickUpState, mProximityNear, orientation,
          pickUp, proximity, hasMagnetic, sinceStowed, sincePulse, display, broadcasts, changes,
          settled,
          g_lights, opened, green, red, lcd, batteryLast,
          gVendorModule, fixed_set_params, devices, setting, vendor, given, live, strings, opens,
          badFree, badUse, overlap,
          phase, inits, extended, mSupportsAgpsRequests, mSupportsPositionInjection,
          mSupportsTimeInjection, download_request_cb, xq, gave, has, installed, taken, told,
          mServers, userAgent,
          lines, call, pass, pos, num_params, value, ret

Api == INSTANCE LocApi
NMEA == INSTANCE Nmea
Keys == INSTANCE KeyHandler
Doze == INSTANCE SensorsDoze
Lamp == INSTANCE Lights
Camera == INSTANCE CameraWrapper
Xtra == INSTANCE LocEngXtra
Cfg == INSTANCE LocCfg

apiVars == <<contexts, mInjectContext, mLocAdapters, change, created, mEvtMask, q, registered,
             open, walk, configured, modem, calls, events>>
nmeaVars == <<sv_used_mask, dop, nmea, view, reports, usedBy>>
keyVars == <<mEventHandler, calling, sensing, listeners, mProximityWakeLock, mTorchEnabled,
             mRearCameraId, torch, torchCb, keys, done, dropped, raced, torchMoves>>
dozeVars == <<prefs, dozeSetting, mDozeEnabled, flags, mPickUpState, mProximityNear, orientation,
              pickUp, proximity, hasMagnetic, sinceStowed, sincePulse, display, broadcasts,
              changes, settled>>
lightVars == <<g_lights, opened, green, red, lcd, batteryLast>>
cameraVars == <<gVendorModule, fixed_set_params, devices, setting, vendor, given, live, strings,
                opens, badFree, badUse, overlap>>
xtraVars == <<phase, inits, extended, mSupportsAgpsRequests, mSupportsPositionInjection,
              mSupportsTimeInjection, download_request_cb, xq, gave, has, installed, taken, told,
              mServers, userAgent>>
cfgVars == <<lines, call, pass, pos, num_params, value, ret>>
allVars == <<part, apiVars, nmeaVars, keyVars, dozeVars, lightVars, cameraVars, xtraVars, cfgVars>>

MCInit == /\ part \in {"api", "nmea", "keys", "doze", "lights", "camera", "xtra", "cfg"}
          /\ Api!Init /\ NMEA!Init /\ Keys!Init /\ Lamp!Init /\ Camera!Init
          /\ Doze!Init
          /\ part # "doze" => prefs = {} /\ hasMagnetic
          /\ part # "keys" => torch = "off"
          /\ Xtra!Init /\ (part # "xtra" => extended)
          /\ Cfg!Init /\ (part # "cfg" => lines = <<>> /\ call = "loc_read_conf")

MCNext ==
  /\ UNCHANGED part
  /\ \/ /\ part = "api" /\ Api!Next
        /\ UNCHANGED <<nmeaVars, keyVars, dozeVars, lightVars, cameraVars, xtraVars, cfgVars>>
     \/ /\ part = "nmea" /\ NMEA!Next
        /\ UNCHANGED <<apiVars, keyVars, dozeVars, lightVars, cameraVars, xtraVars, cfgVars>>
     \/ /\ part = "keys" /\ Keys!Next
        /\ UNCHANGED <<apiVars, nmeaVars, dozeVars, lightVars, cameraVars, xtraVars, cfgVars>>
     \/ /\ part = "doze" /\ Doze!Next
        /\ UNCHANGED <<apiVars, nmeaVars, keyVars, lightVars, cameraVars, xtraVars, cfgVars>>
     \/ /\ part = "lights" /\ Lamp!Next
        /\ UNCHANGED <<apiVars, nmeaVars, keyVars, dozeVars, cameraVars, xtraVars, cfgVars>>
     \/ /\ part = "camera" /\ Camera!Next
        /\ UNCHANGED <<apiVars, nmeaVars, keyVars, dozeVars, lightVars, xtraVars, cfgVars>>
     \/ /\ part = "xtra" /\ Xtra!Next
        /\ UNCHANGED <<apiVars, nmeaVars, keyVars, dozeVars, lightVars, cameraVars, cfgVars>>
     \/ /\ part = "cfg" /\ Cfg!Next
        /\ UNCHANGED <<apiVars, nmeaVars, keyVars, dozeVars, lightVars, cameraVars, xtraVars>>

MCSpec == MCInit /\ [][MCNext]_allVars

-----------------------------------------------------------------------------
(***************************************************************************)
(* A modem that is up is registered with and configured (LocApiBase).      *)
(***************************************************************************)
ModemIsSetUp == Api!ModemIsSetUp

(***************************************************************************)
(* No adapter gets an event twice, save the one that removeAdapter has in  *)
(* the array twice when the event is delivered (TO_ALL_ADAPTERS,           *)
(* LocApiBase::removeAdapter).                                             *)
(***************************************************************************)
DeliveredOnce == Api!DeliveredOnce

(***************************************************************************)
(* The sentences of a satellite report list it, and the caches of a report *)
(* are used once (loc_eng_nmea.cpp).                                       *)
(***************************************************************************)
SentencesAreRight == NMEA!SentencesAreRight

(***************************************************************************)
(* Every accepted gesture is waiting, done once or dropped, and the        *)
(* proximity wake lock is held once per waiting listener                   *)
(* (KeyHandler.onSensorChanged, processEvent).                             *)
(***************************************************************************)
EachGestureOnce == Keys!EachGestureOnce /\ Keys!LockPerListener

(***************************************************************************)
(* mTorchEnabled is the state of the torch (KeyHandler.MyTorchCallback).   *)
(***************************************************************************)
TorchAgrees == Keys!TorchAgrees

(***************************************************************************)
(* An enabled gesture has a sensor that watches for it, with one motion    *)
(* sensor at a time and none with the display on                           *)
(* (SensorsDozeService.setOrientationSensor, onDisplayOn).                 *)
(***************************************************************************)
GesturesAreWatched == Doze!GesturesAreWatched /\ Doze!SensorsInCheck

(***************************************************************************)
(* The LEDs show the attention light, or else the notification light, and  *)
(* are dark with neither lit nor flashing (lights.c,                       *)
(* handle_led_prioritized_locked).                                         *)
(***************************************************************************)
LedFollowsPriority == Lamp!LedFollowsPriority

(***************************************************************************)
(* The wrapper's parameter strings are freed once and not used after       *)
(* (CameraWrapper.cpp, camera_device_close).                               *)
(***************************************************************************)
StringsAreSafe == Camera!StringsAreSafe

(***************************************************************************)
(* Times, positions, XTRA data and certificates reach the modem, but for   *)
(* one time per loc_init with an extended CPI, and user agent and XTRA     *)
(* servers come out whole (LocEngAdapter, loc_eng_xtra).                   *)
(***************************************************************************)
DataIsPassedOn == Xtra!DataIsPassedOn

(***************************************************************************)
(* loc_cfg.cpp takes everything the input says.                            *)
(***************************************************************************)
InputIsTaken == Cfg!InputIsTaken
=============================================================================
