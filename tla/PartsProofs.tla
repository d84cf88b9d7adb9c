---------------------------- MODULE PartsProofs -----------------------------
(***************************************************************************)
(* Theorems about the parts that PartsMC checks, each for the              *)
(* specification of its own module and all values of the constants.        *)
(***************************************************************************)
EXTENDS PartsMC, SequencesExt, FiniteSetTheorems, Induction, TLAPS

-----------------------------------------------------------------------------
(* Facts about sequences.                                                  *)

\* Tuples as sequences, and the joining of sequences.
LEMMA Tuples ==
  ASSUME NEW S, NEW a \in S, NEW b \in S, NEW c \in S
  PROVE  /\ <<a>> \in Seq(S) /\ Len(<<a>>) = 1
         /\ <<a, b, c>> \in Seq(S) /\ Len(<<a, b, c>>) = 3
<1>1. <<a>> \in Seq(S) /\ Len(<<a>>) = 1
  OBVIOUS
<1>2. <<a, b, c>> \in Seq(S) /\ Len(<<a, b, c>>) = 3
  OBVIOUS
<1> QED
  BY <1>1, <1>2

LEMMA Joined ==
  ASSUME NEW S, NEW a \in Seq(S), NEW b \in Seq(S)
  PROVE  a \o b \in Seq(S) /\ Len(a \o b) = Len(a) + Len(b) /\ Len(a) \in Nat /\ Len(b) \in Nat
  OBVIOUS

LEMMA Sums ==
  ASSUME NEW a \in Nat, NEW b \in Nat, b > 0, NEW c, c = a + b
  PROVE  c > a /\ \A z \in Nat : a >= z - 1 => c >= z
  OBVIOUS

\* Two sequences one after the other, place by place.
LEMMA JoinedPlaces ==
  ASSUME NEW a \in Nat, NEW b \in Nat, NEW A, A = [k \in 1..a |-> A[k]],
         NEW B, B = [k \in 1..b |-> B[k]], NEW N, N = A \o B
  PROVE  /\ DOMAIN N = 1..(a + b)
         /\ \A k \in 1..a : N[k] = A[k]
         /\ \A k \in 1..b : N[a + k] = B[k]
<1> DEFINE R == {A[k] : k \in 1..a} \cup {B[k] : k \in 1..b}
<1>1. A \in [1..a -> R] /\ B \in [1..b -> R]
  <2>1. \A k \in 1..a : A[k] \in R
    OBVIOUS
  <2>2. \A k \in 1..b : B[k] \in R
    OBVIOUS
  <2> HIDE DEF R
  <2> QED
    BY <2>1, <2>2
<1> HIDE DEF R
<1>2. A \in Seq(R) /\ B \in Seq(R) /\ Len(A) = a /\ Len(B) = b
  BY <1>1
<1> QED
  BY <1>2

\* The size of a set in two parts.
LEMMA PartedSize ==
  ASSUME NEW S, NEW A, NEW B, IsFiniteSet(S), A \cup B = S, A \cap B = {}
  PROVE  /\ IsFiniteSet(A) /\ IsFiniteSet(B) /\ Cardinality(A) \in Nat /\ Cardinality(B) \in Nat
         /\ Cardinality(S) = Cardinality(A) + Cardinality(B)
<1>1. A \in SUBSET S /\ B \in SUBSET S
  OBVIOUS
<1>2. IsFiniteSet(A) /\ IsFiniteSet(B) /\ Cardinality(A) \in Nat /\ Cardinality(B) \in Nat
  BY <1>1, FS_Subset, FS_CardinalityType
<1>3. Cardinality(A \cap B) = 0
  BY FS_EmptySet
<1>4. Cardinality(A \cup B) = Cardinality(A) + Cardinality(B) - Cardinality(A \cap B)
  BY <1>2, FS_Union
<1>5. Cardinality(S) = Cardinality(A) + Cardinality(B) - 0
  BY <1>3, <1>4, Zenon
<1> QED
  BY ONLY <1>2, <1>5

-----------------------------------------------------------------------------
(* The lights.                                                             *)

LampInv == Lamp!TypeOK /\ LedFollowsPriority

\* The share of time a light is on is a brightness, and only zero when the
\* division rounds it down to zero.
LEMMA FakePwm ==
  ASSUME NEW on \in Nat, NEW off \in Nat, on > 0, off > 0
  PROVE  /\ Lamp!fake_pwm(on, off) \in 0..255
         /\ Lamp!fake_pwm(on, off) > 0 <=> on * 255 >= on + off
<1> DEFINE p == (on * 255) \div (on + off)
<1>1. on + off \in Nat /\ on + off > 0 /\ on * 255 \in Nat /\ on * 255 < (on + off) * 255
  OBVIOUS
<1>2. \A a, b \in Nat : b > 0 => /\ a \div b \in Nat
                                 /\ a \div b > 0 <=> a >= b
                                 /\ a < b * 255 => a \div b < 255
  OBVIOUS
<1>3. p \in Nat /\ (p > 0 <=> on * 255 >= on + off) /\ p < 255
  BY <1>1, <1>2
<1> HIDE DEF p
<1>4. Lamp!fake_pwm(on, off) = IF p > 0 /\ p < 16 THEN 16 ELSE p
  BY DEF Lamp!fake_pwm, p
<1> QED
  BY <1>3, <1>4

\* What the framework says of a light.
LEMMA LightState ==
  ASSUME NEW s \in Lamp!LightStates
  PROVE  /\ s.rgb \in {0, 1} /\ s.alpha \in 0..255
         /\ s.onMS \in Nat /\ s.offMS \in Nat
<1>1. CASE s = Lamp!Off
  BY <1>1 DEF Lamp!Off
<1>2. CASE s \in [rgb: {0, 1}, alpha: Alphas, flash: {FALSE}, onMS: {0}, offMS: {0}]
  <2>1. s.rgb \in {0, 1} /\ s.alpha \in Alphas /\ s.onMS = 0 /\ s.offMS = 0
    BY <1>2
  <2>2. s.alpha \in 0..255
    BY <2>1, PartsAssumption
  <2> QED
    BY <2>1, <2>2
<1>3. CASE s \in [rgb: {0, 1}, alpha: Alphas, flash: {TRUE}, onMS: Times, offMS: Times]
  <2>1. s.rgb \in {0, 1} /\ s.alpha \in Alphas /\ s.onMS \in Times /\ s.offMS \in Times
    BY <1>3
  <2> QED
    BY <2>1, PartsAssumption
<1> QED
  BY <1>1, <1>2, <1>3 DEF Lamp!LightStates

\* What set_light_locked makes of a state.
LEMMA Shown ==
  ASSUME NEW s \in Lamp!LightStates, Lamp!TypeOK, Lamp!set_light_locked(s)
  PROVE  /\ red' \in Lamp!Led /\ red'.brightness = 0
         /\ green' \in Lamp!Led
         /\ Lamp!is_lit(s) => Lamp!ShowsLit(green', s)
         /\ ~Lamp!is_lit(s) /\ ~Lamp!Blinks(s) => green'.brightness = 0
<1>1. red' \in Lamp!Led /\ red'.brightness = 0
  BY DEF Lamp!set_light_locked, Lamp!TypeOK, Lamp!Led, Lamp!LED_LIGHT_OFF, Lamp!LED_LIGHT_ON
<1>2. CASE Lamp!Blinks(s)
  <2>1. green' = [brightness |-> Lamp!fake_pwm(s.onMS, s.offMS), pwm |-> s.offMS * 1000]
    BY <1>2 DEF Lamp!set_light_locked
  <2>2. /\ Lamp!fake_pwm(s.onMS, s.offMS) \in 0..255
        /\ Lamp!fake_pwm(s.onMS, s.offMS) > 0 <=> s.onMS * 255 >= s.onMS + s.offMS
    BY <1>2, FakePwm, LightState DEF Lamp!Blinks
  <2>3. green' \in Lamp!Led
    BY <2>1, <2>2, LightState DEF Lamp!Led, Lamp!LED_LIGHT_ON
  <2>4. green'.brightness > 0 <=> 255 * s.onMS >= s.onMS + s.offMS
    BY <2>1, <2>2, LightState
  <2>5. green'.pwm = s.offMS * 1000
    BY <2>1
  <2> QED
    BY <1>1, <1>2, <2>3, <2>4, <2>5 DEF Lamp!ShowsLit, Lamp!Blinks
<1>3. CASE ~Lamp!Blinks(s)
  <2>1. green' = [brightness |-> Lamp!brightness_level(s), pwm |-> 100]
    BY <1>3 DEF Lamp!set_light_locked
  <2>2. /\ Lamp!brightness_level(s) \in 0..255
        /\ Lamp!is_lit(s) => Lamp!brightness_level(s) = IF s.alpha = 0 THEN 255 ELSE s.alpha
        /\ ~Lamp!is_lit(s) => Lamp!brightness_level(s) = 0
    BY LightState DEF Lamp!brightness_level, Lamp!LED_LIGHT_OFF, Lamp!LED_LIGHT_ON
  <2>3. green' \in Lamp!Led
    BY <2>1, <2>2 DEF Lamp!Led, Lamp!LED_LIGHT_ON
  <2> QED
    BY <1>1, <1>3, <2>1, <2>2, <2>3 DEF Lamp!ShowsLit, Lamp!Blinks
<1> QED
  BY <1>2, <1>3

\* A call of set_light_attention or set_light_notifications.
LEMMA PrioritizedStep ==
  ASSUME LampInv, NEW light \in {"ATTENTION", "NOTIFICATION"}, NEW s \in Lamp!LightStates,
         Lamp!handle_led_prioritized_locked(light, s)
  PROVE  LampInv'
<1>1. /\ g_lights' = [g_lights EXCEPT ![light] = s]
      /\ Lamp!set_light_locked(Lamp!Prioritized(g_lights', s))
      /\ batteryLast' = FALSE /\ opened' = opened /\ lcd' = lcd
  BY DEF Lamp!handle_led_prioritized_locked
<1>2. g_lights' \in [{"ATTENTION", "NOTIFICATION"} -> Lamp!LightStates] /\ g_lights'[light] = s
  BY <1>1 DEF LampInv, Lamp!TypeOK
<1> DEFINE a == g_lights'["ATTENTION"]
           n == g_lights'["NOTIFICATION"]
           t == Lamp!Prioritized(g_lights', s)
<1>3. a \in Lamp!LightStates /\ n \in Lamp!LightStates /\ s \in {a, n}
  BY <1>2
<1>4. /\ Lamp!is_lit(a) => t = a
      /\ ~Lamp!is_lit(a) /\ Lamp!is_lit(n) => t = n
      /\ ~Lamp!is_lit(a) /\ ~Lamp!is_lit(n) => t = s
  BY DEF Lamp!Prioritized
<1>5. t \in {a, n}
  BY <1>3, <1>4
<1> HIDE DEF t
<1>6. Lamp!TypeOK
  BY DEF LampInv
<1>7. /\ red' \in Lamp!Led /\ red'.brightness = 0
      /\ green' \in Lamp!Led
      /\ Lamp!is_lit(t) => Lamp!ShowsLit(green', t)
      /\ ~Lamp!is_lit(t) /\ ~Lamp!Blinks(t) => green'.brightness = 0
  <2>1. t \in Lamp!LightStates /\ Lamp!set_light_locked(t)
    BY <1>1, <1>3, <1>5 DEF t
  <2> QED
    BY <1>6, <2>1, Shown
<1>8. Lamp!TypeOK'
  BY <1>1, <1>2, <1>6, <1>7 DEF Lamp!TypeOK
<1>9. Lamp!is_lit(a) => Lamp!ShowsLit(green', a)
  BY <1>4, <1>7
<1>10. ~Lamp!is_lit(a) /\ Lamp!is_lit(n) => Lamp!ShowsLit(green', n)
  BY <1>4, <1>7
<1>11. ~(\E l \in {a, n} : Lamp!is_lit(l) \/ Lamp!Blinks(l)) => green'.brightness = 0
  BY <1>5, <1>7
<1>12. LedFollowsPriority'
  BY <1>7, <1>9, <1>10, <1>11
     DEF LedFollowsPriority, Lamp!LedFollowsPriority, Lamp!is_lit, Lamp!Blinks, Lamp!ShowsLit
<1> QED
  BY <1>8, <1>12 DEF LampInv

LEMMA LampStep == LampInv /\ [Lamp!Next]_(Lamp!vars) => LampInv'
<1> SUFFICES ASSUME LampInv, [Lamp!Next]_(Lamp!vars) PROVE LampInv'
  OBVIOUS
<1> USE DEF LampInv, LedFollowsPriority, Lamp!LedFollowsPriority, Lamp!ShowsLit, Lamp!TypeOK
<1>1. ASSUME NEW name \in Lamp!LightNames, Lamp!open_lights(name) \/ Lamp!close_lights(name)
      PROVE  LampInv'
  BY <1>1 DEF Lamp!open_lights, Lamp!close_lights
<1>2. ASSUME NEW level \in Levels, Lamp!set_light_backlight(level) PROVE LampInv'
  <2>1. Lamp!rgb_to_brightness(level, level, level) \in 0..255
    BY PartsAssumption DEF Lamp!rgb_to_brightness
  <2> QED
    BY <1>2, <2>1 DEF Lamp!set_light_backlight
<1>3. ASSUME NEW s \in Lamp!LightStates,
             Lamp!set_light_notifications(s) \/ Lamp!set_light_attention(s)
      PROVE  LampInv'
  BY <1>3, PrioritizedStep DEF Lamp!set_light_notifications, Lamp!set_light_attention
<1>4. ASSUME NEW s \in Lamp!LightStates, Lamp!set_light_battery(s) PROVE LampInv'
  <2>1. batteryLast' /\ UNCHANGED <<g_lights, opened, lcd>>
    BY <1>4 DEF Lamp!set_light_battery
  <2>2. green' \in Lamp!Led /\ red' \in Lamp!Led
    BY <1>4 DEF Lamp!set_light_battery, Lamp!Led, Lamp!LED_LIGHT_OFF, Lamp!LED_LIGHT_ON
  <2> QED
    BY <2>1, <2>2
<1>5. CASE UNCHANGED Lamp!vars
  BY <1>5 DEF Lamp!vars
<1> QED
  BY <1>1, <1>2, <1>3, <1>4, <1>5 DEF Lamp!Next

(***************************************************************************)
(* Whatever colours, alphas and flashing the lights are set to in whatever *)
(* order, and however many times the battery light writes over them, after *)
(* each set_light_notifications and set_light_attention the LEDs show the  *)
(* attention light if it is lit, else the notification light if that is,   *)
(* and are dark if neither is lit or flashes                               *)
(* (handle_led_prioritized_locked, set_light_locked).                      *)
(***************************************************************************)
THEOREM LedIsTheTopLight == Lamp!Spec => []LedFollowsPriority
<1>1. Lamp!Init => LampInv
  <2> SUFFICES ASSUME Lamp!Init PROVE LampInv
    OBVIOUS
  <2>1. /\ g_lights = [l \in {"ATTENTION", "NOTIFICATION"} |-> Lamp!Off]
        /\ green = [brightness |-> 0, pwm |-> 0] /\ red = green
    BY DEF Lamp!Init
  <2>2. ~Lamp!is_lit(Lamp!Off) /\ ~Lamp!Blinks(Lamp!Off) /\ Lamp!Off \in Lamp!LightStates
    BY DEF Lamp!is_lit, Lamp!Blinks, Lamp!Off, Lamp!LightStates
  <2>3. Lamp!TypeOK
    <3>1. green \in Lamp!Led /\ red \in Lamp!Led
      BY <2>1 DEF Lamp!Led, Lamp!LED_LIGHT_ON
    <3>2. g_lights \in [{"ATTENTION", "NOTIFICATION"} -> Lamp!LightStates]
      BY <2>1, <2>2
    <3>3. opened \subseteq Lamp!LightNames /\ batteryLast \in BOOLEAN
      BY DEF Lamp!Init
    <3>4. lcd \in 0..255
      BY DEF Lamp!Init
    <3> QED
      BY <3>1, <3>2, <3>3, <3>4 DEF Lamp!TypeOK
  <2>4. LedFollowsPriority
    BY <2>1, <2>2 DEF LedFollowsPriority, Lamp!LedFollowsPriority
  <2> QED
    BY <2>3, <2>4 DEF LampInv
<1>2. LampInv => LedFollowsPriority
  BY DEF LampInv
<1> QED
  BY <1>1, <1>2, LampStep, PTL DEF Lamp!Spec

-----------------------------------------------------------------------------
(* Sequences.                                                              *)

LEMMA AppendLast ==
  ASSUME NEW S, NEW s \in Seq(S), NEW x \in S
  PROVE  /\ Append(s, x) \in Seq(S) /\ Append(s, x) # <<>>
         /\ Append(s, x)[Len(Append(s, x))] = x
OBVIOUS

LEMMA TailLast ==
  ASSUME NEW S, NEW s \in Seq(S), s # <<>>
  PROVE  /\ Head(s) \in S /\ Tail(s) \in Seq(S)
         /\ Tail(s) # <<>> => Tail(s)[Len(Tail(s))] = s[Len(s)]
         /\ Tail(s) = <<>> => s[Len(s)] = Head(s)
<1> DEFINE t == Tail(s)
<1>1. Head(s) \in S /\ t \in Seq(S) /\ Head(s) = s[1]
  OBVIOUS
<1>2. \A i \in 1..Len(t) : t[i] = s[i + 1]
  OBVIOUS
<1>3. Len(s) \in Nat /\ Len(t) \in Nat /\ Len(s) = Len(t) + 1
  OBVIOUS
<1> HIDE DEF t
<1>4. t = <<>> <=> Len(t) = 0
  BY <1>1
<1>5. ASSUME t # <<>> PROVE t[Len(t)] = s[Len(s)]
  BY <1>2, <1>3, <1>4, <1>5
<1>6. ASSUME t = <<>> PROVE s[Len(s)] = Head(s)
  <2>1. Len(s) = 1
    BY <1>3, <1>4, <1>6
  <2> QED
    BY <1>1, <2>1
<1> QED
  BY <1>1, <1>5, <1>6 DEF t

-----------------------------------------------------------------------------
(* The torch, which other applications switch too.                         *)

TorchModes == {"off", "on", "unavailable"}

\* Before the rear camera is known nothing has been switched, and the last
\* callback on its way says what the torch is.
TorchInv ==
  /\ torch \in TorchModes /\ torchCb \in Seq(TorchModes)
  /\ mTorchEnabled \in BOOLEAN /\ mRearCameraId \in BOOLEAN
  /\ ~mRearCameraId => ~mTorchEnabled
  /\ torchCb # <<>> => torchCb[Len(torchCb)] = torch
  /\ TorchAgrees

LEMMA ToggleStep ==
  ASSUME TorchInv, NEW found \in BOOLEAN, Keys!Toggle(found)
  PROVE  TorchInv'
<1>1. CASE ~(mRearCameraId \/ found) \/ torch = "unavailable"
  <2>1. UNCHANGED <<torch, torchCb, mTorchEnabled>>
    BY <1>1 DEF Keys!Toggle
  <2>2. mRearCameraId' = mRearCameraId \/ mRearCameraId' = TRUE
    BY <1>1 DEF Keys!Toggle
  <2>3. mRearCameraId' # mRearCameraId => torch = "unavailable" /\ ~mTorchEnabled
    BY <1>1, <2>2 DEF Keys!Toggle, TorchInv
  <2> QED
    BY <2>1, <2>2, <2>3 DEF TorchInv, TorchAgrees, Keys!TorchAgrees
<1>2. CASE (mRearCameraId \/ found) /\ torch # "unavailable"
  <2> DEFINE to == IF mTorchEnabled THEN "off" ELSE "on"
  <2>1. /\ mRearCameraId' = TRUE /\ torch' = to
        /\ torchCb' = IF to = torch THEN torchCb ELSE Append(torchCb, to)
        /\ mTorchEnabled' = ~mTorchEnabled
    BY <1>2 DEF Keys!Toggle
  <2>2. to \in TorchModes /\ (mTorchEnabled' = (to = "on"))
    BY <2>1 DEF TorchModes
  <2>3. CASE to = torch
    BY <2>1, <2>2, <2>3 DEF TorchInv, TorchAgrees, Keys!TorchAgrees
  <2>4. CASE to # torch
    <3>1. torchCb' \in Seq(TorchModes) /\ torchCb' # <<>> /\ torchCb'[Len(torchCb')] = to
      BY <2>1, <2>2, <2>4, AppendLast DEF TorchInv
    <3> QED
      BY <2>1, <2>2, <3>1 DEF TorchInv, TorchAgrees, Keys!TorchAgrees
  <2> QED
    BY <2>3, <2>4
<1> QED
  BY <1>1, <1>2

LEMMA TorchStep == TorchInv /\ [Keys!Next]_(Keys!vars) => TorchInv'
<1> SUFFICES ASSUME TorchInv, [Keys!Next]_(Keys!vars) PROVE TorchInv'
  OBVIOUS
<1>1. CASE UNCHANGED <<mTorchEnabled, mRearCameraId, torch, torchCb>>
  BY <1>1 DEF TorchInv, TorchAgrees, Keys!TorchAgrees
<1>2. ASSUME NEW m, NEW found \in BOOLEAN, Keys!handleMessage(m, found) PROVE TorchInv'
  BY <1>1, <1>2, ToggleStep DEF Keys!handleMessage
<1>3. CASE Keys!TorchCallback
  <2>1. /\ torchCb # <<>> /\ torchCb' = Tail(torchCb)
        /\ mTorchEnabled' = IF mRearCameraId THEN Head(torchCb) = "on" ELSE mTorchEnabled
        /\ UNCHANGED <<mRearCameraId, torch>>
    BY <1>3 DEF Keys!TorchCallback, Keys!TorchState
  <2>2. /\ Head(torchCb) \in TorchModes /\ torchCb' \in Seq(TorchModes)
        /\ torchCb' # <<>> => torchCb'[Len(torchCb')] = torch
        /\ torchCb' = <<>> => torch = Head(torchCb)
    BY <2>1, TailLast DEF TorchInv
  <2> QED
    BY <2>1, <2>2 DEF TorchInv, TorchAgrees, Keys!TorchAgrees
<1>4. ASSUME NEW to \in TorchModes, Keys!OtherApp(to) PROVE TorchInv'
  <2>1. torch' = to /\ torchCb' = Append(torchCb, to) /\ UNCHANGED <<mTorchEnabled, mRearCameraId>>
    BY <1>4 DEF Keys!OtherApp
  <2>2. torchCb' \in Seq(TorchModes) /\ torchCb' # <<>> /\ torchCb'[Len(torchCb')] = to
    BY <2>1, AppendLast DEF TorchInv
  <2> QED
    BY <2>1, <2>2 DEF TorchInv, TorchAgrees, Keys!TorchAgrees
<1> QED
  BY <1>1, <1>2, <1>3, <1>4
     DEF Keys!Next, Keys!handleKeyEvent, Keys!processEvent, Keys!onSensorChanged,
         Keys!RemoveMessages, Keys!SendAgain, Keys!torchVars, Keys!vars, TorchModes

(***************************************************************************)
(* mTorchEnabled is the state of the torch whenever the callbacks of the   *)
(* camera service have been handled, whoever switched the torch and        *)
(* whenever the camera was found (KeyHandler.MyTorchCallback).             *)
(***************************************************************************)
THEOREM TorchIsKnown == Keys!Spec => []TorchAgrees
<1>1. Keys!Init => TorchInv
  <2> SUFFICES ASSUME Keys!Init PROVE TorchInv
    OBVIOUS
  <2>1. torch \in TorchModes /\ torchCb = <<torch>> /\ ~mTorchEnabled /\ ~mRearCameraId
        /\ mTorchEnabled \in BOOLEAN /\ mRearCameraId \in BOOLEAN
    BY DEF Keys!Init, TorchModes
  <2>2. torchCb \in Seq(TorchModes) /\ torchCb[Len(torchCb)] = torch
    BY <2>1
  <2> QED
    BY <2>1, <2>2 DEF TorchInv, TorchAgrees, Keys!TorchAgrees
<1>2. TorchInv => TorchAgrees
  BY DEF TorchInv
<1> QED
  BY <1>1, <1>2, TorchStep, PTL DEF Keys!Spec

-----------------------------------------------------------------------------
(* The gestures, their messages, their listeners and the wake lock.        *)

\* The messages that wait for gesture k, and whether it is about to be sent
\* again.
Waiting(s, k) == {m \in s : m.key = k}
Coming(g, k) == g.removed /\ g.request.key = k

\* Where the gesture k is: waiting, coming, carried out, or dropped.
OnePlace(s, g, k, n, d) ==
  \/ (\E m : Waiting(s, k) = {m}) /\ ~Coming(g, k) /\ n = 0 /\ k \notin d
  \/ Waiting(s, k) = {} /\ Coming(g, k) /\ n = 0 /\ k \notin d
  \/ Waiting(s, k) = {} /\ ~Coming(g, k) /\ n = 1 /\ k \notin d
  \/ Waiting(s, k) = {} /\ ~Coming(g, k) /\ n = 0 /\ k \in d

GestureTypes ==
  /\ mEventHandler \subseteq Keys!Message
  /\ calling \in Keys!Request \cup {Keys!Idle}
  /\ sensing \in [request: Keys!Request, far: BOOLEAN, removed: BOOLEAN] \cup {Keys!Quiet}
  /\ listeners \subseteq Keys!Request /\ IsFiniteSet(listeners)
  /\ keys \in 0..MaxKeys /\ done \in [Keys!Key -> Nat] /\ dropped \subseteq Keys!Key

\* Whatever has the number of a gesture has that of an accepted one; an
\* accepted gesture asks the sensor once.
KeysAreKnown ==
  /\ \A m \in mEventHandler : m.key \in 1..keys
  /\ sensing # Keys!Quiet => sensing.request.key \in 1..keys
  /\ calling # Keys!Idle => calling.key \in 1..keys
  /\ \A l \in listeners : /\ l.key \in 1..keys
                          /\ calling # Keys!Idle => l.key # calling.key
  /\ \A k \in Keys!Key : k > keys => done[k] = 0 /\ k \notin dropped

EachInOnePlace ==
  ~raced => \A k \in 1..keys : OnePlace(mEventHandler, sensing, k, done[k], dropped)

GestureInv == GestureTypes /\ KeysAreKnown /\ Keys!LockPerListener /\ EachInOnePlace

\* The operator of the library that KeyHandler uses.
LEMMA SameCount == \A S : Keys!Cardinality(S) = Cardinality(S)
BY DEF Keys!Cardinality, Cardinality

LEMMA LockIsCounted == Keys!LockPerListener <=> mProximityWakeLock = Cardinality(listeners)
BY SameCount DEF Keys!LockPerListener

\* A message is sent again for the gesture that is coming.
LEMMA NothingComes == ASSUME NEW k PROVE ~Coming(Keys!Quiet, k)
BY DEF Coming, Keys!Quiet

\* What the torch does is nothing to the gestures.
gestureVars == <<mEventHandler, calling, sensing, listeners, mProximityWakeLock, keys, done,
                 dropped, raced>>

LEMMA GestureFrame == GestureInv /\ UNCHANGED gestureVars => GestureInv'
<1> SUFFICES ASSUME GestureInv, UNCHANGED gestureVars PROVE GestureInv'
  OBVIOUS
<1>1. GestureTypes'
  BY DEF GestureInv, gestureVars, GestureTypes
<1>2. KeysAreKnown'
  BY DEF GestureInv, gestureVars, KeysAreKnown
<1>3. Keys!LockPerListener'
  BY DEF GestureInv, gestureVars, Keys!LockPerListener
<1>4. EachInOnePlace'
  BY DEF GestureInv, gestureVars, EachInOnePlace
<1> QED
  BY <1>1, <1>2, <1>3, <1>4 DEF GestureInv

LEMMA HandleKeyStep ==
  ASSUME GestureInv, NEW s \in Scancodes, NEW p \in BOOLEAN, Keys!handleKeyEvent(s, p)
  PROVE  GestureInv'
<1>0. GestureTypes /\ KeysAreKnown /\ Keys!LockPerListener /\ EachInOnePlace
  BY DEF GestureInv
<1> DEFINE m == [key |-> keys + 1, arg1 |-> s, delayed |-> p]
<1>1. /\ calling = Keys!Idle /\ mEventHandler = {} /\ s \in Keys!sSupportedGestures
      /\ keys' = keys + 1 /\ keys' \in Keys!Key /\ keys' \in 0..MaxKeys
      /\ UNCHANGED <<sensing, listeners, mProximityWakeLock, done, dropped, raced>>
  BY <1>0, PartsAssumption DEF Keys!handleKeyEvent, Keys!hasMessages, Keys!Key, GestureTypes
<1>2. m \in Keys!Message
  BY <1>1 DEF Keys!Message
<1>3. mEventHandler' = {m}
  BY <1>1 DEF Keys!handleKeyEvent, Keys!getMessageForKeyEvent
<1>4. calling' \in {[key |-> keys + 1, scancode |-> s], Keys!Idle}
  BY <1>1 DEF Keys!handleKeyEvent
<1>5. GestureTypes'
  <2>1. calling' \in Keys!Request \cup {Keys!Idle}
    BY <1>1, <1>4 DEF Keys!Request
  <2> QED
    BY <1>0, <1>1, <1>2, <1>3, <2>1 DEF GestureTypes
<1>6. /\ keys \in Nat /\ m.key = keys + 1
      /\ calling' # Keys!Idle => calling'.key = keys + 1
  BY <1>0, <1>4 DEF GestureTypes
<1> HIDE DEF m
<1>7. KeysAreKnown'
  <2>1. \A n \in mEventHandler' : n.key \in 1..keys'
    BY <1>1, <1>3, <1>6
  <2>2. sensing' # Keys!Quiet => sensing'.request.key \in 1..keys'
    BY <1>0, <1>1, <1>6 DEF KeysAreKnown
  <2>3. calling' # Keys!Idle => calling'.key \in 1..keys'
    BY <1>1, <1>6
  <2>4. \A l \in listeners' : /\ l.key \in 1..keys'
                              /\ calling' # Keys!Idle => l.key # calling'.key
    <3> SUFFICES ASSUME NEW l \in listeners
                 PROVE  /\ l.key \in 1..(keys + 1)
                        /\ calling' # Keys!Idle => l.key # calling'.key
      BY <1>1
    <3>1. l.key \in 1..keys
      BY <1>0 DEF KeysAreKnown
    <3> QED
      BY <1>6, <3>1
  <2>5. \A k \in Keys!Key : k > keys' => done'[k] = 0 /\ k \notin dropped'
    BY <1>0, <1>1, <1>6 DEF KeysAreKnown, Keys!Key
  <2> QED
    BY <2>1, <2>2, <2>3, <2>4, <2>5 DEF KeysAreKnown
<1>8. Keys!LockPerListener'
  BY <1>0, <1>1 DEF Keys!LockPerListener
<1>9. EachInOnePlace'
  <2> SUFFICES ASSUME ~raced, NEW k \in 1..(keys + 1)
               PROVE  OnePlace({m}, sensing, k, done[k], dropped)
    BY <1>1, <1>3 DEF EachInOnePlace
  <2>1. CASE k = keys + 1
    <3>1. Waiting({m}, k) = {m}
      BY <1>6, <2>1 DEF Waiting
    <3>2. ~Coming(sensing, k)
      <4>1. CASE sensing = Keys!Quiet
        BY <4>1, NothingComes
      <4>2. CASE sensing # Keys!Quiet
        <5>1. sensing.request.key \in 1..keys
          BY <1>0, <4>2 DEF KeysAreKnown
        <5> QED
          BY <1>6, <2>1, <5>1 DEF Coming
      <4> QED
        BY <4>1, <4>2
    <3>3. done[k] = 0 /\ k \notin dropped
      BY <1>0, <1>1, <1>6, <2>1 DEF KeysAreKnown
    <3> QED
      BY <3>1, <3>2, <3>3 DEF OnePlace
  <2>2. CASE k # keys + 1
    <3>1. k \in 1..keys
      BY <1>6, <2>2
    <3>2. OnePlace(mEventHandler, sensing, k, done[k], dropped)
      BY <1>0, <3>1 DEF EachInOnePlace
    <3>3. Waiting({m}, k) = Waiting(mEventHandler, k)
      BY <1>1, <1>6, <2>2 DEF Waiting
    <3> QED
      BY <3>2, <3>3 DEF OnePlace
  <2> QED
    BY <2>1, <2>2
<1> QED
  BY <1>5, <1>7, <1>8, <1>9 DEF GestureInv

LEMMA SensorStep ==
  ASSUME GestureInv,
         \/ Keys!processEvent
         \/ \E l \in listeners, far \in BOOLEAN : Keys!onSensorChanged(l, far)
  PROVE  GestureInv'
<1>0. /\ GestureTypes /\ KeysAreKnown /\ EachInOnePlace
      /\ mProximityWakeLock = Cardinality(listeners)
  BY LockIsCounted DEF GestureInv
<1>1. UNCHANGED <<mEventHandler, keys, done, dropped, raced>>
  BY DEF Keys!processEvent, Keys!onSensorChanged
<1>2. ASSUME \A k : Coming(sensing', k) <=> Coming(sensing, k) PROVE EachInOnePlace'
  BY <1>0, <1>1, <1>2 DEF EachInOnePlace, OnePlace
<1>3. CASE Keys!processEvent
  <2>1. /\ calling # Keys!Idle /\ calling' = Keys!Idle /\ sensing' = sensing
        /\ mProximityWakeLock' = mProximityWakeLock + 1
        /\ listeners' = listeners \cup {calling}
    BY <1>3 DEF Keys!processEvent
  <2>2. calling \in Keys!Request /\ calling \notin listeners
    BY <1>0, <2>1 DEF GestureTypes, KeysAreKnown
  <2>3. Cardinality(listeners') = Cardinality(listeners) + 1 /\ IsFiniteSet(listeners')
    BY <1>0, <2>1, <2>2, FS_AddElement DEF GestureTypes
  <2>4. GestureTypes'
    BY <1>0, <1>1, <2>1, <2>2, <2>3 DEF GestureTypes
  <2>5. KeysAreKnown'
    BY <1>0, <1>1, <2>1 DEF KeysAreKnown
  <2>6. Keys!LockPerListener'
    <3>1. mProximityWakeLock' = Cardinality(listeners')
      BY <1>0, <2>1, <2>3
    <3> QED
      BY <3>1, SameCount DEF Keys!LockPerListener
  <2> QED
    BY <1>2, <2>1, <2>4, <2>5, <2>6 DEF GestureInv
<1>4. CASE \E l \in listeners, far \in BOOLEAN : Keys!onSensorChanged(l, far)
  <2>1. PICK l \in listeners, far \in BOOLEAN : Keys!onSensorChanged(l, far)
    BY <1>4
  <2>2. /\ mProximityWakeLock' = mProximityWakeLock - 1
        /\ listeners' = listeners \ {l} /\ calling' = calling
        /\ sensing = Keys!Quiet
        /\ sensing' \in {[request |-> l, far |-> far, removed |-> FALSE], Keys!Quiet}
    BY <2>1 DEF Keys!onSensorChanged, Keys!ReleaseAlways
  <2>3. Cardinality(listeners') = Cardinality(listeners) - 1 /\ IsFiniteSet(listeners')
    BY <1>0, <2>2, FS_RemoveElement DEF GestureTypes
  <2>4. l \in Keys!Request /\ l.key \in 1..keys
    BY <1>0 DEF GestureTypes, KeysAreKnown
  <2>5. GestureTypes'
    <3>1. [request |-> l, far |-> far, removed |-> FALSE]
            \in [request: Keys!Request, far: BOOLEAN, removed: BOOLEAN]
      BY <2>4
    <3>2. sensing' \in [request: Keys!Request, far: BOOLEAN, removed: BOOLEAN] \cup {Keys!Quiet}
      BY <2>2, <3>1
    <3> QED
      BY <1>0, <1>1, <2>2, <2>3, <3>2 DEF GestureTypes
  <2>6. KeysAreKnown'
    BY <1>0, <1>1, <2>2, <2>4 DEF KeysAreKnown
  <2>7. Keys!LockPerListener'
    <3>1. mProximityWakeLock' = Cardinality(listeners')
      BY <1>0, <2>2, <2>3
    <3> QED
      BY <3>1, SameCount DEF Keys!LockPerListener
  <2>8. \A k : ~Coming(sensing, k) /\ ~Coming(sensing', k)
    BY <2>2, NothingComes DEF Coming
  <2> QED
    BY <1>2, <2>5, <2>6, <2>7, <2>8 DEF GestureInv
<1> QED
  BY <1>3, <1>4

LEMMA RemoveStep == ASSUME GestureInv, Keys!RemoveMessages PROVE GestureInv'
<1> DEFINE l == sensing.request
           waiting == {m.key : m \in mEventHandler}
<1>0. GestureTypes /\ KeysAreKnown /\ Keys!LockPerListener /\ EachInOnePlace
  BY DEF GestureInv
<1>1. /\ sensing # Keys!Quiet /\ ~sensing.removed
      /\ sensing' = IF sensing.far THEN [sensing EXCEPT !.removed = TRUE] ELSE Keys!Quiet
      /\ mEventHandler' = {}
      /\ dropped' = IF sensing.far THEN dropped ELSE dropped \cup waiting
      /\ raced' = (raced \/ waiting # {l.key})
      /\ UNCHANGED <<calling, listeners, mProximityWakeLock, keys, done>>
  BY DEF Keys!RemoveMessages, Keys!RemainingMessages
<1>2. /\ l \in Keys!Request /\ l.key \in 1..keys
      /\ sensing \in [request: Keys!Request, far: BOOLEAN, removed: BOOLEAN]
  BY <1>0, <1>1 DEF GestureTypes, KeysAreKnown
<1>3. waiting \subseteq 1..keys /\ waiting \subseteq Keys!Key
  <2>1. waiting \subseteq 1..keys
    BY <1>0 DEF KeysAreKnown
  <2>2. 1..keys \subseteq Keys!Key
    BY <1>0, PartsAssumption DEF GestureTypes, Keys!Key
  <2> QED
    BY <2>1, <2>2
<1>4. /\ sensing' \in [request: Keys!Request, far: BOOLEAN, removed: BOOLEAN] \cup {Keys!Quiet}
      /\ sensing.far => sensing'.removed /\ sensing'.request = l
      /\ ~sensing.far => sensing' = Keys!Quiet
      /\ sensing' # Keys!Quiet => sensing'.request.key \in 1..keys
  BY <1>1, <1>2
<1>5. GestureTypes'
  BY <1>0, <1>1, <1>3, <1>4 DEF GestureTypes
<1>6. KeysAreKnown'
  BY <1>0, <1>1, <1>3, <1>4 DEF KeysAreKnown, GestureTypes, Keys!Key
<1>7. Keys!LockPerListener'
  BY <1>0, <1>1 DEF Keys!LockPerListener
<1>8. EachInOnePlace'
  <2> SUFFICES ASSUME ~raced, waiting = {l.key}, NEW k \in 1..keys
               PROVE  OnePlace({}, sensing', k, done[k], dropped')
    BY <1>1 DEF EachInOnePlace
  <2>1. OnePlace(mEventHandler, sensing, k, done[k], dropped)
    BY <1>0 DEF EachInOnePlace
  <2>2. Waiting(mEventHandler, k) = {} <=> k # l.key
    BY DEF Waiting
  <2>3. ~Coming(sensing, k) /\ Waiting({}, k) = {}
    BY <1>1 DEF Coming, Waiting
  <2>4. Coming(sensing', k) <=> sensing.far /\ k = l.key
    BY <1>4, NothingComes DEF Coming
  <2>5. k \in dropped' <=> k \in dropped \/ (~sensing.far /\ k = l.key)
    BY <1>1
  <2> QED
    BY ONLY <2>1, <2>2, <2>3, <2>4, <2>5 DEF OnePlace
<1> QED
  BY <1>5, <1>6, <1>7, <1>8 DEF GestureInv

LEMMA SendAgainStep == ASSUME GestureInv, Keys!SendAgain PROVE GestureInv'
<1> DEFINE l == sensing.request
           m == [key |-> l.key, arg1 |-> l.scancode, delayed |-> FALSE]
<1>0. GestureTypes /\ KeysAreKnown /\ Keys!LockPerListener /\ EachInOnePlace
  BY DEF GestureInv
<1>1. /\ sensing.removed /\ sensing' = Keys!Quiet
      /\ mEventHandler' = mEventHandler \cup {m}
      /\ UNCHANGED <<calling, listeners, mProximityWakeLock, keys, done, dropped, raced>>
  BY DEF Keys!SendAgain, Keys!getMessageForKeyEvent
<1>2. sensing # Keys!Quiet
  BY <1>1 DEF Keys!Quiet
<1>3. l \in Keys!Request /\ l.key \in 1..keys
  BY <1>0, <1>2 DEF GestureTypes, KeysAreKnown
<1>4. m \in Keys!Message /\ m.key = l.key
  BY <1>3 DEF Keys!Message, Keys!Request
<1> HIDE DEF m
<1>5. GestureTypes'
  BY <1>0, <1>1, <1>4 DEF GestureTypes
<1>6. KeysAreKnown'
  BY <1>0, <1>1, <1>3, <1>4 DEF KeysAreKnown
<1>7. Keys!LockPerListener'
  BY <1>0, <1>1 DEF Keys!LockPerListener
<1>8. EachInOnePlace'
  <2> SUFFICES ASSUME ~raced, NEW k \in 1..keys
               PROVE  OnePlace(mEventHandler \cup {m}, Keys!Quiet, k, done[k], dropped)
    BY <1>1 DEF EachInOnePlace
  <2>1. OnePlace(mEventHandler, sensing, k, done[k], dropped)
    BY <1>0 DEF EachInOnePlace
  <2>2. ~Coming(Keys!Quiet, k) /\ (Coming(sensing, k) <=> k = l.key)
    BY <1>1, NothingComes DEF Coming
  <2>3. Waiting(mEventHandler \cup {m}, k)
          = IF k = l.key THEN Waiting(mEventHandler, k) \cup {m} ELSE Waiting(mEventHandler, k)
    BY <1>4 DEF Waiting
  <2> HIDE DEF l
  <2> QED
    BY ONLY <2>1, <2>2, <2>3 DEF OnePlace
<1> QED
  BY <1>5, <1>6, <1>7, <1>8 DEF GestureInv

LEMMA HandleMessageStep ==
  ASSUME GestureInv, NEW m \in mEventHandler, NEW found \in BOOLEAN, Keys!handleMessage(m, found)
  PROVE  GestureInv'
<1>0. GestureTypes /\ KeysAreKnown /\ Keys!LockPerListener /\ EachInOnePlace
  BY DEF GestureInv
<1>1. /\ mEventHandler' = mEventHandler \ {m}
      /\ done' = [done EXCEPT ![m.key] = @ + 1]
      /\ UNCHANGED <<calling, sensing, listeners, mProximityWakeLock, keys, dropped, raced>>
  BY DEF Keys!handleMessage
<1>2. m.key \in 1..keys
  BY <1>0 DEF KeysAreKnown
<1>3. keys \in 0..MaxKeys /\ keys <= MaxKeys /\ MaxKeys \in Nat
  BY <1>0, PartsAssumption DEF GestureTypes
<1>4. m.key \in Keys!Key
  BY <1>2, <1>3 DEF Keys!Key
<1>5. /\ done' \in [Keys!Key -> Nat] /\ done'[m.key] = done[m.key] + 1
      /\ \A k \in Keys!Key : k # m.key => done'[k] = done[k]
  BY <1>0, <1>1, <1>4 DEF GestureTypes
<1>6. GestureTypes'
  BY <1>0, <1>1, <1>5 DEF GestureTypes
<1>7. KeysAreKnown'
  BY <1>0, <1>1, <1>2, <1>3, <1>4, <1>5 DEF KeysAreKnown, Keys!Key
<1>8. Keys!LockPerListener'
  BY <1>0, <1>1 DEF Keys!LockPerListener
<1>9. EachInOnePlace'
  <2> SUFFICES ASSUME ~raced, NEW k \in 1..keys
               PROVE  OnePlace(mEventHandler \ {m}, sensing, k, done'[k], dropped)
    BY <1>1 DEF EachInOnePlace
  <2>1. OnePlace(mEventHandler, sensing, k, done[k], dropped)
    BY <1>0 DEF EachInOnePlace
  <2>2. k \in Keys!Key
    BY <1>3 DEF Keys!Key
  <2>3. CASE k # m.key
    <3>1. done'[k] = done[k] /\ Waiting(mEventHandler \ {m}, k) = Waiting(mEventHandler, k)
      BY <1>5, <2>2, <2>3 DEF Waiting
    <3> QED
      BY <2>1, <3>1 DEF OnePlace
  <2>4. CASE k = m.key
    <3>1. m \in Waiting(mEventHandler, k)
      BY <2>4 DEF Waiting
    <3>2. Waiting(mEventHandler, k) = {m} /\ ~Coming(sensing, k) /\ done[k] = 0 /\ k \notin dropped
      BY <2>1, <3>1 DEF OnePlace
    <3>3. Waiting(mEventHandler \ {m}, k) = {}
      BY <3>2 DEF Waiting
    <3>4. done'[k] = 1
      BY <1>5, <2>4, <3>2
    <3> QED
      BY <3>2, <3>3, <3>4 DEF OnePlace
  <2> QED
    BY <2>3, <2>4
<1> QED
  BY <1>6, <1>7, <1>8, <1>9 DEF GestureInv

LEMMA GestureStep == GestureInv /\ [Keys!Next]_(Keys!vars) => GestureInv'
<1> SUFFICES ASSUME GestureInv, [Keys!Next]_(Keys!vars) PROVE GestureInv'
  OBVIOUS
<1>1. CASE \/ Keys!TorchCallback \/ UNCHANGED Keys!vars
           \/ \E to \in {"off", "on", "unavailable"} : Keys!OtherApp(to)
  <2>1. UNCHANGED gestureVars
    BY <1>1 DEF Keys!TorchCallback, Keys!OtherApp, Keys!keyVars, Keys!vars, gestureVars
  <2> QED
    BY <2>1, GestureFrame
<1> QED
  BY <1>1, HandleKeyStep, SensorStep, RemoveStep, SendAgainStep, HandleMessageStep DEF Keys!Next

(***************************************************************************)
(* Every gesture that handleKeyEvent accepted is waiting, about to be sent *)
(* again, carried out once or dropped, until an answer of the sensor meets *)
(* a message that is not its own; and the proximity wake lock is held once *)
(* for each listener that waits (processEvent, onSensorChanged).           *)
(***************************************************************************)
THEOREM GesturesAreCounted == Keys!Spec => []EachGestureOnce
<1>1. Keys!Init => GestureInv
  <2> SUFFICES ASSUME Keys!Init PROVE GestureInv
    OBVIOUS
  <2>1. GestureTypes
    BY FS_EmptySet, PartsAssumption DEF Keys!Init, GestureTypes
  <2>2. KeysAreKnown
    BY DEF Keys!Init, KeysAreKnown
  <2>3. Keys!LockPerListener
    BY FS_EmptySet, LockIsCounted DEF Keys!Init
  <2>4. EachInOnePlace
    BY DEF Keys!Init, EachInOnePlace
  <2> QED
    BY <2>1, <2>2, <2>3, <2>4 DEF GestureInv
<1>2. GestureInv => EachGestureOnce
  <2> SUFFICES ASSUME GestureInv, ~raced, NEW k \in 1..keys
               PROVE  Cardinality(Waiting(mEventHandler, k)) + done[k]
                        + (IF sensing.removed /\ sensing.request.key = k THEN 1 ELSE 0)
                        + (IF k \in dropped THEN 1 ELSE 0) = 1
    BY SameCount DEF EachGestureOnce, Keys!EachGestureOnce, GestureInv, Waiting
  <2>1. OnePlace(mEventHandler, sensing, k, done[k], dropped)
    BY DEF GestureInv, EachInOnePlace
  <2>2. /\ Waiting(mEventHandler, k) = {} => Cardinality(Waiting(mEventHandler, k)) = 0
        /\ \A m : Waiting(mEventHandler, k) = {m} => Cardinality(Waiting(mEventHandler, k)) = 1
    BY FS_EmptySet, FS_Singleton
  <2> QED
    BY ONLY <2>1, <2>2 DEF OnePlace, Coming
<1> QED
  BY <1>1, <1>2, GestureStep, PTL DEF Keys!Spec

-----------------------------------------------------------------------------
(* The doze service.                                                       *)

Orientations == Doze!Sensor(Doze!Attitudes)
PickUps == Doze!Sensor({"UNKNOWN", "FALSE", "TRUE"})

\* The proximity sensor is fresh when the display goes off, no gesture is under
\* analysis before its first reading, and the copy of the doze setting is good
\* while no setting changes.
DozeInv ==
  /\ orientation \in Orientations /\ pickUp \in PickUps
  /\ proximity \in Doze!Sensor(BOOLEAN)
  /\ display \in {"on", "off"}
  /\ display = "on" => ~proximity.mReady
  /\ proximity.mEnabled /\ ~proximity.mReady => flags = {}
  /\ settled /\ display = "off" => (mDozeEnabled <=> dozeSetting)
  /\ Doze!SensorsInCheck /\ Doze!GesturesAreWatched

\* Starting one of the motion sensors stops the other.
LEMMA MotionSensors ==
  ASSUME NEW o \in Orientations, NEW p \in PickUps
  PROVE  /\ Doze!OrientationOn(o, p).orientation \in Orientations
         /\ Doze!OrientationOn(o, p).pickUp \in PickUps
         /\ ~Doze!OrientationOn(o, p).pickUp.mEnabled
         /\ hasMagnetic => Doze!OrientationOn(o, p).orientation.mEnabled
         /\ Doze!PickUpOn(o, p).orientation \in Orientations
         /\ Doze!PickUpOn(o, p).pickUp \in PickUps
         /\ ~Doze!PickUpOn(o, p).orientation.mEnabled
         /\ Doze!PickUpOn(o, p).pickUp.mEnabled
         /\ Doze!MotionOff(o, p).orientation \in Orientations
         /\ Doze!MotionOff(o, p).pickUp \in PickUps
         /\ ~Doze!MotionOff(o, p).orientation.mEnabled
         /\ ~Doze!MotionOff(o, p).pickUp.mEnabled
         /\ Doze!MotionReset(o, p).orientation \in Orientations
         /\ Doze!MotionReset(o, p).pickUp \in PickUps
         /\ ~Doze!MotionReset(o, p).orientation.mEnabled
         /\ ~Doze!MotionReset(o, p).pickUp.mEnabled
<1> USE DEF Orientations, PickUps, Doze!Sensor, Doze!Attitudes, Doze!Disable
<1>1. Doze!Disable(o) \in Orientations /\ ~Doze!Disable(o).mEnabled
  OBVIOUS
<1>2. Doze!Disable(p) \in PickUps /\ ~Doze!Disable(p).mEnabled
  OBVIOUS
<1>3. Doze!OrientationEnable(o) \in Orientations
  BY DEF Doze!OrientationEnable
<1>4. hasMagnetic => Doze!OrientationEnable(o).mEnabled
  BY DEF Doze!OrientationEnable
<1>5. Doze!PickUpEnable(p) \in PickUps
  BY DEF Doze!PickUpEnable
<1>6. Doze!PickUpEnable(p).mEnabled
  BY DEF Doze!PickUpEnable
<1>7. Doze!OrientationReset(o) \in Orientations
  BY DEF Doze!OrientationReset
<1>8. Doze!PickUpReset(p) \in PickUps
  BY DEF Doze!PickUpReset
<1>9. Doze!Disable(Doze!OrientationReset(o)) \in Orientations
      /\ ~Doze!Disable(Doze!OrientationReset(o)).mEnabled
  BY <1>7
<1>10. Doze!Disable(Doze!PickUpReset(p)) \in PickUps
       /\ ~Doze!Disable(Doze!PickUpReset(p)).mEnabled
  BY <1>8
<1> QED
  BY ONLY <1>1, <1>2, <1>3, <1>4, <1>5, <1>6, <1>9, <1>10
     DEF Doze!OrientationOn, Doze!PickUpOn, Doze!MotionOff, Doze!MotionReset

LEMMA Analysed ==
  ASSUME NEW o \in Orientations, NEW p \in PickUps, NEW f, Doze!analyseDoze(o, p, f),
         ~(o.mEnabled /\ p.mEnabled)
  PROVE  /\ flags' = {} /\ mDozeEnabled' = dozeSetting
         /\ orientation' \in Orientations /\ pickUp' \in PickUps
         /\ ~(orientation'.mEnabled /\ pickUp'.mEnabled)
         /\ ~mProximityNear' /\ "pickup" \in prefs /\ mDozeEnabled' => pickUp'.mEnabled
<1>1. /\ flags' = {} /\ mDozeEnabled' = dozeSetting
      /\ orientation' = Doze!RestorePickUp(o, p).orientation
      /\ pickUp' = Doze!RestorePickUp(o, p).pickUp
  BY DEF Doze!analyseDoze, Doze!getDozeEnabled, Doze!resetValues, Doze!Motion
<1>2. CASE ~mProximityNear' /\ "pickup" \in prefs /\ mDozeEnabled'
  <2>1. Doze!RestorePickUp(o, p) = Doze!PickUpOn(o, p)
    BY <1>2 DEF Doze!RestorePickUp, Doze!isEnabled
  <2> QED
    BY <1>1, <2>1, MotionSensors
<1>3. CASE ~(~mProximityNear' /\ "pickup" \in prefs /\ mDozeEnabled')
  <2>1. Doze!RestorePickUp(o, p) = [orientation |-> o, pickUp |-> p]
    BY <1>3 DEF Doze!RestorePickUp, Doze!isEnabled
  <2>2. orientation' = o /\ pickUp' = p
    BY <1>1, <2>1
  <2> QED
    BY <1>1, <1>3, <2>2
<1> QED
  BY <1>2, <1>3

\* Sensors that report are enabled, and then the display is off.
LEMMA ReportsWhenOff ==
  ASSUME DozeInv, orientation.mEnabled \/ pickUp.mEnabled \/ proximity.mEnabled
  PROVE  display = "off"
BY DEF DozeInv, Doze!SensorsInCheck

LEMMA ProximityStep ==
  ASSUME DozeInv, NEW isNear \in BOOLEAN,
         Doze!ProximityInit(isNear) \/ Doze!ProximityEvent(isNear)
  PROVE  DozeInv'
<1>0. /\ orientation \in Orientations /\ pickUp \in PickUps
      /\ proximity \in Doze!Sensor(BOOLEAN)
      /\ ~(orientation.mEnabled /\ pickUp.mEnabled)
      /\ settled /\ display = "off" => (mDozeEnabled <=> dozeSetting)
      /\ proximity.mEnabled /\ ~proximity.mReady => flags = {}
  BY DEF DozeInv, Doze!SensorsInCheck
<1>1. /\ proximity.mEnabled /\ proximity' = [proximity EXCEPT !.mReady = TRUE, !.mState = isNear]
      /\ mProximityNear' = isNear
      /\ UNCHANGED <<prefs, dozeSetting, hasMagnetic, display, settled>>
  BY DEF Doze!ProximityInit, Doze!ProximityEvent, Doze!ProximityReads
<1>2. display = "off"
  BY <1>1, ReportsWhenOff
<1>3. proximity' \in Doze!Sensor(BOOLEAN) /\ proximity'.mReady /\ proximity'.mEnabled
  BY <1>0, <1>1 DEF Doze!Sensor
<1>4. CASE Doze!ProximityInit(isNear)
  <2>1. mDozeEnabled' = mDozeEnabled /\ flags' = flags /\ flags = {}
    BY <1>0, <1>1, <1>4 DEF Doze!ProximityInit, Doze!ProximityReads
  <2>2. CASE ~isNear /\ "pickup" \in prefs /\ mDozeEnabled'
    <3>1. /\ orientation' = Doze!PickUpOn(orientation, pickUp).orientation
          /\ pickUp' = Doze!PickUpOn(orientation, pickUp).pickUp
      BY <1>4, <2>1, <2>2 DEF Doze!ProximityInit, Doze!isEnabled, Doze!Motion
    <3>2. /\ orientation' \in Orientations /\ pickUp' \in PickUps
          /\ ~orientation'.mEnabled /\ pickUp'.mEnabled
      BY <1>0, <3>1, MotionSensors
    <3> QED
      BY <1>0, <1>1, <1>2, <1>3, <2>1, <3>2
         DEF DozeInv, Doze!SensorsInCheck, Doze!GesturesAreWatched
  <2>3. CASE ~(~isNear /\ "pickup" \in prefs /\ mDozeEnabled')
    <3>1. UNCHANGED <<orientation, pickUp>>
      BY <1>4, <2>1, <2>3 DEF Doze!ProximityInit, Doze!isEnabled
    <3> QED
      BY <1>0, <1>1, <1>2, <1>3, <2>1, <2>3, <3>1
         DEF DozeInv, Doze!SensorsInCheck, Doze!GesturesAreWatched
  <2> QED
    BY <2>2, <2>3
<1>5. CASE Doze!ProximityEvent(isNear)
  <2>1. mDozeEnabled' = dozeSetting
    BY <1>5 DEF Doze!ProximityEvent, Doze!getDozeEnabled
  <2>2. CASE isNear
    <3>1. /\ orientation' = Doze!MotionOff(orientation, pickUp).orientation
          /\ pickUp' = Doze!MotionOff(orientation, pickUp).pickUp
      BY <1>5, <2>2 DEF Doze!ProximityEvent, Doze!Motion
    <3>2. /\ orientation' \in Orientations /\ pickUp' \in PickUps
          /\ ~orientation'.mEnabled /\ ~pickUp'.mEnabled
      BY <1>0, <3>1, MotionSensors
    <3> QED
      BY <1>0, <1>1, <1>2, <1>3, <2>1, <2>2, <3>2
         DEF DozeInv, Doze!SensorsInCheck, Doze!GesturesAreWatched
  <2>3. CASE ~isNear
    <3>1. \/ /\ orientation' = Doze!OrientationOn(orientation, pickUp).orientation
             /\ pickUp' = Doze!OrientationOn(orientation, pickUp).pickUp
          \/ /\ flags' = {} /\ "pickup" \in prefs /\ mDozeEnabled'
             /\ orientation' = Doze!PickUpOn(orientation, pickUp).orientation
             /\ pickUp' = Doze!PickUpOn(orientation, pickUp).pickUp
          \/ /\ flags' = {} /\ ~("pickup" \in prefs /\ mDozeEnabled')
             /\ UNCHANGED <<orientation, pickUp>>
      BY <1>5, <2>3 DEF Doze!ProximityEvent, Doze!Released, Doze!isEnabled, Doze!Motion
    <3>2. /\ orientation' \in Orientations /\ pickUp' \in PickUps
          /\ ~(orientation'.mEnabled /\ pickUp'.mEnabled)
      BY <1>0, <3>1, MotionSensors
    <3>3. hasMagnetic =>
            /\ flags' # {} => orientation'.mEnabled
            /\ "pickup" \in prefs /\ mDozeEnabled' => orientation'.mEnabled \/ pickUp'.mEnabled
      BY <1>0, <3>1, MotionSensors
    <3> QED
      BY <1>0, <1>1, <1>2, <1>3, <2>1, <3>2, <3>3
         DEF DozeInv, Doze!SensorsInCheck, Doze!GesturesAreWatched
  <2> QED
    BY <2>2, <2>3
<1> QED
  BY <1>4, <1>5

LEMMA OrientationStep ==
  ASSUME DozeInv, NEW attitude \in Doze!Attitudes, Doze!OrientationEvent(attitude)
  PROVE  DozeInv'
<1> DEFINE o == [mEnabled |-> FALSE, mReady |-> TRUE, mState |-> attitude]
<1>0. /\ orientation \in Orientations /\ pickUp \in PickUps
      /\ proximity \in Doze!Sensor(BOOLEAN)
      /\ settled /\ display = "off" => (mDozeEnabled <=> dozeSetting)
      /\ proximity.mEnabled /\ ~proximity.mReady => flags = {}
  BY DEF DozeInv
<1>1. /\ UNCHANGED <<prefs, dozeSetting, proximity, hasMagnetic, display, settled, mProximityNear>>
      /\ orientation.mEnabled
  BY DEF Doze!OrientationEvent
<1>2. display = "off"
  BY <1>1, ReportsWhenOff
<1>3. o \in Orientations /\ ~o.mEnabled
  BY DEF Orientations, Doze!Sensor
<1>4. CASE mProximityNear
  <2>1. /\ orientation' = o /\ UNCHANGED <<pickUp, mDozeEnabled, flags>>
    BY <1>4 DEF Doze!OrientationEvent, Doze!Motion
  <2> HIDE DEF o
  <2> QED
    BY <1>0, <1>1, <1>2, <1>3, <1>4, <2>1
       DEF DozeInv, Doze!SensorsInCheck, Doze!GesturesAreWatched
<1>5. CASE ~mProximityNear
  <2>1. Doze!analyseDoze(o, pickUp, flags)
    BY <1>5 DEF Doze!OrientationEvent
  <2> HIDE DEF o
  <2>2. /\ flags' = {} /\ mDozeEnabled' = dozeSetting
        /\ orientation' \in Orientations /\ pickUp' \in PickUps
        /\ ~(orientation'.mEnabled /\ pickUp'.mEnabled)
        /\ ~mProximityNear' /\ "pickup" \in prefs /\ mDozeEnabled' => pickUp'.mEnabled
    BY <1>0, <1>3, <2>1, Analysed
  <2> QED
    BY <1>0, <1>1, <1>2, <2>2 DEF DozeInv, Doze!SensorsInCheck, Doze!GesturesAreWatched
<1> QED
  BY <1>4, <1>5

LEMMA PickUpStep ==
  ASSUME DozeInv, NEW to \in {"UNKNOWN", "FALSE", "TRUE"}, Doze!PickUpEvent(to)
  PROVE  DozeInv'
<1>0. /\ orientation \in Orientations /\ pickUp \in PickUps
      /\ proximity \in Doze!Sensor(BOOLEAN)
      /\ settled /\ display = "off" => (mDozeEnabled <=> dozeSetting)
      /\ proximity.mEnabled /\ ~proximity.mReady => flags = {}
  BY DEF DozeInv
<1>1. /\ UNCHANGED <<prefs, dozeSetting, proximity, hasMagnetic, display, settled, mProximityNear>>
      /\ pickUp.mEnabled
  BY DEF Doze!PickUpEvent
<1>2. display = "off" /\ ~orientation.mEnabled
  BY <1>1, ReportsWhenOff DEF DozeInv, Doze!SensorsInCheck
<1>3. settled /\ hasMagnetic /\ proximity.mReady /\ ~mProximityNear => flags = {}
  BY <1>2 DEF DozeInv, Doze!GesturesAreWatched
<1>4. CASE ~pickUp.mReady
  <2>1. /\ pickUp' = [pickUp EXCEPT !.mReady = TRUE, !.mState = to]
        /\ UNCHANGED <<mDozeEnabled, flags, orientation>>
    BY <1>4 DEF Doze!PickUpEvent
  <2>2. pickUp' \in PickUps /\ pickUp'.mEnabled
    BY <1>0, <1>1, <2>1 DEF PickUps, Doze!Sensor
  <2> QED
    BY <1>0, <1>1, <1>2, <1>3, <2>1, <2>2
       DEF DozeInv, Doze!SensorsInCheck, Doze!GesturesAreWatched
<1>5. CASE pickUp.mReady
  <2> DEFINE p == [pickUp EXCEPT !.mState = to]
  <2>1. Doze!handlePickUp(p)
    BY <1>5 DEF Doze!PickUpEvent
  <2>2. p \in PickUps /\ p.mEnabled
    BY <1>0, <1>1 DEF PickUps, Doze!Sensor
  <2> HIDE DEF p
  <2>3. mDozeEnabled' = dozeSetting
    BY <2>1 DEF Doze!handlePickUp, Doze!getDozeEnabled
  <2>4. CASE Doze!analyseDoze(orientation, p, flags \cup {"pickup"})
    <3>1. /\ flags' = {}
          /\ orientation' \in Orientations /\ pickUp' \in PickUps
          /\ ~(orientation'.mEnabled /\ pickUp'.mEnabled)
          /\ ~mProximityNear' /\ "pickup" \in prefs /\ mDozeEnabled' => pickUp'.mEnabled
      BY <1>0, <1>2, <2>2, <2>4, Analysed
    <3> QED
      BY <1>0, <1>1, <1>2, <2>3, <3>1
         DEF DozeInv, Doze!SensorsInCheck, Doze!GesturesAreWatched
  <2>5. CASE ~Doze!analyseDoze(orientation, p, flags \cup {"pickup"})
    <3>1. flags' = flags \ {"pickup"} /\ orientation' = orientation /\ pickUp' = p
      BY <2>1, <2>5 DEF Doze!handlePickUp, Doze!Motion
    <3> QED
      BY <1>0, <1>1, <1>2, <1>3, <2>2, <2>3, <3>1
         DEF DozeInv, Doze!SensorsInCheck, Doze!GesturesAreWatched
  <2> QED
    BY <2>4, <2>5
<1> QED
  BY <1>4, <1>5

LEMMA DisplayStep ==
  ASSUME DozeInv, Doze!onDisplayOn \/ Doze!onDisplayOff
  PROVE  DozeInv'
<1>0. /\ orientation \in Orientations /\ pickUp \in PickUps
      /\ proximity \in Doze!Sensor(BOOLEAN)
  BY DEF DozeInv
<1>1. CASE Doze!onDisplayOn
  <2>1. /\ display' = "on" /\ UNCHANGED flags
        /\ orientation' = Doze!MotionReset(orientation, pickUp).orientation
        /\ pickUp' = Doze!MotionReset(orientation, pickUp).pickUp
        /\ proximity' = Doze!Disable(Doze!ProximityReset(proximity))
    BY <1>1 DEF Doze!onDisplayOn, Doze!Motion, Doze!OnDisplayOnMotion
  <2>2. /\ orientation' \in Orientations /\ pickUp' \in PickUps
        /\ ~orientation'.mEnabled /\ ~pickUp'.mEnabled
    BY <1>0, <2>1, MotionSensors
  <2>3. proximity' \in Doze!Sensor(BOOLEAN) /\ ~proximity'.mEnabled /\ ~proximity'.mReady
    BY <1>0, <2>1 DEF Doze!Sensor, Doze!Disable, Doze!ProximityReset
  <2> QED
    BY <2>1, <2>2, <2>3 DEF DozeInv, Doze!SensorsInCheck, Doze!GesturesAreWatched
<1>2. CASE Doze!onDisplayOff
  <2>1. /\ display = "on" /\ display' = "off" /\ mDozeEnabled' = dozeSetting
        /\ UNCHANGED dozeSetting
    BY <1>2 DEF Doze!onDisplayOff, Doze!getDozeEnabled
  <2>2. ~orientation.mEnabled /\ ~pickUp.mEnabled /\ ~proximity.mEnabled /\ ~proximity.mReady
    BY <2>1 DEF DozeInv, Doze!SensorsInCheck
  <2>3. CASE UNCHANGED <<flags, orientation, pickUp, proximity>>
    BY <1>0, <2>1, <2>2, <2>3 DEF DozeInv, Doze!SensorsInCheck, Doze!GesturesAreWatched
  <2>4. CASE /\ flags' = {}
             /\ orientation' = Doze!MotionReset(orientation, pickUp).orientation
             /\ pickUp' = Doze!MotionReset(orientation, pickUp).pickUp
             /\ proximity' = Doze!ProximityEnable(Doze!ProximityReset(proximity))
    <3>1. /\ orientation' \in Orientations /\ pickUp' \in PickUps
          /\ ~orientation'.mEnabled /\ ~pickUp'.mEnabled
      BY <1>0, <2>4, MotionSensors
    <3>2. proximity' \in Doze!Sensor(BOOLEAN) /\ ~proximity'.mReady
      BY <1>0, <2>4 DEF Doze!Sensor, Doze!ProximityEnable, Doze!ProximityReset
    <3> QED
      BY <2>1, <2>4, <3>1, <3>2 DEF DozeInv, Doze!SensorsInCheck, Doze!GesturesAreWatched
  <2> QED
    BY <1>2, <2>3, <2>4 DEF Doze!onDisplayOff, Doze!resetValues, Doze!Motion
<1> QED
  BY <1>1, <1>2

LEMMA RestartStep == ASSUME DozeInv, Doze!Restart PROVE DozeInv'
<1>1. /\ flags' = {} /\ UNCHANGED dozeSetting
      /\ display' = IF broadcasts THEN (IF display = "on" THEN "off" ELSE "on") ELSE display
      /\ orientation' = [mEnabled |-> FALSE, mReady |-> FALSE, mState |-> "UNKNOWN"]
      /\ pickUp' = orientation'
      /\ proximity' = [mEnabled |-> \E g \in Doze!Gestures : Doze!isEnabled(g),
                       mReady |-> FALSE, mState |-> FALSE]
  BY DEF Doze!Restart
<1>2. mDozeEnabled' = (display' = "off" /\ dozeSetting)
  BY DEF Doze!Restart
<1>3. display' \in {"on", "off"}
  BY <1>1 DEF DozeInv
<1>4. /\ orientation' \in Orientations /\ pickUp' \in PickUps
      /\ ~orientation'.mEnabled /\ ~pickUp'.mEnabled
  BY <1>1 DEF Orientations, PickUps, Doze!Sensor, Doze!Attitudes
<1>5. /\ proximity' \in Doze!Sensor(BOOLEAN) /\ ~proximity'.mReady
      /\ proximity'.mEnabled => mDozeEnabled'
  BY <1>1 DEF Doze!Sensor, Doze!isEnabled
<1>6. proximity'.mEnabled => display' = "off"
  BY <1>2, <1>5
<1>7. display' = "off" => (mDozeEnabled' <=> dozeSetting')
  BY <1>1, <1>2
<1> QED
  BY <1>1, <1>3, <1>4, <1>5, <1>6, <1>7
     DEF DozeInv, Doze!SensorsInCheck, Doze!GesturesAreWatched

LEMMA DozeStep == DozeInv /\ [Doze!Next]_(Doze!vars) => DozeInv'
<1> SUFFICES ASSUME DozeInv, [Doze!Next]_(Doze!vars) PROVE DozeInv'
  OBVIOUS
<1>1. CASE Doze!DisplayChange \/ Doze!Tick \/ UNCHANGED Doze!vars
  <2>1. UNCHANGED <<prefs, dozeSetting, mDozeEnabled, flags, mProximityNear, orientation, pickUp,
                    proximity, hasMagnetic, display, settled>>
    BY <1>1 DEF Doze!DisplayChange, Doze!Tick, Doze!vars
  <2> QED
    BY <2>1 DEF DozeInv, Doze!SensorsInCheck, Doze!GesturesAreWatched
<1>2. CASE Doze!SettingChange
  <2>1. /\ ~settled'
        /\ UNCHANGED <<mDozeEnabled, flags, mProximityNear, orientation, pickUp,
                       proximity, hasMagnetic, display>>
    BY <1>2 DEF Doze!SettingChange
  <2> QED
    BY <2>1 DEF DozeInv, Doze!SensorsInCheck, Doze!GesturesAreWatched
<1> QED
  BY <1>1, <1>2, ProximityStep, OrientationStep, PickUpStep, DisplayStep, RestartStep DEF Doze!Next

(***************************************************************************)
(* In whatever order the display, the sensors and the settings change and  *)
(* the service is restarted, an enabled gesture has a sensor that watches  *)
(* for it, with one motion sensor registered at a time and none while the  *)
(* display is on (SensorsDozeService).                                     *)
(***************************************************************************)
THEOREM SensorsWatch == Doze!Spec => []GesturesAreWatched
<1>1. Doze!Init => DozeInv
  BY DEF Doze!Init, DozeInv, Orientations, PickUps, Doze!Sensor, Doze!Attitudes,
         Doze!SensorsInCheck, Doze!GesturesAreWatched
<1>2. DozeInv => GesturesAreWatched
  BY DEF DozeInv, GesturesAreWatched
<1> QED
  BY <1>1, <1>2, DozeStep, PTL DEF Doze!Spec

-----------------------------------------------------------------------------
(* The strings of the camera wrapper.                                      *)

CameraTypes ==
  /\ strings \in Nat /\ live \subseteq 1..strings /\ devices \subseteq Camera!Cameras
  /\ fixed_set_params \in [Camera!Cameras -> 0..strings]
  /\ setting \in [Camera!Cameras -> 0..strings]
  /\ given \subseteq [string: 1..strings, params: Camera!Params]
  /\ vendor \in [Camera!Cameras -> Camera!Params]

\* With one device at a time, a string has one owner: the array, which is not
\* stale while a device is open, or a caller of get_parameters; and the string
\* that the vendor is about to read is not about to be freed.
OneOwner ==
  /\ \A c, d \in devices : c = d
  /\ \A c \in Camera!Cameras : setting[c] # 0 =>
       c \in devices /\ setting[c] \in live /\ \A g \in given : g.string # setting[c]
  /\ devices # {} =>
       /\ \A c \in Camera!Cameras : fixed_set_params[c] # 0 =>
            fixed_set_params[c] \in live /\ \A g \in given : g.string # fixed_set_params[c]
       /\ \A c, d \in Camera!Cameras :
            fixed_set_params[c] # 0 /\ fixed_set_params[c] = fixed_set_params[d] => c = d
  /\ \A g \in given : g.string \in live
  /\ \A g, h \in given : g.string = h.string => g = h

CameraInv == CameraTypes /\ StringsAreSafe /\ (~overlap => OneOwner)

\* Two open devices are an overlap.
LEMMA OneDevice ==
  ASSUME NEW D, D \subseteq Camera!Cameras, ~(Camera!Cardinality(D) > 1)
  PROVE  \A c, d \in D : c = d
<1>1. IsFiniteSet(D)
  <2>1. IsFiniteSet(0..(NumCameras - 1))
    BY PartsAssumption, FS_Interval
  <2> QED
    BY <2>1, FS_Subset DEF Camera!Cameras
<1>2. Camera!Cardinality(D) = Cardinality(D)
  BY DEF Camera!Cardinality, Cardinality
<1> SUFFICES ASSUME NEW c \in D, NEW d \in D, c # d PROVE FALSE
  OBVIOUS
<1>3. /\ Cardinality(D \ {c}) = Cardinality(D) - 1 /\ IsFiniteSet(D \ {c})
      /\ d \in D \ {c}
  BY <1>1, FS_RemoveElement
<1>4. Cardinality(D \ {c}) \in Nat /\ Cardinality(D \ {c}) # 0
  BY <1>3, FS_CardinalityType, FS_EmptySet
<1>5. Cardinality(D) \in Nat
  BY <1>1, FS_CardinalityType
<1> QED
  BY <1>2, <1>3, <1>4, <1>5

LEMMA OpenStep ==
  ASSUME CameraInv, NEW id \in 0..NumCameras, NEW m \in BOOLEAN, NEW v \in BOOLEAN,
         Camera!camera_device_open(id, m, v)
  PROVE  CameraInv'
<1>1. /\ devices' \subseteq Camera!Cameras /\ devices \subseteq devices'
      /\ UNCHANGED <<setting, vendor, given, live, strings, badFree, badUse>>
  BY DEF Camera!camera_device_open, Camera!memory, CameraInv, CameraTypes
<1>2. \/ fixed_set_params' = [c \in Camera!Cameras |-> 0]
      \/ fixed_set_params' = fixed_set_params /\ devices' = devices
  BY DEF Camera!camera_device_open, Camera!NewArray, Camera!NULL
<1>3. ~overlap' => ~overlap /\ ~(Camera!Cardinality(devices') > 1)
  BY DEF Camera!camera_device_open
<1>4. CameraTypes'
  BY <1>1, <1>2 DEF CameraInv, CameraTypes
<1>5. StringsAreSafe'
  BY <1>1, <1>3 DEF CameraInv, StringsAreSafe, Camera!StringsAreSafe
<1>6. ~overlap' => OneOwner'
  <2> SUFFICES ASSUME ~overlap, OneOwner, \A c, d \in devices' : c = d PROVE OneOwner'
    BY <1>1, <1>3, OneDevice DEF CameraInv
  <2> QED
    BY <1>1, <1>2 DEF OneOwner
<1> QED
  BY <1>4, <1>5, <1>6 DEF CameraInv

LEMMA CloseStep ==
  ASSUME CameraInv, NEW id \in Camera!Cameras, Camera!camera_device_close(id)
  PROVE  CameraInv'
<1> DEFINE freed == {fixed_set_params[c] : c \in Camera!Cameras} \ {0}
<1>1. /\ id \in devices /\ setting[id] = 0 /\ devices' = devices \ {id} /\ live' = live \ freed
      /\ UNCHANGED <<fixed_set_params, setting, vendor, given, strings, badUse, overlap>>
  BY DEF Camera!camera_device_close, Camera!NULL
<1>2. badFree' = (badFree \/ ~(freed \subseteq live))
  BY DEF Camera!camera_device_close, Camera!NULL
<1>3. CameraTypes'
  BY <1>1 DEF CameraInv, CameraTypes
<1>4. ASSUME ~overlap
      PROVE  /\ freed \subseteq live /\ \A g \in given : g.string \notin freed
             /\ OneOwner /\ devices' = {}
             /\ \A c \in Camera!Cameras : setting[c] = 0
  BY <1>1, <1>4 DEF CameraInv, OneOwner
<1> HIDE DEF freed
<1>5. StringsAreSafe'
  BY <1>1, <1>2, <1>4 DEF CameraInv, StringsAreSafe, Camera!StringsAreSafe
<1>6. ~overlap' => OneOwner'
  BY <1>1, <1>4 DEF OneOwner
<1> QED
  BY <1>3, <1>5, <1>6 DEF CameraInv

LEMMA SetParametersStep ==
  ASSUME CameraInv, NEW id \in Camera!Cameras, NEW p \in Camera!Params,
         Camera!camera_set_parameters(id, p)
  PROVE  CameraInv'
<1> DEFINE freed == {fixed_set_params[id]} \ {0}
<1>1. /\ id \in devices /\ setting[id] = 0 /\ strings' = strings + 1
      /\ live' = (live \cup {strings + 1}) \ freed
      /\ fixed_set_params' = [fixed_set_params EXCEPT ![id] = strings + 1]
      /\ setting' = [setting EXCEPT ![id] = strings + 1]
      /\ vendor' = [vendor EXCEPT ![id] = Camera!camera_fixup_setparams(p)]
      /\ UNCHANGED <<devices, given, badUse, overlap>>
  BY DEF Camera!camera_set_parameters, Camera!NULL
<1>2. badFree' = (badFree \/ ~(freed \subseteq live))
  BY DEF Camera!camera_set_parameters, Camera!NULL
<1>3. CameraTypes
  BY DEF CameraInv
<1>4. Camera!camera_fixup_setparams(p) \in Camera!Params
  BY DEF Camera!camera_fixup_setparams, Camera!Params
<1>5. /\ strings \in Nat /\ 0..strings \subseteq 0..(strings + 1)
      /\ 1..strings \subseteq 1..(strings + 1)
      /\ strings + 1 \in 1..(strings + 1) /\ strings + 1 \notin 0..strings
      /\ \A n \in 1..strings : n \in 0..strings /\ n # 0
  BY <1>3 DEF CameraTypes
<1>6. CameraTypes'
  <2>1. fixed_set_params' \in [Camera!Cameras -> 0..(strings + 1)]
    BY <1>1, <1>3, <1>5 DEF CameraTypes
  <2>2. setting' \in [Camera!Cameras -> 0..(strings + 1)]
    BY <1>1, <1>3, <1>5 DEF CameraTypes
  <2>3. live' \subseteq 1..(strings + 1)
    BY <1>1, <1>3, <1>5 DEF CameraTypes
  <2>4. given \subseteq [string: 1..(strings + 1), params: Camera!Params]
    BY <1>3, <1>5 DEF CameraTypes
  <2>5. vendor' \in [Camera!Cameras -> Camera!Params]
    BY <1>1, <1>3, <1>4 DEF CameraTypes
  <2>6. strings' \in Nat
    BY <1>1, <1>5
  <2> QED
    BY <1>1, <1>3, <2>1, <2>2, <2>3, <2>4, <2>5, <2>6 DEF CameraTypes
<1>7. ASSUME ~overlap PROVE OneOwner /\ freed \subseteq live /\ ~badFree /\ ~badUse
  BY <1>1, <1>7 DEF CameraInv, OneOwner, StringsAreSafe, Camera!StringsAreSafe
<1>8. StringsAreSafe'
  BY <1>1, <1>2, <1>7 DEF StringsAreSafe, Camera!StringsAreSafe
<1>9. ASSUME ~overlap PROVE OneOwner'
  <2>1. /\ fixed_set_params'[id] = strings + 1 /\ setting'[id] = strings + 1
        /\ \A c \in Camera!Cameras : c # id =>
             /\ fixed_set_params'[c] = fixed_set_params[c] /\ fixed_set_params[c] # strings + 1
             /\ setting'[c] = setting[c] /\ setting[c] = 0
             /\ fixed_set_params[c] # 0 => fixed_set_params[c] \notin freed
    BY <1>1, <1>3, <1>5, <1>7, <1>9 DEF CameraTypes, OneOwner
  <2>2. \A g \in given : g.string \in live' /\ g.string # strings + 1
    BY <1>1, <1>3, <1>5, <1>7, <1>9 DEF CameraTypes, OneOwner
  <2>3. strings + 1 \in live'
    BY <1>1, <1>3, <1>5 DEF CameraTypes
  <2>4. \A c \in Camera!Cameras : setting'[c] # 0 =>
          c \in devices' /\ setting'[c] \in live' /\ \A g \in given' : g.string # setting'[c]
    BY <1>1, <2>1, <2>2, <2>3
  <2>5. \A c \in Camera!Cameras : fixed_set_params'[c] # 0 =>
          /\ fixed_set_params'[c] \in live'
          /\ \A g \in given' : g.string # fixed_set_params'[c]
    BY <1>1, <1>7, <1>9, <2>1, <2>2, <2>3 DEF OneOwner
  <2>6. \A c, d \in Camera!Cameras :
          fixed_set_params'[c] # 0 /\ fixed_set_params'[c] = fixed_set_params'[d] => c = d
    BY <1>1, <1>7, <1>9, <2>1 DEF OneOwner
  <2> QED
    BY <1>1, <1>7, <1>9, <2>2, <2>4, <2>5, <2>6 DEF OneOwner
<1> QED
  BY <1>1, <1>6, <1>8, <1>9 DEF CameraInv

LEMMA VendorReadsStep ==
  ASSUME CameraInv, NEW id \in Camera!Cameras, Camera!VendorSetParameters(id)
  PROVE  CameraInv'
<1>1. /\ setting[id] # 0 /\ setting' = [setting EXCEPT ![id] = 0]
      /\ UNCHANGED <<fixed_set_params, devices, vendor, given, live, strings, badFree, overlap>>
  BY DEF Camera!VendorSetParameters, Camera!NULL
<1>2. badUse' = (badUse \/ setting[id] \notin live)
  BY DEF Camera!VendorSetParameters
<1>3. CameraTypes'
  BY <1>1 DEF CameraInv, CameraTypes
<1>4. StringsAreSafe'
  BY <1>1, <1>2 DEF CameraInv, OneOwner, StringsAreSafe, Camera!StringsAreSafe
<1>5. \A c \in Camera!Cameras : setting'[c] # 0 => setting'[c] = setting[c] /\ setting[c] # 0
  BY <1>1 DEF CameraInv, CameraTypes
<1>6. ~overlap' => OneOwner'
  BY <1>1, <1>5 DEF CameraInv, OneOwner
<1> QED
  BY <1>3, <1>4, <1>6 DEF CameraInv

LEMMA GetParametersStep ==
  ASSUME CameraInv, NEW id \in Camera!Cameras, Camera!camera_get_parameters(id)
  PROVE  CameraInv'
<1> DEFINE new == [string |-> strings + 1, params |-> Camera!camera_fixup_getparams(vendor[id])]
<1>1. /\ strings' = strings + 1 /\ live' = live \cup {strings + 1}
      /\ given' = given \cup {new}
      /\ UNCHANGED <<fixed_set_params, devices, setting, vendor, badFree, badUse, overlap>>
  BY DEF Camera!camera_get_parameters
<1>2. CameraTypes
  BY DEF CameraInv
<1>3. new.string = strings + 1 /\ new.params \in Camera!Params
  BY <1>2 DEF Camera!camera_fixup_getparams, Camera!Params, CameraTypes
<1>4. /\ strings \in Nat /\ 0..strings \subseteq 0..(strings + 1)
      /\ 1..strings \subseteq 1..(strings + 1)
      /\ strings + 1 \in 1..(strings + 1) /\ strings + 1 \notin 0..strings
      /\ \A n \in 1..strings : n \in 0..strings
  BY <1>2 DEF CameraTypes
<1>5. new \in [string: 1..(strings + 1), params: Camera!Params]
  BY <1>3, <1>4
<1> HIDE DEF new
<1>6. CameraTypes'
  <2>1. /\ fixed_set_params \in [Camera!Cameras -> 0..(strings + 1)]
        /\ setting \in [Camera!Cameras -> 0..(strings + 1)]
    BY <1>2, <1>4 DEF CameraTypes
  <2>2. given' \subseteq [string: 1..(strings + 1), params: Camera!Params]
    BY <1>1, <1>2, <1>4, <1>5 DEF CameraTypes
  <2>3. live' \subseteq 1..(strings + 1) /\ strings' \in Nat
    BY <1>1, <1>2, <1>4 DEF CameraTypes
  <2> QED
    BY <1>1, <1>2, <2>1, <2>2, <2>3 DEF CameraTypes
<1>7. StringsAreSafe'
  BY <1>1 DEF CameraInv, StringsAreSafe, Camera!StringsAreSafe
<1>8. ASSUME ~overlap PROVE OneOwner'
  <2>1. OneOwner
    BY <1>8 DEF CameraInv
  <2>2. /\ \A g \in given : g.string # strings + 1
        /\ \A c \in Camera!Cameras : setting[c] # strings + 1 /\ fixed_set_params[c] # strings + 1
    BY <1>2, <1>4 DEF CameraTypes
  <2> QED
    BY <1>1, <1>3, <2>1, <2>2 DEF OneOwner
<1> QED
  BY <1>1, <1>6, <1>7, <1>8 DEF CameraInv

LEMMA PutParametersStep ==
  ASSUME CameraInv, NEW id \in Camera!Cameras, NEW p \in given,
         Camera!camera_put_parameters(id, p)
  PROVE  CameraInv'
<1>1. /\ id \in devices /\ live' = live \ {p.string} /\ given' = given \ {p}
      /\ UNCHANGED <<fixed_set_params, devices, setting, vendor, strings, badUse, overlap>>
  BY DEF Camera!camera_put_parameters
<1>2. badFree' = (badFree \/ p.string \notin live)
  BY DEF Camera!camera_put_parameters
<1>3. CameraTypes'
  BY <1>1 DEF CameraInv, CameraTypes
<1>4. StringsAreSafe'
  BY <1>1, <1>2 DEF CameraInv, OneOwner, StringsAreSafe, Camera!StringsAreSafe
<1>5. ~overlap' => OneOwner'
  BY <1>1 DEF CameraInv, OneOwner
<1> QED
  BY <1>3, <1>4, <1>5 DEF CameraInv

LEMMA CameraStep == CameraInv /\ [Camera!Next]_(Camera!vars) => CameraInv'
<1> SUFFICES ASSUME CameraInv, [Camera!Next]_(Camera!vars) PROVE CameraInv'
  OBVIOUS
<1>1. CASE UNCHANGED Camera!vars
  <2>1. UNCHANGED <<fixed_set_params, devices, setting, vendor, given, live, strings, badFree,
                    badUse, overlap>>
    BY <1>1 DEF Camera!vars
  <2> QED
    BY <2>1 DEF CameraInv, CameraTypes, OneOwner, StringsAreSafe, Camera!StringsAreSafe
<1> QED
  BY <1>1, OpenStep, CloseStep, SetParametersStep, VendorReadsStep, GetParametersStep,
     PutParametersStep DEF Camera!Next

(***************************************************************************)
(* While cameras are opened one at a time, none of the wrapper's parameter *)
(* strings is freed twice or used after its free, whatever the vendor's    *)
(* HAL answers and however many cameras there are, although                *)
(* camera_device_close leaves the freed strings in fixed_set_params.       *)
(***************************************************************************)
THEOREM NoStringFreedTwice == Camera!Spec => []StringsAreSafe
<1>1. Camera!Init => CameraInv
  <2> SUFFICES ASSUME Camera!Init PROVE CameraInv
    OBVIOUS
  <2>1. CameraTypes
    BY DEF Camera!Init, CameraTypes, Camera!Params, Camera!NULL
  <2>2. StringsAreSafe /\ OneOwner
    BY DEF Camera!Init, Camera!NULL, OneOwner, StringsAreSafe, Camera!StringsAreSafe
  <2> QED
    BY <2>1, <2>2 DEF CameraInv
<1>2. CameraInv => StringsAreSafe
  BY DEF CameraInv
<1> QED
  BY <1>1, <1>2, CameraStep, PTL DEF Camera!Spec

-----------------------------------------------------------------------------
(* The adapters of the core library.                                       *)

\* The operators of the library that LocApi uses.
LEMMA ApiOperators ==
  \A s : Api!ToSet(s) = ToSet(s)
<1>1. ASSUME NEW s PROVE Api!ToSet(s) = ToSet(s)
  BY DEF Api!ToSet, ToSet
<1> QED
  BY <1>1

\* No element of a sequence is at two places.
Distinct(s) == \A i, j \in 1..Len(s) : s[i] = s[j] => i = j

\* An array without gaps.
Whole(s) == \A k \in 1..Len(s) : s[k] # "NULL"

Cells == Adapters \cup {"NULL"}
Changes == [at : {"no", "gone"}] \cup [at : {"added"}, a : Adapters]
             \cup [at : {"gap", "twice"}, j : Nat]

\* An array whose change is at h: it has one gap, or the last adapter twice, or neither.
InOrder(s, h) ==
  /\ h.at \in {"no", "added", "gone"} => Whole(s) /\ Distinct(s)
  /\ h.at = "gap" => /\ h.j \in 1..Len(s) /\ Distinct(s)
                     /\ \A k \in 1..Len(s) : s[k] = "NULL" <=> k = h.j
  /\ h.at = "twice" => /\ h.j \in 1..Len(s) /\ s[h.j] = s[Len(s)]
                       /\ \A k \in 1..(Len(s) - 1) : s[k] # "NULL"
                       /\ \A k, m \in 1..(Len(s) - 1) : s[k] = s[m] => k = m

\* An adapter that was created is in at most one of the arrays.
ArraysInv == /\ created \subseteq Adapters
             /\ mLocAdapters \in [Api!Contexts -> Seq(Cells)]
             /\ change \in [Api!Contexts -> Changes]
             /\ \A c \in Api!Contexts : /\ InOrder(mLocAdapters[c], change[c])
                                        /\ ToSet(mLocAdapters[c]) \subseteq created \cup {"NULL"}
             /\ \A c, d \in Api!Contexts :
                  c # d => ToSet(mLocAdapters[c]) \cap ToSet(mLocAdapters[d]) \subseteq {"NULL"}

Walks == [at : {"all", "first"}, i : Nat \ {0}, got : [Adapters -> Nat], torn : SUBSET Adapters]

\* A thread that has still to come to element k has not delivered to its adapter,
\* unless the array has it twice.
NotYet(s, h, w, k) ==
  \/ w.got[s[k]] = 0
  \/ h.at = "twice" /\ k = Len(s) /\ s[k] \in w.torn /\ w.got[s[k]] = 1

WalksOn(s, h, w) == /\ \A a \in Adapters : /\ w.got[a] > 0 => a \in created
                                           /\ w.got[a] <= IF a \in w.torn THEN 2 ELSE 1
                    /\ \A k \in w.i..Len(s) : s[k] # "NULL" => NotYet(s, h, w, k)

WalksInv ==
  /\ walk \in [Api!Contexts -> Walks \cup {Api!Idle}]
  /\ \A c \in Api!Contexts : walk[c] \in Walks => WalksOn(mLocAdapters[c], change[c], walk[c])

Messages == [op : {"Open"}, c : Api!Contexts, mask : Api!Mask] \cup [op : {"Ssr"}, c : Api!Contexts]

SetUpTypes == /\ contexts \subseteq Api!Contexts /\ modem \subseteq contexts
              /\ mEvtMask \in [Adapters -> Api!Mask]
              /\ registered \in [Api!Contexts -> Api!Mask]
              /\ q \in Seq(Messages)

\* The modem has the feature configuration, unless the context that injects it
\* has still to hear of the modem's restart.
Injects == /\ contexts = {} => mInjectContext = "NULL"
           /\ contexts # {} => /\ mInjectContext \in contexts
                               /\ configured \/ mInjectContext \in modem

\* The message m of context c asks for event e, or for all that its adapters want.
AsksFor(m, c, e) == m.c = c /\ (m.op = "Ssr" \/ (m.op = "Open" /\ e \in m.mask))

\* Event e of context c was asked for, or a waiting message will do so.
Asked(asked, msgs, c, e) == e \in asked \/ \E j \in 1..Len(msgs) : AsksFor(msgs[j], c, e)

\* The adapters of a context, but for the one whose message is still to be sent.  A
\* removal sends one for them all at its end.
Settled(c) == IF change[c].at \in {"no", "added"}
              THEN {a \in ToSet(mLocAdapters[c]) : change[c].at = "added" => a # change[c].a}
              ELSE {}

\* The adapters of a context that knows the modem is up will have their events.
WillBeAsked(c) == \A a \in Settled(c) :
                    \A e \in mEvtMask[a] \ Api!ExcludedMask(c) : Asked(registered[c], q, c, e)

SetUpInv == /\ SetUpTypes /\ Injects
            /\ \A c \in Api!Contexts : c \notin contexts => mLocAdapters[c] = <<>>
            /\ \A c \in contexts \ modem : WillBeAsked(c)

ApiInv == ArraysInv /\ WalksInv /\ SetUpInv

LEMMA WalkState ==
  ASSUME NEW w \in Walks \cup {Api!Idle}
  PROVE  w # Api!Idle <=> w \in Walks
<1>1. Api!Idle \notin Walks
  <2>1. Api!Idle.at = "idle"
    BY DEF Api!Idle
  <2>2. \A x \in Walks : x.at # "idle"
    BY DEF Walks
  <2> QED
    BY <2>1, <2>2
<1> QED
  BY <1>1

LEMMA InSequence ==
  ASSUME NEW S, NEW s \in Seq(S)
  PROVE  /\ ToSet(s) \subseteq S
         /\ \A k \in 1..Len(s) : s[k] \in ToSet(s)
         /\ \A x \in ToSet(s) : \E k \in 1..Len(s) : s[k] = x
BY DEF ToSet

LEMMA Appended ==
  ASSUME NEW S, NEW s \in Seq(S), NEW x \in S
  PROVE  /\ Append(s, x) \in Seq(S) /\ Len(Append(s, x)) = Len(s) + 1
         /\ \A k \in 1..(Len(s) + 1) : Append(s, x)[k] = IF k = Len(s) + 1 THEN x ELSE s[k]
         /\ ToSet(Append(s, x)) = ToSet(s) \cup {x}
         /\ Distinct(s) /\ x \notin ToSet(s) => Distinct(Append(s, x))
<1> DEFINE t == Append(s, x)
<1>1. /\ t \in Seq(S) /\ Len(s) \in Nat /\ Len(t) = Len(s) + 1
      /\ \A k \in 1..(Len(s) + 1) : t[k] = IF k = Len(s) + 1 THEN x ELSE s[k]
  OBVIOUS
<1> HIDE DEF t
<1>2. ToSet(t) = ToSet(s) \cup {x}
  <2>1. ToSet(t) \subseteq ToSet(s) \cup {x}
    BY <1>1, InSequence
  <2>2. ToSet(s) \subseteq ToSet(t) /\ x \in ToSet(t)
    BY <1>1, InSequence
  <2> QED
    BY <2>1, <2>2
<1>3. ASSUME Distinct(s), x \notin ToSet(s) PROVE Distinct(t)
  <2>1. \A k \in 1..Len(s) : s[k] # x
    BY <1>3, InSequence
  <2> QED
    BY <1>1, <1>3, <2>1 DEF Distinct
<1> QED
  BY <1>1, <1>2, <1>3 DEF t

\* The array t, which s was made into with its change at h: what it holds was in it,
\* at the same place or behind it, and not at the end if it was there twice.
MovedUp(s, h, t) ==
  \A k \in 1..Len(t) :
    \/ t[k] = "NULL"
    \/ \E m \in k..Len(s) : t[k] = s[m] /\ (h.at = "twice" => m # Len(s))

LEMMA MovedUpSet ==
  ASSUME NEW s \in Seq(Cells), NEW t \in Seq(Cells), NEW h, MovedUp(s, h, t)
  PROVE  ToSet(t) \subseteq ToSet(s) \cup {"NULL"}
<1> SUFFICES ASSUME NEW x \in ToSet(t), x # "NULL" PROVE x \in ToSet(s)
  OBVIOUS
<1>1. PICK k \in 1..Len(t) : t[k] = x
  BY InSequence
<1>2. PICK m \in k..Len(s) : t[k] = s[m]
  BY <1>1 DEF MovedUp
<1>3. m \in 1..Len(s)
  BY <1>1, <1>2
<1> QED
  BY <1>1, <1>2, <1>3, InSequence

\* The three writes of removeAdapter.
LEMMA GapMade ==
  ASSUME NEW s \in Seq(Cells), NEW j \in 1..Len(s), Whole(s), Distinct(s), NEW t, NEW h, NEW g,
         t = [s EXCEPT ![j] = "NULL"], h = [at |-> "gap", j |-> j], g.at # "twice"
  PROVE  t \in Seq(Cells) /\ InOrder(t, h) /\ MovedUp(s, g, t)
<1>1. Len(s) \in Nat /\ t \in Seq(Cells) /\ Len(t) = Len(s)
  BY DEF Cells
<1>2. \A k \in 1..Len(s) : t[k] = IF k = j THEN "NULL" ELSE s[k]
  OBVIOUS
<1>3. InOrder(t, h)
  BY <1>1, <1>2 DEF InOrder, Whole, Distinct
<1>4. MovedUp(s, g, t)
  <2> SUFFICES ASSUME NEW k \in 1..Len(s), t[k] # "NULL" PROVE \E m \in k..Len(s) : t[k] = s[m]
    BY <1>1 DEF MovedUp
  <2>1. k \in k..Len(s) /\ t[k] = s[k]
    BY <1>1, <1>2
  <2> QED
    BY <2>1
<1> QED
  BY <1>1, <1>3, <1>4

LEMMA GapFilled ==
  ASSUME NEW s \in Seq(Cells), NEW g, InOrder(s, g), g.at = "gap", NEW t, NEW h,
         t = Api!LastToGap(s, g.j), h = [at |-> "twice", j |-> g.j]
  PROVE  t \in Seq(Cells) /\ InOrder(t, h) /\ MovedUp(s, g, t)
<1> DEFINE n == Len(s)
           j == g.j
<1>1. n \in Nat /\ j \in 1..n /\ n \in 1..n
  BY DEF InOrder
<1>2. t = [s EXCEPT ![j] = s[n]] /\ s[n] \in Cells
  BY <1>1 DEF Api!LastToGap
<1>3. t \in Seq(Cells) /\ Len(t) = n /\ \A k \in 1..n : t[k] = IF k = j THEN s[n] ELSE s[k]
  BY <1>1, <1>2
<1>4. Distinct(s) /\ \A k \in 1..n : s[k] = "NULL" <=> k = j
  BY DEF InOrder
<1>5. h.at = "twice" /\ h.j = j
  OBVIOUS
<1> HIDE DEF n, j
<1>6. \A k \in 1..(n - 1) : k \in 1..n /\ k # n
  BY <1>1
<1>7. t[j] = t[n]
  BY <1>1, <1>3
<1>8. \A k \in 1..(n - 1) : t[k] # "NULL"
  BY <1>1, <1>3, <1>4, <1>6
<1>9. ASSUME NEW k \in 1..(n - 1), NEW m \in 1..(n - 1), t[k] = t[m] PROVE k = m
  BY <1>1, <1>3, <1>4, <1>6, <1>9, SMTT(30) DEF Distinct, n
<1>10. InOrder(t, h)
  BY <1>1, <1>3, <1>5, <1>7, <1>8, <1>9 DEF InOrder
<1>11. MovedUp(s, g, t)
  <2> SUFFICES ASSUME NEW k \in 1..n PROVE \E m \in k..n : t[k] = s[m]
    BY <1>3 DEF MovedUp, n
  <2>1. n \in k..n /\ k \in k..n
    BY <1>1
  <2> QED
    BY <1>3, <2>1
<1> QED
  BY <1>3, <1>10, <1>11

LEMMA LastDropped ==
  ASSUME NEW s \in Seq(Cells), NEW g, InOrder(s, g), g.at = "twice", NEW t, NEW h,
         t = Api!DropLast(s), h.at = "gone"
  PROVE  t \in Seq(Cells) /\ InOrder(t, h) /\ MovedUp(s, g, t)
<1> DEFINE n == Len(s)
<1>1. n \in Nat /\ n >= 1
  BY DEF InOrder
<1>2. t = SubSeq(s, 1, n - 1) /\ n - 1 \in 0..Len(s) /\ Len(s) = n
  BY <1>1 DEF Api!DropLast
<1> HIDE DEF n
<1>3. t \in Seq(Cells) /\ Len(t) = n - 1 /\ \A k \in 1..(n - 1) : t[k] = s[k]
  <2>1. /\ SubSeq(s, 1, n - 1) \in Seq(Cells) /\ Len(SubSeq(s, 1, n - 1)) = n - 1
        /\ \A k \in 1..(n - 1) : SubSeq(s, 1, n - 1)[k] = s[k]
    BY <1>1, <1>2
  <2> QED
    BY <1>2, <2>1
<1> USE DEF n
<1>4. /\ \A k \in 1..(n - 1) : s[k] # "NULL"
      /\ \A k, m \in 1..(n - 1) : s[k] = s[m] => k = m
  BY DEF InOrder
<1> HIDE DEF n
<1>5. InOrder(t, h)
  BY <1>3, <1>4, SMTT(30) DEF InOrder, Whole, Distinct
<1>6. MovedUp(s, g, t)
  <2> SUFFICES ASSUME NEW k \in 1..(n - 1) PROVE \E m \in k..n : t[k] = s[m] /\ m # n
    BY <1>3 DEF MovedUp, n
  <2>1. k \in k..n /\ k # n
    BY <1>1
  <2> QED
    BY <1>3, <2>1
<1> QED
  BY <1>3, <1>5, <1>6

\* What an action that changes the array of context c makes of it: nothing it holds is
\* new but what is created then, and the rest moved up.
ArrayFrom(c, t, h) ==
  /\ mLocAdapters' = [mLocAdapters EXCEPT ![c] = t]
  /\ change' = [change EXCEPT ![c] = h]
  /\ t \in Seq(Cells) /\ h \in Changes /\ InOrder(t, h)
  /\ ToSet(t) \subseteq created' \cup {"NULL"}
  /\ \A k \in 1..Len(t) :
       \/ t[k] = "NULL" \/ t[k] \notin created
       \/ \E m \in k..Len(mLocAdapters[c]) :
            /\ t[k] = mLocAdapters[c][m]
            /\ change[c].at = "twice" => m # Len(mLocAdapters[c])

Alters(c) == \/ \E a \in Adapters : Api!addAdapter(a, c, Events) \/ Api!removeAdapter(a, c)
             \/ Api!AskForAdded(c) \/ Api!MoveLast(c) \/ Api!AskForRest(c)

LEMMA AltersArray ==
  ASSUME ArraysInv, NEW c \in Api!Contexts, Alters(c)
  PROVE  /\ created \subseteq created' /\ created' \subseteq Adapters /\ walk' = walk
         /\ \E t, h : ArrayFrom(c, t, h)
<1> DEFINE s == mLocAdapters[c]
           g == change[c]
<1>1. s \in Seq(Cells) /\ g \in Changes /\ InOrder(s, g) /\ ToSet(s) \subseteq created \cup {"NULL"}
  BY DEF ArraysInv
<1>2. created \subseteq created' /\ created' \subseteq Adapters /\ walk' = walk
  BY DEF Alters, ArraysInv, Api!addAdapter, Api!removeAdapter, Api!AskForAdded, Api!MoveLast,
         Api!AskForRest
<1>3. ASSUME NEW t, NEW h \in Changes, t \in Seq(Cells), InOrder(t, h), MovedUp(s, g, t),
             mLocAdapters' = [mLocAdapters EXCEPT ![c] = t], change' = [change EXCEPT ![c] = h]
      PROVE  ArrayFrom(c, t, h)
  <2>1. ToSet(t) \subseteq created' \cup {"NULL"}
    BY <1>1, <1>2, <1>3, MovedUpSet
  <2> QED
    BY <1>3, <2>1 DEF ArrayFrom, MovedUp
<1>4. ASSUME NEW h \in Changes, InOrder(s, h), g.at # "twice",
             mLocAdapters' = mLocAdapters, change' = [change EXCEPT ![c] = h]
      PROVE  ArrayFrom(c, s, h)
  <2>1. MovedUp(s, g, s)
    BY <1>1, <1>4 DEF MovedUp
  <2>2. mLocAdapters' = [mLocAdapters EXCEPT ![c] = s]
    BY <1>4 DEF ArraysInv
  <2> QED
    BY <1>1, <1>3, <1>4, <2>1, <2>2
<1>5. ASSUME NEW a \in Adapters, Api!addAdapter(a, c, Events) PROVE \E t, h : ArrayFrom(c, t, h)
  <2>1. g.at = "no" /\ a \notin created /\ created' = created \cup {a}
    BY <1>5 DEF Api!addAdapter, Api!NoChange
  <2>2. CASE UNCHANGED <<mLocAdapters, change>>
    <3>1. change' = [change EXCEPT ![c] = g]
      BY <2>2 DEF ArraysInv
    <3> QED
      BY <1>1, <1>4, <2>1, <2>2, <3>1
  <2>3. CASE /\ mLocAdapters' = [mLocAdapters EXCEPT ![c] = Append(s, a)]
             /\ change' = [change EXCEPT ![c] = [at |-> "added", a |-> a]]
    <3> DEFINE t == Append(s, a)
               h == [at |-> "added", a |-> a]
    <3>1. h \in Changes /\ h.at = "added"
      BY DEF Changes
    <3>2. a \in Cells /\ a # "NULL" /\ a \notin ToSet(s)
      BY <1>1, <2>1, PartsAssumption DEF Cells
    <3>3. Whole(s) /\ Distinct(s)
      BY <1>1, <2>1 DEF InOrder
    <3>4. /\ t \in Seq(Cells) /\ Len(t) = Len(s) + 1 /\ Len(s) \in Nat /\ Distinct(t)
          /\ \A k \in 1..(Len(s) + 1) : t[k] = IF k = Len(s) + 1 THEN a ELSE s[k]
          /\ ToSet(t) = ToSet(s) \cup {a}
      BY <1>1, <3>2, <3>3, Appended
    <3>5. mLocAdapters' = [mLocAdapters EXCEPT ![c] = t] /\ change' = [change EXCEPT ![c] = h]
      BY <2>3
    <3> HIDE DEF t, h
    <3>6. InOrder(t, h)
      BY <3>1, <3>2, <3>3, <3>4 DEF InOrder, Whole
    <3>7. \A k \in 1..Len(t) :
            t[k] \notin created
            \/ \E m \in k..Len(s) : t[k] = s[m] /\ (g.at = "twice" => m # Len(s))
      <4> TAKE k \in 1..Len(t)
      <4>1. k = Len(s) + 1 \/ k \in k..Len(s)
        BY <3>4
      <4> QED
        BY <2>1, <3>4, <4>1
    <3> QED
      BY <1>1, <2>1, <3>1, <3>4, <3>5, <3>6, <3>7 DEF ArrayFrom
  <2> QED
    BY <1>5, <2>2, <2>3 DEF Api!addAdapter
<1>6. ASSUME NEW a \in Adapters, Api!removeAdapter(a, c) PROVE \E t, h : ArrayFrom(c, t, h)
  <2>1. PICK j \in DOMAIN s : /\ mLocAdapters' = [mLocAdapters EXCEPT ![c][j] = "NULL"]
                              /\ change' = [change EXCEPT ![c] = [at |-> "gap", j |-> j]]
    BY <1>6 DEF Api!removeAdapter
  <2> DEFINE t == [s EXCEPT ![j] = "NULL"]
             h == [at |-> "gap", j |-> j]
  <2>2. j \in 1..Len(s) /\ g.at = "no"
    BY <1>1, <1>6 DEF Api!removeAdapter, Api!NoChange
  <2>3. mLocAdapters' = [mLocAdapters EXCEPT ![c] = t] /\ change' = [change EXCEPT ![c] = h]
    BY <2>1 DEF ArraysInv
  <2>4. h \in Changes
    BY <2>2 DEF Changes
  <2>5. Whole(s) /\ Distinct(s)
    BY <1>1, <2>2 DEF InOrder
  <2>6. t \in Seq(Cells) /\ InOrder(t, h) /\ MovedUp(s, g, t)
    BY <1>1, <2>2, <2>5, GapMade
  <2> HIDE DEF t, h
  <2> QED
    BY <1>3, <2>3, <2>4, <2>6
<1>7. ASSUME Api!AskForAdded(c) PROVE \E t, h : ArrayFrom(c, t, h)
  <2>1. /\ g.at = "added" /\ mLocAdapters' = mLocAdapters
        /\ change' = [change EXCEPT ![c] = Api!NoChange]
    BY <1>7 DEF Api!AskForAdded
  <2>2. Api!NoChange \in Changes /\ Api!NoChange.at = "no"
    BY DEF Api!NoChange, Changes
  <2>3. InOrder(s, Api!NoChange)
    BY <1>1, <2>1, <2>2 DEF InOrder
  <2> QED
    BY <1>4, <2>1, <2>2, <2>3
<1>8. ASSUME Api!MoveLast(c) PROVE \E t, h : ArrayFrom(c, t, h)
  <2>1. CASE /\ g.at = "gap"
             /\ mLocAdapters' = [mLocAdapters EXCEPT ![c] = Api!LastToGap(s, g.j)]
             /\ change' = [change EXCEPT ![c] = [at |-> "twice", j |-> g.j]]
    <3> DEFINE t == Api!LastToGap(s, g.j)
               h == [at |-> "twice", j |-> g.j]
    <3>1. g.j \in Nat
      BY <1>1, <2>1 DEF InOrder
    <3>2. h \in Changes
      BY <3>1 DEF Changes
    <3>3. t \in Seq(Cells) /\ InOrder(t, h) /\ MovedUp(s, g, t)
      BY <1>1, <2>1, GapFilled
    <3>4. mLocAdapters' = [mLocAdapters EXCEPT ![c] = t] /\ change' = [change EXCEPT ![c] = h]
      BY <2>1
    <3> HIDE DEF t, h
    <3> QED
      BY <1>3, <3>2, <3>3, <3>4
  <2>2. CASE /\ g.at = "twice"
             /\ mLocAdapters' = [mLocAdapters EXCEPT ![c] = Api!DropLast(s)]
             /\ change' = [change EXCEPT ![c] = [at |-> "gone"]]
    <3> DEFINE t == Api!DropLast(s)
               h == [at |-> "gone"]
    <3>1. h \in Changes /\ h.at = "gone"
      BY DEF Changes
    <3>2. t \in Seq(Cells) /\ InOrder(t, h) /\ MovedUp(s, g, t)
      BY <1>1, <2>2, <3>1, LastDropped
    <3>3. mLocAdapters' = [mLocAdapters EXCEPT ![c] = t] /\ change' = [change EXCEPT ![c] = h]
      BY <2>2
    <3> HIDE DEF t, h
    <3> QED
      BY <1>3, <3>1, <3>2, <3>3
  <2> QED
    BY <1>8, <2>1, <2>2 DEF Api!MoveLast, ArraysInv
<1>9. ASSUME Api!AskForRest(c) PROVE \E t, h : ArrayFrom(c, t, h)
  <2>1. /\ g.at = "gone" /\ mLocAdapters' = mLocAdapters
        /\ change' = [change EXCEPT ![c] = Api!NoChange]
    BY <1>9 DEF Api!AskForRest
  <2>2. Api!NoChange \in Changes /\ Api!NoChange.at = "no"
    BY DEF Api!NoChange, Changes
  <2>3. InOrder(s, Api!NoChange)
    BY <1>1, <2>1, <2>2 DEF InOrder
  <2> QED
    BY <1>4, <2>1, <2>2, <2>3
<1> QED
  BY <1>2, <1>5, <1>6, <1>7, <1>8, <1>9 DEF Alters

LEMMA ArraysChange ==
  ASSUME ArraysInv, NEW c \in Api!Contexts, Alters(c)
  PROVE  ArraysInv'
<1>1. PICK t, h : ArrayFrom(c, t, h)
  BY AltersArray
<1>2. created \subseteq created' /\ created' \subseteq Adapters
  BY AltersArray
<1>3. /\ mLocAdapters' \in [Api!Contexts -> Seq(Cells)] /\ change' \in [Api!Contexts -> Changes]
      /\ mLocAdapters'[c] = t /\ change'[c] = h
      /\ \A d \in Api!Contexts : d # c => /\ mLocAdapters'[d] = mLocAdapters[d]
                                          /\ change'[d] = change[d]
  BY <1>1 DEF ArraysInv, ArrayFrom
<1>4. t \in Seq(Cells) /\ InOrder(t, h) /\ ToSet(t) \subseteq created' \cup {"NULL"}
  BY <1>1 DEF ArrayFrom
<1>5. \A d \in Api!Contexts : /\ InOrder(mLocAdapters'[d], change'[d])
                              /\ ToSet(mLocAdapters'[d]) \subseteq created' \cup {"NULL"}
  BY <1>2, <1>3, <1>4 DEF ArraysInv
<1>6. ASSUME NEW x \in ToSet(t), x # "NULL", x \in created PROVE x \in ToSet(mLocAdapters[c])
  <2>1. PICK k \in 1..Len(t) : t[k] = x
    BY <1>4, InSequence
  <2>2. PICK m \in k..Len(mLocAdapters[c]) : t[k] = mLocAdapters[c][m]
    BY <1>1, <1>6, <2>1 DEF ArrayFrom
  <2>3. m \in 1..Len(mLocAdapters[c]) /\ mLocAdapters[c] \in Seq(Cells)
    BY <2>1, <2>2 DEF ArraysInv
  <2> QED
    BY <2>1, <2>2, <2>3, InSequence
<1>7. ASSUME NEW d \in Api!Contexts, d # c
      PROVE  ToSet(t) \cap ToSet(mLocAdapters[d]) \subseteq {"NULL"}
  BY <1>6, <1>7 DEF ArraysInv
<1>8. \A d, e \in Api!Contexts :
        d # e => ToSet(mLocAdapters'[d]) \cap ToSet(mLocAdapters'[e]) \subseteq {"NULL"}
  <2> SUFFICES ASSUME NEW d \in Api!Contexts, NEW e \in Api!Contexts, d # e
               PROVE  ToSet(mLocAdapters'[d]) \cap ToSet(mLocAdapters'[e]) \subseteq {"NULL"}
    OBVIOUS
  <2>1. CASE d = c
    BY <1>3, <1>7, <2>1
  <2>2. CASE e = c
    BY <1>3, <1>7, <2>2
  <2>3. CASE d # c /\ e # c
    BY <1>3, <2>3 DEF ArraysInv
  <2> QED
    BY <2>1, <2>2, <2>3
<1> QED
  BY <1>2, <1>3, <1>5, <1>8 DEF ArraysInv

LEMMA ArraysInit == ASSUME Api!Init PROVE ArraysInv
<1>1. /\ mLocAdapters = [c \in Api!Contexts |-> <<>>] /\ created = {}
      /\ change = [c \in Api!Contexts |-> Api!NoChange]
  BY DEF Api!Init
<1>2. Api!NoChange \in Changes /\ Api!NoChange.at = "no"
  BY DEF Changes, Api!NoChange
<1>3. ToSet(<<>>) = {} /\ InOrder(<<>>, Api!NoChange)
  BY <1>2 DEF ToSet, InOrder, Whole, Distinct
<1> QED
  BY <1>1, <1>2, <1>3 DEF ArraysInv

LEMMA ArraysStep == ArraysInv /\ [Api!Next]_(Api!vars) => ArraysInv'
<1> SUFFICES ASSUME ArraysInv, [Api!Next]_(Api!vars) PROVE ArraysInv'
  OBVIOUS
<1>1. ASSUME UNCHANGED <<mLocAdapters, change, created>> PROVE ArraysInv'
  BY <1>1 DEF ArraysInv
<1>2. ASSUME NEW c \in Api!Contexts, Alters(c) PROVE ArraysInv'
  BY <1>2, ArraysChange
<1>3. CASE UNCHANGED Api!vars
  BY <1>1, <1>3 DEF Api!vars
<1>4. CASE Api!proc \/ Api!ModemRestarts
  BY <1>1, <1>4 DEF Api!proc, Api!ModemRestarts
<1>5. ASSUME NEW c \in Api!Contexts,
             \/ Api!getLocContext(c) \/ Api!handleEngineUpEvent(c) \/ Api!deliver(c)
             \/ \E at \in {"all", "first"} : Api!report(c, at)
      PROVE  ArraysInv'
  BY <1>1, <1>5 DEF Api!getLocContext, Api!handleEngineUpEvent, Api!deliver, Api!report
<1>6. ASSUME NEW a \in Adapters, NEW c \in Api!Contexts, NEW event \in Events,
             Api!updateEvtMask(a, c, event)
      PROVE  ArraysInv'
  BY <1>1, <1>6 DEF Api!updateEvtMask
<1> QED
  BY <1>2, <1>3, <1>4, <1>5, <1>6 DEF Api!Next, Alters

\* While a thread walks, adapters may come that are new, and others may move
\* towards the start.
LEMMA WalksFrame ==
  ASSUME ArraysInv, WalksInv, NEW c \in Api!Contexts, Alters(c)
  PROVE  WalksInv'
<1>1. PICK t, h : ArrayFrom(c, t, h)
  BY AltersArray
<1>2. created \subseteq created' /\ walk' = walk
  BY AltersArray
<1>3. walk' \in [Api!Contexts -> Walks \cup {Api!Idle}]
  BY <1>2 DEF WalksInv
<1>4. /\ mLocAdapters'[c] = t /\ change'[c] = h /\ t \in Seq(Cells) /\ Len(t) \in Nat
      /\ \A d \in Api!Contexts : d # c => /\ mLocAdapters'[d] = mLocAdapters[d]
                                          /\ change'[d] = change[d]
  BY <1>1 DEF ArraysInv, ArrayFrom
<1>5. ASSUME NEW d \in Api!Contexts, walk[d] \in Walks
      PROVE  WalksOn(mLocAdapters[d], change[d], walk[d])'
  <2> DEFINE w == walk[d]
             s == mLocAdapters[d]
  <2>1. WalksOn(s, change[d], w) /\ w.i \in Nat /\ w.i >= 1 /\ w.got \in [Adapters -> Nat]
    BY <1>5 DEF WalksInv, Walks
  <2>2. \A a \in Adapters : /\ w.got[a] > 0 => a \in created'
                            /\ w.got[a] <= IF a \in w.torn THEN 2 ELSE 1
    BY <1>2, <2>1 DEF WalksOn
  <2>3. s \in Seq(Cells) /\ Len(s) \in Nat
    BY DEF ArraysInv
  <2>4. CASE d # c
    BY <1>2, <1>4, <2>1, <2>2, <2>4 DEF WalksOn
  <2>5. CASE d = c
    <3>1. ASSUME NEW k \in w.i..Len(t), t[k] # "NULL" PROVE w.got[t[k]] = 0
      <4>1. k \in 1..Len(t)
        BY <1>4, <2>1
      <4>2. t[k] \in Adapters
        BY <1>4, <3>1, <4>1 DEF Cells
      <4>3. CASE t[k] \notin created
        BY <2>1, <4>2, <4>3 DEF WalksOn
      <4>4. ASSUME NEW m \in k..Len(s), t[k] = s[m], change[d].at = "twice" => m # Len(s)
            PROVE  w.got[t[k]] = 0
        <5>1. m \in w.i..Len(s)
          BY <2>1, <2>3, <4>1
        <5>2. NotYet(s, change[d], w, m)
          BY <2>1, <3>1, <4>4, <5>1 DEF WalksOn
        <5> QED
          BY <4>4, <5>2 DEF NotYet
      <4> QED
        BY <1>1, <2>5, <3>1, <4>1, <4>3, <4>4 DEF ArrayFrom
    <3>2. WalksOn(t, h, w)'
      BY <1>2, <2>2, <3>1 DEF WalksOn, NotYet
    <3> QED
      BY <1>4, <2>2, <2>5, <3>1, <1>2 DEF WalksOn, NotYet
  <2> QED
    BY <2>4, <2>5
<1> QED
  BY <1>2, <1>3, <1>5 DEF WalksInv

LEMMA WalkStarts ==
  ASSUME WalksInv, NEW c \in Api!Contexts, NEW at \in {"all", "first"},
         walk' = [walk EXCEPT ![c] = Api!NewWalk(at)], ArraysInv,
         UNCHANGED <<mLocAdapters, change, created>>
  PROVE  WalksInv'
<1> DEFINE w == Api!NewWalk(at)
<1>1. /\ w \in Walks /\ w.got = [a \in Adapters |-> 0] /\ w.i = 1
  BY DEF Walks, Api!NewWalk
<1> HIDE DEF w
<1>2. WalksOn(mLocAdapters[c], change[c], w)
  <2>1. \A k \in 1..Len(mLocAdapters[c]) :
          mLocAdapters[c][k] # "NULL" => mLocAdapters[c][k] \in Adapters
    BY DEF ArraysInv, Cells
  <2> QED
    BY <1>1, <2>1 DEF WalksOn, NotYet
<1>3. walk' = [walk EXCEPT ![c] = w]
  BY DEF w
<1>4. walk' \in [Api!Contexts -> Walks \cup {Api!Idle}]
  BY <1>1, <1>3 DEF WalksInv
<1>5. ASSUME NEW d \in Api!Contexts, walk'[d] \in Walks
      PROVE  WalksOn(mLocAdapters[d], change[d], walk'[d])
  <2>1. CASE d = c
    BY <1>2, <1>3, <2>1 DEF WalksInv
  <2>2. CASE d # c
    BY <1>3, <1>5, <2>2 DEF WalksInv
  <2> QED
    BY <2>1, <2>2
<1> QED
  BY <1>4, <1>5 DEF WalksInv, WalksOn

\* What is at two places of an array is what a removal moves, and its second place the end.
LEMMA TwiceAtEnd ==
  ASSUME NEW s \in Seq(Cells), NEW h \in Changes, InOrder(s, h),
         NEW k \in 1..Len(s), NEW m \in 1..Len(s), k < m, s[k] = s[m]
  PROVE  h.at = "twice" /\ m = Len(s)
<1>1. Len(s) \in Nat /\ k # m
  OBVIOUS
<1>2. ~ Distinct(s)
  BY <1>1 DEF Distinct
<1>3. h.at \in {"no", "gone", "added", "gap", "twice"}
  BY DEF Changes
<1>4. h.at = "twice"
  BY <1>2, <1>3 DEF InOrder
<1>5. CASE m # Len(s)
  <2>1. k \in 1..(Len(s) - 1) /\ m \in 1..(Len(s) - 1)
    BY <1>1, <1>5
  <2> QED
    BY <1>1, <1>4, <2>1 DEF InOrder
<1> QED
  BY <1>4, <1>5

LEMMA DeliverStep ==
  ASSUME ArraysInv, WalksInv, NEW c \in Api!Contexts, Api!deliver(c)
  PROVE  WalksInv'
<1> DEFINE w == walk[c]
           s == mLocAdapters[c]
           h == change[c]
           a == s[w.i]
           D == Api!Doubled(c)
           n == [w EXCEPT !.i = w.i + 1, !.got[a] = w.got[a] + 1,
                          !.torn = w.torn \cup (D \cap {a})]
<1>1. w \in Walks
  BY WalkState DEF Api!deliver, WalksInv
<1>2. /\ w.i \in Nat /\ w.i >= 1 /\ w.got \in [Adapters -> Nat] /\ w.torn \subseteq Adapters
      /\ WalksOn(s, h, w)
  BY <1>1 DEF Walks, WalksInv
<1>3. s \in Seq(Cells) /\ Len(s) \in Nat /\ h \in Changes /\ InOrder(s, h)
  BY DEF ArraysInv
<1>4. UNCHANGED <<mLocAdapters, change, created>>
  BY DEF Api!deliver
<1>5. \/ walk' = [walk EXCEPT ![c] = Api!Idle]
      \/ w.i <= Len(s) /\ a # "NULL" /\ walk' = [walk EXCEPT ![c] = n]
  BY DEF Api!deliver
<1>6. CASE walk' = [walk EXCEPT ![c] = Api!Idle]
  <2>1. walk' \in [Api!Contexts -> Walks \cup {Api!Idle}]
    BY <1>6 DEF WalksInv
  <2>2. ASSUME NEW d \in Api!Contexts, walk'[d] \in Walks PROVE walk'[d] = walk[d]
    BY <1>6, <2>2, WalkState DEF WalksInv
  <2> QED
    BY <1>4, <2>1, <2>2 DEF WalksInv, WalksOn
<1>7. CASE w.i <= Len(s) /\ a # "NULL" /\ walk' = [walk EXCEPT ![c] = n]
  <2>1. w.i \in 1..Len(s) /\ a \in Adapters
    BY <1>2, <1>3, <1>7 DEF Cells
  <2>2. a \in created
    BY <1>3, <1>7, <2>1, InSequence DEF ArraysInv
  <2>3. /\ n.i = w.i + 1 /\ n.torn = w.torn \cup (D \cap {a})
        /\ n.got = [w.got EXCEPT ![a] = w.got[a] + 1] /\ n \in Walks
    <3> DEFINE G == [w.got EXCEPT ![a] = w.got[a] + 1]
               T == w.torn \cup (D \cap {a})
    <3>1. G \in [Adapters -> Nat] /\ T \in SUBSET Adapters /\ w.i + 1 \in Nat \ {0}
      BY <1>2, <2>1
    <3>2. n = [w EXCEPT !.i = w.i + 1, !.got = G, !.torn = T]
      BY <1>1 DEF Walks
    <3> HIDE DEF G, T, n, w
    <3>3. n.i = w.i + 1 /\ n.torn = T /\ n.got = G /\ n \in Walks
      BY <1>1, <3>1, <3>2 DEF Walks
    <3> QED
      BY <3>3 DEF G, T
  <2>4. NotYet(s, h, w, w.i)
    BY <1>2, <1>3, <1>7, <2>1 DEF WalksOn
  <2>5. D = IF h.at = "twice" THEN {s[Len(s)]} ELSE {}
    BY DEF Api!Doubled
  <2> HIDE DEF w, s, h, D, n
  <2>6. \A b \in Adapters : n.got[b] = IF b = a THEN w.got[a] + 1 ELSE w.got[b]
    BY <1>2, <2>1, <2>3
  <2>7. \A b \in Adapters : n.got[b] > 0 => b \in created
    BY <1>2, <2>2, <2>6 DEF WalksOn
  <2>8. ASSUME NEW b \in Adapters PROVE n.got[b] <= IF b \in n.torn THEN 2 ELSE 1
    <3>1. CASE b # a
      BY <1>2, <2>3, <2>6, <3>1 DEF WalksOn
    <3>2. CASE b = a
      BY <1>2, <2>3, <2>4, <2>6, <3>2 DEF NotYet
    <3> QED
      BY <3>1, <3>2
  <2>9. ASSUME NEW k \in n.i..Len(s), s[k] # "NULL" PROVE NotYet(s, h, n, k)
    <3>1. k \in w.i..Len(s) /\ k \in 1..Len(s) /\ w.i < k /\ w.i # Len(s)
      BY <1>2, <1>3, <2>1, <2>3
    <3>2. s[k] \in Adapters
      BY <1>3, <2>9, <3>1 DEF Cells
    <3>3. CASE s[k] # a
      <4>1. NotYet(s, h, w, k)
        BY <1>2, <2>9, <3>1 DEF WalksOn
      <4> QED
        BY <2>3, <2>6, <3>2, <3>3, <4>1 DEF NotYet
    <3>4. CASE s[k] = a
      <4>1. h.at = "twice" /\ k = Len(s)
        BY <1>3, <2>1, <3>1, <3>4, TwiceAtEnd
      <4>2. a \in n.torn
        BY <2>3, <2>5, <3>4, <4>1
      <4>3. w.got[a] = 0
        BY <2>4, <3>1 DEF NotYet
      <4>4. n.got[a] = 1
        BY <2>1, <2>6, <4>3
      <4> QED
        BY <3>4, <4>1, <4>2, <4>4 DEF NotYet
    <3> QED
      BY <3>3, <3>4
  <2>10. WalksOn(s, h, n)
    BY <2>7, <2>8, <2>9 DEF WalksOn
  <2>11. walk' \in [Api!Contexts -> Walks \cup {Api!Idle}]
    BY <1>7, <2>3 DEF WalksInv
  <2>12. ASSUME NEW d \in Api!Contexts, walk'[d] \in Walks
         PROVE  WalksOn(mLocAdapters[d], change[d], walk'[d])
    <3>1. CASE d = c
      BY <1>7, <2>10, <3>1 DEF WalksInv, s, h
    <3>2. CASE d # c
      BY <1>7, <2>12, <3>2 DEF WalksInv
    <3> QED
      BY <3>1, <3>2
  <2> QED
    BY <1>4, <2>11, <2>12 DEF WalksInv, WalksOn
<1> QED
  BY <1>5, <1>6, <1>7

LEMMA WalksStep == ArraysInv /\ WalksInv /\ [Api!Next]_(Api!vars) => WalksInv'
<1> SUFFICES ASSUME ArraysInv, WalksInv, [Api!Next]_(Api!vars) PROVE WalksInv'
  OBVIOUS
<1>1. ASSUME UNCHANGED <<walk, mLocAdapters, change, created>> PROVE WalksInv'
  BY <1>1 DEF WalksInv, WalksOn
<1>2. ASSUME NEW c \in Api!Contexts, Alters(c) PROVE WalksInv'
  BY <1>2, WalksFrame
<1>3. ASSUME NEW c \in Api!Contexts, Api!handleEngineUpEvent(c) PROVE WalksInv'
  BY <1>3, WalkStarts DEF Api!handleEngineUpEvent
<1>4. ASSUME NEW c \in Api!Contexts, NEW at \in {"all", "first"}, Api!report(c, at)
      PROVE  WalksInv'
  BY <1>4, WalkStarts DEF Api!report
<1>5. CASE UNCHANGED Api!vars
  BY <1>1, <1>5 DEF Api!vars
<1>6. CASE Api!proc \/ Api!ModemRestarts
  BY <1>1, <1>6 DEF Api!proc, Api!ModemRestarts
<1>7. ASSUME NEW c \in Api!Contexts, Api!getLocContext(c) PROVE WalksInv'
  BY <1>1, <1>7 DEF Api!getLocContext
<1>8. ASSUME NEW a \in Adapters, NEW c \in Api!Contexts, NEW event \in Events,
             Api!updateEvtMask(a, c, event)
      PROVE  WalksInv'
  BY <1>1, <1>8 DEF Api!updateEvtMask
<1> QED
  BY <1>2, <1>3, <1>4, <1>5, <1>6, <1>7, <1>8, DeliverStep DEF Api!Next, Alters

(***************************************************************************)
(* However adapters are created and deleted while the modem's thread walks *)
(* through mLocAdapters, and between any of the writes of removeAdapter,   *)
(* an adapter is delivered an event of the modem once at most; only one    *)
(* that was met while the array had it at two places may be delivered it   *)
(* twice (TO_ALL_ADAPTERS, LocApiBase::addAdapter, removeAdapter).         *)
(***************************************************************************)
THEOREM EventOnce == Api!Spec => []DeliveredOnce
<1>1. Api!Init => ArraysInv /\ WalksInv
  <2> SUFFICES ASSUME Api!Init PROVE ArraysInv /\ WalksInv
    OBVIOUS
  <2>1. ArraysInv
    BY ArraysInit
  <2>2. walk \in [Api!Contexts -> {Api!Idle}] /\ \A c \in Api!Contexts : walk[c] = Api!Idle
    BY DEF Api!Init
  <2>3. WalksInv
    BY <2>2, WalkState DEF WalksInv
  <2> QED
    BY <2>1, <2>3
<1>2. ArraysInv /\ WalksInv => DeliveredOnce
  <2> SUFFICES ASSUME WalksInv, NEW c \in Api!Contexts, walk[c] # Api!Idle, NEW a \in Adapters
               PROVE  walk[c].got[a] <= IF a \in walk[c].torn THEN 2 ELSE 1
    BY DEF DeliveredOnce, Api!DeliveredOnce
  <2> QED
    BY WalkState DEF WalksInv, WalksOn
<1> QED
  BY <1>1, <1>2, ArraysStep, WalksStep, PTL DEF Api!Spec

-----------------------------------------------------------------------------
(* What a modem that is up was asked for.                                  *)

\* A message more asks for more.
LEMMA MessageSent ==
  ASSUME NEW msgs \in Seq(Messages), NEW m \in Messages, NEW asked, NEW c, NEW e
  PROVE  /\ Append(msgs, m) \in Seq(Messages)
         /\ Asked(asked, msgs, c, e) => Asked(asked, Append(msgs, m), c, e)
         /\ AsksFor(m, c, e) => Asked(asked, Append(msgs, m), c, e)
<1> DEFINE t == Append(msgs, m)
<1>1. /\ t \in Seq(Messages) /\ Len(t) = Len(msgs) + 1 /\ Len(msgs) \in Nat
      /\ \A k \in 1..(Len(msgs) + 1) : t[k] = IF k = Len(msgs) + 1 THEN m ELSE msgs[k]
  BY Appended
<1> HIDE DEF t
<1>2. \A k \in 1..Len(msgs) : k \in 1..Len(t) /\ t[k] = msgs[k]
  BY <1>1
<1>3. Len(t) \in 1..Len(t) /\ t[Len(t)] = m
  BY <1>1
<1>4. Asked(asked, msgs, c, e) => Asked(asked, t, c, e)
  BY <1>2 DEF Asked
<1>5. AsksFor(m, c, e) => Asked(asked, t, c, e)
  BY <1>3 DEF Asked
<1> QED
  BY <1>1, <1>4, <1>5 DEF t

\* The first message is taken.
LEMMA MessageTaken ==
  ASSUME NEW msgs \in Seq(Messages), msgs # <<>>, NEW asked, NEW c, NEW e,
         Asked(asked, msgs, c, e)
  PROVE  /\ Head(msgs) \in Messages /\ Tail(msgs) \in Seq(Messages)
         /\ AsksFor(Head(msgs), c, e) \/ Asked(asked, Tail(msgs), c, e)
<1> DEFINE t == Tail(msgs)
<1>1. /\ t \in Seq(Messages) /\ Len(msgs) = Len(t) + 1 /\ Len(t) \in Nat
      /\ Head(msgs) = msgs[1] /\ Head(msgs) \in Messages
  OBVIOUS
<1>2. \A k \in 1..Len(t) : t[k] = msgs[k + 1]
  OBVIOUS
<1> HIDE DEF t
<1>3. ASSUME NEW k \in 1..Len(msgs), AsksFor(msgs[k], c, e)
      PROVE  AsksFor(Head(msgs), c, e) \/ Asked(asked, t, c, e)
  <2>1. CASE k = 1
    BY <1>1, <1>3, <2>1
  <2>2. CASE k # 1
    <3>1. k - 1 \in 1..Len(t) /\ (k - 1) + 1 = k
      BY <1>1, <2>2
    <3>2. t[k - 1] = msgs[k]
      BY <1>2, <3>1
    <3> QED
      BY <1>3, <3>1, <3>2 DEF Asked
  <2> QED
    BY <2>1, <2>2
<1>4. AsksFor(Head(msgs), c, e) \/ Asked(asked, t, c, e)
  BY <1>3 DEF Asked
<1> QED
  BY <1>1, <1>4 DEF t

\* The two messages.
LEMMA MessageFields ==
  ASSUME NEW c \in Api!Contexts, NEW mask \in Api!Mask, NEW e
  PROVE  /\ [op |-> "Open", c |-> c, mask |-> mask] \in Messages
         /\ e \in mask => AsksFor([op |-> "Open", c |-> c, mask |-> mask], c, e)
         /\ [op |-> "Ssr", c |-> c] \in Messages
         /\ AsksFor([op |-> "Ssr", c |-> c], c, e)
BY DEF Messages, AsksFor

\* What the adapters of an array want is a mask of events; without a gap, of all of them.
LEMMA WantedMask ==
  ASSUME NEW masks \in [Adapters -> Api!Mask], NEW s \in Seq(Cells), NEW c
  PROVE  /\ (UNION {masks[a] : a \in Api!Listed(s)}) \ Api!ExcludedMask(c) \in Api!Mask
         /\ Whole(s) => \A a \in ToSet(s) : \A e \in masks[a] \ Api!ExcludedMask(c) :
              e \in (UNION {masks[b] : b \in Api!Listed(s)}) \ Api!ExcludedMask(c)
<1>1. DOMAIN s = 1..Len(s) /\ Len(s) \in Nat
  OBVIOUS
<1>2. \A a \in Api!Listed(s) : a \in Adapters
  BY <1>1 DEF Api!Listed, Cells
<1>3. ASSUME Whole(s), NEW a \in ToSet(s) PROVE a \in Api!Listed(s)
  <2>1. PICK k \in 1..Len(s) : s[k] = a
    BY InSequence
  <2>2. \A n \in 1..k : n \in 1..Len(s)
    BY <1>1
  <2> QED
    BY <1>1, <1>3, <2>1, <2>2 DEF Api!Listed, Whole
<1>4. \A a \in Api!Listed(s) : masks[a] \subseteq Events
  BY <1>2 DEF Api!Mask
<1> QED
  BY <1>3, <1>4 DEF Api!Mask

\* The adapters of an array that were created.
LEMMA SettledAdapters ==
  ASSUME ArraysInv, NEW c \in Api!Contexts
  PROVE  /\ Settled(c) \subseteq ToSet(mLocAdapters[c]) \cap Adapters
         /\ Settled(c) # {} => Whole(mLocAdapters[c])
<1>1. ASSUME NEW a \in Settled(c) PROVE a \in Adapters /\ Whole(mLocAdapters[c])
  <2>1. change[c].at \in {"no", "added"} /\ a \in ToSet(mLocAdapters[c])
    BY <1>1 DEF Settled
  <2>2. Whole(mLocAdapters[c])
    BY <2>1 DEF ArraysInv, InOrder
  <2>3. a # "NULL"
    BY <2>1, <2>2, InSequence DEF ArraysInv, Whole
  <2> QED
    BY <2>1, <2>2, <2>3 DEF ArraysInv
<1> QED
  BY <1>1 DEF Settled

\* Actions that leave the contexts, the modem and the configuration alone.
LEMMA SetUpFrame ==
  ASSUME SetUpInv, UNCHANGED <<contexts, modem, mInjectContext, configured>>, SetUpTypes',
         \A c \in Api!Contexts : c \notin contexts => mLocAdapters'[c] = <<>>,
         \A c \in contexts \ modem : \A a \in Settled(c)' :
           \A e \in mEvtMask'[a] \ Api!ExcludedMask(c) : Asked(registered'[c], q', c, e)
  PROVE  SetUpInv'
<1>1. Injects'
  BY DEF SetUpInv, Injects
<1>2. \A c \in contexts' \ modem' : WillBeAsked(c)'
  BY DEF WillBeAsked
<1> QED
  BY <1>1, <1>2 DEF SetUpInv

\* An adapter in the array that is not settled yet.
LEMMA SetUpAdd ==
  ASSUME ArraysInv, SetUpInv, NEW a \in Adapters, NEW c \in Api!Contexts,
         Api!addAdapter(a, c, Events)
  PROVE  SetUpInv'
<1> DEFINE s == mLocAdapters[c]
           h == [at |-> "added", a |-> a]
<1>1. /\ c \in contexts /\ a \notin created /\ change[c] = Api!NoChange
      /\ mEvtMask' = [mEvtMask EXCEPT ![a] = Events]
      /\ UNCHANGED <<contexts, modem, mInjectContext, configured, registered, q>>
      /\ \/ /\ mLocAdapters' = [mLocAdapters EXCEPT ![c] = Append(s, a)]
            /\ change' = [change EXCEPT ![c] = h]
         \/ UNCHANGED <<mLocAdapters, change>>
  BY DEF Api!addAdapter
<1>2. s \in Seq(Cells) /\ a \in Cells /\ change[c].at = "no"
  BY <1>1 DEF ArraysInv, Cells, Api!NoChange
<1>3. SetUpTypes'
  BY <1>1 DEF SetUpInv, SetUpTypes, Api!Mask
<1>4. \A d \in Api!Contexts : d \notin contexts => mLocAdapters'[d] = <<>>
  BY <1>1 DEF SetUpInv, ArraysInv
<1>5. ASSUME NEW d \in Api!Contexts, NEW b \in Settled(d)' PROVE b \in Settled(d)
  <2>1. CASE UNCHANGED <<mLocAdapters, change>>
    BY <1>5, <2>1 DEF Settled
  <2>2. CASE d # c
    <3>1. mLocAdapters'[d] = mLocAdapters[d] /\ change'[d] = change[d]
      BY <1>1, <2>2 DEF ArraysInv
    <3> QED
      BY <1>5, <3>1 DEF Settled
  <2>3. CASE /\ d = c /\ mLocAdapters' = [mLocAdapters EXCEPT ![c] = Append(s, a)]
             /\ change' = [change EXCEPT ![c] = h]
    <3>1. mLocAdapters'[c] = Append(s, a) /\ change'[c] = h
      BY <2>3 DEF ArraysInv
    <3>2. b \in ToSet(Append(s, a)) /\ b # a
      BY <1>5, <2>3, <3>1 DEF Settled
    <3>3. b \in ToSet(s)
      BY <1>2, <3>2, Appended
    <3> QED
      BY <1>2, <2>3, <3>3 DEF Settled
  <2> QED
    BY <1>1, <2>1, <2>2, <2>3
<1>6. ASSUME NEW d \in contexts \ modem, NEW b \in Settled(d)',
             NEW e \in mEvtMask'[b] \ Api!ExcludedMask(d)
      PROVE  Asked(registered'[d], q', d, e)
  <2>1. d \in Api!Contexts
    BY DEF SetUpInv, SetUpTypes
  <2>2. b \in Settled(d) /\ b \in Adapters /\ b # a
    <3>1. b \in Settled(d)
      BY <1>5, <2>1
    <3>2. b \in created
      BY <2>1, <3>1, SettledAdapters, PartsAssumption DEF ArraysInv
    <3> QED
      BY <1>1, <2>1, <3>1, <3>2, SettledAdapters
  <2>3. e \in mEvtMask[b] \ Api!ExcludedMask(d)
    BY <1>1, <2>2 DEF SetUpInv, SetUpTypes
  <2> QED
    BY <1>1, <2>2, <2>3 DEF SetUpInv, WillBeAsked
<1> QED
  BY <1>1, <1>3, <1>4, <1>6, SetUpFrame

\* It is, once its message is in the queue.
LEMMA SetUpAsk ==
  ASSUME ArraysInv, SetUpInv, NEW c \in Api!Contexts, Api!AskForAdded(c)
  PROVE  SetUpInv'
<1> DEFINE a == change[c].a
           m == [op |-> "Open", c |-> c, mask |-> mEvtMask[a]]
<1>1. /\ change[c].at = "added" /\ change' = [change EXCEPT ![c] = Api!NoChange]
      /\ q' = Append(q, m)
      /\ UNCHANGED <<contexts, modem, mInjectContext, configured, registered, mLocAdapters,
                     mEvtMask>>
  BY DEF Api!AskForAdded, Api!sendOpen
<1>2. a \in Adapters /\ q \in Seq(Messages)
  BY <1>1 DEF ArraysInv, Changes, SetUpInv, SetUpTypes
<1>3. mEvtMask[a] \in Api!Mask
  BY <1>2 DEF SetUpInv, SetUpTypes
<1>4. m \in Messages /\ \A e \in mEvtMask[a] : AsksFor(m, c, e)
  BY <1>3, MessageFields
<1> HIDE DEF m
<1>5. SetUpTypes'
  <2>1. q' \in Seq(Messages)
    BY <1>1, <1>2, <1>4, MessageSent
  <2> QED
    BY <1>1, <2>1 DEF SetUpInv, SetUpTypes
<1>6. ASSUME NEW d \in contexts \ modem, NEW b \in Settled(d)',
             NEW e \in mEvtMask'[b] \ Api!ExcludedMask(d)
      PROVE  Asked(registered'[d], q', d, e)
  <2>1. d \in Api!Contexts
    BY DEF SetUpInv, SetUpTypes
  <2>2. CASE d = c /\ b = a
    <3>1. AsksFor(m, c, e)
      BY <1>1, <1>4, <2>2
    <3> QED
      BY <1>1, <1>2, <1>4, <2>2, <3>1, MessageSent
  <2>3. CASE ~(d = c /\ b = a)
    <3>1. b \in Settled(d)
      <4>1. b \in ToSet(mLocAdapters[d])
        BY <1>1, <1>6 DEF Settled
      <4>2. CASE d = c
        BY <1>1, <2>3, <4>1, <4>2 DEF Settled
      <4>3. CASE d # c
        <5>1. change'[d] = change[d]
          BY <1>1, <2>1, <4>3 DEF ArraysInv
        <5> QED
          BY <1>1, <1>6, <5>1 DEF Settled
      <4> QED
        BY <4>2, <4>3
    <3>2. Asked(registered[d], q, d, e)
      BY <1>1, <3>1 DEF SetUpInv, WillBeAsked
    <3> QED
      BY <1>1, <1>2, <1>4, <3>2, MessageSent
  <2> QED
    BY <2>2, <2>3
<1> QED
  BY <1>1, <1>5, <1>6, SetUpFrame DEF SetUpInv

\* While an adapter is being removed nothing is known of its context.
LEMMA SetUpRemove ==
  ASSUME ArraysInv, SetUpInv, NEW c \in Api!Contexts,
         (\E a \in Adapters : Api!removeAdapter(a, c)) \/ Api!MoveLast(c)
  PROVE  SetUpInv'
<1>1. /\ UNCHANGED <<contexts, modem, mInjectContext, configured, registered, q, mEvtMask>>
      /\ \E t, h : /\ mLocAdapters' = [mLocAdapters EXCEPT ![c] = t]
                   /\ change' = [change EXCEPT ![c] = h] /\ h.at \in {"gap", "twice", "gone"}
  <2>1. ASSUME NEW a \in Adapters, Api!removeAdapter(a, c)
        PROVE  \E t, h : /\ mLocAdapters' = [mLocAdapters EXCEPT ![c] = t]
                         /\ change' = [change EXCEPT ![c] = h] /\ h.at \in {"gap", "twice", "gone"}
    <3>1. PICK j \in DOMAIN mLocAdapters[c] :
            /\ mLocAdapters' = [mLocAdapters EXCEPT ![c][j] = "NULL"]
            /\ change' = [change EXCEPT ![c] = [at |-> "gap", j |-> j]]
      BY <2>1 DEF Api!removeAdapter
    <3>2. mLocAdapters' = [mLocAdapters EXCEPT ![c] = [mLocAdapters[c] EXCEPT ![j] = "NULL"]]
      BY <3>1 DEF ArraysInv
    <3>3. [at |-> "gap", j |-> j].at \in {"gap", "twice", "gone"}
      OBVIOUS
    <3> QED
      BY <3>1, <3>2, <3>3
  <2>2. ASSUME Api!MoveLast(c)
        PROVE  \E t, h : /\ mLocAdapters' = [mLocAdapters EXCEPT ![c] = t]
                         /\ change' = [change EXCEPT ![c] = h] /\ h.at \in {"gap", "twice", "gone"}
    <3>1. [at |-> "twice", j |-> change[c].j].at \in {"gap", "twice", "gone"}
      OBVIOUS
    <3>2. [at |-> "gone"].at \in {"gap", "twice", "gone"}
      OBVIOUS
    <3> QED
      BY <2>2, <3>1, <3>2 DEF Api!MoveLast
  <2>3. UNCHANGED <<contexts, modem, mInjectContext, configured, registered, q, mEvtMask>>
    BY DEF Api!removeAdapter, Api!MoveLast
  <2> QED
    BY <2>1, <2>2, <2>3
<1>2. SetUpTypes'
  BY <1>1 DEF SetUpInv, SetUpTypes
<1>3. \A d \in Api!Contexts : d # c => mLocAdapters'[d] = mLocAdapters[d] /\ change'[d] = change[d]
  BY <1>1 DEF ArraysInv
<1>4. change'[c].at \in {"gap", "twice", "gone"}
  BY <1>1 DEF ArraysInv
<1>5. mLocAdapters[c] # <<>>
  <2>1. ASSUME NEW a \in Adapters, Api!removeAdapter(a, c) PROVE mLocAdapters[c] # <<>>
    BY <2>1 DEF Api!removeAdapter
  <2>2. ASSUME Api!MoveLast(c) PROVE mLocAdapters[c] # <<>>
    <3>1. change[c].j \in 1..Len(mLocAdapters[c])
      BY <2>2 DEF Api!MoveLast, ArraysInv, InOrder
    <3> QED
      BY <3>1
  <2> QED
    BY <2>1, <2>2
<1>6. \A d \in Api!Contexts : d \notin contexts => mLocAdapters'[d] = <<>>
  BY <1>3, <1>5 DEF SetUpInv
<1>7. ASSUME NEW d \in contexts \ modem, NEW b \in Settled(d)',
             NEW e \in mEvtMask'[b] \ Api!ExcludedMask(d)
      PROVE  Asked(registered'[d], q', d, e)
  <2>1. d \in Api!Contexts
    BY DEF SetUpInv, SetUpTypes
  <2>2. d # c
    BY <1>4, <1>7 DEF Settled
  <2>3. b \in Settled(d)
    BY <1>3, <1>7, <2>1, <2>2 DEF Settled
  <2> QED
    BY <1>1, <2>3 DEF SetUpInv, WillBeAsked
<1> QED
  BY <1>1, <1>2, <1>6, <1>7, SetUpFrame

\* A message asks for all at its end.
LEMMA SetUpRest ==
  ASSUME ArraysInv, SetUpInv, NEW c \in Api!Contexts, Api!AskForRest(c)
  PROVE  SetUpInv'
<1> DEFINE s == mLocAdapters[c]
           mask == (UNION {mEvtMask'[b] : b \in Api!Listed(s)}) \ Api!ExcludedMask(c)
           m == [op |-> "Open", c |-> c, mask |-> mask]
<1>1. /\ change[c].at = "gone" /\ change' = [change EXCEPT ![c] = Api!NoChange]
      /\ UNCHANGED <<contexts, modem, mInjectContext, configured, mLocAdapters, mEvtMask>>
      /\ \/ s = <<>> /\ registered' = [registered EXCEPT ![c] = {}] /\ q' = q
         \/ q' = Append(q, m) /\ registered' = registered
  BY DEF Api!AskForRest, Api!sendOpen, Api!getEvtMask
<1>2. s \in Seq(Cells) /\ Whole(s)
  BY <1>1 DEF ArraysInv, InOrder
<1>3. q \in Seq(Messages) /\ mEvtMask' \in [Adapters -> Api!Mask]
  BY <1>1 DEF SetUpInv, SetUpTypes
<1>4. mask \in Api!Mask
  BY <1>2, <1>3, WantedMask
<1>5. m \in Messages /\ \A e \in mask : AsksFor(m, c, e)
  BY <1>4, MessageFields
<1>6. \A b \in ToSet(s) : \A e \in mEvtMask'[b] \ Api!ExcludedMask(c) : e \in mask
  BY <1>2, <1>3, WantedMask
<1> HIDE DEF mask, m
<1>7. SetUpTypes'
  <2>1. q' \in Seq(Messages)
    BY <1>1, <1>3, <1>5, MessageSent
  <2>2. registered' \in [Api!Contexts -> Api!Mask]
    BY <1>1 DEF SetUpInv, SetUpTypes, Api!Mask
  <2> QED
    BY <1>1, <2>1, <2>2 DEF SetUpInv, SetUpTypes
<1>8. ASSUME NEW d \in contexts \ modem, NEW b \in Settled(d)',
             NEW e \in mEvtMask'[b] \ Api!ExcludedMask(d)
      PROVE  Asked(registered'[d], q', d, e)
  <2>1. d \in Api!Contexts
    BY DEF SetUpInv, SetUpTypes
  <2>2. CASE d = c
    <3>1. b \in ToSet(s)
      BY <1>1, <1>8, <2>2 DEF Settled
    <3>2. s # <<>>
      BY <3>1 DEF ToSet
    <3>3. AsksFor(m, d, e)
      BY <1>5, <1>6, <1>8, <2>2, <3>1
    <3>4. Asked(registered'[d], Append(q, m), d, e)
      BY <1>3, <1>5, <3>3, MessageSent
    <3> QED
      BY <1>1, <3>2, <3>4
  <2>3. CASE d # c
    <3>1. change'[d] = change[d] /\ registered'[d] = registered[d]
      BY <1>1, <2>1, <2>3 DEF ArraysInv, SetUpInv, SetUpTypes
    <3>2. b \in Settled(d)
      BY <1>1, <1>8, <3>1 DEF Settled
    <3>3. Asked(registered[d], q, d, e)
      BY <1>1, <3>2 DEF SetUpInv, WillBeAsked
    <3>4. Asked(registered[d], Append(q, m), d, e)
      BY <1>3, <1>5, <3>3, MessageSent
    <3> QED
      BY <1>1, <3>1, <3>3, <3>4
  <2> QED
    BY <2>2, <2>3
<1> QED
  BY <1>1, <1>7, <1>8, SetUpFrame DEF SetUpInv

LEMMA SetUpMask ==
  ASSUME ArraysInv, SetUpInv, NEW a \in Adapters, NEW c \in Api!Contexts, NEW event \in Events,
         Api!updateEvtMask(a, c, event)
  PROVE  SetUpInv'
<1> DEFINE s == mLocAdapters[c]
           mask == (UNION {mEvtMask'[b] : b \in Api!Listed(s)}) \ Api!ExcludedMask(c)
           m == [op |-> "Open", c |-> c, mask |-> mask]
<1>1. /\ a \in ToSet(s) /\ UNCHANGED <<mLocAdapters, change>> /\ q' = Append(q, m)
      /\ \/ mEvtMask' = [mEvtMask EXCEPT ![a] = mEvtMask[a] \cup {event}]
         \/ mEvtMask' = [mEvtMask EXCEPT ![a] = mEvtMask[a] \ {event}]
      /\ UNCHANGED <<contexts, modem, mInjectContext, configured, registered>>
  BY ApiOperators DEF Api!updateEvtMask, Api!sendOpen, Api!getEvtMask
<1>2. q \in Seq(Messages) /\ s \in Seq(Cells)
  BY DEF SetUpInv, SetUpTypes, ArraysInv
<1>3. mEvtMask' \in [Adapters -> Api!Mask]
  BY <1>1 DEF SetUpInv, SetUpTypes, Api!Mask
<1>4. mask \in Api!Mask
  BY <1>2, <1>3, WantedMask
<1>5. m \in Messages /\ \A e \in mask : AsksFor(m, c, e)
  BY <1>4, MessageFields
<1>6. Whole(s) => \A b \in ToSet(s) : \A e \in mEvtMask'[b] \ Api!ExcludedMask(c) : e \in mask
  BY <1>2, <1>3, WantedMask
<1> HIDE DEF m, mask
<1>7. SetUpTypes'
  <2>1. q' \in Seq(Messages)
    BY <1>1, <1>2, <1>5, MessageSent
  <2> QED
    BY <1>1, <1>3, <2>1 DEF SetUpInv, SetUpTypes
<1>8. ASSUME NEW d \in contexts \ modem, NEW b \in Settled(d)',
             NEW e \in mEvtMask'[b] \ Api!ExcludedMask(d)
      PROVE  Asked(registered'[d], q', d, e)
  <2>1. d \in Api!Contexts
    BY DEF SetUpInv, SetUpTypes
  <2>2. b \in Settled(d) /\ b \in Adapters /\ b \in ToSet(mLocAdapters[d])
        /\ Whole(mLocAdapters[d])
    <3>1. b \in Settled(d)
      BY <1>1, <1>8 DEF Settled
    <3> QED
      BY <2>1, <3>1, SettledAdapters
  <2>3. CASE d = c
    <3>1. AsksFor(m, d, e)
      BY <1>5, <1>6, <1>8, <2>2, <2>3
    <3> QED
      BY <1>1, <1>2, <1>5, <3>1, MessageSent
  <2>4. CASE d # c
    <3>1. b # a
      BY <1>1, <2>1, <2>2, <2>4, PartsAssumption DEF ArraysInv
    <3>2. mEvtMask'[b] = mEvtMask[b]
      BY <1>1, <2>2, <3>1 DEF SetUpInv, SetUpTypes
    <3>3. Asked(registered[d], q, d, e)
      BY <2>2, <3>2, <1>8 DEF SetUpInv, WillBeAsked
    <3>4. Asked(registered[d], Append(q, m), d, e)
      BY <1>2, <1>5, <3>3, MessageSent
    <3> QED
      BY <1>1, <3>4
  <2> QED
    BY <2>3, <2>4
<1> QED
  BY <1>1, <1>7, <1>8, SetUpFrame DEF SetUpInv

LEMMA SetUpProc ==
  ASSUME ArraysInv, SetUpInv, Api!proc
  PROVE  SetUpInv'
<1> DEFINE m == Head(q)
<1>1. /\ q # <<>> /\ q' = Tail(q) /\ (Api!LocOpenMsg \/ Api!LocSsrMsg)
      /\ UNCHANGED <<contexts, modem, mInjectContext, configured, mLocAdapters, change, mEvtMask>>
  BY DEF Api!proc
<1>2. q \in Seq(Messages) /\ m \in Messages /\ q' \in Seq(Messages)
  BY <1>1 DEF SetUpInv, SetUpTypes
<1>3. m.c \in Api!Contexts /\ (m.op = "Open" => m.mask \in Api!Mask)
  BY <1>2 DEF Messages
<1>4. \/ /\ m.op = "Open"
         /\ registered' = [registered EXCEPT
                             ![m.c] = registered[m.c] \cup (m.mask \ Api!ExcludedMask(m.c))]
      \/ m.op = "Ssr" /\ registered' = [registered EXCEPT ![m.c] = Api!LocSsrMask(m.c)]
  BY <1>1 DEF Api!LocOpenMsg, Api!LocSsrMsg
<1> HIDE DEF m
<1>5. Api!LocSsrMask(m.c) \in Api!Mask
  BY <1>3, WantedMask DEF Api!LocSsrMask, ArraysInv, SetUpInv, SetUpTypes
<1>6. SetUpTypes'
  <2>1. registered' \in [Api!Contexts -> Api!Mask]
    <3>1. CASE m.op = "Open"
      BY <1>3, <1>4, <3>1 DEF SetUpInv, SetUpTypes, Api!Mask
    <3>2. CASE m.op = "Ssr"
      BY <1>4, <1>5, <3>2 DEF SetUpInv, SetUpTypes
    <3> QED
      BY <1>4, <3>1, <3>2
  <2> QED
    BY <1>1, <1>2, <2>1 DEF SetUpInv, SetUpTypes
<1>7. ASSUME NEW d \in contexts \ modem, NEW a \in Settled(d),
             NEW e \in mEvtMask[a] \ Api!ExcludedMask(d)
      PROVE  Asked(registered'[d], q', d, e)
  <2>1. d \in Api!Contexts
    BY DEF SetUpInv, SetUpTypes
  <2>2. e \in Api!LocSsrMask(d)
    <3>1. a \in ToSet(mLocAdapters[d]) /\ Whole(mLocAdapters[d])
      BY <2>1, SettledAdapters
    <3>2. mLocAdapters[d] \in Seq(Cells) /\ mEvtMask \in [Adapters -> Api!Mask]
      BY <2>1 DEF ArraysInv, SetUpInv, SetUpTypes
    <3> QED
      BY <3>1, <3>2, WantedMask DEF Api!LocSsrMask
  <2>3. Asked(registered[d], q, d, e)
    BY DEF SetUpInv, WillBeAsked
  <2>4. AsksFor(m, d, e) \/ Asked(registered[d], Tail(q), d, e)
    BY <1>1, <1>2, <2>3, MessageTaken DEF m
  <2>5. CASE AsksFor(m, d, e)
    <3>1. e \in registered'[d]
      BY <1>3, <1>4, <2>1, <2>2, <2>5 DEF AsksFor, SetUpInv, SetUpTypes
    <3> QED
      BY <3>1 DEF Asked
  <2>6. CASE Asked(registered[d], Tail(q), d, e)
    <3>1. e \in registered[d] => e \in registered'[d]
      BY <1>3, <1>4, <2>1, <2>2 DEF SetUpInv, SetUpTypes
    <3> QED
      BY <1>1, <2>6, <3>1 DEF Asked
  <2> QED
    BY <2>4, <2>5, <2>6
<1>8. \A d \in Api!Contexts : Settled(d)' = Settled(d)
  BY <1>1 DEF Settled
<1>9. ASSUME NEW d \in contexts \ modem, NEW a \in Settled(d)',
             NEW e \in mEvtMask'[a] \ Api!ExcludedMask(d)
      PROVE  Asked(registered'[d], q', d, e)
  <2>1. d \in Api!Contexts
    BY DEF SetUpInv, SetUpTypes
  <2> QED
    BY <1>1, <1>7, <1>8, <2>1
<1> QED
  BY <1>1, <1>6, <1>9, SetUpFrame DEF SetUpInv

\* A context that is created has no adapters and, being the first, configures.
LEMMA SetUpContext ==
  ASSUME SetUpInv, NEW c \in Api!Contexts, Api!getLocContext(c)
  PROVE  SetUpInv'
<1>1. /\ c \notin contexts /\ contexts' = contexts \cup {c}
      /\ mInjectContext' = IF mInjectContext = "NULL" THEN c ELSE mInjectContext
      /\ configured' = (configured \/ c = mInjectContext')
      /\ UNCHANGED <<mLocAdapters, change, mEvtMask, q, registered, modem>>
  BY DEF Api!getLocContext, Api!injectFeatureConfig
<1>2. SetUpTypes'
  BY <1>1 DEF SetUpInv, SetUpTypes
<1>3. "NULL" \notin Api!Contexts
  BY DEF Api!Contexts
<1>4. Injects'
  <2>1. CASE contexts = {}
    BY <1>1, <2>1 DEF SetUpInv, Injects
  <2>2. CASE contexts # {}
    <3>1. mInjectContext # "NULL"
      BY <1>3, <2>2 DEF SetUpInv, SetUpTypes, Injects
    <3>2. mInjectContext' = mInjectContext /\ (configured => configured')
      BY <1>1, <3>1
    <3> QED
      BY <1>1, <2>2, <3>2 DEF SetUpInv, Injects
  <2> QED
    BY <2>1, <2>2
<1>5. \A d \in Api!Contexts : d \notin contexts' => mLocAdapters'[d] = <<>>
  BY <1>1 DEF SetUpInv
<1>6. ASSUME NEW d \in contexts' \ modem' PROVE WillBeAsked(d)'
  <2>1. CASE d = c
    <3>1. mLocAdapters'[d] = <<>>
      BY <1>1, <2>1 DEF SetUpInv
    <3> QED
      BY <3>1 DEF WillBeAsked, Settled, ToSet
  <2>2. CASE d # c
    BY <1>1, <2>2 DEF SetUpInv, WillBeAsked, Settled
  <2> QED
    BY <2>1, <2>2
<1> QED
  BY <1>2, <1>4, <1>5, <1>6 DEF SetUpInv

LEMMA SetUpRestart ==
  ASSUME SetUpInv, Api!ModemRestarts
  PROVE  SetUpInv'
<1>1. /\ contexts # {} /\ modem' = contexts
      /\ registered' = [c \in Api!Contexts |-> {}]
      /\ UNCHANGED <<contexts, mInjectContext, mLocAdapters, mEvtMask, q>>
  BY DEF Api!ModemRestarts
<1>2. SetUpTypes'
  BY <1>1 DEF SetUpInv, SetUpTypes, Api!Mask
<1>3. Injects'
  BY <1>1 DEF SetUpInv, Injects
<1>4. \A c \in Api!Contexts : c \notin contexts' => mLocAdapters'[c] = <<>>
  BY <1>1 DEF SetUpInv
<1>5. contexts' \ modem' = {}
  BY <1>1
<1> QED
  BY <1>2, <1>3, <1>4, <1>5 DEF SetUpInv

LEMMA SetUpEngineUp ==
  ASSUME SetUpInv, NEW c \in Api!Contexts, Api!handleEngineUpEvent(c)
  PROVE  SetUpInv'
<1> DEFINE m == [op |-> "Ssr", c |-> c]
<1>1. /\ c \in modem /\ modem' = modem \ {c} /\ q' = Append(q, m)
      /\ configured' = (configured \/ c = mInjectContext') /\ mInjectContext' = mInjectContext
      /\ UNCHANGED <<contexts, mLocAdapters, change, mEvtMask, registered>>
  BY DEF Api!handleEngineUpEvent, Api!injectFeatureConfig
<1>2. q \in Seq(Messages) /\ m \in Messages
  BY MessageFields DEF SetUpInv, SetUpTypes, Messages
<1>3. \A e : AsksFor(m, c, e)
  BY DEF AsksFor
<1> HIDE DEF m
<1>4. SetUpTypes'
  <2>1. q' \in Seq(Messages)
    BY <1>1, <1>2, MessageSent
  <2> QED
    BY <1>1, <2>1 DEF SetUpInv, SetUpTypes
<1>5. Injects'
  <2>1. contexts # {} /\ mInjectContext \in contexts
    BY <1>1 DEF SetUpInv, SetUpTypes, Injects
  <2>2. CASE c = mInjectContext
    BY <1>1, <2>1, <2>2 DEF Injects
  <2>3. CASE c # mInjectContext
    <3>1. configured => configured'
      BY <1>1
    <3>2. mInjectContext \in modem => mInjectContext' \in modem'
      BY <1>1, <2>3
    <3> QED
      BY <1>1, <2>1, <3>1, <3>2 DEF SetUpInv, Injects
  <2> QED
    BY <2>2, <2>3
<1>6. \A d \in Api!Contexts : d \notin contexts' => mLocAdapters'[d] = <<>>
  BY <1>1 DEF SetUpInv
<1>7. ASSUME NEW d \in contexts' \ modem' PROVE WillBeAsked(d)'
  <2> SUFFICES ASSUME NEW a \in Settled(d), NEW e \in mEvtMask[a] \ Api!ExcludedMask(d)
               PROVE  Asked(registered[d], Append(q, m), d, e)
    BY <1>1 DEF WillBeAsked, Settled
  <2>1. CASE d = c
    BY <1>2, <1>3, <2>1, MessageSent
  <2>2. CASE d # c
    <3>1. Asked(registered[d], q, d, e)
      BY <1>1, <2>2 DEF SetUpInv, WillBeAsked
    <3> QED
      BY <1>2, <3>1, MessageSent
  <2> QED
    BY <2>1, <2>2
<1> QED
  BY <1>4, <1>5, <1>6, <1>7 DEF SetUpInv

LEMMA SetUpStep == ArraysInv /\ SetUpInv /\ [Api!Next]_(Api!vars) => SetUpInv'
<1> SUFFICES ASSUME ArraysInv, SetUpInv, [Api!Next]_(Api!vars) PROVE SetUpInv'
  OBVIOUS
<1>1. ASSUME UNCHANGED <<contexts, mInjectContext, mLocAdapters, change, mEvtMask, q, registered,
                         configured, modem>>
      PROVE  SetUpInv'
  BY <1>1 DEF SetUpInv, SetUpTypes, Injects, WillBeAsked, Settled
<1>2. CASE UNCHANGED Api!vars
  BY <1>1, <1>2 DEF Api!vars
<1>3. ASSUME NEW c \in Api!Contexts,
             Api!deliver(c) \/ \E at \in {"all", "first"} : Api!report(c, at)
      PROVE  SetUpInv'
  BY <1>1, <1>3 DEF Api!deliver, Api!report
<1> QED
  BY <1>2, <1>3, SetUpProc, SetUpRestart, SetUpContext, SetUpEngineUp, SetUpRemove, SetUpAdd,
     SetUpAsk, SetUpRest, SetUpMask DEF Api!Next

(***************************************************************************)
(* Once the contexts know that the modem is up and their messages are      *)
(* handled, with no adapter half added or removed, the modem was asked for *)
(* every event that an adapter wants and its context does not exclude, and *)
(* has the feature configuration, for any adapters, masks and restarts     *)
(* (LocSsrMsg, LocOpenMsg, updateEvtMask, addAdapter, removeAdapter,       *)
(* LocDualContext::injectFeatureConfig).                                   *)
(***************************************************************************)
THEOREM ModemHasAll == Api!Spec => []ModemIsSetUp
<1>1. Api!Init => ArraysInv /\ SetUpInv
  <2> SUFFICES ASSUME Api!Init PROVE ArraysInv /\ SetUpInv
    OBVIOUS
  <2>1. ArraysInv
    BY ArraysInit
  <2>2. SetUpTypes
    BY DEF Api!Init, SetUpTypes, Api!Mask
  <2>3. Injects /\ contexts = {}
    BY DEF Api!Init, Injects
  <2>4. \A c \in Api!Contexts : mLocAdapters[c] = <<>>
    BY DEF Api!Init
  <2> QED
    BY <2>1, <2>2, <2>3, <2>4 DEF SetUpInv
<1>2. SetUpInv => ModemIsSetUp
  <2> SUFFICES ASSUME SetUpInv, modem = {}, q = <<>>, contexts # {}
               PROVE  /\ configured
                      /\ \A c \in contexts : change[c] = Api!NoChange =>
                           \A a \in Api!ToSet(mLocAdapters[c]) :
                             mEvtMask[a] \ Api!ExcludedMask(c) \subseteq registered[c]
    BY DEF ModemIsSetUp, Api!ModemIsSetUp
  <2>1. configured
    BY DEF SetUpInv, Injects
  <2>2. ASSUME NEW c \in contexts, change[c] = Api!NoChange,
               NEW a \in ToSet(mLocAdapters[c]), NEW e \in mEvtMask[a] \ Api!ExcludedMask(c)
        PROVE  e \in registered[c]
    <3>1. Asked(registered[c], q, c, e)
      <4>1. change[c].at = "no"
        BY <2>2 DEF Api!NoChange
      <4>2. a \in Settled(c)
        BY <2>2, <4>1 DEF Settled
      <4> QED
        BY <2>2, <4>2 DEF SetUpInv, WillBeAsked
    <3>2. 1..Len(q) = {}
      OBVIOUS
    <3> QED
      BY <3>1, <3>2 DEF Asked
  <2> QED
    BY <2>1, <2>2, ApiOperators
<1> QED
  BY <1>1, <1>2, ArraysStep, SetUpStep, PTL DEF Api!Spec

-----------------------------------------------------------------------------
(* The configuration files.                                                *)

NameAt(s, n, i) == s[i].name = n

\* No parameter is given twice.
OnceEach(s) ==
  \A n \in Cfg!Names : \A i, j \in 1..Len(s) : NameAt(s, n, i) /\ NameAt(s, n, j) => i = j

\* The names of the table t that the first k lines give, and that their values are taken.
Found(s, t, k) == {n \in t : \E i \in 1..k : NameAt(s, n, i)}
Taken(s, t, k, v) == \A n \in t : \A i \in 1..k : NameAt(s, n, i) => v[n] = s[i].value

\* The records of table t that the pass looks for are those it has to find still
\* and those it has found.
Counted(s, c, t, k, left) ==
  left + Cardinality(Found(s, t, k)) = Cardinality(t) - (IF c = "loc_update_conf" THEN 1 ELSE 0)

CfgTypes == /\ lines \in Seq(Cfg!Lines) /\ pos \in 0..Len(lines)
            /\ call \in {"loc_read_conf", "loc_update_conf"}
            /\ pass \in {"table", "log", "done"}
            /\ num_params \in Int /\ value \in [Cfg!Names -> 0..2]

\* The table of a pass.
Filled(p) == IF p = "table" THEN Table ELSE LogTable

\* What is known in pass p after k lines.
Kept(s, c, p, k, left, v) ==
  /\ p # "done" => Counted(s, c, Filled(p), k, left) /\ Taken(s, Filled(p), k, v)
  /\ p = "log" => Taken(s, Table, Len(s), v)
  /\ p = "done" /\ c = "loc_read_conf" => Taken(s, Cfg!Names, Len(s), v)
  /\ p = "done" /\ c = "loc_update_conf" /\ Found(s, Table, Len(s)) # Table =>
       Taken(s, Table, Len(s), v)

\* A parameter that has a value is one of the input.
FromInput(s, v) == \A n \in Cfg!Names : v[n] # 0 => \E i \in 1..Len(s) : NameAt(s, n, i)

CfgInv == /\ CfgTypes /\ FromInput(lines, value)
          /\ call = "loc_update_conf" => pass # "log"
          /\ OnceEach(lines) => Kept(lines, call, pass, pos, num_params, value)

LEMMA CfgOperators ==
  /\ \A S : Cfg!Cardinality(S) = Cardinality(S)
  /\ Cfg!PassTable = Filled(pass)
  /\ \A p : IsFiniteSet(Filled(p)) /\ Filled(p) \in SUBSET Cfg!Names
<1>1. ASSUME NEW S PROVE Cfg!Cardinality(S) = Cardinality(S)
  BY DEF Cfg!Cardinality, Cardinality
<1> QED
  BY <1>1, PartsAssumption DEF Cfg!PassTable, Cfg!Names, Filled

\* What the first lines give, line by line.
LEMMA FoundNames ==
  ASSUME NEW s, NEW t, IsFiniteSet(t), NEW k \in Nat
  PROVE  /\ IsFiniteSet(Found(s, t, k)) /\ Cardinality(Found(s, t, k)) \in Nat
         /\ Cardinality(Found(s, t, k)) <= Cardinality(t)
         /\ Cardinality(t) = Cardinality(Found(s, t, k)) => t = Found(s, t, k)
<1>1. Found(s, t, k) \in SUBSET t
  BY DEF Found
<1>2. /\ IsFiniteSet(Found(s, t, k)) /\ Cardinality(Found(s, t, k)) <= Cardinality(t)
      /\ Cardinality(t) = Cardinality(Found(s, t, k)) => t = Found(s, t, k)
  BY <1>1, FS_Subset
<1>3. Cardinality(Found(s, t, k)) \in Nat
  BY <1>2, FS_CardinalityType
<1> QED
  BY <1>2, <1>3

LEMMA NothingFound == ASSUME NEW s, NEW t PROVE Cardinality(Found(s, t, 0)) = 0
<1>1. Found(s, t, 0) = {}
  BY DEF Found
<1> QED
  BY <1>1, FS_EmptySet

LEMMA FoundNext ==
  ASSUME NEW s \in Seq(Cfg!Lines), NEW t \in SUBSET Cfg!Names, IsFiniteSet(t), OnceEach(s),
         NEW k \in Nat, k < Len(s)
  PROVE  Cardinality(Found(s, t, k + 1)) =
           Cardinality(Found(s, t, k)) + (IF s[k + 1].name \in t THEN 1 ELSE 0)
<1> DEFINE n == s[k + 1].name
<1>1. ASSUME NEW i \in 1..(k + 1) PROVE i \in 1..k \/ i = k + 1
  OBVIOUS
<1>2. CASE n \notin t
  <2>1. Found(s, t, k + 1) = Found(s, t, k)
    BY <1>2 DEF Found, NameAt
  <2>2. Cardinality(Found(s, t, k)) \in Nat
    BY FoundNames
  <2> QED
    BY <1>2, <2>1, <2>2
<1>3. CASE n \in t
  <2>1. Found(s, t, k + 1) = Found(s, t, k) \cup {n}
    <3>1. k + 1 \in 1..(k + 1) /\ 1..k \subseteq 1..(k + 1)
      OBVIOUS
    <3>2. ASSUME NEW x \in Found(s, t, k + 1) PROVE x \in Found(s, t, k) \cup {n}
      BY <1>1 DEF Found, NameAt
    <3>3. ASSUME NEW x \in Found(s, t, k) PROVE x \in Found(s, t, k + 1)
      BY <3>1 DEF Found
    <3>4. n \in Found(s, t, k + 1)
      BY <1>3, <3>1 DEF Found, NameAt
    <3> QED
      BY <3>2, <3>3, <3>4
  <2>2. n \notin Found(s, t, k)
    <3> SUFFICES ASSUME NEW i \in 1..k, NameAt(s, n, i) PROVE FALSE
      BY DEF Found
    <3>1. i \in 1..Len(s) /\ k + 1 \in 1..Len(s) /\ i # k + 1
      OBVIOUS
    <3>2. NameAt(s, n, k + 1) /\ n \in Cfg!Names
      BY <1>3 DEF NameAt
    <3> QED
      BY <3>1, <3>2 DEF OnceEach
  <2>3. IsFiniteSet(Found(s, t, k))
    BY FoundNames
  <2> HIDE DEF n
  <2>4. Cardinality(Found(s, t, k) \cup {n}) = Cardinality(Found(s, t, k)) + 1
    BY <2>2, <2>3, FS_AddElement
  <2> QED
    BY <1>3, <2>1, <2>4 DEF n
<1> QED
  BY <1>2, <1>3

\* When the names given so far are all that are given, the input is taken.
LEMMA TakenAll ==
  ASSUME NEW s \in Seq(Cfg!Lines), NEW t \in SUBSET Cfg!Names, NEW k \in 0..Len(s), NEW v,
         OnceEach(s), Found(s, t, k) = Found(s, t, Len(s)), Taken(s, t, k, v)
  PROVE  Taken(s, t, Len(s), v)
<1> SUFFICES ASSUME NEW n \in t, NEW i \in 1..Len(s), NameAt(s, n, i)
             PROVE  v[n] = s[i].value
  BY DEF Taken
<1>1. n \in Found(s, t, k)
  <2>1. n \in Found(s, t, Len(s))
    BY DEF Found
  <2> QED
    BY <2>1
<1>2. PICK j \in 1..k : NameAt(s, n, j)
  BY <1>1 DEF Found
<1>3. v[n] = s[j].value
  BY <1>2 DEF Taken
<1> QED
  BY <1>2, <1>3 DEF OnceEach

\* A line: set_config_entry stores its value, and fill_conf_item counts it.
LEMMA CfgLine ==
  ASSUME NEW s \in Seq(Cfg!Lines), NEW k \in Nat, k < Len(s), OnceEach(s),
         NEW c, NEW p \in {"table", "log"}, NEW left \in Int, NEW v \in [Cfg!Names -> 0..2],
         NEW w, w = IF s[k + 1].name \in Filled(p)
                        THEN [v EXCEPT ![s[k + 1].name] = s[k + 1].value] ELSE v,
         Kept(s, c, p, k, left, v)
  PROVE  Kept(s, c, p, k + 1, left - (IF s[k + 1].name \in Filled(p) THEN 1 ELSE 0), w)
<1> DEFINE n == s[k + 1].name
<1>1. Filled(p) \in SUBSET Cfg!Names /\ IsFiniteSet(Filled(p))
  BY CfgOperators
<1>2. k + 1 \in 1..Len(s)
  OBVIOUS
<1>3. Counted(s, c, Filled(p), k + 1, left - (IF n \in Filled(p) THEN 1 ELSE 0))
  <2>1. Cardinality(Found(s, Filled(p), k + 1)) =
          Cardinality(Found(s, Filled(p), k)) + (IF n \in Filled(p) THEN 1 ELSE 0)
    BY <1>1, FoundNext
  <2>2. Cardinality(Found(s, Filled(p), k)) \in Nat
    BY <1>1, FoundNames
  <2>3. left + Cardinality(Found(s, Filled(p), k)) =
          Cardinality(Filled(p)) - (IF c = "loc_update_conf" THEN 1 ELSE 0)
    BY DEF Kept, Counted
  <2> HIDE DEF n
  <2> QED
    BY <2>1, <2>2, <2>3 DEF Counted
<1>4. ASSUME NEW m \in Cfg!Names, NEW i \in 1..Len(s), NameAt(s, m, i), v[m] = s[i].value
      PROVE  w[m] = s[i].value
  <2>1. CASE m = n /\ n \in Filled(p)
    <3>1. i = k + 1
      BY <1>2, <1>4, <2>1 DEF OnceEach, NameAt
    <3>2. w[n] = s[k + 1].value
      BY <2>1
    <3> QED
      BY <2>1, <3>1, <3>2
  <2>2. CASE m # n \/ n \notin Filled(p)
    BY <1>4, <2>2
  <2> QED
    BY <2>1, <2>2
<1>5. Taken(s, Filled(p), k + 1, w)
  <2> SUFFICES ASSUME NEW m \in Filled(p), NEW i \in 1..(k + 1), NameAt(s, m, i)
               PROVE  w[m] = s[i].value
    BY DEF Taken
  <2>1. m \in Cfg!Names /\ i \in 1..Len(s)
    BY <1>1
  <2>2. CASE i = k + 1
    BY <2>1, <2>2 DEF NameAt
  <2>3. CASE i \in 1..k
    <3>1. v[m] = s[i].value
      BY <2>3 DEF Kept, Taken
    <3> QED
      BY <1>4, <2>1, <3>1
  <2> QED
    BY <2>2, <2>3
<1>6. p = "log" => Taken(s, Table, Len(s), w)
  <2> SUFFICES ASSUME p = "log", NEW m \in Table, NEW i \in 1..Len(s), NameAt(s, m, i)
               PROVE  w[m] = s[i].value
    BY DEF Taken
  <2>1. v[m] = s[i].value
    BY DEF Kept, Taken
  <2>2. m \in Cfg!Names
    BY DEF Cfg!Names
  <2> QED
    BY <1>4, <2>1, <2>2
<1> QED
  BY <1>3, <1>5, <1>6 DEF Kept

\* A pass ends when everything is found, or at the end of the input.
LEMMA CfgPassEnds ==
  ASSUME NEW s \in Seq(Cfg!Lines), NEW k \in 0..Len(s), OnceEach(s),
         NEW c, NEW p \in {"table", "log"}, NEW left \in Int, NEW v,
         left = 0 \/ k = Len(s), Kept(s, c, p, k, left, v),
         c = "loc_update_conf" => Found(s, Filled(p), Len(s)) # Filled(p)
  PROVE  Taken(s, Filled(p), Len(s), v)
<1> DEFINE t == Filled(p)
<1>1. t \in SUBSET Cfg!Names /\ IsFiniteSet(t)
  BY CfgOperators
<1>2. Taken(s, t, k, v)
  BY DEF Kept
<1>3. k \in Nat /\ Len(s) \in Nat
  OBVIOUS
<1> HIDE DEF t
<1>4. CASE k = Len(s)
  BY <1>2, <1>4 DEF t
<1>5. CASE left = 0
  <2>1. Cardinality(Found(s, t, k)) = Cardinality(t) - (IF c = "loc_update_conf" THEN 1 ELSE 0)
    <3>1. left + Cardinality(Found(s, t, k)) =
            Cardinality(t) - (IF c = "loc_update_conf" THEN 1 ELSE 0)
      BY DEF Kept, Counted, t
    <3>2. Cardinality(Found(s, t, k)) \in Nat
      BY <1>1, <1>3, FoundNames
    <3> QED
      BY <1>5, <3>1, <3>2
  <2>2. Found(s, t, k) \in SUBSET Found(s, t, Len(s))
    BY DEF Found
  <2>3. Cardinality(Found(s, t, k)) \in Nat
    BY <1>1, <1>3, FoundNames
  <2>4. /\ IsFiniteSet(Found(s, t, Len(s))) /\ Cardinality(Found(s, t, Len(s))) \in Nat
        /\ Cardinality(Found(s, t, Len(s))) <= Cardinality(t)
        /\ Cardinality(t) = Cardinality(Found(s, t, Len(s))) => t = Found(s, t, Len(s))
    BY <1>1, <1>3, FoundNames
  <2>5. /\ Cardinality(Found(s, t, k)) <= Cardinality(Found(s, t, Len(s)))
        /\ Cardinality(Found(s, t, Len(s))) = Cardinality(Found(s, t, k)) =>
             Found(s, t, Len(s)) = Found(s, t, k)
    BY <2>2, <2>4, FS_Subset
  <2>6. Cardinality(t) \in Nat
    BY <1>1, FS_CardinalityType
  <2>7. c = "loc_update_conf" => Found(s, t, Len(s)) # t
    BY DEF t
  <2>8. Found(s, t, k) = Found(s, t, Len(s))
    BY <2>1, <2>3, <2>4, <2>5, <2>6, <2>7
  <2> QED
    BY <1>1, <1>2, <2>8, TakenAll DEF t
<1> QED
  BY <1>4, <1>5

LEMMA CfgStep == CfgInv /\ [Cfg!Next]_(Cfg!vars) => CfgInv'
<1> SUFFICES ASSUME CfgInv, [Cfg!Next]_(Cfg!vars) PROVE CfgInv'
  OBVIOUS
<1>1. CfgTypes
  BY DEF CfgInv
<1>2. CASE Cfg!Line
  <2> DEFINE l == lines[pos + 1]
  <2>1. /\ pass \in {"table", "log"} /\ pos < Len(lines) /\ pos' = pos + 1
        /\ lines' = lines /\ call' = call /\ pass' = pass
    BY <1>1, <1>2 DEF Cfg!Line, CfgTypes
  <2>2. /\ value' = IF l.name \in Filled(pass) THEN [value EXCEPT ![l.name] = l.value] ELSE value
        /\ num_params' = num_params - (IF l.name \in Filled(pass) THEN 1 ELSE 0)
    BY <1>2, <2>1, CfgOperators DEF Cfg!Line, Cfg!loc_set_config_entry, Cfg!loc_fill_conf_item
  <2>3. /\ pos + 1 \in 0..Len(lines) /\ pos + 1 \in 1..Len(lines) /\ l \in Cfg!Lines
        /\ pos \in Nat
    BY <1>1, <2>1 DEF CfgTypes
  <2>4. l.value \in 1..2
    BY <2>3 DEF Cfg!Lines
  <2>5. Filled(pass) \in SUBSET Cfg!Names
    BY CfgOperators
  <2>6. CfgTypes'
    <3>1. value' \in [Cfg!Names -> 0..2]
      BY <1>1, <2>2, <2>4, <2>5 DEF CfgTypes
    <3>2. num_params' \in Int
      BY <1>1, <2>2 DEF CfgTypes
    <3> QED
      BY <1>1, <2>1, <2>3, <3>1, <3>2 DEF CfgTypes
  <2>7. FromInput(lines, value')
    <3> SUFFICES ASSUME NEW n \in Cfg!Names, value'[n] # 0
                 PROVE  \E i \in 1..Len(lines) : NameAt(lines, n, i)
      BY DEF FromInput
    <3>1. CASE n = l.name
      BY <2>3, <3>1 DEF NameAt
    <3>2. CASE n # l.name
      <4>1. value'[n] = value[n]
        BY <1>1, <2>2, <3>2 DEF CfgTypes
      <4> QED
        BY <4>1 DEF CfgInv, FromInput
    <3> QED
      BY <3>1, <3>2
  <2>8. ASSUME OnceEach(lines) PROVE Kept(lines, call, pass, pos + 1, num_params', value')
    BY <1>1, <2>1, <2>2, <2>3, <2>8, CfgLine DEF CfgInv, CfgTypes
  <2> QED
    BY <2>1, <2>6, <2>7, <2>8 DEF CfgInv
<1>3. CASE Cfg!EndOfPass
  <2>1. /\ pass \in {"table", "log"} /\ (num_params = 0 \/ pos = Len(lines))
        /\ lines' = lines /\ call' = call /\ value' = value
    BY <1>1, <1>3 DEF Cfg!EndOfPass, CfgTypes
  <2>2. CfgTypes'
    BY <1>1, <1>3, CfgOperators, FS_CardinalityType, PartsAssumption
       DEF Cfg!EndOfPass, CfgTypes, Cfg!NumParamsRead
  <2>3. ASSUME OnceEach(lines),
               call = "loc_update_conf" => Found(lines, Filled(pass), Len(lines)) # Filled(pass)
        PROVE  Taken(lines, Filled(pass), Len(lines), value)
    BY <1>1, <2>1, <2>3, CfgPassEnds DEF CfgInv, CfgTypes
  <2>4. CASE pass = "table" /\ call = "loc_read_conf"
    <3>1. pass' = "log" /\ pos' = 0 /\ num_params' = Cardinality(LogTable)
      BY <1>3, <2>4, CfgOperators DEF Cfg!EndOfPass, Cfg!NumParamsRead
    <3>2. ASSUME OnceEach(lines) PROVE Kept(lines, call, "log", 0, num_params', value)
      <4>1. Taken(lines, Table, Len(lines), value)
        BY <2>3, <2>4, <3>2 DEF Filled
      <4>2. Cardinality(Found(lines, LogTable, 0)) = 0 /\ Cardinality(LogTable) \in Nat
        BY NothingFound, FS_CardinalityType, PartsAssumption
      <4>3. Counted(lines, call, LogTable, 0, num_params')
        BY <2>4, <3>1, <4>2 DEF Counted
      <4>4. Taken(lines, LogTable, 0, value)
        BY DEF Taken
      <4> QED
        BY <4>1, <4>3, <4>4 DEF Kept, Filled
    <3> QED
      BY <2>1, <2>2, <2>4, <3>1, <3>2 DEF CfgInv
  <2>5. CASE ~(pass = "table" /\ call = "loc_read_conf")
    <3>1. pass' = "done"
      BY <1>3, <2>5 DEF Cfg!EndOfPass
    <3>2. ASSUME OnceEach(lines) PROVE Kept(lines, call, "done", pos', num_params', value)
      <4>1. CASE call = "loc_read_conf"
        <5>1. pass = "log"
          BY <2>1, <2>5, <4>1
        <5>2. Taken(lines, LogTable, Len(lines), value)
          BY <2>3, <3>2, <4>1, <5>1 DEF Filled
        <5>3. Taken(lines, Table, Len(lines), value)
          BY <3>2, <5>1 DEF CfgInv, Kept
        <5>4. Taken(lines, Cfg!Names, Len(lines), value)
          BY <5>2, <5>3 DEF Taken, Cfg!Names
        <5> QED
          BY <4>1, <5>4 DEF Kept
      <4>2. CASE call = "loc_update_conf"
        <5>1. pass = "table"
          BY <2>1, <4>2 DEF CfgInv
        <5> QED
          BY <2>3, <3>2, <4>2, <5>1 DEF Kept, Filled
      <4> QED
        BY <1>1, <4>1, <4>2 DEF CfgTypes
    <3> QED
      BY <2>1, <2>2, <3>1, <3>2 DEF CfgInv
  <2> QED
    BY <2>4, <2>5
<1>4. CASE UNCHANGED Cfg!vars
  BY <1>4 DEF Cfg!vars, CfgInv, CfgTypes
<1> QED
  BY <1>2, <1>3, <1>4 DEF Cfg!Next

(***************************************************************************)
(* If its input repeats no name of the tables, loc_read_conf gives every   *)
(* parameter the value the input has for it, and so does loc_update_conf,  *)
(* unless it is given the whole of its table.                              *)
(***************************************************************************)
THEOREM EverySettingIsRead == Cfg!Spec => []InputIsTaken
<1>1. Cfg!Init => CfgInv
  <2> SUFFICES ASSUME Cfg!Init PROVE CfgInv
    OBVIOUS
  <2>1. lines \in Seq(Cfg!Lines)
    <3>1. PICK n \in 0..MaxLines : lines \in [1..n -> Cfg!Lines]
      BY DEF Cfg!Init
    <3> QED
      BY <3>1
  <2>2. Cardinality(Found(lines, Table, 0)) = 0 /\ Cardinality(Table) \in Nat
    BY NothingFound, FS_CardinalityType, PartsAssumption
  <2>3. /\ pass = "table" /\ pos = 0 /\ call \in {"loc_read_conf", "loc_update_conf"}
        /\ value = [n \in Cfg!Names |-> 0]
        /\ num_params = Cardinality(Table) - (IF call = "loc_update_conf" THEN 1 ELSE 0)
    BY CfgOperators, <2>2 DEF Cfg!Init, Cfg!NumParamsRead, Cfg!NumParamsUpdate
  <2>4. CfgTypes
    BY <2>1, <2>2, <2>3 DEF CfgTypes
  <2>5. Counted(lines, call, Table, 0, num_params)
    BY <2>2, <2>3 DEF Counted
  <2>6. Taken(lines, Table, 0, value) /\ FromInput(lines, value)
    BY <2>3 DEF Taken, FromInput
  <2> QED
    BY <2>3, <2>4, <2>5, <2>6 DEF CfgInv, Kept, Filled
<1>2. CfgInv => InputIsTaken
  <2> SUFFICES ASSUME CfgInv, pass = "done",
                      \A n \in Cfg!Names : Cfg!Cardinality(Cfg!Occurs(n)) <= 1,
                      call = "loc_update_conf" => Cfg!Given(Table) # Table,
                      NEW n \in IF call = "loc_read_conf" THEN Cfg!Names ELSE Table
               PROVE  value[n] = IF Cfg!Occurs(n) = {} THEN 0
                                 ELSE lines[CHOOSE i \in Cfg!Occurs(n) : TRUE].value
    BY DEF InputIsTaken, Cfg!InputIsTaken
  <2>1. n \in Cfg!Names
    BY DEF Cfg!Names
  <2>2. \A m : Cfg!Occurs(m) = {i \in 1..Len(lines) : NameAt(lines, m, i)}
    BY DEF Cfg!Occurs, NameAt, CfgInv, CfgTypes
  <2>3. OnceEach(lines)
    <3> SUFFICES ASSUME NEW m \in Cfg!Names, NEW i \in 1..Len(lines), NEW j \in 1..Len(lines),
                        NameAt(lines, m, i), NameAt(lines, m, j)
                 PROVE  i = j
      BY DEF OnceEach
    <3> DEFINE O == Cfg!Occurs(m)
    <3>1. O \in SUBSET (1..Len(lines)) /\ i \in O /\ j \in O
      BY <2>2
    <3>2. Cardinality(O) <= 1
      BY CfgOperators
    <3> HIDE DEF O
    <3>3. IsFiniteSet(1..Len(lines))
      BY FS_Interval DEF CfgInv, CfgTypes
    <3>4. IsFiniteSet(O)
      BY <3>1, <3>3, FS_Subset
    <3>5. /\ IsFiniteSet(O \ {i}) /\ Cardinality(O \ {i}) = Cardinality(O) - 1
          /\ Cardinality(O \ {i}) \in Nat /\ Cardinality(O) \in Nat
      BY <3>1, <3>4, FS_RemoveElement, FS_CardinalityType
    <3>6. Cardinality(O \ {i}) = 0
      BY <3>2, <3>5
    <3>7. O \ {i} = {}
      BY <3>5, <3>6, FS_EmptySet
    <3> QED
      BY <3>1, <3>7
  <2>4. \A i \in 1..Len(lines) : NameAt(lines, n, i) => value[n] = lines[i].value
    <3>1. Cfg!Given(Table) = Found(lines, Table, Len(lines))
      BY <2>2 DEF Cfg!Given, Found
    <3>2. call = "loc_read_conf" \/ call = "loc_update_conf"
      BY DEF CfgInv, CfgTypes
    <3> QED
      BY <2>3, <3>1, <3>2 DEF CfgInv, Kept, Taken
  <2>5. CASE Cfg!Occurs(n) = {}
    BY <2>1, <2>2, <2>5 DEF CfgInv, FromInput
  <2>6. CASE Cfg!Occurs(n) # {}
    <3>1. (CHOOSE i \in Cfg!Occurs(n) : TRUE) \in Cfg!Occurs(n)
      BY <2>6
    <3> QED
      BY <2>2, <2>4, <2>6, <3>1
  <2> QED
    BY <2>5, <2>6
<1> QED
  BY <1>1, <1>2, CfgStep, PTL DEF Cfg!Spec

-----------------------------------------------------------------------------
(* The caches of NMEA generation.                                          *)

\* The report that the caches are of has been used by nobody yet.
NmeaInv ==
  /\ reports \in 0..MaxReports /\ dop \in 0..MaxReports
  /\ sv_used_mask \in [from : 0..MaxReports, svs : SUBSET (1..32)]
  /\ usedBy \in [0..MaxReports -> Nat]
  /\ sv_used_mask.from <= reports
  /\ sv_used_mask.from > 0 => usedBy[sv_used_mask.from] = 0
  /\ \A r \in (reports + 1)..MaxReports : usedBy[r] = 0
  /\ NMEA!CachesUsedOnce

LEMMA LaterReports ==
  ASSUME NEW m \in Nat, NEW n \in Int, NEW k \in Int, n <= k
  PROVE  (k + 1)..m \subseteq (n + 1)..m
OBVIOUS

\* The report r, of which nobody has taken anything yet, is used.
LEMMA OneMoreUsed ==
  ASSUME NEW m \in Nat, NEW u \in [0..m -> Nat], NEW r \in 0..m, NEW n \in 0..m, r <= n,
         \A i \in 0..m : u[i] <= 1, \A i \in (n + 1)..m : u[i] = 0,
         NEW v, v = [u EXCEPT ![r] = 1]
  PROVE  /\ v \in [0..m -> Nat]
         /\ \A i \in 0..m : v[i] <= 1
         /\ \A i \in (n + 2)..m : v[i] = 0
<1>1. v \in [0..m -> Nat] /\ \A i \in 0..m : v[i] = IF i = r THEN 1 ELSE u[i]
  OBVIOUS
<1> QED
  BY <1>1

LEMMA NmeaStep == NmeaInv /\ [NMEA!Next]_(NMEA!vars) => NmeaInv'
<1> SUFFICES ASSUME NmeaInv, [NMEA!Next]_(NMEA!vars) PROVE NmeaInv'
  OBVIOUS
<1>1. sv_used_mask \in [from : 0..MaxReports, svs : SUBSET (1..32)]
  BY DEF NmeaInv
<1>2. /\ reports \in 0..MaxReports /\ dop \in 0..MaxReports
      /\ usedBy \in [0..MaxReports -> Nat]
      /\ sv_used_mask.from \in 0..MaxReports /\ sv_used_mask.from <= reports
      /\ sv_used_mask.from > 0 => usedBy[sv_used_mask.from] = 0
      /\ \A r \in (reports + 1)..MaxReports : usedBy[r] = 0
      /\ \A r \in 0..MaxReports : usedBy[r] <= 1
      /\ dop > 0 => sv_used_mask.from = dop
  BY <1>1 DEF NmeaInv, NMEA!CachesUsedOnce
<1>3. MaxReports \in Nat
  BY PartsAssumption DEF PartsAssumption
<1>4. ASSUME reports' \in 0..MaxReports, reports <= reports',
             sv_used_mask' = sv_used_mask, usedBy' = usedBy, dop' \in {0, dop}
      PROVE  NmeaInv'
  <2>0. /\ reports \in Int /\ reports' \in Int /\ reports <= reports'
        /\ dop \in 0..MaxReports /\ dop' \in {0, dop}
        /\ sv_used_mask.from \in Int /\ sv_used_mask.from <= reports
    BY <1>2, <1>3, <1>4
  <2>1. dop' \in 0..MaxReports /\ sv_used_mask'.from <= reports'
    <3>1. sv_used_mask'.from = sv_used_mask.from
      BY <1>4
    <3> QED
      BY ONLY <1>3, <2>0, <3>1
  <2>4. \A r \in (reports' + 1)..MaxReports : usedBy'[r] = 0
    <3>1. (reports' + 1)..MaxReports \subseteq (reports + 1)..MaxReports
      BY <1>3, <2>0, LaterReports
    <3>2. \A r \in (reports + 1)..MaxReports : usedBy[r] = 0
      BY <1>2
    <3> QED
      BY ONLY <1>4, <3>1, <3>2, Zenon
  <2>2. NMEA!CachesUsedOnce'
    <3>1. DOMAIN usedBy' = 0..MaxReports
      BY <1>2, <1>4
    <3> QED
      BY ONLY <1>2, <1>4, <3>1 DEF NMEA!CachesUsedOnce
  <2>5. sv_used_mask' \in [from : 0..MaxReports, svs : SUBSET (1..32)]
    BY ONLY <1>1, <1>4
  <2>3. /\ usedBy' \in [0..MaxReports -> Nat]
        /\ sv_used_mask'.from > 0 => usedBy'[sv_used_mask'.from] = 0
    BY ONLY <1>2, <1>4
  <2> QED
    BY ONLY <1>4, <2>1, <2>2, <2>3, <2>4, <2>5 DEF NmeaInv
<1>5. ASSUME NEW svs, NEW used \in NMEA!Masks, NEW hasDop \in BOOLEAN,
             NMEA!loc_eng_nmea_generate_sv(svs, used, hasDop)
      PROVE  NmeaInv'
  <2>1. /\ reports' = reports + 1 /\ reports' \in 1..MaxReports /\ usedBy' = usedBy
        /\ sv_used_mask' = [from |-> reports', svs |-> used]
        /\ dop' = IF hasDop THEN reports' ELSE 0
    BY <1>2, <1>5, <1>3 DEF NMEA!loc_eng_nmea_generate_sv
  <2>2. used \in SUBSET (1..32)
    BY DEF NMEA!Masks
  <2>3. sv_used_mask'.from = reports' /\ dop' \in {0, reports'}
    BY <2>1
  <2>4. sv_used_mask' \in [from : 0..MaxReports, svs : SUBSET (1..32)]
    BY <2>1, <2>2
  <2>5. usedBy'[reports'] = 0 /\ \A r \in (reports' + 1)..MaxReports : usedBy'[r] = 0
    BY ONLY <1>2, <1>3, <2>1
  <2>6. NMEA!CachesUsedOnce'
    BY ONLY <1>2, <2>1, <2>3 DEF NMEA!CachesUsedOnce
  <2>7. /\ reports' \in 0..MaxReports /\ dop' \in 0..MaxReports
        /\ sv_used_mask'.from <= reports'
        /\ usedBy' \in [0..MaxReports -> Nat]
        /\ sv_used_mask'.from > 0 => usedBy'[sv_used_mask'.from] = 0
    <3>1. usedBy' \in [0..MaxReports -> Nat]
      BY ONLY <1>2, <2>1, Zenon
    <3>2. reports' \in 0..MaxReports /\ dop' \in 0..MaxReports
      BY ONLY <1>3, <2>1, <2>3
    <3> QED
      BY ONLY <2>3, <2>5, <3>1, <3>2
  <2> QED
    BY ONLY <2>4, <2>5, <2>6, <2>7 DEF NmeaInv
<1>6. ASSUME NEW t \in BOOLEAN, NEW d \in BOOLEAN, NEW l \in BOOLEAN, NEW a \in BOOLEAN,
             NEW g \in BOOLEAN, NMEA!loc_eng_nmea_generate_pos(t, d, l, a, g)
      PROVE  NmeaInv'
  <2>1. reports' = reports + 1 /\ reports' \in 0..MaxReports
    BY <1>2, <1>6, <1>3 DEF NMEA!loc_eng_nmea_generate_pos
  <2>2. CASE ~t
    <3>1. sv_used_mask' = sv_used_mask /\ dop' = dop /\ usedBy' = usedBy
      BY <1>6, <2>2 DEF NMEA!loc_eng_nmea_generate_pos
    <3> QED
      BY <1>2, <1>4, <2>1, <3>1
  <2>3. CASE t /\ g
    <3>1. /\ dop' = 0 /\ sv_used_mask' = [from |-> 0, svs |-> {}]
          /\ usedBy' = IF sv_used_mask.from > 0
                       THEN [usedBy EXCEPT ![sv_used_mask.from] = @ + 1] ELSE usedBy
      BY <1>6, <2>3 DEF NMEA!loc_eng_nmea_generate_pos, NMEA!MaskAfterPos, NMEA!NoMask
    <3>2. /\ sv_used_mask' \in [from : 0..MaxReports, svs : SUBSET (1..32)]
          /\ sv_used_mask'.from = 0
      BY ONLY <1>3, <3>1
    <3>3. /\ usedBy' \in [0..MaxReports -> Nat]
          /\ \A r \in 0..MaxReports : usedBy'[r] <= 1
          /\ \A r \in (reports' + 1)..MaxReports : usedBy'[r] = 0
      <4>1. CASE sv_used_mask.from > 0
        <5>1. usedBy' = [usedBy EXCEPT ![sv_used_mask.from] = 1]
          <6>1. usedBy[sv_used_mask.from] + 1 = 1
            BY ONLY <1>2, <4>1
          <6>2. usedBy' = [usedBy EXCEPT ![sv_used_mask.from] = @ + 1]
            BY ONLY <3>1, <4>1
          <6> QED
            BY ONLY <6>1, <6>2, Zenon
        <5>2. /\ reports \in 0..MaxReports /\ usedBy \in [0..MaxReports -> Nat]
              /\ sv_used_mask.from \in 0..MaxReports /\ sv_used_mask.from <= reports
              /\ \A r \in 0..MaxReports : usedBy[r] <= 1
              /\ \A r \in (reports + 1)..MaxReports : usedBy[r] = 0
          BY ONLY <1>2, Zenon
        <5>3. /\ usedBy' \in [0..MaxReports -> Nat]
              /\ \A r \in 0..MaxReports : usedBy'[r] <= 1
              /\ \A r \in (reports + 2)..MaxReports : usedBy'[r] = 0
          BY ONLY <1>3, <5>1, <5>2, OneMoreUsed, SMTT(30)
        <5>4. reports' + 1 = reports + 2
          BY ONLY <2>1, <5>2
        <5> QED
          BY ONLY <5>3, <5>4, Zenon
      <4>2. CASE ~(sv_used_mask.from > 0)
        <5>1. usedBy' = usedBy
          BY ONLY <3>1, <4>2, Zenon
        <5>2. reports \in Int /\ reports' \in Int /\ reports <= reports'
          BY ONLY <1>2, <1>3, <2>1
        <5>3. (reports' + 1)..MaxReports \subseteq (reports + 1)..MaxReports
          BY ONLY <1>3, <5>2, LaterReports
        <5> QED
          BY ONLY <1>2, <5>1, <5>3, Zenon
      <4> QED
        BY <4>1, <4>2
    <3>4. NMEA!CachesUsedOnce'
      <4>1. DOMAIN usedBy' = 0..MaxReports
        BY <3>3
      <4> QED
        BY ONLY <3>1, <3>3, <4>1 DEF NMEA!CachesUsedOnce
    <3> QED
      BY ONLY <1>2, <1>3, <2>1, <3>1, <3>2, <3>3, <3>4 DEF NmeaInv
  <2>4. CASE t /\ ~g
    <3>1. dop' = 0 /\ sv_used_mask' = sv_used_mask /\ usedBy' = usedBy
      BY <1>6, <2>4 DEF NMEA!loc_eng_nmea_generate_pos, NMEA!MaskAfterPos
    <3> QED
      BY <1>2, <1>4, <2>1, <3>1
  <2> QED
    BY <2>2, <2>3, <2>4
<1>7. CASE UNCHANGED NMEA!vars
  BY <1>2, <1>7, <1>4 DEF NMEA!vars
<1> QED
  BY <1>5, <1>6, <1>7 DEF NMEA!Next

-----------------------------------------------------------------------------
(* The sentences of a satellite report.  Where a sentence goes on, those   *)
(* before it have listed the first four times as many satellites, so that  *)
(* the i-th it lists has the rank that its place says it has.              *)

LEMMA NmeaSize == ASSUME NEW S PROVE NMEA!Cardinality(S) = Cardinality(S)
  BY DEF NMEA!Cardinality, Cardinality

LEMMA RankIs ==
  ASSUME NEW S, NEW n
  PROVE  NMEA!Rank(S, n) = Cardinality({m \in S : m <= n})
  BY NmeaSize DEF NMEA!Rank

LEMMA RankGrows ==
  ASSUME NEW S \in SUBSET Nat, IsFiniteSet(S), NEW n \in S
  PROVE  /\ NMEA!Rank(S, n) \in 1..Cardinality(S)
         /\ \A m \in S : m < n => NMEA!Rank(S, m) < NMEA!Rank(S, n)
<1> DEFINE U(x) == {m \in S : m <= x}
<1>1. ASSUME NEW x \in S
      PROVE  IsFiniteSet(U(x)) /\ Cardinality(U(x)) \in Nat /\ Cardinality(U(x)) <= Cardinality(S)
  <2>1. U(x) \in SUBSET S
    OBVIOUS
  <2> HIDE DEF U
  <2> QED
    BY <2>1, FS_Subset, FS_CardinalityType
<1>2. \A x \in S : NMEA!Rank(S, x) = Cardinality(U(x))
  BY RankIs
<1>3. Cardinality(U(n)) > 0
  <2>1. U(n) # {}
    OBVIOUS
  <2> HIDE DEF U
  <2> QED
    BY <1>1, <2>1, FS_EmptySet
<1>4. ASSUME NEW m \in S, m < n PROVE Cardinality(U(m)) < Cardinality(U(n))
  <2>1. n \in U(n) /\ n \notin U(m)
    BY <1>4
  <2>2. \A x \in U(m) : x \in U(n)
    BY <1>4
  <2>3. U(m) \in SUBSET U(n) /\ U(m) # U(n)
    <3> HIDE DEF U
    <3> QED
      BY <2>1, <2>2
  <2> HIDE DEF U
  <2> QED
    BY <1>1, <2>3, FS_Subset
<1>5. Cardinality(S) \in Nat
  BY FS_CardinalityType
<1> HIDE DEF U
<1> QED
  BY <1>1, <1>2, <1>3, <1>4, <1>5

\* Every number from 1 to the size is the rank of exactly one.
LEMMA RankReaches ==
  ASSUME NEW S \in SUBSET Nat, IsFiniteSet(S), NEW r \in 1..Cardinality(S)
  PROVE  \E n \in S : NMEA!Rank(S, n) = r
<1> DEFINE T == 1..Cardinality(S)
           f == [n \in S |-> NMEA!Rank(S, n)]
<1>0. Cardinality(S) \in Nat
  BY FS_CardinalityType
<1>1. f \in [S -> T]
  BY RankGrows
<1>2. \A m, n \in S : f[m] = f[n] => m = n
  <2> SUFFICES ASSUME NEW m \in S, NEW n \in S, m # n PROVE f[m] # f[n]
    OBVIOUS
  <2>1. f[m] \in Int /\ f[n] \in Int
    BY <1>1, <1>0
  <2>2. CASE m < n
    BY <2>1, <2>2, RankGrows
  <2>3. CASE n < m
    BY <2>1, <2>3, RankGrows
  <2>4. m < n \/ n < m
    OBVIOUS
  <2> QED
    BY <2>2, <2>3, <2>4
<1>3. IsFiniteSet(T) /\ Cardinality(T) = Cardinality(S)
  BY <1>0, FS_Interval
<1> HIDE DEF T
<1>4. f \in Injection(S, T)
  BY <1>1, <1>2 DEF Injection, IsInjective
<1>5. f \in Surjection(S, T)
  <2> HIDE DEF f
  <2> QED
    BY <1>3, <1>4, FS_Injection
<1>6. \E n \in S : f[n] = r
  BY <1>5 DEF Surjection, T
<1> QED
  BY <1>6

LEMMA NthIs ==
  ASSUME NEW S \in SUBSET Nat, IsFiniteSet(S), NEW r \in 1..Cardinality(S)
  PROVE  NMEA!Nth(S, r) \in S /\ NMEA!Rank(S, NMEA!Nth(S, r)) = r
  BY RankReaches DEF NMEA!Nth

LEMMA RankIsOne ==
  ASSUME NEW S \in SUBSET Nat, IsFiniteSet(S), NEW m \in S, NEW n \in S,
         NMEA!Rank(S, m) = NMEA!Rank(S, n)
  PROVE  m = n
<1>1. NMEA!Rank(S, m) \in Int /\ NMEA!Rank(S, n) \in Int
  BY RankGrows, FS_CardinalityType
<1>2. ~(m < n) /\ ~(n < m)
  BY <1>1, RankGrows
<1> QED
  BY <1>2

Before(S, p) == {n \in S : n < p}

\* NMEA!From a place on ranks are less by the number of those before it.
LEMMA RankBehind ==
  ASSUME NEW S \in SUBSET Nat, IsFiniteSet(S), NEW p \in Nat
  PROVE  /\ IsFiniteSet(NMEA!From(S, p)) /\ NMEA!From(S, p) \in SUBSET Nat
         /\ Cardinality(Before(S, p)) \in Nat
         /\ Cardinality(NMEA!From(S, p)) = Cardinality(S) - Cardinality(Before(S, p))
         /\ \A n \in NMEA!From(S, p) :
              NMEA!Rank(S, n) = NMEA!Rank(NMEA!From(S, p), n) + Cardinality(Before(S, p))
<1> DEFINE B == Before(S, p)
           F == NMEA!From(S, p)
           U(n) == {m \in F : m <= n}
<1>0. \A n \in S : n \in B <=> ~(n \in F)
  BY DEF NMEA!From, Before
<1>1. F \in SUBSET S /\ B \in SUBSET S
  BY DEF NMEA!From, Before
<1>2. B \cup F = S /\ B \cap F = {}
  <2> HIDE DEF B, F
  <2> QED
    BY <1>0, <1>1
<1>3. /\ IsFiniteSet(F) /\ Cardinality(B) \in Nat /\ Cardinality(F) \in Nat
      /\ Cardinality(S) = Cardinality(B) + Cardinality(F)
  <2> HIDE DEF B, F
  <2> QED
    BY <1>2, PartedSize
<1>4. ASSUME NEW n \in F PROVE NMEA!Rank(S, n) = NMEA!Rank(F, n) + Cardinality(B)
  <2> DEFINE W == {m \in S : m <= n}
  <2>1. \A m \in B : m <= n
    BY DEF NMEA!From, Before
  <2>2. W = B \cup U(n) /\ B \cap U(n) = {}
    <3> HIDE DEF B, F
    <3> QED
      BY <1>1, <1>2, <2>1
  <2>3. NMEA!Rank(S, n) = Cardinality(W) /\ NMEA!Rank(F, n) = Cardinality(U(n))
    BY RankIs
  <2>4. IsFiniteSet(W)
    <3>1. W \in SUBSET S
      OBVIOUS
    <3> HIDE DEF W
    <3> QED
      BY <3>1, FS_Subset
  <2> HIDE DEF U, B, F, W
  <2>5. /\ Cardinality(B) \in Nat /\ Cardinality(U(n)) \in Nat
        /\ Cardinality(W) = Cardinality(B) + Cardinality(U(n))
    BY <2>2, <2>4, PartedSize
  <2> QED
    BY <2>3, <2>5
<1>5. F \in SUBSET Nat
  BY <1>1
<1> HIDE DEF B, F
<1>6. /\ IsFiniteSet(F) /\ F \in SUBSET Nat /\ Cardinality(B) \in Nat
      /\ Cardinality(F) = Cardinality(S) - Cardinality(B)
      /\ \A n \in F : NMEA!Rank(S, n) = NMEA!Rank(F, n) + Cardinality(B)
  BY <1>3, <1>4, <1>5
<1> QED
  BY <1>6 DEF B, F

LEMMA Quarters ==
  ASSUME NEW c \in Nat
  PROVE  /\ NMEA!SentenceCount(c) \in Nat /\ (c = 0 <=> NMEA!SentenceCount(c) = 0)
         /\ \A k \in Nat : k < NMEA!SentenceCount(c) <=> 4 * k < c
<1>1. c \div 4 \in Nat /\ c % 4 \in 0..3 /\ c = 4 * (c \div 4) + (c % 4)
  OBVIOUS
<1> DEFINE d == c \div 4
           m == c % 4
<1>2. NMEA!SentenceCount(c) = d + (IF m # 0 THEN 1 ELSE 0)
  BY DEF NMEA!SentenceCount
<1> HIDE DEF d, m
<1>3. d \in Nat /\ m \in 0..3 /\ c = 4 * d + m
  BY <1>1 DEF d, m
<1> QED
  BY <1>2, <1>3

\* The places where the sentences go on.
LEMMA SvNumbers ==
  ASSUME NEW svs, Len(svs) \in Nat, NEW S \in SUBSET Nat, 0 \notin S, IsFiniteSet(S),
         NEW p, p = NMEA!svNumber(svs, S), NEW k \in 0..NMEA!SentenceCount(Cardinality(S))
  PROVE  /\ p[k] \in Nat
         /\ (k < NMEA!SentenceCount(Cardinality(S))) => (Cardinality(Before(S, p[k])) = 4 * k)
<1> DEFINE c == NMEA!Cardinality(S)
           num == NMEA!SentenceCount(c)
           next(x) == IF NMEA!Cardinality(NMEA!From(S, x)) < 4 THEN Len(svs) + 1
                      ELSE NMEA!Nth(NMEA!From(S, x), 4) + 1
           step == [y \in Nat \X (1..num) |-> next(y[1])]
           H == CHOOSE h : h = [i \in 0..num |-> IF i = 0 THEN 1 ELSE next(h[i - 1])]
           T == {i \in 0..num : p[i] \in Nat /\ (i < num => Cardinality(Before(S, p[i])) = 4 * i)}
<1>c. c = Cardinality(S)
  BY NmeaSize
<1>0. c \in Nat /\ num \in Nat
  <2>1. c \in Nat
    BY <1>c, FS_CardinalityType
  <2> HIDE DEF c
  <2> QED
    BY <2>1, Quarters
<1>1. ASSUME NEW x \in Nat PROVE next(x) \in Nat
  <2> DEFINE F == NMEA!From(S, x)
  <2>1. IsFiniteSet(F) /\ F \in SUBSET Nat /\ Cardinality(F) \in Nat
    BY RankBehind, FS_CardinalityType
  <2> HIDE DEF F
  <2>2. ~(Cardinality(F) < 4) => NMEA!Nth(F, 4) \in Nat
    <3> SUFFICES ASSUME ~(Cardinality(F) < 4) PROVE NMEA!Nth(F, 4) \in Nat
      OBVIOUS
    <3>1. 4 \in 1..Cardinality(F)
      BY <2>1
    <3>2. NMEA!Nth(F, 4) \in F
      BY <2>1, <3>1, NthIs
    <3> QED
      BY <2>1, <3>2
  <2>3. NMEA!Cardinality(F) = Cardinality(F)
    BY NmeaSize
  <2> QED
    BY <2>2, <2>3 DEF F
<1>2. p = H
  BY DEF NMEA!svNumber
<1>a. k \in 0..num
  BY <1>c
<1> HIDE DEF next, c, num
<1>3. HasRecursion(num, Nat, 1, step)
  <2>1. step \in [Nat \X (1..num) -> Nat]
    BY <1>1
  <2>2. 1 \in Nat
    OBVIOUS
  <2> HIDE DEF step
  <2> QED
    BY <1>0, <2>1, <2>2, RecursionExists
<1>4. PICK g \in [0..num -> Nat] : g[0] = 1 /\ \A i \in 1..num : g[i] = step[<<g[i - 1], i>>]
  BY <1>3, Zenon DEF HasRecursion
<1>5. ASSUME NEW i \in 1..num PROVE g[i] = next(g[i - 1])
  <2>1. <<g[i - 1], i>> \in Nat \X (1..num)
    BY <1>0, <1>4
  <2>2. step[<<g[i - 1], i>>] = next(g[i - 1])
    BY <2>1
  <2> QED
    BY <1>4, <2>2
<1>6. g = [i \in 0..num |-> IF i = 0 THEN 1 ELSE next(g[i - 1])]
  <2>1. \A i \in 0..num : i = 0 \/ i \in 1..num
    BY <1>0
  <2>2. \A i \in 0..num : g[i] = IF i = 0 THEN 1 ELSE next(g[i - 1])
    BY <1>4, <1>5, <2>1, Zenon
  <2>3. g = [i \in 0..num |-> g[i]]
    BY <1>4
  <2> QED
    BY <2>2, <2>3, Zenon
<1>7. p = [i \in 0..num |-> IF i = 0 THEN 1 ELSE next(p[i - 1])]
  BY <1>2, <1>6
<1>8. p[0] = 1 /\ \A i \in 0..num : i < num => p[i + 1] = next(p[i])
  <2>1. \A i \in 0..num : p[i] = IF i = 0 THEN 1 ELSE next(p[i - 1])
    BY <1>7, Zenon
  <2>2. 0 \in 0..num /\ \A i \in 0..num : i < num => i + 1 # 0 /\ i + 1 \in 0..num /\ (i + 1) - 1 = i
    BY <1>0
  <2>3. p[0] = 1
    BY <2>1, <2>2
  <2>4. ASSUME NEW i \in 0..num, i < num PROVE p[i + 1] = next(p[i])
    <3>1. i + 1 # 0 /\ i + 1 \in 0..num /\ (i + 1) - 1 = i
      BY <2>2, <2>4
    <3>2. p[i + 1] = IF i + 1 = 0 THEN 1 ELSE next(p[(i + 1) - 1])
      BY <2>1, <3>1, Zenon
    <3> QED
      BY <3>1, <3>2, Zenon
  <2> QED
    BY <2>3, <2>4
<1>9. 0 \in T
  <2>1. Before(S, 1) = {}
    <3>1. \A n \in S : ~(n < 1)
      OBVIOUS
    <3> QED
      BY <3>1, Zenon DEF Before
  <2>2. Cardinality(Before(S, p[0])) = 0
    BY <2>1, <1>8, FS_EmptySet, Zenon
  <2> QED
    BY <2>2, <1>0, <1>8
<1>10. ASSUME NEW i \in 0..num, i < num, i \in T PROVE i + 1 \in T
  <2> DEFINE F == NMEA!From(S, p[i])
             x == NMEA!Nth(F, 4)
  <2>1. /\ p[i] \in Nat /\ Cardinality(Before(S, p[i])) = 4 * i
        /\ i + 1 \in 0..num /\ i \in Nat /\ p[i + 1] = next(p[i])
    BY <1>10, <1>0, <1>8
  <2>2. /\ IsFiniteSet(F) /\ F \in SUBSET Nat /\ Cardinality(F) = c - 4 * i
        /\ \A n \in F : NMEA!Rank(S, n) = NMEA!Rank(F, n) + 4 * i
    <3>1. /\ IsFiniteSet(F) /\ F \in SUBSET Nat /\ Cardinality(F) = c - Cardinality(Before(S, p[i]))
          /\ \A n \in F : NMEA!Rank(S, n) = NMEA!Rank(F, n) + Cardinality(Before(S, p[i]))
      BY <2>1, <1>c, RankBehind, Zenon
    <3> QED
      BY <3>1, <2>1, Zenon
  <2>3. p[i + 1] \in Nat
    BY <2>1, <1>1
  <2>4. ASSUME i + 1 < num PROVE Cardinality(Before(S, p[i + 1])) = 4 * (i + 1)
    <3>1. 4 * (i + 1) < c
      BY <2>1, <2>4, <1>0, Quarters DEF num
    <3>2. ~(Cardinality(F) < 4) /\ 4 \in 1..Cardinality(F)
      BY <2>1, <2>2, <3>1, <1>0
    <3>3. p[i + 1] = x + 1
      <4>1. NMEA!Cardinality(F) = Cardinality(F)
        BY NmeaSize
      <4> QED
        BY <2>1, <3>2, <4>1 DEF next
    <3>4. x \in F /\ NMEA!Rank(F, x) = 4
      <4> HIDE DEF F
      <4> QED
        BY <2>2, <3>2, NthIs
    <3>5. NMEA!Rank(S, x) = 4 * (i + 1) /\ x \in Nat
      <4> HIDE DEF F, x
      <4> QED
        BY <2>1, <2>2, <3>4
    <3>6. Before(S, x + 1) = {n \in S : n <= x}
      <4>1. \A n \in S : n < x + 1 <=> n <= x
        <5> HIDE DEF x
        <5> QED
          BY <3>5
      <4> QED
        BY <4>1, Zenon DEF Before
    <3>7. Cardinality(Before(S, p[i + 1])) = NMEA!Rank(S, x)
      BY <3>3, <3>6, RankIs, Zenon
    <3> QED
      BY <3>5, <3>7
  <2> QED
    BY <2>1, <2>3, <2>4
<1>11. 0..num \subseteq T
  <2> HIDE DEF T
  <2> QED
    BY <1>0, <1>9, <1>10, BoundedInduction
<1>12. k \in T
  BY <1>11, <1>a
<1> QED
  BY <1>12, <1>c DEF num

\* A satellite report's sentences of one constellation, S the places of its
\* satellites: what NMEA!Complete says of them, by their place among them.
Pages(S) == IF Cardinality(S) = 0 THEN 1 ELSE NMEA!SentenceCount(Cardinality(S))

Paged(id, G, svs, S) ==
  LET c == Cardinality(S)
      num == Pages(S)
  IN  /\ G = [k \in 1..num |-> G[k]]
      /\ \A k \in 1..num : /\ G[k].id = id /\ G[k].count = num /\ G[k].number = k /\ G[k].total = c
                           /\ Len(G[k].svs) = NMEA!UpToFour(c - 4 * (k - 1))
                           /\ S # {} => c - 4 * (k - 1) > 0
      /\ \A n \in S : LET r == NMEA!Rank(S, n) - 1
                      IN  (r \div 4) + 1 \in 1..num /\ G[(r \div 4) + 1].svs[(r % 4) + 1] = svs[n]

LEMMA OursFinite ==
  ASSUME NEW svs, Len(svs) \in Nat, DOMAIN svs = 1..Len(svs), NEW first, NEW last
  PROVE  /\ NMEA!Ours(svs, first, last) \in SUBSET Nat /\ 0 \notin NMEA!Ours(svs, first, last)
         /\ IsFiniteSet(NMEA!Ours(svs, first, last))
<1> DEFINE S == NMEA!Ours(svs, first, last)
<1>1. S \in SUBSET (1..Len(svs)) /\ IsFiniteSet(1..Len(svs))
  BY FS_Interval DEF NMEA!Ours
<1>2. IsFiniteSet(S)
  <2> HIDE DEF S
  <2> QED
    BY <1>1, FS_Subset
<1>3. S \in SUBSET Nat /\ 0 \notin S
  <2> HIDE DEF S
  <2> QED
    BY <1>1
<1> QED
  BY <1>2, <1>3

LEMMA GsvIsPaged ==
  ASSUME NEW svs, Len(svs) \in Nat, DOMAIN svs = 1..Len(svs), NEW first, NEW last, NEW id
  PROVE  /\ Pages(NMEA!Ours(svs, first, last)) \in Nat \ {0}
         /\ Paged(id, NMEA!Gsv(id, svs, first, last), svs, NMEA!Ours(svs, first, last))
<1> DEFINE S == NMEA!Ours(svs, first, last)
           c == Cardinality(S)
           num == NMEA!SentenceCount(c)
           p == NMEA!svNumber(svs, S)
           F(k) == NMEA!From(S, p[k - 1])
           G == NMEA!Gsv(id, svs, first, last)
<1>0. S \in SUBSET Nat /\ 0 \notin S /\ IsFiniteSet(S)
  BY OursFinite
<1>1. c \in Nat /\ (c = 0 <=> S = {})
  <2> HIDE DEF S
  <2> QED
    BY <1>0, FS_CardinalityType, FS_EmptySet
<1>p. Pages(S) \in Nat \ {0}
  <2> HIDE DEF c
  <2>1. NMEA!SentenceCount(c) \in Nat /\ (c = 0 <=> NMEA!SentenceCount(c) = 0)
    BY <1>1, Quarters
  <2> QED
    BY <2>1 DEF Pages, c
<1> SUFFICES Paged(id, G, svs, S)
  BY <1>p
<1>2. CASE c = 0
  <2>1. G = <<[id |-> id, count |-> 1, number |-> 1, total |-> 0, svs |-> <<>>]>>
    BY <1>2, NmeaSize DEF NMEA!Gsv
  <2> HIDE DEF G, c, S
  <2>6. G = [k \in 1..1 |-> G[k]]
    BY <2>1
  <2>2. /\ G[1].id = id /\ G[1].count = 1 /\ G[1].number = 1 /\ G[1].total = 0
        /\ G[1].svs = <<>>
    BY <2>1
  <2>3. NMEA!UpToFour(0 - 4 * (1 - 1)) = 0 /\ S = {}
    BY <1>1, <1>2 DEF NMEA!UpToFour
  <2>4. \A k \in 1..1 : k = 1
    OBVIOUS
  <2>5. ASSUME NEW k \in 1..1
        PROVE  /\ G[k].id = id /\ G[k].count = 1 /\ G[k].number = k /\ G[k].total = c
               /\ Len(G[k].svs) = NMEA!UpToFour(c - 4 * (k - 1))
    <3>1. k = 1
      BY <2>4
    <3>2. Len(G[1].svs) = 0
      BY <2>2
    <3> QED
      BY <3>1, <3>2, <2>2, <2>3, <1>2
  <2> QED
    BY <2>6, <2>3, <2>5, <1>2, Zenon DEF Paged, Pages, G, c, S
<1>3. CASE c # 0
  <2> DEFINE d == NMEA!Cardinality(S)
             t == NMEA!SentenceCount(d)
  <2>0. d = c /\ t = num
    BY NmeaSize
  <2>1. G = [k \in 1..t |->
               [id |-> id, count |-> t, number |-> k, total |-> d,
                svs |-> [i \in 1..NMEA!UpToFour(NMEA!Cardinality(F(k))) |-> svs[NMEA!Nth(F(k), i)]]]]
    BY <1>3, NmeaSize DEF NMEA!Gsv
  <2>2. num \in Nat /\ \A k \in Nat : k < num <=> 4 * k < c
    <3> HIDE DEF c
    <3> QED
      BY <1>1, Quarters
  <2>3. ASSUME NEW k \in 1..num
        PROVE  /\ 4 * (k - 1) < c /\ k - 1 \in Nat
               /\ IsFiniteSet(F(k)) /\ F(k) \in SUBSET Nat /\ Cardinality(F(k)) = c - 4 * (k - 1)
               /\ \A n \in F(k) : n \in S /\ NMEA!Rank(S, n) = NMEA!Rank(F(k), n) + 4 * (k - 1)
    <3>1. k - 1 \in 0..num /\ k - 1 < num /\ k - 1 \in Nat
      <4>1. num \in Nat /\ k \in 1..num
        BY <2>2
      <4> HIDE DEF num
      <4> QED
        BY ONLY <4>1
    <3>2. p[k - 1] \in Nat /\ Cardinality(Before(S, p[k - 1])) = 4 * (k - 1)
      <4> HIDE DEF S, p, num
      <4> QED
        BY <1>0, <3>1, SvNumbers DEF c, num, p
    <3>3. /\ IsFiniteSet(F(k)) /\ F(k) \in SUBSET Nat
          /\ Cardinality(F(k)) = c - Cardinality(Before(S, p[k - 1]))
          /\ \A n \in F(k) : NMEA!Rank(S, n) = NMEA!Rank(F(k), n) + Cardinality(Before(S, p[k - 1]))
      BY <1>0, <3>2, RankBehind, Zenon
    <3>4. \A n \in F(k) : n \in S
      BY DEF NMEA!From
    <3>5. 4 * (k - 1) < c
      BY <2>2, <3>1
    <3> HIDE DEF F, S, c, p
    <3> QED
      BY <3>1, <3>2, <3>3, <3>4, <3>5, Zenon
  <2> HIDE DEF G, F, p, num, c, S, d, t
  <2>4. ASSUME NEW k \in 1..num
        PROVE  /\ G[k].id = id /\ G[k].count = num /\ G[k].number = k /\ G[k].total = c
               /\ Len(G[k].svs) = NMEA!UpToFour(c - 4 * (k - 1)) /\ c - 4 * (k - 1) > 0
               /\ \A i \in 1..NMEA!UpToFour(c - 4 * (k - 1)) : G[k].svs[i] = svs[NMEA!Nth(F(k), i)]
    <3> DEFINE u == NMEA!UpToFour(c - 4 * (k - 1))
               L == [i \in 1..u |-> svs[NMEA!Nth(F(k), i)]]
    <3>1. NMEA!Cardinality(F(k)) = c - 4 * (k - 1)
      BY <2>3, NmeaSize
    <3>2. G[k] = [id |-> id, count |-> num, number |-> k, total |-> c, svs |-> L]
      BY <2>0, <2>1, <3>1
    <3>3. u \in Nat /\ c - 4 * (k - 1) > 0
      BY <2>3, <1>1 DEF NMEA!UpToFour
    <3> HIDE DEF u
    <3>4. Len(L) = u /\ \A i \in 1..u : L[i] = svs[NMEA!Nth(F(k), i)]
      BY <3>3
    <3> HIDE DEF L
    <3>5. /\ G[k].id = id /\ G[k].count = num /\ G[k].number = k /\ G[k].total = c /\ G[k].svs = L
      BY <3>2
    <3> QED
      BY <3>3, <3>4, <3>5, Zenon DEF u
  <2>5. ASSUME NEW n \in S
        PROVE  LET r == NMEA!Rank(S, n) - 1
               IN  (r \div 4) + 1 \in 1..num /\ G[(r \div 4) + 1].svs[(r % 4) + 1] = svs[n]
    <3> DEFINE r == NMEA!Rank(S, n) - 1
               k == (r \div 4) + 1
               i == (r % 4) + 1
    <3>1. r \in Nat /\ r < c
      <4>1. NMEA!Rank(S, n) \in 1..c
        BY <1>0, RankGrows DEF c
      <4> QED
        BY <4>1, <1>1
    <3> HIDE DEF r
    <3>2. r = 4 * (k - 1) + (i - 1) /\ k - 1 \in Nat /\ i \in 1..4 /\ k \in Nat \ {0}
      BY <3>1
    <3> HIDE DEF k, i
    <3>3. 4 * (k - 1) < c
      BY <3>1, <3>2, <1>1
    <3>4. k \in 1..num
      <4>1. k - 1 < num
        BY <2>2, <3>2, <3>3
      <4> QED
        BY <4>1, <2>2, <3>2
    <3>5. i \in 1..(c - 4 * (k - 1)) /\ i \in 1..NMEA!UpToFour(c - 4 * (k - 1))
      BY <3>1, <3>2, <3>3, <1>1 DEF NMEA!UpToFour
    <3>6. NMEA!Nth(F(k), i) \in F(k) /\ NMEA!Rank(F(k), NMEA!Nth(F(k), i)) = i
      <4>1. i \in 1..Cardinality(F(k))
        BY <2>3, <3>4, <3>5
      <4> QED
        BY <2>3, <3>4, <4>1, NthIs
    <3>7. NMEA!Nth(F(k), i) \in S /\ NMEA!Rank(S, NMEA!Nth(F(k), i)) = i + 4 * (k - 1)
      BY <2>3, <3>4, <3>6
    <3>8. NMEA!Rank(S, NMEA!Nth(F(k), i)) = NMEA!Rank(S, n)
      <4>1. NMEA!Rank(S, n) = r + 1
        <5>1. NMEA!Rank(S, n) \in 1..c
          BY <1>0, RankGrows DEF c
        <5> QED
          BY <5>1, <1>1 DEF r
      <4> QED
        BY <3>2, <3>7, <4>1
    <3>9. NMEA!Nth(F(k), i) = n
      BY <1>0, <3>7, <3>8, RankIsOne
    <3>10. G[k].svs[i] = svs[n]
      BY <2>4, <3>4, <3>5, <3>9
    <3> QED
      BY <3>4, <3>10 DEF k, i, r
  <2>6. G = [k \in 1..num |-> G[k]]
    BY <2>0, <2>1
  <2> QED
    BY <2>4, <2>5, <2>6, <1>3, Zenon DEF Paged, Pages, G, num, c, S
<1> QED
  BY <1>2, <1>3

\* Numbers in a row, and their ranks.
LEMMA RankInRow ==
  ASSUME NEW a \in Nat, NEW num \in Nat, NEW k \in 1..num
  PROVE  NMEA!Rank((a + 1)..(a + num), a + k) = k /\ Cardinality((a + 1)..(a + num)) = num
<1>1. {m \in (a + 1)..(a + num) : m <= a + k} = (a + 1)..(a + k)
  OBVIOUS
<1>2. Cardinality((a + 1)..(a + k)) = k /\ Cardinality((a + 1)..(a + num)) = num
  <2> DEFINE i == a + 1
             j == a + k
             l == a + num
  <2>1. /\ i \in Int /\ j \in Int /\ l \in Int /\ j - i + 1 = k /\ l - i + 1 = num
        /\ ~(i > j) /\ ~(i > l)
    OBVIOUS
  <2> HIDE DEF i, j, l
  <2>2. Cardinality(i..j) = k /\ Cardinality(i..l) = num
    BY <2>1, FS_Interval
  <2> QED
    BY <2>2 DEF i, j, l
<1> QED
  BY <1>1, <1>2, RankIs

LEMMA PagedHere ==
  ASSUME NEW id, NEW G, NEW svs, NEW ours, Paged(id, G, svs, ours)
  PROVE  G = [k \in 1..Pages(ours) |-> G[k]] /\ \A k \in 1..Pages(ours) : G[k].id = id
<1>1. G = [k \in 1..Pages(ours) |-> G[k]]
  BY DEF Paged
<1>2. ASSUME NEW k \in 1..Pages(ours) PROVE G[k].id = id
  BY Zenon DEF Paged
<1> QED
  BY <1>1, <1>2

\* Sentences that are paged are complete where they are sent, after a others.
LEMMA PagedIsComplete ==
  ASSUME NEW a \in Nat, NEW G, NEW id, NEW first, NEW last, NEW S, NEW num \in Nat \ {0},
         S = NMEA!Ours(view', first, last), num = Pages(S), Paged(id, G, view', S),
         {k \in DOMAIN nmea' : nmea'[k].id = id} = (a + 1)..(a + num),
         \A k \in 1..num : nmea'[a + k] = G[k]
  PROVE  NMEA!Complete(id, first, last)'
<1> DEFINE at == (a + 1)..(a + num)
           c == Cardinality(S)
           r(n) == NMEA!Rank(S, n) - 1
<1>1. /\ \A k \in 1..num : /\ G[k].id = id /\ G[k].count = num /\ G[k].number = k /\ G[k].total = c
                           /\ Len(G[k].svs) = NMEA!UpToFour(c - 4 * (k - 1))
                           /\ S # {} => c - 4 * (k - 1) > 0
      /\ \A n \in S : (r(n) \div 4) + 1 \in 1..num /\ G[(r(n) \div 4) + 1].svs[(r(n) % 4) + 1] = view'[n]
  BY Zenon DEF Paged
<1>2. Cardinality(at) = num
  <2>1. 1 \in 1..num
    OBVIOUS
  <2> QED
    BY <2>1, RankInRow
<1>3. ASSUME NEW k \in at
      PROVE  /\ nmea'[k].count = Cardinality(at) /\ nmea'[k].number = NMEA!Rank(at, k)
             /\ nmea'[k].total = c
             /\ Len(nmea'[k].svs) = NMEA!UpToFour(c - 4 * (NMEA!Rank(at, k) - 1))
             /\ S # {} => c - 4 * (NMEA!Rank(at, k) - 1) > 0
  <2> DEFINE j == k - a
  <2>1. j \in 1..num /\ k = a + j
    OBVIOUS
  <2> HIDE DEF j
  <2>2. NMEA!Rank(at, k) = j
    BY <2>1, RankInRow
  <2>3. nmea'[k] = G[j]
    BY <2>1
  <2> HIDE DEF at, c
  <2>4. j \in 1..num
    BY <2>1
  <2>5. /\ G[j].count = num /\ G[j].number = j /\ G[j].total = c
        /\ Len(G[j].svs) = NMEA!UpToFour(c - 4 * (j - 1))
        /\ S # {} => c - 4 * (j - 1) > 0
    BY ONLY <1>1, <2>4, Zenon
  <2> QED
    BY ONLY <1>2, <2>2, <2>3, <2>5, Zenon
<1>4. ASSUME NEW n \in S
      PROVE  \E k \in at : /\ nmea'[k].number = (r(n) \div 4) + 1
                           /\ nmea'[k].svs[(r(n) % 4) + 1] = view'[n]
  <2> DEFINE j == (r(n) \div 4) + 1
             i == (r(n) % 4) + 1
  <2>1. j \in 1..num /\ G[j].svs[i] = view'[n]
    BY <1>1, Zenon
  <2> HIDE DEF j, i
  <2>2. a + j \in at
    BY <2>1
  <2>3. nmea'[a + j] = G[j] /\ G[j].number = j
    <3>1. j \in 1..num
      BY <2>1, Zenon
    <3>2. G[j].number = j
      BY ONLY <1>1, <3>1, Zenon
    <3> QED
      BY <3>1, <3>2, Zenon
  <2> HIDE DEF at
  <2>4. nmea'[a + j].number = j /\ nmea'[a + j].svs[i] = view'[n]
    BY <2>1, <2>3, Zenon
  <2> QED
    BY <2>2, <2>4, Zenon DEF j, i
<1> HIDE DEF at
<1>5. {k \in DOMAIN nmea' : nmea'[k].id = id} = at
  BY DEF at
<1>6. NMEA!Cardinality(at) = Cardinality(at) /\ NMEA!Cardinality(S) = c
  BY NmeaSize
<1> HIDE DEF c
<1>7. /\ \A k \in at : /\ nmea'[k].count = NMEA!Cardinality(at) /\ nmea'[k].number = NMEA!Rank(at, k)
                       /\ nmea'[k].total = NMEA!Cardinality(S)
                       /\ Len(nmea'[k].svs) = NMEA!UpToFour(NMEA!Cardinality(S) - 4 * (NMEA!Rank(at, k) - 1))
                       /\ S # {} => NMEA!Cardinality(S) - 4 * (NMEA!Rank(at, k) - 1) > 0
      /\ \A n \in S : \E k \in at : /\ nmea'[k].number = (r(n) \div 4) + 1
                                     /\ nmea'[k].svs[(r(n) % 4) + 1] = view'[n]
  BY <1>3, <1>4, <1>6, Zenon
<1> QED
  BY <1>5, <1>7, Zenon DEF NMEA!Complete

LEMMA ViewIs ==
  ASSUME NEW svs \in NMEA!Views, MaxSvs \in Nat
  PROVE  Len(svs) \in Nat /\ DOMAIN svs = 1..Len(svs)
<1>1. PICK n \in 0..MaxSvs : svs \in [1..n -> Prns]
  BY DEF NMEA!Views
<1>2. svs \in Seq(Prns) /\ Len(svs) = n /\ n \in Nat
  BY <1>1
<1> QED
  BY <1>2

\* After a satellite report.
LEMMA CompleteAfterSv ==
  ASSUME NEW svs \in NMEA!Views, MaxSvs \in Nat, NEW used, NEW hasDop,
         NMEA!loc_eng_nmea_generate_sv(svs, used, hasDop)
  PROVE  /\ NMEA!Complete("GPGSV", NMEA!GPS_PRN_START, NMEA!GPS_PRN_END)'
         /\ NMEA!Complete("GLGSV", NMEA!GLONASS_PRN_START, NMEA!GLONASS_PRN_END)'
<1> DEFINE A == NMEA!Gsv("GPGSV", svs, NMEA!GPS_PRN_START, NMEA!GPS_PRN_END)
           B == NMEA!Gsv("GLGSV", svs, NMEA!GLONASS_PRN_START, NMEA!GLONASS_PRN_END)
           SA == NMEA!Ours(svs, NMEA!GPS_PRN_START, NMEA!GPS_PRN_END)
           SB == NMEA!Ours(svs, NMEA!GLONASS_PRN_START, NMEA!GLONASS_PRN_END)
           a == Pages(SA)
           b == Pages(SB)
<1>1. nmea' = A \o B /\ view' = svs
  BY DEF NMEA!loc_eng_nmea_generate_sv
<1>2. Len(svs) \in Nat /\ DOMAIN svs = 1..Len(svs)
  BY ViewIs
<1>3. a \in Nat \ {0} /\ b \in Nat \ {0} /\ Paged("GPGSV", A, svs, SA) /\ Paged("GLGSV", B, svs, SB)
  BY <1>2, GsvIsPaged
<1>4. /\ SA = NMEA!Ours(view', NMEA!GPS_PRN_START, NMEA!GPS_PRN_END)
      /\ SB = NMEA!Ours(view', NMEA!GLONASS_PRN_START, NMEA!GLONASS_PRN_END)
  BY <1>1
<1> HIDE DEF A, B, SA, SB
<1>5. /\ A = [k \in 1..a |-> A[k]] /\ \A k \in 1..a : A[k].id = "GPGSV"
      /\ B = [k \in 1..b |-> B[k]] /\ \A k \in 1..b : B[k].id = "GLGSV"
  BY <1>3, PagedHere
<1> HIDE DEF a, b
<1>6. /\ DOMAIN nmea' = 1..(a + b)
      /\ \A k \in 1..a : nmea'[k] = A[k]
      /\ \A k \in 1..b : nmea'[a + k] = B[k]
  <2>1. a \in Nat /\ b \in Nat
    BY <1>3
  <2>2. nmea' = A \o B
    BY <1>1
  <2>3. A = [k \in 1..a |-> A[k]] /\ B = [k \in 1..b |-> B[k]]
    BY <1>5, Zenon
  <2> QED
    BY <2>1, <2>2, <2>3, JoinedPlaces
<1>7. /\ \A k \in 1..a : k \in DOMAIN nmea' /\ nmea'[k].id = "GPGSV"
      /\ \A k \in (a + 1)..(a + b) : k \in DOMAIN nmea' /\ nmea'[k].id = "GLGSV"
      /\ \A k \in DOMAIN nmea' : k \in 1..a \/ k \in (a + 1)..(a + b)
  <2>1. \A k \in (a + 1)..(a + b) : k - a \in 1..b /\ a + (k - a) = k
    BY <1>3
  <2>2. ASSUME NEW k \in (a + 1)..(a + b) PROVE nmea'[k].id = "GLGSV"
    <3>1. nmea'[a + (k - a)] = B[k - a] /\ B[k - a].id = "GLGSV"
      BY <1>5, <1>6, <2>1, Zenon
    <3> QED
      BY <2>1, <3>1, Zenon
  <2>3. /\ \A k \in 1..a : k \in 1..(a + b)
        /\ \A k \in (a + 1)..(a + b) : k \in 1..(a + b)
        /\ \A k \in 1..(a + b) : k \in 1..a \/ k \in (a + 1)..(a + b)
    BY <1>3
  <2> QED
    BY <1>5, <1>6, <2>2, <2>3, Zenon
<1>8. {k \in DOMAIN nmea' : nmea'[k].id = "GPGSV"} = (0 + 1)..(0 + a)
  <2>1. (0 + 1)..(0 + a) = 1..a
    BY <1>3
  <2>2. "GPGSV" # "GLGSV"
    OBVIOUS
  <2> QED
    BY <1>7, <2>1, <2>2, Zenon
<1>9. {k \in DOMAIN nmea' : nmea'[k].id = "GLGSV"} = (a + 1)..(a + b)
  <2>1. "GPGSV" # "GLGSV"
    OBVIOUS
  <2> QED
    BY <1>7, <2>1, Zenon
<1>10. NMEA!Complete("GPGSV", NMEA!GPS_PRN_START, NMEA!GPS_PRN_END)'
  <2>1. \A k \in 1..a : nmea'[0 + k] = A[k]
    BY <1>6
  <2>2. 0 \in Nat /\ a = Pages(SA) /\ Paged("GPGSV", A, view', SA)
    BY <1>1, <1>3 DEF a
  <2> QED
    BY <1>3, <1>4, <1>8, <2>1, <2>2, PagedIsComplete
<1>11. NMEA!Complete("GLGSV", NMEA!GLONASS_PRN_START, NMEA!GLONASS_PRN_END)'
  <2>1. a \in Nat /\ b = Pages(SB) /\ Paged("GLGSV", B, view', SB)
    BY <1>1, <1>3 DEF b
  <2> QED
    BY <1>3, <1>4, <1>6, <1>9, <2>1, PagedIsComplete
<1> QED
  BY <1>10, <1>11

\* With the same sentences and the same view nothing changes.
CompleteIn(sent, svs, id, first, last) ==
  LET at == {k \in DOMAIN sent : sent[k].id = id}
      ours == NMEA!Ours(svs, first, last)
      left(k) == NMEA!Cardinality(ours) - 4 * (NMEA!Rank(at, k) - 1)
  IN  at # {} =>
        /\ \A k \in at : /\ sent[k].count = NMEA!Cardinality(at) /\ sent[k].number = NMEA!Rank(at, k)
                         /\ sent[k].total = NMEA!Cardinality(ours)
                         /\ Len(sent[k].svs) = NMEA!UpToFour(left(k))
                         /\ ours # {} => left(k) > 0
        /\ \A n \in ours : \E k \in at :
             LET r == NMEA!Rank(ours, n) - 1
             IN  sent[k].number = (r \div 4) + 1 /\ sent[k].svs[(r % 4) + 1] = svs[n]

LEMMA CompleteStays ==
  ASSUME NEW id, NEW first, NEW last, NMEA!Complete(id, first, last), nmea' = nmea, view' = view
  PROVE  NMEA!Complete(id, first, last)'
<1>1. CompleteIn(nmea, view, id, first, last)
  BY Zenon DEF NMEA!Complete, CompleteIn
<1>2. CompleteIn(nmea', view', id, first, last)
  BY <1>1
<1> QED
  BY <1>2, Zenon DEF NMEA!Complete, CompleteIn

\* A position report sends none of these sentences.
LEMMA CompleteAfterPos ==
  ASSUME NEW t, NEW d, NEW l, NEW a, NEW g, NMEA!loc_eng_nmea_generate_pos(t, d, l, a, g),
         NEW id \in {"GPGSV", "GLGSV"}, NEW first, NEW last
  PROVE  NMEA!Complete(id, first, last)'
<1>1. \A k \in DOMAIN nmea' : nmea'[k].id # id
  <2>1. CASE nmea' = <<>>
    BY <2>1
  <2>2. CASE nmea' = NMEA!Blank
    BY <2>2 DEF NMEA!Blank
  <2>3. ASSUME NEW used,
               nmea' = <<NMEA!GPGSA(used, d), NMEA!GPVTG(l, a), NMEA!GPRMC(l, a),
                         NMEA!GPGGA(used, d, l, a)>>
        PROVE  \A k \in DOMAIN nmea' : nmea'[k].id # id
    BY <2>3 DEF NMEA!GPGSA, NMEA!GPVTG, NMEA!GPRMC, NMEA!GPGGA
  <2> QED
    BY <2>1, <2>2, <2>3 DEF NMEA!loc_eng_nmea_generate_pos
<1>2. {k \in DOMAIN nmea' : nmea'[k].id = id} = {}
  BY <1>1
<1> QED
  BY <1>2, Zenon DEF NMEA!Complete

(***************************************************************************)
(* A satellite report lists the satellites of each constellation in full:  *)
(* each once and in order, four in a sentence but for the last, numbered   *)
(* through and with the same totals (loc_eng_nmea_generate_sv); and no     *)
(* cached satellite report is used by two position reports.                *)
(***************************************************************************)
THEOREM SentencesAreInFull == NMEA!Spec => []SentencesAreRight
<1> DEFINE Full == /\ NMEA!Complete("GPGSV", NMEA!GPS_PRN_START, NMEA!GPS_PRN_END)
                   /\ NMEA!Complete("GLGSV", NMEA!GLONASS_PRN_START, NMEA!GLONASS_PRN_END)
<1>1. NMEA!Init => NmeaInv /\ Full
  <2> SUFFICES ASSUME NMEA!Init PROVE NmeaInv /\ Full
    OBVIOUS
  <2>1. NmeaInv
    BY PartsAssumption DEF NMEA!Init, NMEA!NoMask, NmeaInv, NMEA!CachesUsedOnce
  <2>2. ASSUME NEW id PROVE {k \in DOMAIN nmea : nmea[k].id = id} = {}
    BY DEF NMEA!Init
  <2>3. Full
    BY <2>2, Zenon DEF NMEA!Complete
  <2> QED
    BY <2>1, <2>3
<1>2. NmeaInv /\ Full /\ [NMEA!Next]_(NMEA!vars) => (NmeaInv /\ Full)'
  <2> SUFFICES ASSUME NmeaInv, Full, [NMEA!Next]_(NMEA!vars) PROVE (NmeaInv /\ Full)'
    OBVIOUS
  <2>1. NmeaInv'
    BY NmeaStep
  <2>2. ASSUME NEW svs \in NMEA!Views, NEW used, NEW hasDop,
               NMEA!loc_eng_nmea_generate_sv(svs, used, hasDop)
        PROVE  Full'
    BY <2>2, PartsAssumption, CompleteAfterSv
  <2>3. ASSUME NEW t, NEW d, NEW l, NEW a, NEW g, NMEA!loc_eng_nmea_generate_pos(t, d, l, a, g)
        PROVE  Full'
    BY <2>3, CompleteAfterPos
  <2>4. CASE UNCHANGED NMEA!vars
    <3>1. nmea' = nmea /\ view' = view
      BY <2>4 DEF NMEA!vars
    <3> QED
      BY <2>1, <3>1, CompleteStays
  <2> HIDE DEF Full
  <2> QED
    BY <2>1, <2>2, <2>3, <2>4 DEF NMEA!Next
<1>3. NmeaInv /\ Full => SentencesAreRight
  BY DEF SentencesAreRight, NMEA!SentencesAreRight, NmeaInv
<1> QED
  BY <1>1, <1>2, <1>3, PTL DEF NMEA!Spec

-----------------------------------------------------------------------------
(* The data that pass through the HAL.                                     *)

XtraMsgs == [op : {"Item"}, kind : Xtra!Kinds] \cup [op : {"Certs"}, n : 1..Slots]
            \cup [op : {"Servers"}, xtra1 : SUBSET (1..3)]
            \cup [op : {"UserAgent", "RequestXtra", "RequestTime"}]

\* The number of messages that carry data of kind k.
KindOf(m) == CASE m.op = "Item" -> m.kind
               [] m.op = "Certs" -> "certs"
               [] OTHER -> "none"
Carrying(k, s) == {i \in 1..Len(s) : KindOf(s[i]) = k}
Number(k, s) == Cardinality(Carrying(k, s))

LEMMA NumberNone == ASSUME NEW k PROVE Number(k, <<>>) = 0
<1>1. Carrying(k, <<>>) = {}
  BY DEF Carrying
<1> QED
  BY <1>1, FS_EmptySet DEF Number

LEMMA NumberNat == ASSUME NEW k, NEW s \in Seq(XtraMsgs) PROVE Number(k, s) \in Nat
<1>1. Carrying(k, s) \in SUBSET (1..Len(s)) /\ IsFiniteSet(1..Len(s))
  BY FS_Interval DEF Carrying
<1>2. IsFiniteSet(Carrying(k, s))
  BY <1>1, FS_Subset
<1> QED
  BY <1>2, FS_CardinalityType DEF Number

LEMMA NumberAppend ==
  ASSUME NEW k, NEW s \in Seq(XtraMsgs), NEW x \in XtraMsgs
  PROVE  Number(k, Append(s, x)) = Number(k, s) + (IF KindOf(x) = k THEN 1 ELSE 0)
<1> DEFINE e == Len(s) + 1
<1>1. /\ Carrying(k, s) \in SUBSET (1..Len(s)) /\ IsFiniteSet(1..Len(s))
      /\ e \notin Carrying(k, s)
  BY FS_Interval DEF Carrying
<1>2. IsFiniteSet(Carrying(k, s))
  BY <1>1, FS_Subset
<1>3. Len(Append(s, x)) = e /\ Append(s, x)[e] = x
  OBVIOUS
<1>4. \A i \in 1..Len(s) : Append(s, x)[i] = s[i]
  OBVIOUS
<1>5. CASE KindOf(x) = k
  <2>1. Carrying(k, Append(s, x)) = Carrying(k, s) \cup {e}
    BY <1>3, <1>4, <1>5 DEF Carrying
  <2> HIDE DEF e
  <2>2. Cardinality(Carrying(k, s) \cup {e}) = Cardinality(Carrying(k, s)) + 1
    BY <1>1, <1>2, FS_AddElement
  <2> QED
    BY <1>5, <2>1, <2>2 DEF Number
<1>6. CASE KindOf(x) # k
  <2>1. Carrying(k, Append(s, x)) = Carrying(k, s)
    BY <1>3, <1>4, <1>6 DEF Carrying
  <2> QED
    BY <1>6, <2>1, NumberNat DEF Number
<1> QED
  BY <1>5, <1>6

\* Behind the head each message is one place further.
LEMMA NumberTail ==
  ASSUME NEW k, NEW s \in Seq(XtraMsgs), s # <<>>
  PROVE  Number(k, s) = Number(k, Tail(s)) + (IF KindOf(Head(s)) = k THEN 1 ELSE 0)
<1> DEFINE A == Carrying(k, Tail(s))
           B == Carrying(k, s) \ {1}
           f == [i \in A |-> i + 1]
<1>1. /\ Tail(s) \in Seq(XtraMsgs) /\ Len(Tail(s)) = Len(s) - 1 /\ Len(s) \in Nat \ {0}
      /\ Head(s) = s[1]
      /\ \A i \in 1..(Len(s) - 1) : Tail(s)[i] = s[i + 1]
  OBVIOUS
<1>2. A = {i \in 1..(Len(s) - 1) : KindOf(s[i + 1]) = k}
  BY <1>1 DEF Carrying
<1>3. B = {j \in 2..Len(s) : KindOf(s[j]) = k}
  BY <1>1 DEF Carrying
<1>4. f \in [A -> B]
  BY <1>1, <1>2, <1>3
<1>5. \A a, b \in A : f[a] = f[b] => a = b
  BY <1>2
<1>6. ASSUME NEW t \in B PROVE \E a \in A : f[a] = t
  <2>1. t - 1 \in A /\ f[t - 1] = t
    BY <1>1, <1>2, <1>3
  <2> QED
    BY <2>1
<1>7. IsFiniteSet(A) /\ IsFiniteSet(Carrying(k, s))
  <2>1. /\ A \in SUBSET (1..Len(Tail(s))) /\ Carrying(k, s) \in SUBSET (1..Len(s))
        /\ IsFiniteSet(1..Len(Tail(s))) /\ IsFiniteSet(1..Len(s))
    BY <1>1, FS_Interval DEF Carrying
  <2> QED
    BY <2>1, FS_Subset
<1>8. ExistsBijection(A, B)
  BY <1>4, <1>5, <1>6 DEF ExistsBijection, Bijection, Injection, Surjection, IsInjective
<1> HIDE DEF A, B
<1>9. Cardinality(B) = Cardinality(A)
  BY <1>7, <1>8, FS_Bijection
<1>10. 1 \in Carrying(k, s) <=> KindOf(Head(s)) = k
  BY <1>1 DEF Carrying
<1>11. Cardinality(B) =
           IF 1 \in Carrying(k, s) THEN Cardinality(Carrying(k, s)) - 1
           ELSE Cardinality(Carrying(k, s))
  BY <1>7, FS_RemoveElement DEF B
<1>12. Cardinality(A) \in Nat /\ Cardinality(Carrying(k, s)) \in Nat
  BY <1>7, FS_CardinalityType
<1> QED
  BY <1>9, <1>10, <1>11, <1>12 DEF A, Number

XtraTypes ==
  /\ phase \in {"none", "adapter", "done"} /\ inits \in Nat
  /\ extended \in BOOLEAN
  /\ mSupportsPositionInjection \in BOOLEAN /\ mSupportsTimeInjection \in BOOLEAN
  /\ xq \in Seq(XtraMsgs)
  /\ gave \in [Xtra!Kinds -> Nat] /\ has \in [Xtra!Kinds -> Nat]
  /\ installed \in 0..Slots

\* Data come after the first loc_init, and each one sets the flags.
FlagsAreSet ==
  /\ phase # "done" => ~mSupportsTimeInjection /\ \A k \in Xtra!Kinds : gave[k] = 0
  /\ phase = "done" => /\ inits > 0
                       /\ mSupportsPositionInjection <=> ~extended
                       /\ mSupportsTimeInjection \/ extended

\* What was given of kind k is with the modem, n of it in messages; positions
\* are not taken with an extended CPI, and of the times one is lost after each
\* of the i calls of loc_init, the last one of which is still to lose its time
\* while the flag is not set.
Passed(g, h, n, k, e, t, i) ==
  CASE k = "location" -> h + n = IF e THEN 0 ELSE g
    [] k = "time" -> /\ ~e => g = h + n
                     /\ e => /\ h + n <= g /\ g <= h + n + i
                             /\ ~t /\ i > 0 => g < h + n + i
                             /\ t \/ h > 0 => h + n < g
    [] OTHER -> g = h + n

AllPassed ==
  \A k \in Xtra!Kinds :
    Passed(gave[k], has[k], Number(k, xq), k, extended, mSupportsTimeInjection, inits)

XtraInv == XtraTypes /\ FlagsAreSet /\ AllPassed /\ Xtra!ServersAreKept /\ Xtra!AgentIsWhole

\* The servers that are not at xtra1.gpsonextra.net, one after the other.
LEMMA ForwardedServers ==
  ASSUME NEW S \in SUBSET (1..3), NEW b, b = Xtra!Forwarded(S)
  PROVE  /\ Xtra!ToSet(b) = (1..3) \ S
         /\ \A i, j \in DOMAIN b : i < j => b[i] < b[j]
<1> DEFINE one == IF 1 \in S THEN <<>> ELSE <<1>>
           two == IF 2 \in S THEN one ELSE Append(one, 2)
           three == IF 3 \in S THEN two ELSE Append(two, 3)
<1>1. b = three
  <2>1. Append(<<>>, 1) = <<1>>
    OBVIOUS
  <2> QED
    BY <2>1 DEF Xtra!Forwarded
<1>2. 1..3 = {1, 2, 3}
  OBVIOUS
<1> QED
  BY <1>1, <1>2 DEF Xtra!ToSet

LEMMA MsgKinds ==
  /\ \A k \in Xtra!Kinds : Xtra!Item(k) \in XtraMsgs /\ KindOf(Xtra!Item(k)) = k
  /\ \A n \in 1..Slots : Xtra!Certs(n) \in XtraMsgs /\ KindOf(Xtra!Certs(n)) = "certs"
  /\ \A S \in SUBSET (1..3) : Xtra!Servers(S) \in XtraMsgs /\ KindOf(Xtra!Servers(S)) = "none"
  /\ \A o \in {"UserAgent", "RequestXtra", "RequestTime"} :
       Xtra!Msg(o) \in XtraMsgs /\ KindOf(Xtra!Msg(o)) = "none"
  /\ \A m \in XtraMsgs : /\ m.op = "Item" => m.kind \in Xtra!Kinds
                         /\ m.op = "Certs" => m.n \in 1..Slots
                         /\ m.op = "Servers" => m.xtra1 \in SUBSET (1..3)
<1>1. ASSUME NEW S \in SUBSET (1..3)
      PROVE  Xtra!Servers(S) \in XtraMsgs /\ KindOf(Xtra!Servers(S)) = "none"
  BY DEF XtraMsgs, KindOf, Xtra!Servers
<1>2. \A k \in Xtra!Kinds : Xtra!Item(k) \in XtraMsgs /\ KindOf(Xtra!Item(k)) = k
  BY DEF XtraMsgs, KindOf, Xtra!Item
<1>3. \A n \in 1..Slots : Xtra!Certs(n) \in XtraMsgs /\ KindOf(Xtra!Certs(n)) = "certs"
  BY DEF XtraMsgs, KindOf, Xtra!Certs
<1>4. \A o \in {"UserAgent", "RequestXtra", "RequestTime"} :
        Xtra!Msg(o) \in XtraMsgs /\ KindOf(Xtra!Msg(o)) = "none"
  BY DEF XtraMsgs, KindOf, Xtra!Msg
<1>5. \A m \in XtraMsgs : /\ m.op = "Item" => m.kind \in Xtra!Kinds
                          /\ m.op = "Certs" => m.n \in 1..Slots
                          /\ m.op = "Servers" => m.xtra1 \in SUBSET (1..3)
  BY DEF XtraMsgs
<1> QED
  BY <1>1, <1>2, <1>3, <1>4, <1>5

\* A message that carries no data, sent or taken.
LEMMA NoData ==
  ASSUME XtraInv, UNCHANGED <<phase, inits, extended, mSupportsPositionInjection,
                              mSupportsTimeInjection, gave, has, installed>>,
         xq' \in Seq(XtraMsgs), \A k \in Xtra!Kinds : Number(k, xq') = Number(k, xq)
  PROVE  (XtraTypes /\ FlagsAreSet /\ AllPassed)'
<1>1. XtraTypes'
  BY DEF XtraInv, XtraTypes
<1>2. FlagsAreSet'
  BY DEF XtraInv, FlagsAreSet
<1>3. ASSUME NEW k \in Xtra!Kinds
      PROVE  Passed(gave'[k], has'[k], Number(k, xq'), k, extended', mSupportsTimeInjection',
                    inits')
  BY <1>3 DEF XtraInv, AllPassed
<1> QED
  BY <1>1, <1>2, <1>3 DEF AllPassed

\* What taking the message at the head and appending one do to the numbers.
LEMMA XtraTaken ==
  ASSUME XtraTypes, NEW o, Xtra!Takes(o)
  PROVE  /\ Head(xq) \in XtraMsgs /\ Head(xq).op = o /\ xq' \in Seq(XtraMsgs)
         /\ \A k : /\ Number(k, xq) = Number(k, xq') + (IF KindOf(Head(xq)) = k THEN 1 ELSE 0)
                   /\ Number(k, xq) \in Nat /\ Number(k, xq') \in Nat
<1>1. xq \in Seq(XtraMsgs) /\ xq # <<>> /\ xq' = Tail(xq) /\ Head(xq).op = o
  BY DEF XtraTypes, Xtra!Takes
<1>2. Head(xq) \in XtraMsgs /\ Tail(xq) \in Seq(XtraMsgs)
  BY <1>1
<1>3. ASSUME NEW k
      PROVE  /\ Number(k, xq) = Number(k, Tail(xq)) + (IF KindOf(Head(xq)) = k THEN 1 ELSE 0)
             /\ Number(k, xq) \in Nat /\ Number(k, Tail(xq)) \in Nat
  BY <1>1, <1>2, NumberTail, NumberNat
<1> QED
  BY <1>1, <1>2, <1>3

LEMMA XtraSent ==
  ASSUME XtraTypes, NEW m \in XtraMsgs, xq' = Append(xq, m)
  PROVE  /\ xq' \in Seq(XtraMsgs)
         /\ \A k : /\ Number(k, xq') = Number(k, xq) + (IF KindOf(m) = k THEN 1 ELSE 0)
                   /\ Number(k, xq) \in Nat
<1>1. xq \in Seq(XtraMsgs)
  BY DEF XtraTypes
<1>2. ASSUME NEW k
      PROVE  /\ Number(k, Append(xq, m)) = Number(k, xq) + (IF KindOf(m) = k THEN 1 ELSE 0)
             /\ Number(k, xq) \in Nat
  BY <1>1, NumberAppend, NumberNat
<1> QED
  BY <1>1, <1>2

\* An item of kind k is given, and its message sent or not.
LEMMA XtraGiven ==
  ASSUME XtraInv, NEW k \in Xtra!Kinds, NEW m \in XtraMsgs, KindOf(m) = k, NEW sent \in BOOLEAN,
         phase = "done", k # "location" => sent, k = "location" => (sent <=> ~extended),
         gave' = [gave EXCEPT ![k] = @ + 1], xq' = IF sent THEN Append(xq, m) ELSE xq,
         UNCHANGED <<phase, inits, extended, mSupportsPositionInjection, mSupportsTimeInjection,
                     has, installed>>
  PROVE  (XtraTypes /\ FlagsAreSet /\ AllPassed)'
<1>1. XtraTypes
  BY DEF XtraInv
<1>2. /\ xq' \in Seq(XtraMsgs)
      /\ \A j : /\ Number(j, xq') = Number(j, xq) + (IF sent /\ k = j THEN 1 ELSE 0)
                /\ Number(j, xq) \in Nat
  <2>1. CASE sent
    BY <1>1, <2>1, XtraSent
  <2>2. CASE ~sent
    BY <1>1, <2>2, NumberNat DEF XtraTypes
  <2> QED
    BY <2>1, <2>2
<1>3. gave'[k] = gave[k] + 1 /\ \A j \in Xtra!Kinds \ {k} : gave'[j] = gave[j]
  BY <1>1 DEF XtraTypes
<1>4. gave' \in [Xtra!Kinds -> Nat]
  BY <1>1 DEF XtraTypes
<1>5. XtraTypes'
  BY <1>1, <1>2, <1>4 DEF XtraTypes
<1>6. FlagsAreSet'
  BY DEF XtraInv, FlagsAreSet
<1>7. ASSUME NEW j \in Xtra!Kinds
      PROVE  Passed(gave'[j], has'[j], Number(j, xq'), j, extended', mSupportsTimeInjection',
                    inits')
  <2>1. Passed(gave[j], has[j], Number(j, xq), j, extended, mSupportsTimeInjection, inits)
    BY DEF XtraInv, AllPassed
  <2>2. gave[j] \in Nat /\ has[j] \in Nat /\ Number(j, xq) \in Nat
    BY <1>1, <1>2 DEF XtraTypes
  <2>3. CASE j # k
    <3>1. gave'[j] = gave[j] /\ Number(j, xq') = Number(j, xq)
      BY <1>2, <1>3, <2>2, <2>3
    <3> QED
      BY <2>1, <3>1
  <2>4. CASE j = k
    <3>1. gave'[j] = gave[j] + 1 /\ Number(j, xq') = Number(j, xq) + (IF sent THEN 1 ELSE 0)
      BY <1>2, <1>3, <2>4
    <3> QED
      <4>1. CASE k = "location"
        BY <2>1, <2>2, <2>4, <3>1, <4>1 DEF Passed
      <4>2. CASE k # "location"
        <5>1. Number(j, xq') = Number(j, xq) + 1
          BY <3>1, <4>2
        <5>2. CASE k = "time"
          <6>1. /\ inits \in Nat /\ extended \in BOOLEAN /\ mSupportsTimeInjection \in BOOLEAN
                /\ UNCHANGED <<inits, extended, mSupportsTimeInjection, has>>
            BY <1>1 DEF XtraTypes
          <6>2. j = "time"
            BY <2>4, <5>2
          <6>3. Passed(gave[j] + 1, has[j], Number(j, xq) + 1, j, extended,
                       mSupportsTimeInjection, inits)
            <7>1. CASE extended
              BY ONLY <2>1, <2>2, <6>1, <6>2, <7>1 DEF Passed
            <7>2. CASE ~extended
              BY ONLY <2>1, <2>2, <6>1, <6>2, <7>2 DEF Passed
            <7> QED
              BY <7>1, <7>2
          <6> QED
            BY ONLY <3>1, <5>1, <6>1, <6>3, Zenon
        <5>3. CASE k # "time"
          BY ONLY <2>1, <2>2, <2>4, <3>1, <4>2, <5>1, <5>3, has' = has DEF Passed
        <5> QED
          BY <5>2, <5>3
      <4> QED
        BY <4>1, <4>2
  <2> QED
    BY <2>3, <2>4
<1> QED
  BY <1>5, <1>6, <1>7 DEF AllPassed

\* An item of kind k gets to the modem.
LEMMA XtraGot ==
  ASSUME XtraInv, NEW o, Xtra!Takes(o), NEW k \in Xtra!Kinds, KindOf(Head(xq)) = k,
         k # "time", has' = [has EXCEPT ![k] = @ + 1], installed' \in 0..Slots,
         UNCHANGED <<phase, inits, extended, mSupportsPositionInjection, mSupportsTimeInjection,
                     gave>>
  PROVE  (XtraTypes /\ FlagsAreSet /\ AllPassed)'
<1>1. XtraTypes
  BY DEF XtraInv
<1>2. /\ xq' \in Seq(XtraMsgs)
      /\ \A j : /\ Number(j, xq) = Number(j, xq') + (IF k = j THEN 1 ELSE 0)
                /\ Number(j, xq) \in Nat /\ Number(j, xq') \in Nat
  BY <1>1, XtraTaken
<1>3. has'[k] = has[k] + 1 /\ \A j \in Xtra!Kinds \ {k} : has'[j] = has[j]
  BY <1>1 DEF XtraTypes
<1>4. has' \in [Xtra!Kinds -> Nat]
  BY <1>1 DEF XtraTypes
<1>5. XtraTypes'
  BY <1>1, <1>2, <1>4 DEF XtraTypes
<1>6. FlagsAreSet'
  BY DEF XtraInv, FlagsAreSet
<1>7. ASSUME NEW j \in Xtra!Kinds
      PROVE  Passed(gave'[j], has'[j], Number(j, xq'), j, extended', mSupportsTimeInjection',
                    inits')
  <2>1. Passed(gave[j], has[j], Number(j, xq), j, extended, mSupportsTimeInjection, inits)
    BY DEF XtraInv, AllPassed
  <2>2. gave[j] \in Nat /\ has[j] \in Nat /\ Number(j, xq) \in Nat /\ Number(j, xq') \in Nat
    BY <1>1, <1>2 DEF XtraTypes
  <2>3. CASE j # k
    <3>1. has'[j] = has[j] /\ Number(j, xq') = Number(j, xq)
      BY <1>2, <1>3, <2>2, <2>3
    <3> QED
      BY <2>1, <3>1
  <2>4. CASE j = k
    <3>1. has'[j] = has[j] + 1 /\ Number(j, xq) = Number(j, xq') + 1
      BY <1>2, <1>3, <2>4
    <3> QED
      BY <2>1, <2>2, <2>4, <3>1 DEF Passed
  <2> QED
    BY <2>3, <2>4
<1> QED
  BY <1>5, <1>6, <1>7 DEF AllPassed

\* setTime: a time is given to the modem when the flag is set, and sets it.
LEMMA XtraTime == ASSUME XtraInv, Xtra!LocEngSetTime PROVE (XtraTypes /\ FlagsAreSet /\ AllPassed)'
<1>1. XtraTypes
  BY DEF XtraInv
<1>2. /\ Xtra!Takes("Item") /\ Head(xq).kind = "time"
      /\ has' = IF mSupportsTimeInjection THEN [has EXCEPT !["time"] = @ + 1] ELSE has
      /\ mSupportsTimeInjection'
      /\ UNCHANGED <<phase, inits, extended, mSupportsPositionInjection, gave, installed>>
  BY DEF Xtra!LocEngSetTime, Xtra!setTime
<1>3. KindOf(Head(xq)) = "time"
  BY <1>2 DEF KindOf, Xtra!Takes
<1>4. /\ xq' \in Seq(XtraMsgs)
      /\ \A j : /\ Number(j, xq) = Number(j, xq') + (IF "time" = j THEN 1 ELSE 0)
                /\ Number(j, xq) \in Nat /\ Number(j, xq') \in Nat
  BY <1>1, <1>2, <1>3, XtraTaken
<1>5. "time" \in Xtra!Kinds
  BY DEF Xtra!Kinds
<1>6. /\ has' \in [Xtra!Kinds -> Nat]
      /\ has'["time"] = IF mSupportsTimeInjection THEN has["time"] + 1 ELSE has["time"]
      /\ \A j \in Xtra!Kinds \ {"time"} : has'[j] = has[j]
  BY <1>1, <1>2, <1>5 DEF XtraTypes
<1>7. XtraTypes'
  BY <1>1, <1>2, <1>4, <1>6 DEF XtraTypes
<1>8. phase = "done"
  <2>1. Passed(gave["time"], has["time"], Number("time", xq), "time", extended,
               mSupportsTimeInjection, inits)
    BY <1>5 DEF XtraInv, AllPassed
  <2>2. Number("time", xq) # 0 /\ Number("time", xq) \in Nat
    BY <1>4
  <2>3. gave["time"] \in Nat /\ has["time"] \in Nat
    BY <1>1, <1>5 DEF XtraTypes
  <2>4. gave["time"] # 0
    BY <2>1, <2>2, <2>3 DEF Passed
  <2> QED
    BY <1>5, <2>4 DEF XtraInv, FlagsAreSet
<1>9. FlagsAreSet'
  BY <1>2, <1>8 DEF XtraInv, FlagsAreSet
<1>10. ASSUME NEW j \in Xtra!Kinds
       PROVE  Passed(gave'[j], has'[j], Number(j, xq'), j, extended', mSupportsTimeInjection',
                     inits')
  <2>1. Passed(gave[j], has[j], Number(j, xq), j, extended, mSupportsTimeInjection, inits)
    BY DEF XtraInv, AllPassed
  <2>2. gave[j] \in Nat /\ has[j] \in Nat /\ Number(j, xq) \in Nat /\ Number(j, xq') \in Nat
    BY <1>1, <1>4 DEF XtraTypes
  <2>3. CASE j # "time"
    <3>1. has'[j] = has[j] /\ Number(j, xq') = Number(j, xq)
      BY <1>4, <1>6, <2>2, <2>3
    <3> QED
      BY <1>2, <2>1, <2>3, <3>1 DEF Passed
  <2>4. CASE j = "time"
    <3>1. /\ Number(j, xq) > 0 /\ Number(j, xq') = Number(j, xq) - 1
          /\ has'[j] = IF mSupportsTimeInjection THEN has[j] + 1 ELSE has[j]
      BY <1>4, <1>6, <2>2, <2>4
    <3>2. /\ inits \in Nat /\ extended \in BOOLEAN /\ mSupportsTimeInjection \in BOOLEAN
          /\ inits > 0
          /\ ~mSupportsTimeInjection => extended
      BY <1>1, <1>8 DEF XtraInv, XtraTypes, FlagsAreSet
    <3>3. /\ mSupportsTimeInjection' = TRUE
          /\ UNCHANGED <<gave, inits, extended>>
      BY <1>2 DEF Xtra!LocEngSetTime
    <3>4. CASE mSupportsTimeInjection
      <4>1. Passed(gave[j], has[j] + 1, Number(j, xq) - 1, j, extended, TRUE, inits)
        BY ONLY <2>1, <2>2, <2>4, <3>1, <3>2, <3>4 DEF Passed
      <4> QED
        BY ONLY <3>1, <3>3, <3>4, <4>1, Zenon
    <3>5. CASE ~mSupportsTimeInjection
      <4>1. Passed(gave[j], has[j], Number(j, xq) - 1, j, extended, TRUE, inits)
        BY ONLY <2>1, <2>2, <2>4, <3>1, <3>2, <3>5 DEF Passed
      <4> QED
        BY ONLY <3>1, <3>3, <3>5, <4>1, Zenon
    <3> QED
      BY <3>4, <3>5
  <2> QED
    BY <2>3, <2>4
<1> QED
  BY <1>7, <1>9, <1>10 DEF AllPassed

(***************************************************************************)
(* The user agent.  In terms of the encodings of the first n characters    *)
(* of the value, which only grow with n: while the loop goes on it has     *)
(* encoded all it has read, and where it was left no more has room.        *)
(***************************************************************************)
Chars == {"a", "/"}
Bytes == Chars \cup {"%", "2", "F"}

LEMMA EncodedOf ==
  ASSUME NEW s \in Seq(Chars), NEW i \in 1..Len(s)
  PROVE  /\ Xtra!Encoded(s[i]) \in Seq(Bytes) /\ Len(Xtra!Encoded(s[i])) > 0
         /\ s[i] = "/" => Xtra!Encoded(s[i]) = Xtra!Code /\ Xtra!Code \in Seq(Bytes) /\ Len(Xtra!Code) = 3
         /\ s[i] # "/" => Len(Xtra!Encoded(s[i])) = 1
<1>1. Xtra!Code \in Seq(Bytes) /\ Len(Xtra!Code) = 3
  <2>1. "%" \in Bytes /\ "2" \in Bytes /\ "F" \in Bytes
    BY DEF Bytes
  <2> QED
    BY <2>1, Tuples DEF Xtra!Code
<1>2. s[i] \in Bytes
  <2>1. s[i] \in Chars
    OBVIOUS
  <2> QED
    BY <2>1 DEF Bytes
<1>3. <<s[i]>> \in Seq(Bytes) /\ Len(<<s[i]>>) = 1
  BY <1>2, Tuples
<1>4. CASE s[i] = "/"
  <2>1. Xtra!Encoded(s[i]) = Xtra!Code
    BY <1>4 DEF Xtra!Encoded
  <2> QED
    BY <2>1, <1>1, <1>4
<1>5. CASE s[i] # "/"
  <2>1. Xtra!Encoded(s[i]) = <<s[i]>>
    BY <1>5 DEF Xtra!Encoded
  <2> QED
    BY <2>1, <1>3, <1>5
<1> QED
  BY <1>4, <1>5

LEMMA EncodingRec ==
  ASSUME NEW s \in Seq(Chars), NEW E, E = Xtra!Encoding(s)
  PROVE  /\ E \in [0..Len(s) -> Seq(Bytes)]
         /\ E[0] = <<>>
         /\ \A i \in 1..Len(s) : E[i] = E[i - 1] \o Xtra!Encoded(s[i])
<1> DEFINE V == Seq(Bytes)
           step == [p \in V \X (1..Len(s)) |-> p[1] \o Xtra!Encoded(s[p[2]])]
<1>0. \A i \in 1..Len(s) : Xtra!Encoded(s[i]) \in V
  BY EncodedOf
<1>1. step \in [V \X (1..Len(s)) -> V]
  BY <1>0
<1>2. <<>> \in V /\ Len(s) \in Nat
  OBVIOUS
<1>3. HasRecursion(Len(s), V, <<>>, step)
  <2> HIDE DEF V, step
  <2> QED
    BY <1>1, <1>2, RecursionExists
<1>4. PICK g \in [0..Len(s) -> V] :
         g[0] = <<>> /\ \A i \in 1..Len(s) : g[i] = step[<<g[i - 1], i>>]
  BY <1>3, Zenon DEF HasRecursion
<1>5. ASSUME NEW i \in 1..Len(s) PROVE g[i] = g[i - 1] \o Xtra!Encoded(s[i])
  <2>1. <<g[i - 1], i>> \in V \X (1..Len(s))
    BY <1>4, SMTT(30)
  <2>2. step[<<g[i - 1], i>>] = g[i - 1] \o Xtra!Encoded(s[i])
    BY <2>1
  <2> QED
    BY <1>4, <2>2
<1>6. g = [n \in 0..Len(s) |-> IF n = 0 THEN <<>> ELSE g[n - 1] \o Xtra!Encoded(s[n])]
  <2>1. \A n \in 0..Len(s) : g[n] = IF n = 0 THEN <<>> ELSE g[n - 1] \o Xtra!Encoded(s[n])
    <3>1. g[0] = <<>>
      BY <1>4
    <3>2. \A n \in 0..Len(s) : n = 0 \/ n \in 1..Len(s)
      OBVIOUS
    <3> QED
      BY <1>5, <3>1, <3>2, Zenon
  <2>2. g = [n \in 0..Len(s) |-> g[n]]
    BY <1>4
  <2> HIDE DEF V
  <2> QED
    BY <2>1, <2>2, Zenon
<1>7. E = CHOOSE h : h = [n \in 0..Len(s) |-> IF n = 0 THEN <<>> ELSE h[n - 1] \o Xtra!Encoded(s[n])]
  BY DEF Xtra!Encoding
<1>8. E = [n \in 0..Len(s) |-> IF n = 0 THEN <<>> ELSE E[n - 1] \o Xtra!Encoded(s[n])]
  <2> HIDE DEF step, V
  <2> QED
    BY <1>6, <1>7
<1>9. \A n \in 0..Len(s) : E[n] \in V
  <2> DEFINE T == {n \in 0..Len(s) : E[n] \in V}
  <2>1. 0 \in T
    BY <1>8
  <2>2. ASSUME NEW n \in 0..Len(s), n < Len(s), n \in T PROVE n + 1 \in T
    <3>1. n + 1 \in 0..Len(s) /\ n + 1 # 0 /\ (n + 1) - 1 = n /\ n + 1 \in 1..Len(s)
      BY <2>2
    <3>2. E[n + 1] = E[n] \o Xtra!Encoded(s[n + 1])
      BY <1>8, <3>1
    <3>3. E[n + 1] \in V
      BY <3>2, <3>1, <2>2, <1>0
    <3> QED
      BY <3>1, <3>3
  <2>3. 0..Len(s) \subseteq T
    <3> HIDE DEF T
    <3> QED
      BY <2>1, <2>2, <1>2, BoundedInduction
  <2> QED
    BY <2>3
<1>10. E \in [0..Len(s) -> V]
  BY <1>8, <1>9
<1>11. \A n \in 0..Len(s) : E[n] = IF n = 0 THEN <<>> ELSE E[n - 1] \o Xtra!Encoded(s[n])
  BY <1>8, Zenon
<1>12. 0 \in 0..Len(s) /\ \A n \in 1..Len(s) : n # 0 /\ n \in 0..Len(s)
  BY <1>2
<1>13. E[0] = <<>> /\ \A i \in 1..Len(s) : E[i] = E[i - 1] \o Xtra!Encoded(s[i])
  BY <1>11, <1>12, Zenon
<1> QED
  BY <1>10, <1>13

\* The first n characters, encoded, for n from 0 on.
LEMMA EncodingGrows ==
  ASSUME NEW s \in Seq(Chars), NEW E, E = Xtra!Encoding(s)
  PROVE  /\ E[0] = <<>> /\ DOMAIN E = 0..Len(s) /\ \A n \in 0..Len(s) : E[n] \in Seq(Bytes)
         /\ \A i \in 1..Len(s) : E[i] = E[i - 1] \o Xtra!Encoded(s[i]) /\ Len(E[i]) > Len(E[i - 1])
         /\ \A i, j \in 0..Len(s) : i <= j => Len(E[i]) <= Len(E[j])
<1>1. E \in [0..Len(s) -> Seq(Bytes)] /\ Len(s) \in Nat
  <2>1. E \in [0..Len(s) -> Seq(Bytes)]
    BY EncodingRec, Zenon
  <2> QED
    BY <2>1
<1>2. E[0] = <<>> /\ \A i \in 1..Len(s) : E[i] = E[i - 1] \o Xtra!Encoded(s[i])
  BY EncodingRec, Zenon
<1>3. ASSUME NEW i \in 1..Len(s)
      PROVE  Len(E[i]) > Len(E[i - 1])
  <2>1. Xtra!Encoded(s[i]) \in Seq(Bytes) /\ Len(Xtra!Encoded(s[i])) > 0
    BY EncodedOf
  <2>2. i - 1 \in 0..Len(s)
    BY <1>1
  <2>3. E[i - 1] \in Seq(Bytes)
    BY <1>1, <2>2
  <2>4. E[i] = E[i - 1] \o Xtra!Encoded(s[i])
    BY <1>2
  <2>5. Len(E[i - 1] \o Xtra!Encoded(s[i])) = Len(E[i - 1]) + Len(Xtra!Encoded(s[i]))
       /\ Len(E[i - 1]) \in Nat /\ Len(Xtra!Encoded(s[i])) \in Nat
    BY <2>1, <2>3, Joined
  <2>6. Len(E[i]) = Len(E[i - 1]) + Len(Xtra!Encoded(s[i]))
    BY <2>4, <2>5
  <2> QED
    BY ONLY <2>1, <2>5, <2>6, Sums, Zenon
<1>4. ASSUME NEW i \in 0..Len(s), NEW j \in 0..Len(s), i <= j PROVE Len(E[i]) <= Len(E[j])
  <2> DEFINE T == {k \in 0..Len(s) : i <= k => Len(E[i]) <= Len(E[k])}
  <2>0. \A k \in 0..Len(s) : Len(E[k]) \in Nat
    BY <1>1
  <2>1. 0 \in T
    BY <1>1, <2>0
  <2>2. ASSUME NEW k \in 0..Len(s), k < Len(s), k \in T PROVE k + 1 \in T
    <3>1. k + 1 \in 1..Len(s) /\ (k + 1) - 1 = k /\ k + 1 \in 0..Len(s)
      BY <2>2, <1>1
    <3>2. Len(E[k + 1]) > Len(E[k])
      BY <3>1, <1>3
    <3> QED
      BY <3>1, <3>2, <2>2, <2>0
  <2>3. 0..Len(s) \subseteq T
    <3> HIDE DEF T
    <3> QED
      BY <2>1, <2>2, <1>1, BoundedInduction
  <2> QED
    BY <2>3, <1>4
<1> QED
  BY <1>1, <1>2, <1>3, <1>4

LEMMA EncodingLen ==
  ASSUME NEW s \in Seq(Chars), NEW E, E = Xtra!Encoding(s), NEW n \in 0..Len(s)
  PROVE  Len(E[n]) \in Nat
<1>1. E[n] \in Seq(Bytes)
  BY EncodingGrows
<1> QED
  BY <1>1

(* How far the loop is after i turns: it goes on with the first i          *)
(* characters, or was left with as many as have room.                      *)
Fits(E, m, size, out) == out = E[m] /\ Len(E[m]) < size
Turned(E, i, size, t) ==
  \/ ~t.stop /\ Fits(E, i, size, t.out)
  \/ t.stop /\ \E m \in 0..(i - 1) : Fits(E, m, size, t.out) /\ Len(E[m + 1]) >= size

LEMMA TurnIs ==
  ASSUME NEW s \in Seq(Chars), NEW E, E = Xtra!Encoding(s), NEW size \in Nat \ {0},
         NEW i \in 1..Len(s), NEW t, ~t.stop, Fits(E, i - 1, size, t.out),
         NEW u, u = Xtra!Encode(t.out, s[i], size)
  PROVE  /\ u \in [out: Seq(Bytes), stop: BOOLEAN]
         /\ Turned(E, i, size, u)
<1> DEFINE o == t.out
           p == Xtra!Encoded(s[i])
<1>1. /\ o = E[i - 1] /\ o \in Seq(Bytes) /\ p \in Seq(Bytes) /\ E[i] = o \o p
      /\ Len(o) < size /\ Len(p) > 0
  <2>1. i - 1 \in 0..Len(s)
    OBVIOUS
  <2>2. E[i - 1] \in Seq(Bytes) /\ E[i] = E[i - 1] \o p
    BY <2>1, EncodingGrows
  <2> QED
    BY <2>2, EncodedOf DEF Fits
<1>2. /\ Len(E[i]) = Len(o) + Len(p) /\ Len(o) \in Nat /\ Len(p) \in Nat /\ E[i] \in Seq(Bytes)
  BY <1>1, Joined
<1>n. /\ Len(E[i]) = Len(o) + Len(p) /\ Len(o) \in Nat /\ Len(p) \in Nat /\ Len(p) > 0
      /\ size \in Nat /\ o \o p \in Seq(Bytes)
  BY <1>1, <1>2
<1>3. u.out = o /\ u.stop /\ Len(E[i]) >= size => /\ u.out = E[i - 1] /\ Turned(E, i, size, u)
  <2> SUFFICES ASSUME u.out = o, u.stop, Len(E[i]) >= size PROVE Turned(E, i, size, u)
    BY <1>1
  <2>1. i - 1 \in 0..(i - 1) /\ (i - 1) + 1 = i
    OBVIOUS
  <2>2. Fits(E, i - 1, size, u.out)
    BY <1>1 DEF Fits
  <2> QED
    BY <2>1, <2>2 DEF Turned
<1>4. u.out = o \o p /\ ~u.stop /\ Len(E[i]) < size => Turned(E, i, size, u)
  BY <1>1 DEF Turned, Fits
<1>5. CASE Len(o) >= size - 1
  <2>1. u = [out |-> o, stop |-> TRUE]
    BY <1>5 DEF Xtra!Encode
  <2>2. Len(E[i]) >= size
    BY ONLY <1>n, <1>5, Sums, Zenon
  <2> QED
    BY <2>1, <2>2, <1>1, <1>3
<1>6. CASE Len(o) < size - 1 /\ s[i] # "/"
  <2>1. u = [out |-> o \o p, stop |-> FALSE]
    BY <1>6, <1>2 DEF Xtra!Encode
  <2>2. Len(p) = 1
    BY <1>6, EncodedOf
  <2>3. Len(E[i]) < size
    BY ONLY <1>n, <1>6, <2>2
  <2> QED
    BY ONLY <2>1, <2>3, <1>n, <1>4
<1>7. CASE Len(o) < size - 1 /\ s[i] = "/"
  <2>1. p = Xtra!Code /\ Len(p) = 3
    BY <1>7, EncodedOf
  <2>2. CASE Len(o) + Len(Xtra!Code) >= size
    <3>1. u = [out |-> o, stop |-> TRUE]
      BY <1>7, <2>2 DEF Xtra!Encode
    <3>2. Len(E[i]) >= size
      BY <2>1, <2>2, <1>2
    <3> QED
      BY <3>1, <3>2, <1>1, <1>3
  <2>3. CASE ~(Len(o) + Len(Xtra!Code) >= size)
    <3>1. u = [out |-> o \o p, stop |-> FALSE]
      BY <1>7, <2>3, <1>2 DEF Xtra!Encode
    <3>2. Len(E[i]) < size
      BY ONLY <2>1, <2>3, <1>n
    <3> QED
      BY ONLY <3>1, <3>2, <1>n, <1>4
  <2> QED
    BY <2>2, <2>3
<1>8. Len(o) < size - 1 \/ Len(o) >= size - 1
  BY <1>2
<1> QED
  BY <1>5, <1>6, <1>7, <1>8

\* The loop keeps Turned from one turn to the next.
LEMMA Turns ==
  ASSUME NEW s \in Seq(Chars), NEW E, E = Xtra!Encoding(s), NEW size \in Nat \ {0},
         NEW T, T[0] = [out |-> <<>>, stop |-> FALSE],
         \A i \in 1..Len(s) : T[i] = IF T[i - 1].stop THEN T[i - 1]
                                      ELSE Xtra!Encode(T[i - 1].out, s[i], size),
         NEW i \in 0..Len(s)
  PROVE  Turned(E, i, size, T[i])
<1> DEFINE Good == {k \in 0..Len(s) : Turned(E, k, size, T[k])}
<1>0. Len(s) \in Nat
  OBVIOUS
<1>1. 0 \in Good
  <2>1. E[0] = <<>> /\ Len(<<>>) = 0
    BY EncodingGrows
  <2>2. Fits(E, 0, size, T[0].out) /\ ~T[0].stop
    BY <2>1 DEF Fits
  <2> QED
    BY <2>2, <1>0 DEF Turned
<1>2. ASSUME NEW k \in 0..Len(s), k < Len(s), k \in Good
      PROVE  k + 1 \in Good
  <2>1. k + 1 \in 1..Len(s) /\ (k + 1) - 1 = k /\ k + 1 \in 0..Len(s) /\ k \in Nat
    BY <1>2, <1>0
  <2>2. T[k + 1] = IF T[k].stop THEN T[k] ELSE Xtra!Encode(T[k].out, s[k + 1], size)
    BY <2>1
  <2>3. CASE ~T[k].stop
    <3>1. Fits(E, k, size, T[k].out)
      BY <1>2, <2>3 DEF Turned
    <3>2. T[k + 1] = Xtra!Encode(T[k].out, s[k + 1], size)
      BY <2>2, <2>3
    <3>3. Fits(E, (k + 1) - 1, size, T[k].out)
      BY <3>1, <2>1
    <3>4. Turned(E, k + 1, size, T[k + 1])
      BY <3>2, <3>3, <2>1, <2>3, TurnIs
    <3> QED
      BY <3>4, <2>1
  <2>4. CASE T[k].stop
    <3>1. PICK m \in 0..(k - 1) : Fits(E, m, size, T[k].out) /\ Len(E[m + 1]) >= size
      BY <1>2, <2>4 DEF Turned
    <3>2. T[k + 1] = T[k] /\ m \in 0..((k + 1) - 1)
      BY <2>2, <2>4, <2>1, <3>1
    <3>3. Turned(E, k + 1, size, T[k + 1])
      BY <3>1, <3>2, <2>4 DEF Turned
    <3> QED
      BY <3>3, <2>1
  <2> QED
    BY <2>3, <2>4
<1>3. 0..Len(s) \subseteq Good
  <2> HIDE DEF Good
  <2> QED
    BY <1>0, <1>1, <1>2, BoundedInduction
<1> QED
  BY <1>3

\* What was encoded is the longest part that fits.
LEMMA Longest ==
  ASSUME NEW s \in Seq(Chars), NEW E, E = Xtra!Encoding(s), NEW size \in Nat \ {0}, NEW t,
         Turned(E, Len(s), size, t)
  PROVE  t.out = Xtra!LongestFit(E, size)
<1> DEFINE fit == {n \in DOMAIN E : Len(E[n]) < size}
<1>1. DOMAIN E = 0..Len(s) /\ Len(s) \in Nat
  <2>1. DOMAIN E = 0..Len(s)
    BY EncodingGrows, Zenon
  <2> QED
    BY <2>1
<1>2. \E n \in fit : t.out = E[n] /\ \A m \in fit : m <= n
  <2>1. CASE ~t.stop
    <3>1. Fits(E, Len(s), size, t.out)
      BY <2>1 DEF Turned
    <3>2. Len(s) \in fit /\ t.out = E[Len(s)]
      BY <3>1, <1>1 DEF Fits
    <3>3. \A m \in fit : m <= Len(s)
      BY <1>1
    <3> QED
      BY <3>2, <3>3
  <2>2. CASE t.stop
    <3>1. PICK n \in 0..(Len(s) - 1) : Fits(E, n, size, t.out) /\ Len(E[n + 1]) >= size
      BY <2>2 DEF Turned
    <3>2. n \in 0..Len(s) /\ n + 1 \in 0..Len(s)
      BY <3>1, <1>1
    <3>3. n \in fit /\ t.out = E[n]
      BY <3>1, <3>2, <1>1 DEF Fits
    <3>4. ASSUME NEW m \in fit PROVE m <= n
      <4>1. m \in 0..Len(s) /\ Len(E[m]) < size
        BY <1>1
      <4>2. n + 1 <= m => Len(E[n + 1]) <= Len(E[m])
        BY <4>1, <3>2, EncodingGrows
      <4>3. Len(E[m]) \in Nat /\ Len(E[n + 1]) \in Nat
        BY <4>1, <3>2, EncodingLen
      <4>4. ~(n + 1 <= m)
        BY ONLY <4>1, <4>2, <4>3, <3>1, size \in Nat \ {0}
      <4> QED
        BY ONLY <4>4, <4>1, <3>2
    <3> QED
      BY <3>3, <3>4
  <2> QED
    BY <2>1, <2>2
<1>3. PICK n \in fit : t.out = E[n] /\ \A m \in fit : m <= n
  BY <1>2
<1>4. (CHOOSE k \in fit : \A m \in fit : m <= k) = n
  <2>1. fit \subseteq Int
    BY <1>1
  <2> HIDE DEF fit
  <2>2. ASSUME NEW k \in fit, \A m \in fit : m <= k PROVE k = n
    <3>1. k <= n /\ n <= k /\ k \in Int /\ n \in Int
      BY <1>3, <2>1, <2>2
    <3> QED
      BY <3>1
  <2> QED
    BY <1>3, <2>2, Zenon
<1> QED
  BY <1>3, <1>4 DEF Xtra!LongestFit

LEMMA EncodeType ==
  ASSUME NEW o \in Seq(Bytes), NEW s \in Seq(Chars), NEW i \in 1..Len(s), NEW size
  PROVE  Xtra!Encode(o, s[i], size) \in [out: Seq(Bytes), stop: BOOLEAN]
<1>1. Xtra!Encoded(s[i]) \in Seq(Bytes)
  BY EncodedOf
<1>2. o \o Xtra!Encoded(s[i]) \in Seq(Bytes)
  BY <1>1, Joined
<1> QED
  BY <1>2 DEF Xtra!Encode

\* What Xtra!encodeInPlace leaves is the longest part of the value that fits.
LEMMA EncodedInPlace ==
  ASSUME NEW s \in Seq(Chars), NEW size \in Nat \ {0}, NEW E, E = Xtra!Encoding(s)
  PROVE  Xtra!encodeInPlace(s, size) = Xtra!LongestFit(E, size)
<1> DEFINE V == [out: Seq(Bytes), stop: BOOLEAN]
           b == [out |-> <<>>, stop |-> FALSE]
           turn(t, i) == IF t.stop THEN t ELSE Xtra!Encode(t.out, s[i], size)
           step == [p \in V \X (1..Len(s)) |-> turn(p[1], p[2])]
           T == CHOOSE h : h = [i \in 0..Len(s) |-> IF i = 0 THEN b ELSE turn(h[i - 1], i)]
<1>0. Len(s) \in Nat
  OBVIOUS
<1>1. b \in V
  <2>1. <<>> \in Seq(Bytes)
    OBVIOUS
  <2> QED
    BY <2>1
<1>2. ASSUME NEW t \in V, NEW i \in 1..Len(s) PROVE turn(t, i) \in V
  <2>1. t.out \in Seq(Bytes)
    OBVIOUS
  <2>2. Xtra!Encode(t.out, s[i], size) \in V
    BY <2>1, EncodeType
  <2> QED
    BY <2>2
<1>3. Xtra!encodeInPlace(s, size) = T[Len(s)].out
  BY DEF Xtra!encodeInPlace
<1> HIDE DEF V, b, turn
<1>4. step \in [V \X (1..Len(s)) -> V]
  BY <1>2
<1>5. HasRecursion(Len(s), V, b, step)
  <2> HIDE DEF step
  <2> QED
    BY <1>0, <1>1, <1>4, RecursionExists
<1>6. PICK g \in [0..Len(s) -> V] : g[0] = b /\ \A i \in 1..Len(s) : g[i] = step[<<g[i - 1], i>>]
  BY <1>5, Zenon DEF HasRecursion
<1>7. ASSUME NEW i \in 1..Len(s) PROVE g[i] = turn(g[i - 1], i)
  <2>1. <<g[i - 1], i>> \in V \X (1..Len(s))
    BY <1>6
  <2>2. step[<<g[i - 1], i>>] = turn(g[i - 1], i)
    BY <2>1
  <2> QED
    BY <1>6, <2>2
<1>8. g = [i \in 0..Len(s) |-> IF i = 0 THEN b ELSE turn(g[i - 1], i)]
  <2>1. \A n \in 0..Len(s) : n = 0 \/ n \in 1..Len(s)
    BY <1>0
  <2>2. \A n \in 0..Len(s) : g[n] = IF n = 0 THEN b ELSE turn(g[n - 1], n)
    BY <1>6, <1>7, <2>1, Zenon
  <2>3. g = [n \in 0..Len(s) |-> g[n]]
    BY <1>6
  <2> QED
    BY <2>2, <2>3, Zenon
<1>9. T = [i \in 0..Len(s) |-> IF i = 0 THEN b ELSE turn(T[i - 1], i)]
  BY <1>8
<1> HIDE DEF T
<1>10. \A n \in 0..Len(s) : T[n] = IF n = 0 THEN b ELSE turn(T[n - 1], n)
  BY <1>9, Zenon
<1>11. 0 \in 0..Len(s) /\ \A n \in 1..Len(s) : n # 0 /\ n \in 0..Len(s)
  BY <1>0
<1>12. T[0] = b /\ \A i \in 1..Len(s) : T[i] = turn(T[i - 1], i)
  BY <1>10, <1>11, Zenon
<1>13. Turned(E, Len(s), size, T[Len(s)])
  <2>1. Len(s) \in 0..Len(s)
    BY <1>0
  <2> QED
    BY <1>12, <2>1, Turns, Zenon DEF b, turn
<1>14. T[Len(s)].out = Xtra!LongestFit(E, size)
  BY <1>13, Longest, Zenon
<1> QED
  BY <1>3, <1>14

LEMMA AgentStep ==
  ASSUME Xtra!AgentIsWhole, [Xtra!Next]_(Xtra!vars)
  PROVE  Xtra!AgentIsWhole'
<1>1. CASE Xtra!LocSetXtraUserAgent
  <2>1. PICK s \in Xtra!Strings :
           userAgent' = [s |-> s, out |-> Xtra!encodeInPlace(s, SizeOf)]
    BY <1>1 DEF Xtra!LocSetXtraUserAgent
  <2>2. s \in Seq(Chars) /\ SizeOf \in Nat \ {0}
    BY PartsAssumption DEF Xtra!Strings, Chars
  <2>3. userAgent'.s = s /\ userAgent'.out = Xtra!encodeInPlace(s, SizeOf)
    BY <2>1
  <2>4. Xtra!encodeInPlace(s, SizeOf) = Xtra!LongestFit(Xtra!Encoding(s), SizeOf)
    BY <2>2, EncodedInPlace
  <2> QED
    BY <2>3, <2>4 DEF Xtra!AgentIsWhole
<1>2. CASE ~Xtra!LocSetXtraUserAgent
  <2>1. userAgent' = userAgent
    BY <1>2 DEF Xtra!Next, Xtra!vars, Xtra!loc_eng_init, Xtra!loc_init,
                Xtra!loc_xtra_init, Xtra!Gives, Xtra!loc_eng_inject_time,
                Xtra!loc_eng_inject_location, Xtra!loc_xtra_inject_data,
                Xtra!loc_eng_agps_install_certificates, Xtra!Requests, Xtra!requestXtraData,
                Xtra!requestTime, Xtra!reportXtraServer, Xtra!LocEngSetTime, Xtra!LocEngInject,
                Xtra!LocEngInstallAGpsCert, Xtra!LocEngRequestXtra, Xtra!LocEngRequestTime,
                Xtra!LocEngReportXtraServer
  <2> QED
    BY <2>1 DEF Xtra!AgentIsWhole
<1> QED
  BY <1>1, <1>2

LEMMA AgentInit == ASSUME Xtra!Init PROVE Xtra!AgentIsWhole
<1>1. userAgent.s = <<>> /\ userAgent.out = <<>>
  BY DEF Xtra!Init, Xtra!Empty
<1>2. <<>> \in Seq(Chars) /\ SizeOf \in Nat \ {0} /\ Len(<<>>) = 0
  BY PartsAssumption
<1> DEFINE E == Xtra!Encoding(<<>>)
           t == [out |-> <<>>, stop |-> FALSE]
<1>3. Turned(E, 0, SizeOf, t)
  <2>1. E[0] = <<>>
    BY <1>2, EncodingGrows
  <2> HIDE DEF E
  <2>2. Fits(E, 0, SizeOf, t.out) /\ ~t.stop
    BY <2>1, <1>2 DEF Fits
  <2> QED
    BY <2>2 DEF Turned
<1>4. t.out = Xtra!LongestFit(E, SizeOf)
  <2> HIDE DEF t
  <2> QED
    BY <1>2, <1>3, Longest
<1> QED
  BY <1>1, <1>4 DEF Xtra!AgentIsWhole

LEMMA XtraStep == XtraInv /\ [Xtra!Next]_(Xtra!vars) => XtraInv'
<1> SUFFICES ASSUME XtraInv, [Xtra!Next]_(Xtra!vars) PROVE XtraInv'
  OBVIOUS
<1>1. XtraTypes
  BY DEF XtraInv
<1>2. (XtraTypes /\ FlagsAreSet /\ AllPassed)'
  <2>1. CASE Xtra!loc_eng_init
    <3>1. /\ phase = "none" /\ phase' = "adapter"
          /\ UNCHANGED <<inits, extended, mSupportsPositionInjection, mSupportsTimeInjection, xq,
                         gave, has, installed>>
      BY <2>1 DEF Xtra!loc_eng_init, Xtra!flags, Xtra!data
    <3>2. XtraTypes' /\ FlagsAreSet'
      BY <3>1 DEF XtraInv, XtraTypes, FlagsAreSet
    <3> QED
      BY <3>1, <3>2 DEF XtraInv, AllPassed
  <2>2. CASE Xtra!loc_init
    <3>1. /\ phase' = "done" /\ inits' = inits + 1 /\ inits \in Nat
          /\ xq' = Append(xq, Xtra!Msg("UserAgent"))
          /\ mSupportsPositionInjection' = (~extended) /\ mSupportsTimeInjection' = (~extended)
          /\ UNCHANGED <<extended, gave, has, installed>>
      BY <1>1, <2>2 DEF Xtra!loc_init, Xtra!data, XtraTypes
    <3>2. /\ xq' \in Seq(XtraMsgs)
          /\ \A k \in Xtra!Kinds : Number(k, xq') = Number(k, xq) /\ Number(k, xq) \in Nat
      BY <1>1, <3>1, MsgKinds, XtraSent DEF Xtra!Kinds
    <3>3. XtraTypes'
      BY <1>1, <3>1, <3>2 DEF XtraTypes
    <3>4. FlagsAreSet'
      <4>1. phase' = "done" /\ inits' > 0
        BY <3>1
      <4>2. (mSupportsPositionInjection' <=> ~extended') /\ (mSupportsTimeInjection' \/ extended')
        BY <3>1
      <4> QED
        BY <4>1, <4>2 DEF FlagsAreSet
    <3>5. ASSUME NEW k \in Xtra!Kinds
          PROVE  Passed(gave'[k], has'[k], Number(k, xq'), k, extended', mSupportsTimeInjection',
                        inits')
      <4>1. Passed(gave[k], has[k], Number(k, xq), k, extended, mSupportsTimeInjection, inits)
        BY DEF XtraInv, AllPassed
      <4>2. gave[k] \in Nat /\ has[k] \in Nat
        BY <1>1 DEF XtraTypes
      <4>3. CASE k = "time"
        <5>1. /\ extended \in BOOLEAN /\ mSupportsTimeInjection \in BOOLEAN
              /\ mSupportsTimeInjection' = ~extended /\ k \in Xtra!Kinds
          BY <1>1, <3>1 DEF XtraTypes
        <5>2. Passed(gave[k], has[k], Number(k, xq), k, extended, ~extended, inits + 1)
          <6>1. CASE extended
            BY ONLY <3>1, <3>2, <4>1, <4>2, <4>3, <5>1, <6>1 DEF Passed
          <6>2. CASE ~extended
            BY ONLY <3>1, <3>2, <4>1, <4>2, <4>3, <5>1, <6>2 DEF Passed
          <6> QED
            BY <6>1, <6>2
        <5> QED
          BY ONLY <3>1, <3>2, <5>1, <5>2, Zenon
      <4>4. CASE k # "time"
        BY <3>1, <3>2, <4>1, <4>4 DEF Passed
      <4> QED
        BY <4>3, <4>4
    <3> QED
      BY <3>3, <3>4, <3>5 DEF AllPassed
  <2>3. CASE Xtra!loc_xtra_init \/ UNCHANGED Xtra!vars
    BY <1>1, <2>3, NoData DEF Xtra!loc_xtra_init, Xtra!vars, Xtra!flags, Xtra!data, XtraTypes
  <2>4. ASSUME NEW k \in {"time", "location", "xtra"}, NEW sent \in BOOLEAN, Xtra!Gives(k, sent),
               k # "location" => sent, k = "location" => (sent <=> ~extended)
        PROVE  (XtraTypes /\ FlagsAreSet /\ AllPassed)'
    <3>1. k \in Xtra!Kinds
      BY DEF Xtra!Kinds
    <3> QED
      BY <2>4, <3>1, MsgKinds, XtraGiven DEF Xtra!Gives, Xtra!flags
  <2>5. CASE Xtra!loc_eng_inject_time
    BY <2>4, <2>5 DEF Xtra!loc_eng_inject_time
  <2>6. CASE Xtra!loc_eng_inject_location
    <3>1. mSupportsPositionInjection \in BOOLEAN /\ (mSupportsPositionInjection <=> ~extended)
      BY <1>1, <2>6
         DEF XtraInv, XtraTypes, FlagsAreSet, Xtra!loc_eng_inject_location, Xtra!Gives
    <3> QED
      BY <2>4, <2>6, <3>1 DEF Xtra!loc_eng_inject_location
  <2>7. CASE Xtra!loc_xtra_inject_data
    BY <2>4, <2>7 DEF Xtra!loc_xtra_inject_data
  <2>8. ASSUME NEW n \in 1..(Slots + 1), NEW tooLong \in BOOLEAN,
               Xtra!loc_eng_agps_install_certificates(n, tooLong)
        PROVE  (XtraTypes /\ FlagsAreSet /\ AllPassed)'
    <3>1. n \in 1..Slots
      BY <2>8, PartsAssumption DEF Xtra!loc_eng_agps_install_certificates
    <3>2. Xtra!Certs(n) \in XtraMsgs /\ KindOf(Xtra!Certs(n)) = "certs" /\ "certs" \in Xtra!Kinds
      BY <3>1, MsgKinds DEF Xtra!Kinds
    <3>3. /\ phase = "done" /\ gave' = [gave EXCEPT !["certs"] = @ + 1]
          /\ xq' = IF TRUE THEN Append(xq, Xtra!Certs(n)) ELSE xq
          /\ UNCHANGED <<phase, inits, extended, mSupportsPositionInjection, mSupportsTimeInjection,
                         has, installed>>
      BY <2>8 DEF Xtra!loc_eng_agps_install_certificates, Xtra!flags
    <3> QED
      BY <3>2, <3>3, XtraGiven
  <2>9. ASSUME NEW m \in XtraMsgs, KindOf(m) = "none", Xtra!Requests(m)
        PROVE  (XtraTypes /\ FlagsAreSet /\ AllPassed)'
    <3>1. /\ xq' = Append(xq, m)
          /\ UNCHANGED <<phase, inits, extended, mSupportsPositionInjection, mSupportsTimeInjection,
                         gave, has, installed>>
      BY <2>9 DEF Xtra!Requests, Xtra!flags, Xtra!data
    <3>2. xq' \in Seq(XtraMsgs) /\ \A k \in Xtra!Kinds : Number(k, xq') = Number(k, xq)
      BY <1>1, <2>9, <3>1, XtraSent DEF Xtra!Kinds
    <3> QED
      BY <3>1, <3>2, NoData
  <2>10. CASE Xtra!requestXtraData \/ Xtra!requestTime
    BY <2>9, <2>10, MsgKinds DEF Xtra!requestXtraData, Xtra!requestTime
  <2>11. ASSUME NEW S \in SUBSET (1..3), Xtra!reportXtraServer(S)
         PROVE  (XtraTypes /\ FlagsAreSet /\ AllPassed)'
    BY <2>9, <2>11, MsgKinds DEF Xtra!reportXtraServer
  <2>12. CASE Xtra!LocEngSetTime
    BY <2>12, XtraTime
  <2>13. CASE Xtra!LocEngInject
    <3>1. /\ Xtra!Takes("Item") /\ Head(xq).kind # "time"
          /\ has' = [has EXCEPT ![Head(xq).kind] = @ + 1]
          /\ UNCHANGED <<phase, inits, extended, mSupportsPositionInjection, mSupportsTimeInjection,
                         gave, installed>>
      BY <2>13 DEF Xtra!LocEngInject, Xtra!flags
    <3>2. Head(xq) \in XtraMsgs /\ Head(xq).op = "Item"
      BY <1>1, <3>1, XtraTaken
    <3>3. Head(xq).kind \in Xtra!Kinds /\ KindOf(Head(xq)) = Head(xq).kind
      BY <3>2, MsgKinds DEF KindOf
    <3>4. installed' \in 0..Slots
      BY <1>1, <3>1 DEF XtraTypes
    <3> QED
      BY <3>1, <3>3, <3>4, XtraGot
  <2>14. CASE Xtra!LocEngInstallAGpsCert
    <3>1. /\ Xtra!Takes("Certs") /\ installed' = Head(xq).n
          /\ has' = [has EXCEPT !["certs"] = @ + 1]
          /\ UNCHANGED <<phase, inits, extended, mSupportsPositionInjection, mSupportsTimeInjection,
                         gave>>
      BY <2>14 DEF Xtra!LocEngInstallAGpsCert, Xtra!flags
    <3>2. Head(xq) \in XtraMsgs /\ Head(xq).op = "Certs"
      BY <1>1, <3>1, XtraTaken
    <3>3. KindOf(Head(xq)) = "certs" /\ "certs" \in Xtra!Kinds
      BY <3>2 DEF KindOf, Xtra!Kinds
    <3>4. installed' \in 0..Slots
      BY <3>1, <3>2, MsgKinds, PartsAssumption
    <3> QED
      BY <3>1, <3>3, <3>4, XtraGot
  <2>15. ASSUME NEW o \in {"RequestXtra", "RequestTime", "Servers", "UserAgent"}, Xtra!Takes(o),
                UNCHANGED <<phase, inits, extended, mSupportsPositionInjection,
                            mSupportsTimeInjection, gave, has, installed>>
         PROVE  (XtraTypes /\ FlagsAreSet /\ AllPassed)'
    <3>1. /\ xq' \in Seq(XtraMsgs) /\ Head(xq).op = o
          /\ \A k : /\ Number(k, xq) = Number(k, xq') + (IF KindOf(Head(xq)) = k THEN 1 ELSE 0)
                    /\ Number(k, xq') \in Nat
      BY <1>1, <2>15, XtraTaken
    <3>2. KindOf(Head(xq)) = "none"
      BY <3>1 DEF KindOf
    <3>3. \A k \in Xtra!Kinds : Number(k, xq') = Number(k, xq)
      BY <3>1, <3>2 DEF Xtra!Kinds
    <3> QED
      BY <2>15, <3>1, <3>3, NoData
  <2>16. CASE Xtra!LocEngRequestXtra
    BY <2>15, <2>16 DEF Xtra!LocEngRequestXtra, Xtra!flags, Xtra!data
  <2>17. CASE Xtra!LocEngRequestTime
    BY <2>15, <2>17 DEF Xtra!LocEngRequestTime, Xtra!flags, Xtra!data
  <2>18. CASE Xtra!LocEngReportXtraServer
    BY <2>15, <2>18 DEF Xtra!LocEngReportXtraServer, Xtra!flags, Xtra!data
  <2>19. CASE Xtra!LocSetXtraUserAgent
    BY <2>15, <2>19 DEF Xtra!LocSetXtraUserAgent, Xtra!flags, Xtra!data
  <2> QED
    BY <2>1, <2>2, <2>3, <2>5, <2>6, <2>7, <2>8, <2>10, <2>11, <2>12, <2>13, <2>14, <2>16, <2>17,
       <2>18, <2>19 DEF Xtra!Next
<1>3. Xtra!ServersAreKept'
  <2>1. CASE Xtra!LocEngReportXtraServer
    <3>1. /\ Head(xq) \in XtraMsgs /\ Head(xq).op = "Servers"
          /\ mServers' = [xtra1 |-> Head(xq).xtra1, buffer |-> Xtra!Forwarded(Head(xq).xtra1)]
      BY <1>1, <2>1, XtraTaken DEF Xtra!LocEngReportXtraServer
    <3>2. Head(xq).xtra1 \in SUBSET (1..3)
      BY <3>1, MsgKinds
    <3>3. mServers'.xtra1 = Head(xq).xtra1 /\ mServers'.buffer = Xtra!Forwarded(mServers'.xtra1)
      BY <3>1
    <3> QED
      BY <3>2, <3>3, ForwardedServers DEF Xtra!ServersAreKept
  <2>2. CASE ~Xtra!LocEngReportXtraServer
    <3>1. mServers' = mServers
      BY <2>2 DEF Xtra!Next, Xtra!vars, Xtra!asked, Xtra!loc_eng_init, Xtra!loc_init,
                  Xtra!loc_xtra_init, Xtra!Gives, Xtra!loc_eng_inject_time,
                  Xtra!loc_eng_inject_location, Xtra!loc_xtra_inject_data,
                  Xtra!loc_eng_agps_install_certificates, Xtra!Requests, Xtra!requestXtraData,
                  Xtra!requestTime, Xtra!reportXtraServer, Xtra!LocEngSetTime, Xtra!LocEngInject,
                  Xtra!LocEngInstallAGpsCert, Xtra!LocEngRequestXtra, Xtra!LocEngRequestTime,
                  Xtra!LocSetXtraUserAgent
    <3> QED
      BY <3>1 DEF XtraInv, Xtra!ServersAreKept
  <2> QED
    BY <2>1, <2>2
<1>4. Xtra!AgentIsWhole'
  BY AgentStep DEF XtraInv
<1> QED
  BY <1>2, <1>3, <1>4 DEF XtraInv

(***************************************************************************)
(* With nothing queued the modem has everything the HAL was given, but for *)
(* what an extended CPI excepts: positions, and of the times at most one   *)
(* for every call of loc_init, the first of all among them.  The user      *)
(* agent is the longest part of the property that has room in its place,   *)
(* no code cut short (encodeInPlace), and no XTRA server is lost.          *)
(***************************************************************************)
THEOREM NothingIsLost == Xtra!Spec => []DataIsPassedOn
<1>1. Xtra!Init => XtraInv
  <2> SUFFICES ASSUME Xtra!Init PROVE XtraInv
    OBVIOUS
  <2>1. XtraTypes /\ FlagsAreSet
    <3>1. xq \in Seq(XtraMsgs) /\ extended \in BOOLEAN
      BY DEF Xtra!Init
    <3>2. /\ gave \in [Xtra!Kinds -> Nat] /\ has \in [Xtra!Kinds -> Nat]
          /\ \A k \in Xtra!Kinds : gave[k] = 0
      BY DEF Xtra!Init
    <3>3. /\ phase = "none" /\ installed = 0 /\ mSupportsPositionInjection = FALSE
          /\ mSupportsTimeInjection = FALSE /\ inits = 0
      BY DEF Xtra!Init
    <3>4. installed \in 0..Slots
      BY <3>3, PartsAssumption
    <3> QED
      BY <3>1, <3>2, <3>3, <3>4 DEF XtraTypes, FlagsAreSet
  <2>2. AllPassed
    <3>1. \A k \in Xtra!Kinds : gave[k] = 0 /\ has[k] = 0
      BY DEF Xtra!Init
    <3>2. \A k : Number(k, xq) = 0
      BY NumberNone DEF Xtra!Init
    <3>3. ~mSupportsTimeInjection /\ inits = 0
      BY DEF Xtra!Init
    <3> QED
      BY <3>1, <3>2, <3>3 DEF AllPassed, Passed
  <2>3. Xtra!ServersAreKept
    BY ForwardedServers DEF Xtra!Init, Xtra!ServersAreKept, Xtra!ToSet
  <2>4. Xtra!AgentIsWhole
    BY AgentInit
  <2> QED
    BY <2>1, <2>2, <2>3, <2>4 DEF XtraInv
<1>2. XtraInv => DataIsPassedOn
  <2> SUFFICES ASSUME XtraInv PROVE Xtra!EverythingArrives
    BY PartsAssumption DEF XtraInv, XtraTypes, DataIsPassedOn, Xtra!DataIsPassedOn
  <2> SUFFICES ASSUME xq = <<>>
               PROVE  /\ has["xtra"] = gave["xtra"] /\ has["certs"] = gave["certs"]
                      /\ has["location"] = IF extended THEN 0 ELSE gave["location"]
                      /\ gave["time"] - has["time"] \in
                           IF extended /\ gave["time"] > 0 THEN 1..inits ELSE {0}
    BY DEF Xtra!EverythingArrives
  <2>1. ASSUME NEW k \in {"time", "location", "xtra", "certs"}
        PROVE  /\ Passed(gave[k], has[k], 0, k, extended, mSupportsTimeInjection, inits)
               /\ gave[k] \in Nat /\ has[k] \in Nat
    <3>1. Number(k, xq) = 0 /\ k \in Xtra!Kinds
      BY NumberNone DEF Xtra!Kinds
    <3> QED
      BY <3>1 DEF XtraInv, XtraTypes, AllPassed
  <2>2. has["xtra"] = gave["xtra"] /\ has["certs"] = gave["certs"]
    BY <2>1 DEF Passed
  <2>3. has["location"] = IF extended THEN 0 ELSE gave["location"]
    BY <2>1 DEF Passed
  <2>4. gave["time"] - has["time"] \in
          IF extended /\ gave["time"] > 0 THEN 1..inits ELSE {0}
    <3>1. inits \in Nat
      BY DEF XtraInv, XtraTypes
    <3>2. Passed(gave["time"], has["time"], 0, "time", extended, mSupportsTimeInjection, inits)
      BY <2>1
    <3>3. gave["time"] \in Nat /\ has["time"] \in Nat
      BY <2>1
    <3> QED
      BY ONLY <3>1, <3>2, <3>3 DEF Passed
  <2> QED
    BY <2>2, <2>3, <2>4
<1> QED
  BY <1>1, <1>2, XtraStep, PTL DEF Xtra!Spec
=============================================================================
