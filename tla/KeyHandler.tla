----------------------------- MODULE KeyHandler -----------------------------
(***************************************************************************)
(* The touch screen gesture handler (keyhandler/KeyHandler.java).  Three   *)
(* threads meet in it: the input thread calls handleKeyEvent, the looper   *)
(* of EventHandler runs handleMessage and the torch callbacks, and the     *)
(* main looper delivers the proximity sensor's events.                     *)
(*                                                                         *)
(* Each accepted gesture has a number; a message and a listener carry the  *)
(* number of the gesture they were made for.  The order of two messages    *)
(* that wait is left open: it goes by their times.  What a gesture         *)
(* launches (application, broadcast, vibration) is not modelled, except    *)
(* the torch.                                                              *)
(***************************************************************************)
EXTENDS Naturals, Sequences, FiniteSets

CONSTANTS Scancodes,  \* scan codes the touch screen may send
          MaxKeys,    \* bound on accepted gestures
          MaxTorch    \* bound on torch changes made by other applications

VARIABLES mEventHandler,       \* messages of the handler: [key, arg1, delayed]
          calling,             \* handleKeyEvent between its send and processEvent
          sensing,             \* onSensorChanged from hasMessages to its last call
          listeners,           \* registered proximity listeners: [key, scancode]
          mProximityWakeLock,  \* count of the reference counted wake lock
          mTorchEnabled,
          mRearCameraId,       \* TRUE: the rear camera has been found
          torch,               \* the camera service: "off", "on" or "unavailable"
          torchCb,             \* torch callbacks posted to the handler
          keys,                \* accepted gestures so far
          done,                \* how often each accepted gesture was carried out
          dropped,             \* gestures dropped because the sensor was covered
          raced,               \* an answer found its own message gone, or another's
          torchMoves           \* torch changes by other applications so far

vars == <<mEventHandler, calling, sensing, listeners, mProximityWakeLock,
          mTorchEnabled, mRearCameraId, torch, torchCb, keys, done, dropped, raced, torchMoves>>

keyVars == <<mEventHandler, calling, sensing, listeners, mProximityWakeLock,
             keys, done, dropped, raced>>

torchVars == <<mTorchEnabled, mRearCameraId, torch, torchCb, torchMoves>>

sSupportedGestures == {"C", "E", "S", "V", "W", "Z"}

Key == 1..MaxKeys
Idle == [key |-> 0, scancode |-> "none"]
Quiet == [request |-> Idle, far |-> FALSE, removed |-> FALSE]
Request == [key: Key, scancode: Scancodes \cap sSupportedGestures]

Message == [key: Key, arg1: sSupportedGestures, delayed: BOOLEAN]

TypeOK == /\ mEventHandler \subseteq Message
          /\ calling \in Request \cup {Idle}
          /\ sensing \in [request: Request, far: BOOLEAN, removed: BOOLEAN] \cup {Quiet}
          /\ listeners \subseteq Request
          /\ mProximityWakeLock \in Nat
          /\ mTorchEnabled \in BOOLEAN /\ mRearCameraId \in BOOLEAN
          /\ torch \in {"off", "on", "unavailable"}
          /\ torchCb \in Seq({"off", "on", "unavailable"})
          /\ keys \in 0..MaxKeys /\ torchMoves \in 0..MaxTorch
          /\ done \in [Key -> Nat]
          /\ dropped \subseteq Key
          /\ raced \in BOOLEAN

(* The constructor: the wake locks are free and the rear camera is unknown. *)
Init == /\ mEventHandler = {} /\ calling = Idle /\ listeners = {} /\ sensing = Quiet
        /\ mProximityWakeLock = 0
        /\ mTorchEnabled = FALSE /\ mRearCameraId = FALSE
        /\ torch \in {"off", "on"} /\ torchCb = <<torch>>
        /\ keys = 0 /\ done = [k \in Key |-> 0] /\ dropped = {}
        /\ raced = FALSE /\ torchMoves = 0

hasMessages == mEventHandler # {}

getMessageForKeyEvent(key, scancode, delayed) ==
  [key |-> key, arg1 |-> scancode, delayed |-> delayed]

-----------------------------------------------------------------------------
(* The input thread: a supported key that goes down while a gesture waits  *)
(* is swallowed; other keys are not handled at all.                        *)
handleKeyEvent(scancode, proximityCheck) ==
  /\ calling = Idle /\ keys < MaxKeys
  /\ scancode \in sSupportedGestures
  /\ ~hasMessages
  /\ keys' = keys + 1
  /\ mEventHandler' = mEventHandler \cup {getMessageForKeyEvent(keys', scancode, proximityCheck)}
  /\ calling' = IF proximityCheck THEN [key |-> keys', scancode |-> scancode] ELSE Idle
  /\ UNCHANGED <<sensing, listeners, mProximityWakeLock, done, dropped, raced>>
  /\ UNCHANGED torchVars

(* Still on the input thread: hold the wake lock and ask the sensor. *)
processEvent ==
  /\ calling # Idle
  /\ mProximityWakeLock' = mProximityWakeLock + 1
  /\ listeners' = listeners \cup {calling}
  /\ calling' = Idle
  /\ UNCHANGED <<mEventHandler, sensing, keys, done, dropped, raced>>
  /\ UNCHANGED torchVars

(* A listener that returns before it releases the lock. *)
ReleaseOnAnswer(late) == IF late THEN mProximityWakeLock ELSE mProximityWakeLock - 1

(* The lock is released before the listener looks for its message. *)
ReleaseAlways(late) == mProximityWakeLock - 1

(* onSensorChanged of one listener, on the main looper: without a message  *)
(* "the sensor took to long" and the event is ignored.                     *)
onSensorChanged(l, far) ==
  /\ sensing = Quiet /\ l \in listeners
  /\ mProximityWakeLock' = ReleaseAlways(~hasMessages)
  /\ listeners' = listeners \ {l}
  /\ sensing' = IF hasMessages THEN [request |-> l, far |-> far, removed |-> FALSE] ELSE Quiet
  /\ UNCHANGED <<mEventHandler, calling, keys, done, dropped, raced>>
  /\ UNCHANGED torchVars

(* A listener that forgets to take the delayed message out of the handler. *)
KeptMessages == mEventHandler

(* removeMessages takes every gesture message, whoever sent it. *)
RemainingMessages == {}

(* removeMessages.  The handler's looper is another thread: it may have    *)
(* run the message since hasMessages was asked.  A reading that is not far *)
(* ends it, and the gestures are dropped.                                  *)
RemoveMessages ==
  /\ sensing # Quiet /\ ~sensing.removed
  /\ LET waiting == {m.key : m \in mEventHandler}
     IN  /\ mEventHandler' = RemainingMessages
         /\ dropped' = IF sensing.far THEN dropped ELSE dropped \cup waiting
         /\ raced' = (raced \/ waiting # {sensing.request.key})
  /\ sensing' = IF sensing.far THEN [sensing EXCEPT !.removed = TRUE] ELSE Quiet
  /\ UNCHANGED <<calling, listeners, mProximityWakeLock, keys, done>>
  /\ UNCHANGED torchVars

(* A far reading sends the listener's own gesture again, to be run at      *)
(* once; the input thread may have sent another one in between.            *)
SendAgain ==
  /\ sensing.removed
  /\ mEventHandler' = mEventHandler
       \cup {getMessageForKeyEvent(sensing.request.key, sensing.request.scancode, FALSE)}
  /\ sensing' = Quiet
  /\ UNCHANGED <<calling, listeners, mProximityWakeLock, keys, done, dropped, raced>>
  /\ UNCHANGED torchVars

-----------------------------------------------------------------------------
(* getRearCameraId fails while the camera service does; the gesture is     *)
(* then ignored.  setTorchMode throws when a camera is in use.             *)
Toggle(found) ==
  IF ~(mRearCameraId \/ found)
  THEN UNCHANGED <<mRearCameraId, mTorchEnabled, torch, torchCb>>
  ELSE /\ mRearCameraId' = TRUE
       /\ IF torch = "unavailable"
          THEN UNCHANGED <<mTorchEnabled, torch, torchCb>>
          ELSE LET to == IF mTorchEnabled THEN "off" ELSE "on"
               IN  /\ torch' = to
                   /\ torchCb' = IF to = torch THEN torchCb ELSE Append(torchCb, to)
                   /\ mTorchEnabled' = ~mTorchEnabled

(* The handler's looper runs the gesture; a delayed message is only run    *)
(* after mProximityTimeOut, which may be before or after the sensor spoke. *)
handleMessage(msg, found) ==
  /\ done' = [done EXCEPT ![msg.key] = @ + 1]
  /\ IF msg.arg1 = "Z" THEN Toggle(found)
                       ELSE UNCHANGED <<mRearCameraId, mTorchEnabled, torch, torchCb>>
  /\ mEventHandler' = mEventHandler \ {msg}
  /\ UNCHANGED <<calling, sensing, listeners, mProximityWakeLock, keys, dropped, raced, torchMoves>>

(* A callback that ignores that the torch became unavailable. *)
TorchStateChangedOnly(cb) == IF cb = "unavailable" THEN mTorchEnabled ELSE cb = "on"

(* onTorchModeChanged and onTorchModeUnavailable. *)
TorchState(cb) == cb = "on"

(* MyTorchCallback, on the handler's looper: ignored until the rear camera *)
(* has been looked up by the first torch gesture.                          *)
TorchCallback ==
  /\ torchCb # <<>>
  /\ torchCb' = Tail(torchCb)
  /\ mTorchEnabled' = IF mRearCameraId THEN TorchState(Head(torchCb)) ELSE mTorchEnabled
  /\ UNCHANGED <<mRearCameraId, torch, torchMoves>>
  /\ UNCHANGED keyVars

(* Another application switches the torch or opens and closes a camera. *)
OtherApp(to) ==
  /\ torchMoves < MaxTorch /\ to # torch
  /\ (torch = "unavailable") => (to = "off")
  /\ torch' = to /\ torchCb' = Append(torchCb, to)
  /\ torchMoves' = torchMoves + 1
  /\ UNCHANGED <<mTorchEnabled, mRearCameraId>>
  /\ UNCHANGED keyVars

Next == \/ \E s \in Scancodes, p \in BOOLEAN : handleKeyEvent(s, p)
        \/ processEvent
        \/ \E l \in listeners, far \in BOOLEAN : onSensorChanged(l, far)
        \/ RemoveMessages \/ SendAgain
        \/ \E msg \in mEventHandler, found \in BOOLEAN : handleMessage(msg, found)
        \/ TorchCallback
        \/ \E to \in {"off", "on", "unavailable"} : OtherApp(to)

Spec == Init /\ [][Next]_vars

-----------------------------------------------------------------------------
(* The proximity wake lock is held exactly for the listeners that still    *)
(* wait for the sensor (processEvent, onSensorChanged): an answer that     *)
(* comes too late releases it too, and none releases it twice.             *)
LockPerListener == mProximityWakeLock = Cardinality(listeners)

(* As long as every answer of the sensor finds the message of its own      *)
(* gesture, and neither none nor a later one's, every accepted gesture is  *)
(* in exactly one place: waiting in the handler, about to be sent again,   *)
(* carried out once, or dropped because the sensor was covered             *)
(* (onSensorChanged), whatever other gestures come in meanwhile.           *)
EachGestureOnce ==
  ~raced => \A k \in 1..keys :
               Cardinality({m \in mEventHandler : m.key = k}) + done[k]
                 + (IF sensing.removed /\ sensing.request.key = k THEN 1 ELSE 0)
                 + (IF k \in dropped THEN 1 ELSE 0) = 1

(* "The sensor took to long, ignoring.": a sensor event that comes after   *)
(* its gesture was carried out by the timeout does not carry it out again. *)
(* The code does not keep this; see Divergences in the README.             *)
LateSensorIsIgnored == \A k \in Key : done[k] <= 1

(* Once the rear camera is known and every torch callback was delivered,   *)
(* mTorchEnabled is the state of the torch, whoever switched it.           *)
TorchAgrees == (mRearCameraId /\ torchCb = <<>>) => (mTorchEnabled = (torch = "on"))

=============================================================================
