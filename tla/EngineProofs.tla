---------------------------- MODULE EngineProofs ----------------------------
(***************************************************************************)
(* Theorems about the parts of the location engine that EngineMC puts      *)
(* together: the fix session (LocEngSession), its mode and ULP proxy       *)
(* (LocEngUlp), the settings (LocEngConfig), and the connection to the     *)
(* daemons (DmnConn).                                                      *)
(***************************************************************************)
EXTENDS EngineMC, Induction, TLAPS

-----------------------------------------------------------------------------
(* What is in a queue, and in which order.                                 *)

InQueue(A, s) == \E i \in 1..Len(s) : s[i] \in A

\* After every element of A comes one of B.
Followed(A, B, s) ==
  \A i \in 1..Len(s) : s[i] \in A => \E j \in (i + 1)..Len(s) : s[j] \in B

\* There is an a with no b after it.
EndsWith(a, b, s) ==
  \E i \in 1..Len(s) : s[i] = a /\ \A j \in (i + 1)..Len(s) : s[j] # b

LEMMA TailSeq ==
  ASSUME NEW S, NEW s \in Seq(S), s # <<>>
  PROVE  /\ Tail(s) \in Seq(S)
         /\ Len(s) \in Nat /\ Len(s) > 0 /\ Len(Tail(s)) = Len(s) - 1
         /\ \A i \in 1..Len(Tail(s)) : Tail(s)[i] = s[i + 1]
         /\ Head(s) = s[1]
OBVIOUS

LEMMA AppendSeq ==
  ASSUME NEW S, NEW s \in Seq(S), NEW x \in S
  PROVE  /\ Append(s, x) \in Seq(S)
         /\ Len(s) \in Nat /\ Len(Append(s, x)) = Len(s) + 1
         /\ \A i \in 1..Len(s) : Append(s, x)[i] = s[i]
         /\ Append(s, x)[Len(s) + 1] = x
OBVIOUS

\* Taking the oldest message.
LEMMA TailQueue ==
  ASSUME NEW S, NEW s \in Seq(S), s # <<>>
  PROVE  /\ \A A : InQueue(A, s) => Head(s) \in A \/ InQueue(A, Tail(s))
         /\ \A A : InQueue(A, Tail(s)) => InQueue(A, s)
         /\ \A A, B : Followed(A, B, s) => /\ Followed(A, B, Tail(s))
                                           /\ Head(s) \in A => InQueue(B, Tail(s))
         /\ \A a, b : EndsWith(a, b, s) => \/ EndsWith(a, b, Tail(s))
                                           \/ Head(s) = a /\ ~InQueue({b}, Tail(s))
<1> USE TailSeq
<1>1. ASSUME NEW A, InQueue(A, s), Head(s) \notin A PROVE InQueue(A, Tail(s))
  <2>1. PICK i \in 1..Len(s) : s[i] \in A
    BY <1>1 DEF InQueue
  <2>2. i - 1 \in 1..Len(Tail(s)) /\ Tail(s)[i - 1] = s[i]
    BY <1>1, <2>1
  <2> QED
    BY <2>1, <2>2 DEF InQueue
<1>2. ASSUME NEW A, InQueue(A, Tail(s)) PROVE InQueue(A, s)
  <2>1. PICK i \in 1..Len(Tail(s)) : Tail(s)[i] \in A
    BY <1>2 DEF InQueue
  <2>2. i + 1 \in 1..Len(s) /\ s[i + 1] \in A
    BY <2>1
  <2> QED
    BY <2>2 DEF InQueue
<1>3. ASSUME NEW A, NEW B, Followed(A, B, s) PROVE Followed(A, B, Tail(s))
  <2> SUFFICES ASSUME NEW i \in 1..Len(Tail(s)), Tail(s)[i] \in A
               PROVE  \E j \in (i + 1)..Len(Tail(s)) : Tail(s)[j] \in B
    BY DEF Followed
  <2>1. i + 1 \in 1..Len(s) /\ s[i + 1] \in A
    OBVIOUS
  <2>2. PICK j \in (i + 2)..Len(s) : s[j] \in B
    BY <1>3, <2>1 DEF Followed
  <2>3. j - 1 \in (i + 1)..Len(Tail(s)) /\ Tail(s)[j - 1] \in B
    BY <2>2
  <2> QED
    BY <2>3
<1>4. ASSUME NEW A, NEW B, Followed(A, B, s), Head(s) \in A PROVE InQueue(B, Tail(s))
  <2>1. PICK j \in (1 + 1)..Len(s) : s[j] \in B
    BY <1>4 DEF Followed
  <2>2. j - 1 \in 1..Len(Tail(s)) /\ Tail(s)[j - 1] \in B
    BY <2>1
  <2> QED
    BY <2>2 DEF InQueue
<1>5. ASSUME NEW a, NEW b, EndsWith(a, b, s), ~EndsWith(a, b, Tail(s))
      PROVE  Head(s) = a /\ ~InQueue({b}, Tail(s))
  <2>1. PICK i \in 1..Len(s) : s[i] = a /\ \A j \in (i + 1)..Len(s) : s[j] # b
    BY <1>5 DEF EndsWith
  <2>2. CASE i = 1
    <3>1. ASSUME NEW j \in 1..Len(Tail(s)) PROVE Tail(s)[j] # b
      BY <2>1, <2>2
    <3> QED
      BY <2>1, <2>2, <3>1 DEF InQueue
  <2>3. CASE i > 1
    <3>1. i - 1 \in 1..Len(Tail(s)) /\ Tail(s)[i - 1] = a
      BY <2>1, <2>3
    <3>2. ASSUME NEW j \in ((i - 1) + 1)..Len(Tail(s)) PROVE Tail(s)[j] # b
      BY <2>1, <2>3
    <3> QED
      BY <1>5, <3>1, <3>2 DEF EndsWith
  <2> QED
    BY <2>1, <2>2, <2>3
<1> QED
  BY <1>1, <1>2, <1>3, <1>4, <1>5

\* Adding a message at the end.
LEMMA AppendQueue ==
  ASSUME NEW S, NEW s \in Seq(S), NEW x \in S
  PROVE  /\ \A A : InQueue(A, Append(s, x)) <=> InQueue(A, s) \/ x \in A
         /\ \A A, B : x \notin A /\ (x \in B \/ Followed(A, B, s)) => Followed(A, B, Append(s, x))
         /\ \A a, b : /\ x # b /\ EndsWith(a, b, s) => EndsWith(a, b, Append(s, x))
                      /\ x = a => EndsWith(a, b, Append(s, x))
<1> USE AppendSeq
<1>1. ASSUME NEW A, InQueue(A, Append(s, x)) PROVE InQueue(A, s) \/ x \in A
  <2>1. PICK i \in 1..(Len(s) + 1) : Append(s, x)[i] \in A
    BY <1>1 DEF InQueue
  <2> QED
    BY <2>1 DEF InQueue
<1>2. ASSUME NEW A, InQueue(A, s) \/ x \in A PROVE InQueue(A, Append(s, x))
  <2>1. CASE x \in A
    BY <2>1 DEF InQueue
  <2>2. CASE InQueue(A, s)
    <3>1. PICK i \in 1..Len(s) : s[i] \in A
      BY <2>2 DEF InQueue
    <3>2. i \in 1..Len(Append(s, x)) /\ Append(s, x)[i] \in A
      BY <3>1
    <3> QED
      BY <3>2 DEF InQueue
  <2> QED
    BY <1>2, <2>1, <2>2
<1>3. ASSUME NEW A, NEW B, x \notin A, x \in B \/ Followed(A, B, s)
      PROVE  Followed(A, B, Append(s, x))
  <2> SUFFICES ASSUME NEW i \in 1..Len(Append(s, x)), Append(s, x)[i] \in A
               PROVE  \E j \in (i + 1)..Len(Append(s, x)) : Append(s, x)[j] \in B
    BY DEF Followed
  <2>1. i \in 1..Len(s) /\ s[i] \in A
    BY <1>3
  <2>2. CASE x \in B
    BY <2>1, <2>2
  <2>3. CASE Followed(A, B, s)
    <3>1. PICK j \in (i + 1)..Len(s) : s[j] \in B
      BY <2>1, <2>3 DEF Followed
    <3> QED
      BY <3>1
  <2> QED
    BY <1>3, <2>2, <2>3
<1>4. ASSUME NEW a, NEW b, x # b, EndsWith(a, b, s) PROVE EndsWith(a, b, Append(s, x))
  <2>1. PICK i \in 1..Len(s) : s[i] = a /\ \A j \in (i + 1)..Len(s) : s[j] # b
    BY <1>4 DEF EndsWith
  <2>2. i \in 1..Len(Append(s, x)) /\ Append(s, x)[i] = a
    BY <2>1
  <2>3. ASSUME NEW j \in (i + 1)..Len(Append(s, x)) PROVE Append(s, x)[j] # b
    BY <1>4, <2>1
  <2> QED
    BY <2>2, <2>3 DEF EndsWith
<1>5. ASSUME NEW a, NEW b, x = a PROVE EndsWith(a, b, Append(s, x))
  BY <1>5 DEF EndsWith
<1> QED
  BY <1>1, <1>2, <1>3, <1>4, <1>5

-----------------------------------------------------------------------------
(* The fix session.                                                        *)

EngineOns == {ReportStatus("SESSION_BEGIN"), ReportStatus("ENGINE_ON")}
EngineOffs == {ReportStatus("ENGINE_OFF"), Down}

\* What the invariant asks of a queue of messages.
Queued(m, s) == InQueue({m}, s)
OffQueued(s) == InQueue(EngineOffs, s)
UpAfterSsr(s) == Followed({Ssr}, {Up}, s)
OffAfterOn(s) == Followed(EngineOns, EngineOffs, s)
StartNotStopped(s) == EndsWith(StartFix, StopFix, s)

\* A modem that has been opened again is about to be reported up.
UpFollows ==
  /\ modem = "up" => UpAfterSsr(msgs)
  /\ ~single /\ mNavigating /\ opened /\ startFix = "taken" =>
       fixing \/ modem = "opening" \/ Queued(Up, msgs)

\* A start is queued that no stop follows, or a wanted session runs and no stop is queued.
StartIsLast ==
  wanted /\ ~single => \/ StartNotStopped(msgs)
                       \/ (mNavigating \/ startFix = "refused") /\ ~Queued(StopFix, msgs)

\* A modem at work has a session, or is about to have one.
WorkIsKnown == ~single /\ fixing => mNavigating \/ Queued(StartFix, msgs)

\* That the engine is off comes after everything that says it is on.
OffIsLast ==
  ~engineOn => /\ OffAfterOn(msgs)
               /\ mute_session_state = "IN_SESSION" \/ toldEngine = "ENGINE_ON"
                    => OffQueued(msgs)

\* A refused start leaves no session.
RefusedIsOff == mNavigating => startFix # "refused"

SessionInv ==
  /\ TypeOK
  /\ RefusedIsOff
  /\ UpFollows
  /\ StartIsLast
  /\ WorkIsKnown
  /\ OffIsLast

Positions == {"SUCCESS", "INTERMEDIATE", "FAILURE"}

\* What tells the messages apart.
LEMMA MsgFields ==
  /\ StartFix.op = "StartFix" /\ StopFix.op = "StopFix" /\ Down.op = "Down" /\ Up.op = "Up"
  /\ Ssr.op = "Ssr" /\ RequestNi.op = "RequestNi"
  /\ \A f : DelAidData(f).op = "DelAidData"
  /\ \A s : ReportStatus(s).op = "ReportStatus" /\ ReportStatus(s).status = s
  /\ \A s, p : ReportPosition(s, p).op = "ReportPosition"
BY DEF StartFix, StopFix, Down, Up, Ssr, RequestNi, DelAidData, ReportStatus, ReportPosition

LEMMA MsgTypes ==
  /\ {StartFix, StopFix, Down, Up, Ssr, RequestNi} \subseteq Msgs
  /\ \A f \in Masks : DelAidData(f) \in Msgs
  /\ \A s \in Statuses : ReportStatus(s) \in Msgs
  /\ \A s \in Positions, p \in BOOLEAN : ReportPosition(s, p) \in Msgs
BY DEF Msgs, Positions

\* Two messages appended at once.
LEMMA AppendTwo ==
  ASSUME NEW S, NEW s \in Seq(S), NEW x \in S, NEW y \in S
  PROVE  /\ s \o <<x, y>> = Append(Append(s, x), y)
         /\ Append(s, x) \in Seq(S) /\ s \o <<x, y>> \in Seq(S)
OBVIOUS

\* msgs stays a queue of messages.
LEMMA QueueType == TypeOK /\ [Next]_vars => msgs' \in Seq(Msgs)
<1> SUFFICES ASSUME TypeOK, [Next]_vars PROVE msgs' \in Seq(Msgs)
  OBVIOUS
<1> USE MsgTypes, AppendSeq, TailSeq DEF TypeOK
<1>1. CASE Framework
  <2>1. msgs' = msgs \/ \E x \in Msgs : msgs' = Append(msgs, x)
    <3>1. CASE loc_eng_start
      BY ONLY <3>1, MsgTypes DEF loc_eng_start, sendMsg
    <3>2. CASE loc_eng_stop
      BY ONLY <3>2, MsgTypes DEF loc_eng_stop, sendMsg
    <3>3. CASE loc_eng_cleanup
      BY ONLY <3>3, MsgTypes DEF loc_eng_cleanup, sendMsg
    <3>4. ASSUME NEW f \in Masks, loc_eng_delete_aiding_data(f)
          PROVE  \E x \in Msgs : msgs' = Append(msgs, x)
      BY ONLY <3>4, f \in Masks, MsgTypes DEF loc_eng_delete_aiding_data, sendMsg
    <3> QED
      BY ONLY <1>1, <3>1, <3>2, <3>3, <3>4 DEF Framework
  <2> QED
    BY <2>1
<1>2. CASE EngineTurnsOn \/ EngineTurnsOff
  <2>1. /\ ReportStatus("SESSION_BEGIN") \in Msgs /\ ReportStatus("ENGINE_ON") \in Msgs
        /\ ReportStatus("SESSION_END") \in Msgs /\ ReportStatus("ENGINE_OFF") \in Msgs
    BY DEF Statuses
  <2>2. \A x, y \in Msgs : msgs \o <<x, y>> \in Seq(Msgs)
    BY AppendTwo
  <2>3. msgs' \in {msgs \o <<ReportStatus("SESSION_BEGIN"), ReportStatus("ENGINE_ON")>>,
                   msgs \o <<ReportStatus("SESSION_END"), ReportStatus("ENGINE_OFF")>>}
    BY ONLY <1>2 DEF EngineTurnsOn, EngineTurnsOff
  <2> QED
    BY ONLY <2>1, <2>2, <2>3
<1>3. CASE SendsNi \/ Crash \/ Recover \/ handleEngineUpEvent
  BY <1>3 DEF SendsNi, Crash, Recover, handleEngineUpEvent, sendMsg
<1>4. ASSUME NEW s \in Positions, NEW p \in BOOLEAN, SendsPosition(s, p)
      PROVE  msgs' \in Seq(Msgs)
  BY <1>4 DEF SendsPosition, sendMsg
<1>5. CASE MsgTaskStep
  BY <1>5 DEF MsgTaskStep, loc_eng_start_handler, loc_eng_stop_handler, loc_eng_mute_one_session,
     loc_eng_handle_engine_down, LocSsrMsg, loc_eng_handle_engine_up, LocEngDelAidData,
     LocEngReportStatus, LocEngReportPosition, Takes, Handled, HandledThenSent
<1>6. CASE UNCHANGED vars
  BY <1>6 DEF vars
<1> QED
  BY <1>1, <1>2, <1>3, <1>4, <1>5, <1>6 DEF Next, Modem, Positions

\* The bounds stay in their range.
LEMMA BoundsStep ==
  TypeOK /\ [Next]_vars =>
    /\ calls' \in 0..MaxCalls /\ crashes' \in 0..MaxCrashes /\ reports' \in 0..MaxReports
<1> SUFFICES ASSUME TypeOK, [Next]_vars
             PROVE  /\ calls' \in 0..MaxCalls /\ crashes' \in 0..MaxCrashes
                    /\ reports' \in 0..MaxReports
  OBVIOUS
<1>1. \/ UNCHANGED bounds
      \/ Calls \/ Reports
      \/ crashes < MaxCrashes /\ crashes' = crashes + 1 /\ UNCHANGED <<calls, reports>>
  BY DEF Next, Framework, Modem, MsgTaskStep, loc_eng_start, loc_eng_stop, loc_eng_cleanup,
     loc_eng_delete_aiding_data, EngineTurnsOn, EngineTurnsOff, SendsNi, Crash, Recover,
     handleEngineUpEvent, SendsPosition, loc_eng_start_handler, loc_eng_stop_handler,
     loc_eng_mute_one_session, loc_eng_handle_engine_down, LocSsrMsg, loc_eng_handle_engine_up,
     LocEngDelAidData, LocEngReportStatus, LocEngReportPosition, vars
<1> QED
  BY <1>1, SessionAssumption DEF TypeOK, bounds, Calls, Reports

\* What LocEngReportStatus and engine down make of the session.
LEMMA StatusType ==
  ASSUME TypeOK, NEW s \in Statuses, loc_eng_report_status(s)
  PROVE  /\ mute_session_state' \in {"NONE", "WAIT", "IN_SESSION"}
         /\ engine_status' \in {"NONE", "ENGINE_ON", "ENGINE_OFF"}
         /\ toldEngine' \in {"NONE", "ENGINE_ON", "ENGINE_OFF"}
BY DEF TypeOK, loc_eng_report_status, muteAfter, Statuses

\* TypeOK is preserved.
LEMMA TypeStep == TypeOK /\ [Next]_vars => TypeOK'
<1> SUFFICES ASSUME TypeOK, [Next]_vars PROVE TypeOK'
  OBVIOUS
<1>q. /\ msgs' \in Seq(Msgs)
      /\ calls' \in 0..MaxCalls /\ crashes' \in 0..MaxCrashes /\ reports' \in 0..MaxReports
  BY QueueType, BoundsStep
<1> USE DEF TypeOK, engineVars, modemVars
<1>1. CASE Framework
  <2>1. wanted' \in BOOLEAN /\ UNCHANGED <<single, engineVars, modemVars>>
    BY <1>1 DEF Framework, loc_eng_start, loc_eng_stop, loc_eng_cleanup,
       loc_eng_delete_aiding_data
  <2> QED
    BY <1>q, <2>1, ZenonT(40)
<1>2. CASE EngineTurnsOn
  BY <1>q, <1>2, Zenon DEF EngineTurnsOn
<1>3. CASE EngineTurnsOff
  BY <1>q, <1>3, Zenon DEF EngineTurnsOff
<1>4. CASE SendsNi
  BY <1>q, <1>4, ZenonT(60) DEF SendsNi
<1>5. CASE Crash
  BY <1>q, <1>5, Zenon DEF Crash
<1>6. CASE Recover
  BY <1>q, <1>6, Zenon DEF Recover
<1>7. CASE handleEngineUpEvent
  BY <1>q, <1>7, ZenonT(40) DEF handleEngineUpEvent
<1>8. ASSUME NEW s \in Positions, NEW p \in BOOLEAN, SendsPosition(s, p) PROVE TypeOK'
  BY <1>q, <1>8 DEF SendsPosition
<1>9. CASE loc_eng_start_handler
  <2>1. UNCHANGED <<single, mute_session_state, engine_status, aiding_data_for_deletion,
                    toldEngine, modem, opened, engineOn, wanted, bounds>>
    BY <1>9 DEF loc_eng_start_handler
  <2>2. \/ UNCHANGED <<mNavigating, fixing, startFix>>
        \/ mNavigating' = TRUE /\ fixing' = opened /\ startFix' = "taken"
        \/ mNavigating' = TRUE /\ startFix' = "kept" /\ UNCHANGED fixing
        \/ startFix' = "refused" /\ UNCHANGED <<mNavigating, fixing>>
    BY ONLY <1>9, Zenon DEF loc_eng_start_handler
  <2>3. mNavigating' \in BOOLEAN /\ startFix' \in {"taken", "kept", "refused"}
    BY <2>2, Zenon
  <2>4. fixing' = fixing \/ fixing' = opened
    BY <2>2, Zenon
  <2>5. fixing' \in BOOLEAN /\ (fixing' => opened)
    <3>1. CASE fixing' = fixing
      BY <3>1
    <3>2. CASE fixing' = opened
      BY <3>2
    <3> QED
      BY <2>4, <3>1, <3>2
  <2> QED
    BY <1>q, <2>1, <2>3, <2>5, Zenon
<1>10. CASE loc_eng_stop_handler
  BY <1>q, <1>10, ZenonT(40) DEF loc_eng_stop_handler
<1>11. CASE loc_eng_mute_one_session
  BY <1>q, <1>11, ZenonT(40) DEF loc_eng_mute_one_session
<1>12. CASE loc_eng_handle_engine_down
  BY <1>q, <1>12, StatusType, Zenon DEF loc_eng_handle_engine_down, Statuses
<1>13. CASE LocSsrMsg
  BY <1>q, <1>13, ZenonT(40) DEF LocSsrMsg
<1>14. CASE loc_eng_handle_engine_up
  <2>1. /\ mNavigating' \in BOOLEAN
        /\ UNCHANGED <<single, mute_session_state, engine_status, aiding_data_for_deletion,
                       toldEngine, startFix, modem, opened, fixing, engineOn, wanted>>
    BY ONLY <1>14 DEF loc_eng_handle_engine_up, modemVars
  <2> QED
    BY <1>q, <2>1, ZenonT(40)
<1>15. ASSUME NEW f \in Masks, LocEngDelAidData(f) PROVE TypeOK'
  BY <1>q, <1>15 DEF LocEngDelAidData, update_aiding_data_for_deletion, Masks
<1>16. ASSUME NEW s \in Statuses, LocEngReportStatus(s) PROVE TypeOK'
  BY <1>q, <1>16, StatusType DEF LocEngReportStatus, update_aiding_data_for_deletion
<1>17. ASSUME NEW s \in Positions, NEW p \in BOOLEAN, LocEngReportPosition(s, p) PROVE TypeOK'
  <2>1. /\ mNavigating' \in BOOLEAN /\ fixing' \in BOOLEAN /\ (fixing' => fixing)
        /\ UNCHANGED <<single, mute_session_state, engine_status, aiding_data_for_deletion,
                       toldEngine, startFix, modem, opened, engineOn, wanted>>
    BY <1>17 DEF LocEngReportPosition
  <2> QED
    BY <1>q, <2>1, ZenonT(40)
<1>18. CASE UNCHANGED vars
  BY <1>q, <1>18 DEF vars
<1> QED
  BY <1>1, <1>2, <1>3, <1>4, <1>5, <1>6, <1>7, <1>8, <1>9, <1>10, <1>11, <1>12, <1>13, <1>14,
     <1>15, <1>16, <1>17, <1>18 DEF Next, Modem, MsgTaskStep, Positions

\* Which of the messages SessionInv speaks of a message is.
LEMMA MsgsDiffer ==
  /\ StartFix # StopFix /\ StartFix # Up /\ StartFix # Ssr
  /\ StopFix # Up /\ StopFix # Ssr /\ Up # Ssr
  /\ \A m \in {StartFix, StopFix, Up, Ssr, RequestNi} : m \notin EngineOns /\ m \notin EngineOffs
  /\ Down \notin EngineOns /\ Down \in EngineOffs
  /\ \A m \in {RequestNi, Down} : m \notin {StartFix, StopFix, Up, Ssr}
  /\ \A f : DelAidData(f) \notin {StartFix, StopFix, Up, Ssr} \cup EngineOns \cup EngineOffs
  /\ \A s, p :
       ReportPosition(s, p) \notin {StartFix, StopFix, Up, Ssr} \cup EngineOns \cup EngineOffs
  /\ \A s : /\ ReportStatus(s) \notin {StartFix, StopFix, Up, Ssr}
            /\ ReportStatus(s) \in EngineOns <=> s \in {"SESSION_BEGIN", "ENGINE_ON"}
            /\ ReportStatus(s) \in EngineOffs <=> s = "ENGINE_OFF"
BY MsgFields DEF EngineOns, EngineOffs

\* What becomes of the queue when m is put at its end ...
Sent(m, s, t) ==
  /\ m # Ssr /\ (m = Up \/ UpAfterSsr(s)) => UpAfterSsr(t)
  /\ Queued(Up, t) <=> Queued(Up, s) \/ m = Up
  /\ m = StartFix \/ (m # StopFix /\ StartNotStopped(s)) => StartNotStopped(t)
  /\ Queued(StopFix, t) <=> Queued(StopFix, s) \/ m = StopFix
  /\ Queued(StartFix, t) <=> Queued(StartFix, s) \/ m = StartFix
  /\ m \notin EngineOns /\ (m \in EngineOffs \/ OffAfterOn(s)) => OffAfterOn(t)
  /\ OffQueued(t) <=> OffQueued(s) \/ m \in EngineOffs

\* ... and when it is taken from its head.
Taken(m, s, t) ==
  /\ UpAfterSsr(s) => UpAfterSsr(t) /\ (m = Ssr => Queued(Up, t))
  /\ Queued(Up, s) => m = Up \/ Queued(Up, t)
  /\ StartNotStopped(s) => \/ StartNotStopped(t)
                           \/ m = StartFix /\ ~Queued(StopFix, t)
  /\ Queued(StopFix, t) \/ m = StopFix => Queued(StopFix, s)
  /\ Queued(StartFix, s) => m = StartFix \/ Queued(StartFix, t)
  /\ OffAfterOn(s) => OffAfterOn(t) /\ (m \in EngineOns => OffQueued(t))
  /\ OffQueued(s) => m \in EngineOffs \/ OffQueued(t)

LEMMA SessionAppend ==
  ASSUME NEW s \in Seq(Msgs), NEW m \in Msgs
  PROVE  Sent(m, s, Append(s, m))
<1>1. /\ \A A : InQueue(A, Append(s, m)) <=> InQueue(A, s) \/ m \in A
      /\ \A A, B : m \notin A /\ (m \in B \/ Followed(A, B, s)) => Followed(A, B, Append(s, m))
      /\ \A a, b : /\ m # b /\ EndsWith(a, b, s) => EndsWith(a, b, Append(s, m))
                   /\ m = a => EndsWith(a, b, Append(s, m))
  BY AppendQueue
<1>2. \A x, y : x \in {y} <=> x = y
  OBVIOUS
<1> QED
  BY ONLY <1>1, <1>2 DEF Sent, Queued, OffQueued, UpAfterSsr, OffAfterOn, StartNotStopped

LEMMA SessionTail ==
  ASSUME NEW s \in Seq(Msgs), s # <<>>
  PROVE  Tail(s) \in Seq(Msgs) /\ Taken(Head(s), s, Tail(s))
<1>1. /\ Tail(s) \in Seq(Msgs) /\ InQueue({Head(s)}, s)
      /\ \A A : InQueue(A, s) => Head(s) \in A \/ InQueue(A, Tail(s))
      /\ \A A : InQueue(A, Tail(s)) => InQueue(A, s)
      /\ \A A, B : Followed(A, B, s) => /\ Followed(A, B, Tail(s))
                                        /\ Head(s) \in A => InQueue(B, Tail(s))
      /\ \A a, b : EndsWith(a, b, s) => \/ EndsWith(a, b, Tail(s))
                                        \/ Head(s) = a /\ ~InQueue({b}, Tail(s))
  BY TailQueue, TailSeq DEF InQueue
<1>2. \A x, y : x \in {y} <=> x = y
  OBVIOUS
<1> QED
  BY ONLY <1>1, <1>2 DEF Taken, Queued, OffQueued, UpAfterSsr, OffAfterOn, StartNotStopped

\* What every step leaves true of the queue and the session.
LEMMA NextSessionInv == SessionInv /\ [Next]_vars => SessionInv'
<1> SUFFICES ASSUME SessionInv, [Next]_vars PROVE SessionInv'
  OBVIOUS
<1>type. TypeOK /\ TypeOK' /\ msgs \in Seq(Msgs)
  BY TypeStep DEF SessionInv, TypeOK
<1>inv. RefusedIsOff /\ UpFollows /\ StartIsLast /\ WorkIsKnown /\ OffIsLast
  BY DEF SessionInv
<1> USE DEF RefusedIsOff, UpFollows, StartIsLast, WorkIsKnown, OffIsLast, engineVars, modemVars,
        TypeOK
<1>1. CASE loc_eng_start
  <2>1. Sent(StartFix, msgs, msgs')
    BY <1>1, <1>type, SessionAppend, MsgTypes DEF loc_eng_start, sendMsg
  <2> QED
    BY ONLY <1>1, <1>inv, <2>1, MsgsDiffer, <1>type
       DEF loc_eng_start, Sent, SessionInv
<1>2. CASE loc_eng_stop
  <2>1. Sent(StopFix, msgs, msgs')
    BY <1>2, <1>type, SessionAppend, MsgTypes DEF loc_eng_stop, sendMsg
  <2> QED
    BY ONLY <1>2, <1>inv, <2>1, MsgsDiffer, <1>type
       DEF loc_eng_stop, Sent, SessionInv
<1>3. CASE loc_eng_cleanup
  <2>1. IF mNavigating THEN Sent(StopFix, msgs, msgs') ELSE msgs' = msgs
    BY <1>3, <1>type, SessionAppend, MsgTypes DEF loc_eng_cleanup, sendMsg
  <2> QED
    BY ONLY <1>3, <1>inv, <2>1, MsgsDiffer, <1>type
       DEF loc_eng_cleanup, Sent, SessionInv
<1>4. ASSUME NEW f \in Masks, loc_eng_delete_aiding_data(f) PROVE SessionInv'
  <2>1. Sent(DelAidData(f), msgs, msgs')
    BY <1>4, <1>type, SessionAppend, MsgTypes DEF loc_eng_delete_aiding_data, sendMsg
  <2> QED
    BY ONLY <1>4, <1>inv, <2>1, MsgsDiffer, <1>type
       DEF loc_eng_delete_aiding_data, Sent, SessionInv
<1>5. CASE EngineTurnsOn
  <2> DEFINE first == ReportStatus("SESSION_BEGIN")
             second == ReportStatus("ENGINE_ON")
  <2>1. first \in Msgs /\ second \in Msgs
    BY MsgTypes DEF Statuses
  <2>2. msgs' = Append(Append(msgs, first), second) /\ Append(msgs, first) \in Seq(Msgs)
    BY <1>5, <1>type, <2>1, AppendTwo DEF EngineTurnsOn
  <2>3. Sent(first, msgs, Append(msgs, first)) /\ Sent(second, Append(msgs, first), msgs')
    BY <1>type, <2>1, <2>2, SessionAppend
  <2> QED
    BY ONLY <1>5, <1>inv, <2>3, MsgsDiffer, <1>type
       DEF EngineTurnsOn, Sent, SessionInv
<1>6. CASE EngineTurnsOff
  <2> DEFINE first == ReportStatus("SESSION_END")
             second == ReportStatus("ENGINE_OFF")
  <2>1. first \in Msgs /\ second \in Msgs
    BY MsgTypes DEF Statuses
  <2>2. msgs' = Append(Append(msgs, first), second) /\ Append(msgs, first) \in Seq(Msgs)
    BY <1>6, <1>type, <2>1, AppendTwo DEF EngineTurnsOff
  <2>3. Sent(first, msgs, Append(msgs, first)) /\ Sent(second, Append(msgs, first), msgs')
    BY <1>type, <2>1, <2>2, SessionAppend
  <2> QED
    BY ONLY <1>6, <1>inv, <2>3, MsgsDiffer, <1>type
       DEF EngineTurnsOff, Sent, SessionInv
<1>7. ASSUME NEW s \in Positions, NEW p \in BOOLEAN, SendsPosition(s, p) PROVE SessionInv'
  <2>1. Sent(ReportPosition(s, p), msgs, msgs')
    BY <1>7, <1>type, SessionAppend, MsgTypes DEF SendsPosition, sendMsg
  <2> QED
    BY ONLY <1>7, <1>inv, <2>1, MsgsDiffer, <1>type
       DEF SendsPosition, Sent, SessionInv
<1>8. CASE SendsNi
  <2>1. Sent(RequestNi, msgs, msgs')
    BY <1>8, <1>type, SessionAppend, MsgTypes DEF SendsNi, sendMsg
  <2> QED
    BY ONLY <1>8, <1>inv, <2>1, MsgsDiffer, <1>type
       DEF SendsNi, Sent, SessionInv
<1>9. CASE Crash
  <2>1. Sent(Down, msgs, msgs')
    BY <1>9, <1>type, SessionAppend, MsgTypes DEF Crash, sendMsg
  <2> QED
    BY ONLY <1>9, <1>inv, <2>1, MsgsDiffer, <1>type
       DEF Crash, Sent, SessionInv
<1>10. CASE Recover
  <2>1. Sent(Ssr, msgs, msgs')
    BY <1>10, <1>type, SessionAppend, MsgTypes DEF Recover, sendMsg
  <2> QED
    BY ONLY <1>10, <1>inv, <2>1, MsgsDiffer, <1>type
       DEF Recover, Sent, SessionInv
<1>11. CASE handleEngineUpEvent
  <2>1. Sent(Up, msgs, msgs')
    BY <1>11, <1>type, SessionAppend, MsgTypes DEF handleEngineUpEvent, sendMsg
  <2> QED
    BY ONLY <1>11, <1>inv, <2>1, MsgsDiffer, <1>type
       DEF handleEngineUpEvent, Sent, SessionInv
<1>12. CASE loc_eng_start_handler
  <2>1. Taken(StartFix, msgs, msgs')
    BY <1>12, <1>type, SessionTail DEF loc_eng_start_handler, Takes, Handled
  <2> QED
    BY ONLY <1>12, <1>inv, <2>1, MsgsDiffer, <1>type
       DEF loc_eng_start_handler, Taken, SessionInv
<1>13. CASE loc_eng_stop_handler
  <2>1. Taken(StopFix, msgs, msgs')
    BY <1>13, <1>type, SessionTail DEF loc_eng_stop_handler, Takes, Handled
  <2> QED
    BY ONLY <1>13, <1>inv, <2>1, MsgsDiffer, <1>type
       DEF loc_eng_stop_handler, Taken, SessionInv
<1>14. CASE loc_eng_mute_one_session
  <2>1. Taken(RequestNi, msgs, msgs')
    BY <1>14, <1>type, SessionTail DEF loc_eng_mute_one_session, Takes, Handled
  <2> QED
    BY ONLY <1>14, <1>inv, <2>1, MsgsDiffer, <1>type
       DEF loc_eng_mute_one_session, Taken, SessionInv
<1>15. CASE loc_eng_handle_engine_down
  <2>1. Taken(Down, msgs, msgs')
    BY <1>15, <1>type, SessionTail DEF loc_eng_handle_engine_down, Takes, Handled
  <2> QED
    BY ONLY <1>15, <1>inv, <2>1, MsgsDiffer, <1>type
       DEF loc_eng_handle_engine_down, Taken, loc_eng_report_status, muteAfter, SessionInv
<1>16. CASE LocSsrMsg
  <2>1. Taken(Ssr, msgs, msgs')
    BY <1>16, <1>type, SessionTail DEF LocSsrMsg, Takes, Handled
  <2> QED
    BY ONLY <1>16, <1>inv, <2>1, MsgsDiffer, <1>type
       DEF LocSsrMsg, Taken, SessionInv
<1>17. CASE loc_eng_handle_engine_up
  <2>1. msgs # <<>> /\ Tail(msgs) \in Seq(Msgs) /\ Taken(Up, msgs, Tail(msgs))
    BY <1>17, <1>type, SessionTail DEF loc_eng_handle_engine_up, Takes
  <2>2. IF mNavigating THEN Sent(StartFix, Tail(msgs), msgs') ELSE msgs' = Tail(msgs)
    BY <1>17, <2>1, SessionAppend, MsgTypes DEF loc_eng_handle_engine_up, Handled, HandledThenSent
  <2> QED
    BY ONLY <1>17, <1>inv, <2>1, <2>2, MsgsDiffer, <1>type
       DEF loc_eng_handle_engine_up, Taken, Sent, SessionInv
<1>18. ASSUME NEW f \in Masks, LocEngDelAidData(f) PROVE SessionInv'
  <2>1. Taken(DelAidData(f), msgs, msgs')
    BY <1>18, <1>type, SessionTail DEF LocEngDelAidData, Takes, Handled
  <2> QED
    BY ONLY <1>18, <1>inv, <2>1, MsgsDiffer, <1>type
       DEF LocEngDelAidData, Taken, SessionInv
<1>19. ASSUME NEW s \in Statuses, LocEngReportStatus(s) PROVE SessionInv'
  <2>1. Taken(ReportStatus(s), msgs, msgs')
    BY <1>19, <1>type, SessionTail DEF LocEngReportStatus, Takes, Handled
  <2> QED
    BY ONLY <1>19, <1>inv, <2>1, MsgsDiffer, <1>type
       DEF LocEngReportStatus, Taken, loc_eng_report_status, muteAfter, Statuses, SessionInv
<1>20. ASSUME NEW s \in Positions, NEW p \in BOOLEAN, LocEngReportPosition(s, p) PROVE SessionInv'
  <2>1. Taken(ReportPosition(s, p), msgs, msgs')
    BY <1>20, <1>type, SessionTail DEF LocEngReportPosition, Takes, Handled
  <2> QED
    BY ONLY <1>20, <1>inv, <2>1, MsgsDiffer, <1>type
       DEF LocEngReportPosition, Taken, SessionInv
<1>21. CASE UNCHANGED vars
  BY <1>21, <1>type, <1>inv, Zenon
     DEF vars, SessionInv, bounds
<1> QED
  BY <1>1, <1>2, <1>3, <1>4, <1>5, <1>6, <1>7, <1>8, <1>9, <1>10, <1>11, <1>12, <1>13, <1>14,
     <1>15, <1>16, <1>17, <1>18, <1>19, <1>20, <1>21
     DEF Next, Framework, Modem, MsgTaskStep, Positions

\* What SessionInv says of an empty queue.
LEMMA EmptyQueue ==
  /\ \A A : ~InQueue(A, <<>>)
  /\ \A A, B : Followed(A, B, <<>>)
  /\ \A a, b : ~EndsWith(a, b, <<>>)
BY DEF InQueue, Followed, EndsWith

LEMMA SessionInvariant == Spec => []SessionInv
<1>1. Init => SessionInv
  <2> SUFFICES ASSUME Init PROVE SessionInv
    OBVIOUS
  <2>1. msgs \in Seq(Msgs) /\ calls \in 0..MaxCalls /\ crashes \in 0..MaxCrashes
        /\ reports \in 0..MaxReports
    BY SessionAssumption DEF Init
  <2>2. UpAfterSsr(msgs) /\ OffAfterOn(msgs)
    BY EmptyQueue, Zenon DEF Init, UpAfterSsr, OffAfterOn
  <2>3. TypeOK
    BY <2>1 DEF Init, TypeOK
  <2> QED
    BY <2>2, <2>3 DEF Init, SessionInv, RefusedIsOff, UpFollows, StartIsLast, WorkIsKnown, OffIsLast
<1> QED
  BY <1>1, NextSessionInv, PTL DEF Spec

-----------------------------------------------------------------------------
(***************************************************************************)
(* The session's variables keep their types over every order of calls,     *)
(* reports, crashes and restarts.                                          *)
(***************************************************************************)
THEOREM SessionTypes == Spec => []TypeOK
<1>1. SessionInv => TypeOK
  BY DEF SessionInv
<1> QED
  BY <1>1, SessionInvariant, PTL

(***************************************************************************)
(* However many starts, stops, crashes and restarts of the modem interleave *)
(* in the queue, a periodic session that the framework wants is in session *)
(* when the queue is empty, and an open modem works on it.                 *)
(***************************************************************************)
THEOREM WantedSurvives == Spec => []WantedIsInSession
<1>1. SessionInv => WantedIsInSession
  BY EmptyQueue DEF SessionInv, RefusedIsOff, TypeOK, UpFollows, StartIsLast, WantedIsInSession,
     Quiet, Queued, StartNotStopped
<1> QED
  BY <1>1, SessionInvariant, PTL

(***************************************************************************)
(* A modem that is at work on a periodic fix with nothing queued has a     *)
(* session that a stop would end.                                          *)
(***************************************************************************)
THEOREM NoOrphan == Spec => []NoOrphanFix
<1>1. SessionInv => NoOrphanFix
  BY EmptyQueue DEF SessionInv, WorkIsKnown, NoOrphanFix, Quiet, Queued
<1> QED
  BY <1>1, SessionInvariant, PTL

(***************************************************************************)
(* With nothing queued, what the engine has muted or told the framework of *)
(* an engine that is on is not stale.                                      *)
(***************************************************************************)
THEOREM EndIsSeen == Spec => []EngineEndIsSeen
<1>1. SessionInv => EngineEndIsSeen
  BY EmptyQueue DEF SessionInv, OffIsLast, EngineEndIsSeen, Quiet, OffQueued
<1> QED
  BY <1>1, SessionInvariant, PTL

-----------------------------------------------------------------------------
(* The mode of the session and the ULP proxy.                              *)

UlpCall == [op : {"call"}, call : Ulp!Calls, ulp : Ulp!Proxies]

UlpTypes == /\ mUlp \in Ulp!Proxies /\ given \in Ulp!Proxies
            /\ mPosMode \in [Ulp!Proxies -> Ulp!Criteria]
            /\ mFixSet \in [Ulp!Proxies -> BOOLEAN]
            /\ mFixCriteria \in Ulp!Criteria
            /\ ulpMsgs \in Seq(Ulp!Msgs)
            /\ asking \in UlpCall \cup {Ulp!Idle}
            /\ want \in [mode : Modes \cup {"INVALID"}, single : BOOLEAN, fix : BOOLEAN]
            /\ raced \in BOOLEAN /\ isOpen \in BOOLEAN /\ restarted \in BOOLEAN

\* Proxies come in the order of their numbers, none before lo or after hi.
InOrder(s, lo, hi) ==
  /\ \A i \in 1..Len(s) : s[i].op = "SetUlp" => lo <= s[i].ulp /\ s[i].ulp <= hi
  /\ \A i, j \in 1..Len(s) :
       i < j /\ s[i].op = "SetUlp" /\ s[j].op = "SetUlp" => s[i].ulp <= s[j].ulp

\* A call is made of a proxy that is or was in use.
ProxiesInOrder == /\ mUlp <= given /\ InOrder(ulpMsgs, mUlp, given)
                  /\ asking # Ulp!Idle => asking.ulp <= mUlp

\* The framework's call, if there is one, is of the proxy in use.
Unraced == ~raced /\ (asking # Ulp!Idle => asking.ulp = mUlp)

Asking(o) == asking # Ulp!Idle /\ asking.call.op = o
Wanted == [mode |-> want.mode, single |-> want.single]
WantedMsg == Ulp!Mode(want.mode, want.single)

\* The proxy in use knows what is wanted, up to the call that is under way.
ProxyKnows ==
  /\ mFixSet[mUlp] = want.fix \/ Asking("Start") \/ Asking("Stop")
  /\ want.mode # "INVALID" => mPosMode[mUlp] = Wanted \/ Asking("Mode")

AskingIsWanted ==
  /\ Asking("Mode") => asking.call = WantedMsg
  /\ Asking("Start") => want.fix
  /\ Asking("Stop") => ~want.fix /\ want.mode = "INVALID"

\* The last message that sets the mode or stops sets the wanted mode.
WillSet(s, m) ==
  \E j \in 1..Len(s) : /\ s[j] = m
                       /\ \A k \in (j + 1)..Len(s) : s[k].op \notin {"Mode", "Stop"}
NoneSet(s) == \A k \in 1..Len(s) : s[k].op \notin {"Mode", "Stop"}

\* The modem works in the wanted mode of a periodic session.
Settled == ~want.single /\ ~restarted => mFixCriteria = Wanted /\ running \in {want.mode, "none"}

ModeArrives == want.mode # "INVALID" => \/ Asking("Mode")
                                        \/ WillSet(ulpMsgs, WantedMsg)
                                        \/ NoneSet(ulpMsgs) /\ Settled

UlpInv == /\ UlpTypes /\ ProxiesInOrder
          /\ ~isOpen => running = "none"
          /\ want.fix => want.mode # "INVALID"
          /\ Unraced => ProxyKnows /\ AskingIsWanted /\ ModeArrives

LEMMA UlpMessages ==
  /\ \A m \in Ulp!Msgs : /\ m.op = "SetUlp" => m.ulp \in Ulp!Proxies
                         /\ m.op = "Mode" => /\ m.mode \in Modes /\ m.single \in BOOLEAN
                                             /\ m = Ulp!Mode(m.mode, m.single)
  /\ \A m \in Modes, b \in BOOLEAN : Ulp!Mode(m, b) \in Ulp!Calls /\ Ulp!Mode(m, b).op = "Mode"
  /\ \A p \in Ulp!Proxies : Ulp!SetUlp(p) \in Ulp!Msgs
  /\ \A p : Ulp!SetUlp(p).op = "SetUlp" /\ Ulp!SetUlp(p).ulp = p
  /\ \A o : Ulp!Msg(o).op = o
  /\ Ulp!Calls \subseteq Ulp!Msgs
  /\ {Ulp!Msg("Start"), Ulp!Msg("Stop")} \subseteq Ulp!Calls
  /\ {Ulp!Msg("Ssr"), Ulp!Msg("Up"), Ulp!Msg("Position")} \subseteq Ulp!Msgs
  /\ \A c \in Ulp!Calls : c.op \in {"Mode", "Start", "Stop"}
<1>1. \A m \in Modes, b \in BOOLEAN : Ulp!Mode(m, b) \in Ulp!Calls /\ Ulp!Mode(m, b).op = "Mode"
  BY DEF Ulp!Calls, Ulp!Mode
<1>2. /\ \A p : Ulp!SetUlp(p).op = "SetUlp" /\ Ulp!SetUlp(p).ulp = p
      /\ \A o : Ulp!Msg(o).op = o
  BY DEF Ulp!SetUlp, Ulp!Msg
<1>3. /\ \A p \in Ulp!Proxies : Ulp!SetUlp(p) \in Ulp!Msgs
      /\ Ulp!Calls \subseteq Ulp!Msgs
      /\ {Ulp!Msg("Start"), Ulp!Msg("Stop")} \subseteq Ulp!Calls
      /\ {Ulp!Msg("Ssr"), Ulp!Msg("Up"), Ulp!Msg("Position")} \subseteq Ulp!Msgs
  BY DEF Ulp!Msgs, Ulp!Calls
<1>4. ASSUME NEW c \in Ulp!Calls
      PROVE  /\ c.op \in {"Mode", "Start", "Stop"}
             /\ c.op = "Mode" => /\ c.mode \in Modes /\ c.single \in BOOLEAN
                                 /\ c = Ulp!Mode(c.mode, c.single)
  <2>1. ASSUME NEW m \in Modes, NEW b \in BOOLEAN, c = Ulp!Mode(m, b)
        PROVE  c.op = "Mode" /\ c.mode = m /\ c.single = b
    BY <2>1 DEF Ulp!Mode
  <2>2. \/ \E m \in Modes, b \in BOOLEAN : c = Ulp!Mode(m, b)
        \/ c = Ulp!Msg("Start") \/ c = Ulp!Msg("Stop")
    BY DEF Ulp!Calls
  <2> QED
    BY <1>2, <2>1, <2>2
<1>5. ASSUME NEW m \in Ulp!Msgs
      PROVE  /\ m.op = "SetUlp" => m.ulp \in Ulp!Proxies
             /\ m.op = "Mode" => m \in Ulp!Calls
  <2>1. CASE m \in Ulp!Calls
    BY <1>4, <2>1
  <2>2. CASE m \notin Ulp!Calls
    BY <1>2, <2>2 DEF Ulp!Msgs
  <2> QED
    BY <2>1, <2>2
<1> QED
  BY <1>1, <1>2, <1>3, <1>4, <1>5

LEMMA UlpAppend ==
  ASSUME NEW s \in Seq(Ulp!Msgs), NEW x \in Ulp!Msgs, NEW t, t = Append(s, x)
  PROVE  /\ t \in Seq(Ulp!Msgs) /\ Len(t) = Len(s) + 1 /\ Len(s) \in Nat
         /\ \A k \in 1..(Len(s) + 1) : t[k] = IF k = Len(s) + 1 THEN x ELSE s[k]
OBVIOUS

LEMMA UlpTail ==
  ASSUME NEW s \in Seq(Ulp!Msgs), s # <<>>, NEW t, t = Tail(s)
  PROVE  /\ t \in Seq(Ulp!Msgs) /\ Len(s) = Len(t) + 1 /\ Len(t) \in Nat
         /\ \A k \in 1..Len(t) : t[k] = s[k + 1]
         /\ Head(s) = s[1] /\ Head(s) \in Ulp!Msgs
OBVIOUS

LEMMA SetOnAppend ==
  ASSUME NEW s \in Seq(Ulp!Msgs), NEW x \in Ulp!Msgs, NEW m, NEW t, t = Append(s, x)
  PROVE  /\ WillSet(s, m) /\ x.op \notin {"Mode", "Stop"} => WillSet(t, m)
         /\ NoneSet(s) /\ x.op \notin {"Mode", "Stop"} => NoneSet(t)
         /\ x = m => WillSet(t, m)
<1>1. /\ t \in Seq(Ulp!Msgs) /\ Len(t) = Len(s) + 1 /\ Len(s) \in Nat
      /\ \A k \in 1..(Len(s) + 1) : t[k] = IF k = Len(s) + 1 THEN x ELSE s[k]
  BY UlpAppend
<1>2. ASSUME WillSet(s, m), x.op \notin {"Mode", "Stop"} PROVE WillSet(t, m)
  <2>1. PICK j \in 1..Len(s) : /\ s[j] = m
                               /\ \A k \in (j + 1)..Len(s) : s[k].op \notin {"Mode", "Stop"}
    BY <1>2 DEF WillSet
  <2>2. j \in 1..Len(t) /\ t[j] = m
    BY ONLY <1>1, <2>1
  <2>3. ASSUME NEW k \in (j + 1)..Len(t) PROVE t[k].op \notin {"Mode", "Stop"}
    <3>1. k \in 1..(Len(s) + 1) /\ (k # Len(s) + 1 => k \in (j + 1)..Len(s))
      BY ONLY <1>1, k \in (j + 1)..Len(t), j \in 1..Len(s)
    <3> QED
      BY <1>1, <1>2, <2>1, <3>1
  <2> QED
    BY <2>2, <2>3 DEF WillSet
<1>3. ASSUME NoneSet(s), x.op \notin {"Mode", "Stop"} PROVE NoneSet(t)
  BY <1>1, <1>3 DEF NoneSet
<1>4. ASSUME x = m PROVE WillSet(t, m)
  <2>1. /\ Len(t) \in 1..Len(t) /\ t[Len(t)] = m
        /\ (Len(t) + 1)..Len(t) = {}
    BY <1>1, <1>4
  <2> QED
    BY <2>1 DEF WillSet
<1> QED
  BY <1>2, <1>3, <1>4

LEMMA SetOnTail ==
  ASSUME NEW s \in Seq(Ulp!Msgs), s # <<>>, NEW m, NEW t, t = Tail(s)
  PROVE  /\ WillSet(s, m) => WillSet(t, m) \/ (Head(s) = m /\ NoneSet(t))
         /\ NoneSet(s) => NoneSet(t) /\ Head(s).op \notin {"Mode", "Stop"}
<1>1. /\ t \in Seq(Ulp!Msgs) /\ Len(s) = Len(t) + 1 /\ Len(t) \in Nat
      /\ \A k \in 1..Len(t) : t[k] = s[k + 1]
      /\ Head(s) = s[1] /\ Head(s) \in Ulp!Msgs
  BY UlpTail
<1>2. ASSUME WillSet(s, m) PROVE WillSet(t, m) \/ (Head(s) = m /\ NoneSet(t))
  <2>1. PICK j \in 1..Len(s) : /\ s[j] = m
                               /\ \A k \in (j + 1)..Len(s) : s[k].op \notin {"Mode", "Stop"}
    BY <1>2 DEF WillSet
  <2>2. CASE j = 1
    <3>1. ASSUME NEW k \in 1..Len(t) PROVE t[k].op \notin {"Mode", "Stop"}
      <4>1. k + 1 \in (j + 1)..Len(s) /\ t[k] = s[k + 1]
        BY <1>1, <2>2
      <4> QED
        BY <2>1, <4>1
    <3> QED
      BY <1>1, <2>1, <2>2, <3>1 DEF NoneSet
  <2>3. CASE j # 1
    <3>1. j - 1 \in 1..Len(t) /\ (j - 1) + 1 = j
      BY <1>1, <2>3
    <3>2. t[j - 1] = m
      BY <1>1, <2>1, <3>1
    <3>3. ASSUME NEW k \in ((j - 1) + 1)..Len(t) PROVE t[k].op \notin {"Mode", "Stop"}
      <4>1. k \in 1..Len(t) /\ k + 1 \in (j + 1)..Len(s)
        BY <1>1, <3>1
      <4> QED
        BY <1>1, <2>1, <4>1
    <3> QED
      BY <3>1, <3>2, <3>3 DEF WillSet
  <2> QED
    BY <2>2, <2>3
<1>3. ASSUME NoneSet(s) PROVE NoneSet(t) /\ Head(s).op \notin {"Mode", "Stop"}
  <2>1. 1 \in 1..Len(s) /\ \A k \in 1..Len(t) : k + 1 \in 1..Len(s)
    BY <1>1
  <2> QED
    BY <1>1, <1>3, <2>1 DEF NoneSet
<1> QED
  BY <1>2, <1>3

LEMMA OrderOnAppend ==
  ASSUME NEW s \in Seq(Ulp!Msgs), NEW x \in Ulp!Msgs, NEW t, t = Append(s, x),
         NEW lo \in Ulp!Proxies, NEW hi \in Ulp!Proxies, InOrder(s, lo, hi)
  PROVE  /\ x.op # "SetUlp" => InOrder(t, lo, hi)
         /\ \A u \in Ulp!Proxies : x = Ulp!SetUlp(u) /\ lo <= hi /\ hi <= u => InOrder(t, lo, u)
<1>1. /\ t \in Seq(Ulp!Msgs) /\ Len(t) = Len(s) + 1 /\ Len(s) \in Nat
      /\ \A k \in 1..(Len(s) + 1) : t[k] = IF k = Len(s) + 1 THEN x ELSE s[k]
  BY UlpAppend
<1>2. ASSUME x.op # "SetUlp" PROVE InOrder(t, lo, hi)
  BY <1>1, <1>2 DEF InOrder
<1>3. ASSUME NEW u \in Ulp!Proxies, x = Ulp!SetUlp(u), lo <= hi, hi <= u PROVE InOrder(t, lo, u)
  <2>1. x.op = "SetUlp" /\ x.ulp = u
    BY <1>3, UlpMessages
  <2>2. lo \in Nat /\ hi \in Nat /\ u \in Nat
    BY EngineAssumption DEF Ulp!Proxies
  <2>3. \A k \in 1..Len(s) : s[k].op = "SetUlp" => s[k].ulp \in Nat
    <3> TAKE k \in 1..Len(s)
    <3>1. s[k] \in Ulp!Msgs
      OBVIOUS
    <3> QED
      BY <3>1, UlpMessages, EngineAssumption DEF Ulp!Proxies
  <2>4. ASSUME NEW i \in 1..Len(t), t[i].op = "SetUlp" PROVE lo <= t[i].ulp /\ t[i].ulp <= u
    BY <1>1, <1>3, <2>1, <2>2, <2>3, <2>4 DEF InOrder
  <2>5. ASSUME NEW i \in 1..Len(t), NEW j \in 1..Len(t), i < j, t[i].op = "SetUlp",
               t[j].op = "SetUlp"
        PROVE  t[i].ulp <= t[j].ulp
    <3>1. i \in 1..Len(s) /\ t[i] = s[i]
      BY <1>1, <2>5
    <3>2. CASE j = Len(s) + 1
      BY <1>1, <2>1, <2>4, <2>5, <3>1, <3>2
    <3>3. CASE j # Len(s) + 1
      BY <1>1, <2>5, <3>1, <3>3 DEF InOrder
    <3> QED
      BY <3>2, <3>3
  <2> QED
    BY <2>4, <2>5 DEF InOrder
<1> QED
  BY <1>2, <1>3

LEMMA OrderOnTail ==
  ASSUME NEW s \in Seq(Ulp!Msgs), s # <<>>, NEW t, t = Tail(s),
         NEW lo, NEW hi, InOrder(s, lo, hi)
  PROVE  /\ InOrder(t, lo, hi)
         /\ Head(s).op = "SetUlp" => /\ InOrder(t, Head(s).ulp, hi)
                                     /\ lo <= Head(s).ulp /\ Head(s).ulp <= hi
<1>1. /\ t \in Seq(Ulp!Msgs) /\ Len(s) = Len(t) + 1 /\ Len(t) \in Nat
      /\ \A k \in 1..Len(t) : t[k] = s[k + 1]
      /\ Head(s) = s[1] /\ Head(s) \in Ulp!Msgs
  BY UlpTail
<1>2. 1 \in 1..Len(s) /\ \A k \in 1..Len(t) : k + 1 \in 1..Len(s) /\ 1 < k + 1
  BY <1>1
<1>3. \A i, j \in 1..Len(t) : i < j => i + 1 < j + 1
  OBVIOUS
<1> QED
  BY <1>1, <1>2, <1>3 DEF InOrder

\* Steps of the message thread and of the modem leave the proxies and the
\* framework's calls alone.
ulpFrameVars == <<mUlp, mPosMode, mFixSet, raced, asking, want, given>>

LEMMA UlpFrame ==
  ASSUME UlpInv, UNCHANGED ulpFrameVars,
         mFixCriteria' \in Ulp!Criteria, isOpen' \in BOOLEAN, restarted' \in BOOLEAN,
         ~isOpen' => running' = "none",
         ulpMsgs' \in Seq(Ulp!Msgs), InOrder(ulpMsgs', mUlp, given),
         Unraced => ModeArrives'
  PROVE  UlpInv'
<1>1. UlpTypes'
  BY DEF UlpInv, UlpTypes, ulpFrameVars
<1>2. ProxiesInOrder'
  BY DEF UlpInv, ProxiesInOrder, ulpFrameVars
<1>3. Unraced' <=> Unraced
  BY DEF Unraced, ulpFrameVars
<1>4. ProxyKnows' <=> ProxyKnows
  BY DEF ProxyKnows, Asking, Wanted, ulpFrameVars
<1>5. AskingIsWanted' <=> AskingIsWanted
  BY DEF AskingIsWanted, Asking, WantedMsg, ulpFrameVars
<1>6. (want.fix => want.mode # "INVALID")'
  BY DEF UlpInv, ulpFrameVars
<1> QED
  BY <1>1, <1>2, <1>3, <1>4, <1>5, <1>6 DEF UlpInv

\* The message thread takes the message at the head.
LEMMA UlpTaken ==
  ASSUME UlpInv, ulpMsgs # <<>>, NEW t, t = Tail(ulpMsgs)
  PROVE  /\ t \in Seq(Ulp!Msgs) /\ InOrder(t, mUlp, given)
         /\ WillSet(ulpMsgs, WantedMsg) =>
              WillSet(t, WantedMsg) \/ (Head(ulpMsgs) = WantedMsg /\ NoneSet(t))
         /\ NoneSet(ulpMsgs) => NoneSet(t) /\ Head(ulpMsgs).op \notin {"Mode", "Stop"}
         /\ Head(ulpMsgs).op # "Mode" => Head(ulpMsgs) # WantedMsg
<1>1. ulpMsgs \in Seq(Ulp!Msgs) /\ InOrder(ulpMsgs, mUlp, given)
  BY DEF UlpInv, UlpTypes, ProxiesInOrder
<1>2. t \in Seq(Ulp!Msgs)
  BY <1>1, UlpTail
<1>3. InOrder(t, mUlp, given)
  BY <1>1, OrderOnTail
<1>4. /\ WillSet(ulpMsgs, WantedMsg) =>
           WillSet(t, WantedMsg) \/ (Head(ulpMsgs) = WantedMsg /\ NoneSet(t))
      /\ NoneSet(ulpMsgs) => NoneSet(t) /\ Head(ulpMsgs).op \notin {"Mode", "Stop"}
  BY <1>1, SetOnTail
<1>5. WantedMsg.op = "Mode"
  BY DEF WantedMsg, Ulp!Mode
<1> QED
  BY <1>2, <1>3, <1>4, <1>5

\* A message that sets nothing is sent.
LEMMA UlpSent ==
  ASSUME UlpInv, NEW x \in Ulp!Msgs, x.op \notin {"Mode", "Stop", "SetUlp"},
         NEW s \in Seq(Ulp!Msgs), InOrder(s, mUlp, given), NEW t, t = Append(s, x)
  PROVE  /\ t \in Seq(Ulp!Msgs) /\ InOrder(t, mUlp, given)
         /\ WillSet(s, WantedMsg) => WillSet(t, WantedMsg)
         /\ NoneSet(s) => NoneSet(t)
<1>1. t \in Seq(Ulp!Msgs)
  BY UlpAppend
<1>2. mUlp \in Ulp!Proxies /\ given \in Ulp!Proxies
  BY DEF UlpInv, UlpTypes
<1>3. InOrder(t, mUlp, given)
  BY <1>2, OrderOnAppend
<1>4. /\ WillSet(s, WantedMsg) => WillSet(t, WantedMsg)
      /\ NoneSet(s) => NoneSet(t)
  BY SetOnAppend
<1> QED
  BY <1>1, <1>3, <1>4

LEMMA UlpPositionMode ==
  ASSUME UlpInv, NEW m \in Modes, NEW b \in BOOLEAN, Ulp!LocEngPositionMode(m, b)
  PROVE  UlpInv'
<1>1. /\ ulpMsgs # <<>> /\ Head(ulpMsgs) = Ulp!Mode(m, b) /\ ulpMsgs' = Tail(ulpMsgs)
      /\ mFixCriteria' = [mode |-> m, single |-> b]
      /\ running' = IF isOpen /\ running # "none" THEN m ELSE running
      /\ restarted' = FALSE /\ isOpen' = isOpen
      /\ UNCHANGED ulpFrameVars
  BY DEF Ulp!LocEngPositionMode, Ulp!Takes, Ulp!Handled, Ulp!proxyVars, Ulp!fwVars, ulpFrameVars
<1>2. mFixCriteria' \in Ulp!Criteria
  BY <1>1 DEF Ulp!Criteria
<1>3. ~isOpen' => running' = "none"
  BY <1>1 DEF UlpInv
<1>4. /\ ulpMsgs' \in Seq(Ulp!Msgs) /\ InOrder(ulpMsgs', mUlp, given)
      /\ WillSet(ulpMsgs, WantedMsg) =>
           WillSet(ulpMsgs', WantedMsg) \/ (Head(ulpMsgs) = WantedMsg /\ NoneSet(ulpMsgs'))
      /\ ~NoneSet(ulpMsgs)
  BY <1>1, UlpTaken, UlpMessages
<1>5. ASSUME Unraced PROVE ModeArrives'
  <2>1. WantedMsg' = WantedMsg /\ Wanted' = Wanted /\ want' = want /\ asking' = asking
    BY <1>1 DEF WantedMsg, Wanted, ulpFrameVars
  <2>2. ASSUME Head(ulpMsgs) = WantedMsg PROVE Settled'
    <3>1. m = want.mode /\ b = want.single
      BY <1>1, <2>2 DEF WantedMsg, Ulp!Mode
    <3>2. running' \in {want.mode, "none"}
      BY <1>1, <3>1 DEF UlpInv
    <3>3. mFixCriteria' = Wanted
      BY <1>1, <3>1 DEF Wanted
    <3> QED
      BY <2>1, <3>2, <3>3 DEF Settled
  <2> QED
    BY <1>4, <1>5, <2>1, <2>2 DEF ModeArrives, UlpInv, Asking
<1> QED
  BY <1>1, <1>2, <1>3, <1>4, <1>5, UlpFrame DEF UlpInv, UlpTypes

\* A message that sets nothing is handled and leaves a settled session settled.
LEMMA UlpHandled ==
  ASSUME UlpInv, ulpMsgs # <<>>, Head(ulpMsgs).op # "Mode", ulpMsgs' = Tail(ulpMsgs),
         UNCHANGED ulpFrameVars,
         mFixCriteria' \in Ulp!Criteria, isOpen' \in BOOLEAN, restarted' \in BOOLEAN,
         ~isOpen' => running' = "none",
         Head(ulpMsgs).op # "Stop" => (Settled => Settled')
  PROVE  UlpInv'
<1>1. /\ ulpMsgs' \in Seq(Ulp!Msgs) /\ InOrder(ulpMsgs', mUlp, given)
      /\ WillSet(ulpMsgs, WantedMsg) => WillSet(ulpMsgs', WantedMsg)
      /\ NoneSet(ulpMsgs) => NoneSet(ulpMsgs') /\ Head(ulpMsgs).op # "Stop"
  BY UlpTaken
<1>2. ASSUME Unraced PROVE ModeArrives'
  <2>1. WantedMsg' = WantedMsg /\ want' = want /\ asking' = asking
    BY DEF WantedMsg, ulpFrameVars
  <2> QED
    BY <1>1, <1>2, <2>1 DEF ModeArrives, UlpInv, Asking
<1> QED
  BY <1>1, <1>2, UlpFrame

LEMMA UlpStartStop ==
  ASSUME UlpInv, Ulp!LocEngStartFix \/ Ulp!LocEngStopFix
  PROVE  UlpInv'
<1>1. CASE Ulp!LocEngStartFix
  <2>1. /\ ulpMsgs # <<>> /\ Head(ulpMsgs) = Ulp!Msg("Start") /\ ulpMsgs' = Tail(ulpMsgs)
        /\ \/ UNCHANGED <<mFixCriteria, running>>
           \/ /\ mFixCriteria' = mFixCriteria
              /\ running' = IF isOpen THEN mFixCriteria.mode ELSE "none"
        /\ UNCHANGED <<ulpFrameVars, restarted, isOpen>>
    BY <1>1 DEF Ulp!LocEngStartFix, Ulp!setInSession, Ulp!CriteriaAfter, Ulp!Takes, Ulp!Handled,
                Ulp!proxyVars, Ulp!fwVars, ulpFrameVars
  <2>2. Settled => Settled'
    BY <2>1 DEF Settled, Wanted, ulpFrameVars
  <2>3. Head(ulpMsgs).op = "Start"
    BY <2>1, UlpMessages
  <2> QED
    BY <2>1, <2>2, <2>3, UlpHandled DEF UlpInv, UlpTypes
<1>2. CASE Ulp!LocEngStopFix
  <2>1. /\ ulpMsgs # <<>> /\ Head(ulpMsgs) = Ulp!Msg("Stop") /\ ulpMsgs' = Tail(ulpMsgs)
        /\ \/ UNCHANGED <<mFixCriteria, running>>
           \/ mFixCriteria' = [mFixCriteria EXCEPT !.mode = "INVALID"] /\ running' = "none"
        /\ UNCHANGED <<ulpFrameVars, restarted, isOpen>>
    BY <1>2 DEF Ulp!LocEngStopFix, Ulp!setInSession, Ulp!CriteriaAfter, Ulp!Takes, Ulp!Handled,
                Ulp!proxyVars, Ulp!fwVars, ulpFrameVars
  <2>2. mFixCriteria' \in Ulp!Criteria
    BY <2>1 DEF UlpInv, UlpTypes, Ulp!Criteria
  <2>3. Head(ulpMsgs).op = "Stop"
    BY <2>1, UlpMessages
  <2> QED
    BY <2>1, <2>2, <2>3, UlpHandled DEF UlpInv, UlpTypes
<1> QED
  BY <1>1, <1>2

LEMMA UlpPosition ==
  ASSUME UlpInv, Ulp!LocEngReportPosition
  PROVE  UlpInv'
<1>1. /\ ulpMsgs # <<>> /\ Head(ulpMsgs) = Ulp!Msg("Position") /\ ulpMsgs' = Tail(ulpMsgs)
      /\ \/ mFixCriteria' = mFixCriteria
         \/ mFixCriteria.single /\ mFixCriteria' = [mFixCriteria EXCEPT !.mode = "INVALID"]
      /\ UNCHANGED <<ulpFrameVars, restarted, isOpen, running>>
  BY DEF Ulp!LocEngReportPosition, Ulp!setInSession, Ulp!CriteriaAfter, Ulp!Takes, Ulp!Handled,
         Ulp!proxyVars, Ulp!fwVars, Ulp!modemVars, ulpFrameVars
<1>2. mFixCriteria' \in Ulp!Criteria
  BY <1>1 DEF UlpInv, UlpTypes, Ulp!Criteria
<1>3. Settled => Settled'
  <2>1. mFixCriteria = Wanted => mFixCriteria.single = want.single
    BY DEF Wanted
  <2> QED
    BY <1>1, <2>1 DEF Settled, Wanted, ulpFrameVars
<1>4. Head(ulpMsgs).op = "Position"
  BY <1>1, UlpMessages
<1> QED
  BY <1>1, <1>2, <1>3, <1>4, UlpHandled DEF UlpInv, UlpTypes

LEMMA UlpSsr ==
  ASSUME UlpInv, Ulp!LocSsrMsg
  PROVE  UlpInv'
<1>1. /\ ulpMsgs # <<>> /\ Head(ulpMsgs) = Ulp!Msg("Ssr") /\ ulpMsgs' = Tail(ulpMsgs)
      /\ isOpen' \in BOOLEAN /\ running' = "none"
      /\ UNCHANGED <<ulpFrameVars, restarted, mFixCriteria>>
  BY DEF Ulp!LocSsrMsg, Ulp!Takes, Ulp!Handled, Ulp!proxyVars, Ulp!sessionVars, Ulp!fwVars,
         ulpFrameVars
<1>2. Settled => Settled'
  BY <1>1 DEF Settled, Wanted, ulpFrameVars
<1>3. Head(ulpMsgs).op = "Ssr"
  BY <1>1, UlpMessages
<1> QED
  BY <1>1, <1>2, <1>3, UlpHandled DEF UlpInv, UlpTypes

LEMMA UlpEngineUp ==
  ASSUME UlpInv, Ulp!loc_eng_handle_engine_up
  PROVE  UlpInv'
<1>1. /\ ulpMsgs # <<>> /\ Head(ulpMsgs) = Ulp!Msg("Up") /\ Head(ulpMsgs).op = "Up"
      /\ UNCHANGED <<ulpFrameVars, isOpen, running>>
  BY UlpMessages DEF Ulp!loc_eng_handle_engine_up, Ulp!Takes, Ulp!proxyVars, Ulp!modemVars,
                     Ulp!fwVars, ulpFrameVars
<1>2. CASE ~inSession
  <2>1. ulpMsgs' = Tail(ulpMsgs) /\ UNCHANGED <<mFixCriteria, restarted>>
    BY <1>2 DEF Ulp!loc_eng_handle_engine_up, Ulp!Handled, Ulp!sessionVars
  <2>2. Settled => Settled'
    BY <1>1, <2>1 DEF Settled, Wanted, ulpFrameVars
  <2> QED
    BY <1>1, <2>1, <2>2, UlpHandled DEF UlpInv, UlpTypes
<1>3. CASE inSession
  <2>1. /\ mFixCriteria' = [mFixCriteria EXCEPT !.mode = "INVALID"]
        /\ restarted' = TRUE /\ ulpMsgs' = Append(Tail(ulpMsgs), Ulp!Msg("Start"))
    BY <1>3 DEF Ulp!loc_eng_handle_engine_up, Ulp!setInSession, Ulp!CriteriaAfter
  <2>2. mFixCriteria' \in Ulp!Criteria
    BY <2>1 DEF UlpInv, UlpTypes, Ulp!Criteria
  <2>3. Settled'
    BY <2>1 DEF Settled
  <2> DEFINE t == Tail(ulpMsgs)
  <2>4. /\ t \in Seq(Ulp!Msgs) /\ InOrder(t, mUlp, given)
        /\ WillSet(ulpMsgs, WantedMsg) => WillSet(t, WantedMsg)
        /\ NoneSet(ulpMsgs) => NoneSet(t)
    BY <1>1, UlpTaken
  <2>5. Ulp!Msg("Start") \in Ulp!Msgs /\ Ulp!Msg("Start").op = "Start"
    BY UlpMessages
  <2> HIDE DEF t
  <2>6. /\ ulpMsgs' \in Seq(Ulp!Msgs) /\ InOrder(ulpMsgs', mUlp, given)
        /\ WillSet(t, WantedMsg) => WillSet(ulpMsgs', WantedMsg)
        /\ NoneSet(t) => NoneSet(ulpMsgs')
    BY <2>1, <2>4, <2>5, UlpSent DEF t
  <2>7. ASSUME Unraced PROVE ModeArrives'
    <3>1. WantedMsg' = WantedMsg /\ want' = want /\ asking' = asking
      BY <1>1 DEF WantedMsg, ulpFrameVars
    <3> QED
      BY <2>3, <2>4, <2>6, <2>7, <3>1 DEF ModeArrives, UlpInv, Asking
  <2> QED
    BY <1>1, <2>1, <2>2, <2>6, <2>7, UlpFrame DEF UlpInv, UlpTypes
<1> QED
  BY <1>2, <1>3

\* The modem sends a message that sets nothing, or stops.
LEMMA UlpModem ==
  ASSUME UlpInv, Ulp!reportPosition \/ Ulp!Crash \/ Ulp!Recover
  PROVE  UlpInv'
<1>1. /\ UNCHANGED <<ulpFrameVars, mFixCriteria, restarted>>
      /\ isOpen' \in BOOLEAN /\ (~isOpen' => running' = "none")
      /\ running' = running \/ running' = "none"
  BY DEF Ulp!reportPosition, Ulp!Crash, Ulp!Recover, Ulp!proxyVars, Ulp!sessionVars, Ulp!fwVars,
         ulpFrameVars, UlpInv, UlpTypes
<1>2. \/ ulpMsgs' = ulpMsgs
      \/ \E o \in {"Position", "Ssr", "Up"} : ulpMsgs' = Append(ulpMsgs, Ulp!Msg(o))
  BY DEF Ulp!reportPosition, Ulp!Crash, Ulp!Recover
<1>3. ulpMsgs \in Seq(Ulp!Msgs) /\ InOrder(ulpMsgs, mUlp, given)
  BY DEF UlpInv, UlpTypes, ProxiesInOrder
<1>4. /\ ulpMsgs' \in Seq(Ulp!Msgs) /\ InOrder(ulpMsgs', mUlp, given)
      /\ WillSet(ulpMsgs, WantedMsg) => WillSet(ulpMsgs', WantedMsg)
      /\ NoneSet(ulpMsgs) => NoneSet(ulpMsgs')
  <2>1. CASE ulpMsgs' = ulpMsgs
    BY <1>3, <2>1
  <2>2. ASSUME NEW o \in {"Position", "Ssr", "Up"}, ulpMsgs' = Append(ulpMsgs, Ulp!Msg(o))
        PROVE  <1>4!:
    <3>1. Ulp!Msg(o) \in Ulp!Msgs /\ Ulp!Msg(o).op = o
      BY UlpMessages
    <3> QED
      BY <1>3, <2>2, <3>1, UlpSent
  <2> QED
    BY <1>2, <2>1, <2>2
<1>5. ASSUME Unraced PROVE ModeArrives'
  <2>1. WantedMsg' = WantedMsg /\ want' = want /\ asking' = asking
    BY <1>1 DEF WantedMsg, ulpFrameVars
  <2>2. Settled => Settled'
    BY <1>1 DEF Settled, Wanted, ulpFrameVars
  <2> QED
    BY <1>4, <1>5, <2>1, <2>2 DEF ModeArrives, UlpInv, Asking
<1> QED
  BY <1>1, <1>4, <1>5, UlpFrame DEF UlpInv, UlpTypes

LEMMA UlpHandOver ==
  ASSUME UlpInv, Ulp!HandOver
  PROVE  UlpInv'
<1>1. PICK u \in {given, given + 1} :
        /\ u \in 1..MaxProxies /\ given' = u /\ ulpMsgs' = Append(ulpMsgs, Ulp!SetUlp(u))
        /\ UNCHANGED <<mUlp, mPosMode, mFixSet, raced, asking, want, mFixCriteria, restarted,
                       isOpen, running>>
  BY DEF Ulp!HandOver, Ulp!sessionVars, Ulp!modemVars, Ulp!fwVars
<1>2. u \in Ulp!Proxies /\ mUlp <= given /\ given <= u /\ mUlp <= u
  BY <1>1, EngineAssumption DEF UlpInv, UlpTypes, ProxiesInOrder, Ulp!Proxies
<1>3. Ulp!SetUlp(u) \in Ulp!Msgs /\ Ulp!SetUlp(u).op = "SetUlp"
  BY <1>2, UlpMessages
<1>4. ulpMsgs \in Seq(Ulp!Msgs) /\ InOrder(ulpMsgs, mUlp, given)
      /\ mUlp \in Ulp!Proxies /\ given \in Ulp!Proxies
  BY DEF UlpInv, UlpTypes, ProxiesInOrder
<1>5. ulpMsgs' \in Seq(Ulp!Msgs)
  BY <1>1, <1>3, <1>4, UlpAppend
<1>6. InOrder(ulpMsgs', mUlp, u)
  BY <1>1, <1>2, <1>3, <1>4, OrderOnAppend
<1>7. /\ WillSet(ulpMsgs, WantedMsg) => WillSet(ulpMsgs', WantedMsg)
      /\ NoneSet(ulpMsgs) => NoneSet(ulpMsgs')
  BY <1>1, <1>3, <1>4, SetOnAppend
<1>8. UlpTypes'
  BY <1>1, <1>2, <1>5 DEF UlpInv, UlpTypes
<1>9. ProxiesInOrder'
  BY <1>1, <1>2, <1>6 DEF UlpInv, ProxiesInOrder
<1>10. (Unraced' <=> Unraced) /\ (ProxyKnows' <=> ProxyKnows)
       /\ (AskingIsWanted' <=> AskingIsWanted) /\ WantedMsg' = WantedMsg
       /\ (Settled <=> Settled')
  BY <1>1 DEF Unraced, ProxyKnows, AskingIsWanted, WantedMsg, Wanted, Asking, Settled
<1>11. ModeArrives => ModeArrives'
  BY <1>1, <1>7, <1>10 DEF ModeArrives, Asking
<1>12. (~isOpen => running = "none")' /\ (want.fix => want.mode # "INVALID")'
  BY <1>1 DEF UlpInv
<1> QED
  BY <1>8, <1>9, <1>10, <1>11, <1>12 DEF UlpInv

\* The framework's thread: what it asks for is what it is about to tell the proxy.
LEMMA UlpAsks ==
  ASSUME UlpInv,
         \/ Ulp!loc_start \/ Ulp!loc_stop
         \/ \E m \in Modes, b \in BOOLEAN : Ulp!loc_set_position_mode(m, b)
  PROVE  UlpInv'
<1>1. PICK c \in Ulp!Calls :
        /\ asking = Ulp!Idle /\ asking' = [op |-> "call", call |-> c, ulp |-> mUlp]
        /\ \/ c.op = "Start" /\ want.mode # "INVALID" /\ want' = [want EXCEPT !.fix = TRUE]
           \/ c.op = "Stop" /\ want' = [mode |-> "INVALID", single |-> FALSE, fix |-> FALSE]
           \/ /\ c.op = "Mode" /\ c.mode \in Modes /\ c.single \in BOOLEAN
              /\ c = Ulp!Mode(c.mode, c.single)
              /\ want' = [mode |-> c.mode, single |-> c.single, fix |-> want.fix]
        /\ UNCHANGED <<mUlp, mPosMode, mFixSet, given, raced, mFixCriteria, restarted, isOpen,
                       running, ulpMsgs>>
  <2>1. CASE Ulp!loc_start
    BY <2>1, UlpMessages DEF Ulp!loc_start, Ulp!Asks, Ulp!proxyVars, Ulp!sessionVars,
                             Ulp!modemVars
  <2>2. CASE Ulp!loc_stop
    BY <2>2, UlpMessages DEF Ulp!loc_stop, Ulp!Asks, Ulp!proxyVars, Ulp!sessionVars,
                             Ulp!modemVars
  <2>3. CASE \E m \in Modes, b \in BOOLEAN : Ulp!loc_set_position_mode(m, b)
    <3>0. PICK m \in Modes, b \in BOOLEAN : Ulp!loc_set_position_mode(m, b)
      BY <2>3
    <3>1. /\ Ulp!Mode(m, b) \in Ulp!Calls
          /\ Ulp!Mode(m, b).op = "Mode" /\ Ulp!Mode(m, b).mode = m /\ Ulp!Mode(m, b).single = b
      BY UlpMessages DEF Ulp!Mode
    <3> QED
      BY <3>0, <3>1 DEF Ulp!loc_set_position_mode, Ulp!Asks, Ulp!proxyVars, Ulp!sessionVars,
                        Ulp!modemVars
  <2> QED
    BY <2>1, <2>2, <2>3
<1>2. want' \in [mode : Modes \cup {"INVALID"}, single : BOOLEAN, fix : BOOLEAN]
  <2>1. want \in [mode : Modes \cup {"INVALID"}, single : BOOLEAN, fix : BOOLEAN]
    BY DEF UlpInv, UlpTypes
  <2>2. ASSUME c.op = "Start", want' = [want EXCEPT !.fix = TRUE] PROVE <1>2!:
    BY ONLY <2>1, <2>2
  <2>3. ASSUME want' = [mode |-> "INVALID", single |-> FALSE, fix |-> FALSE] PROVE <1>2!:
    BY ONLY <2>3
  <2>4. ASSUME want' = [mode |-> c.mode, single |-> c.single, fix |-> want.fix],
               c.mode \in Modes, c.single \in BOOLEAN
        PROVE  <1>2!:
    BY ONLY <2>1, <2>4
  <2> QED
    BY <1>1, <2>2, <2>3, <2>4
<1>3. asking' \in UlpCall /\ asking'.call = c /\ asking'.ulp = mUlp /\ asking' # Ulp!Idle
  BY <1>1 DEF UlpInv, UlpTypes, UlpCall, Ulp!Idle
<1>4. UlpTypes'
  BY <1>1, <1>2, <1>3 DEF UlpInv, UlpTypes
<1>5. ProxiesInOrder'
  BY <1>1, <1>3, EngineAssumption DEF UlpInv, UlpTypes, ProxiesInOrder, Ulp!Proxies
<1>6. (~isOpen => running = "none")' /\ (want.fix => want.mode # "INVALID")'
  BY <1>1, EngineAssumption DEF UlpInv, UlpTypes
<1>7. ASSUME Unraced' PROVE ProxyKnows' /\ AskingIsWanted' /\ ModeArrives'
  <2>1. Unraced
    BY <1>1, <1>7 DEF Unraced
  <2>2. /\ mFixSet[mUlp] = want.fix /\ (want.mode # "INVALID" => mPosMode[mUlp] = Wanted)
        /\ want.mode # "INVALID" => \/ WillSet(ulpMsgs, WantedMsg)
                                    \/ NoneSet(ulpMsgs) /\ Settled
    BY <1>1, <2>1 DEF UlpInv, ProxyKnows, ModeArrives, Asking
  <2>3. \A o : Asking(o)' <=> c.op = o
    BY <1>3 DEF Asking
  <2>4. CASE c.op = "Start"
    <3>1. /\ want.mode # "INVALID" /\ want'.mode = want.mode /\ want'.single = want.single
          /\ want'.fix
      BY <1>1, <2>4 DEF UlpInv, UlpTypes
    <3>2. WantedMsg' = WantedMsg /\ Wanted' = Wanted /\ (Settled => Settled')
      BY <1>1, <3>1 DEF WantedMsg, Wanted, Settled
    <3>3. ProxyKnows'
      BY <1>1, <2>2, <2>3, <2>4, <3>1, <3>2 DEF ProxyKnows
    <3>4. AskingIsWanted'
      BY <2>3, <2>4, <3>1 DEF AskingIsWanted
    <3>5. ModeArrives'
      BY <1>1, <2>2, <3>1, <3>2 DEF ModeArrives
    <3> QED
      BY <3>3, <3>4, <3>5
  <2>5. CASE c.op = "Stop"
    BY <1>1, <2>3, <2>5 DEF ProxyKnows, AskingIsWanted, ModeArrives
  <2>6. CASE c.op = "Mode"
    <3>1. want' = [mode |-> c.mode, single |-> c.single, fix |-> want.fix]
      BY <1>1, <2>6
    <3>2. ProxyKnows'
      BY <1>1, <2>2, <2>3, <2>6, <3>1 DEF ProxyKnows
    <3>3. AskingIsWanted'
      BY <1>1, <1>3, <2>3, <2>6, <3>1 DEF AskingIsWanted, WantedMsg
    <3> QED
      BY <2>3, <2>6, <3>2, <3>3 DEF ModeArrives
  <2> QED
    BY <1>1, <2>4, <2>5, <2>6
<1> QED
  BY <1>4, <1>5, <1>6, <1>7 DEF UlpInv

LEMMA UlpCallProxy ==
  ASSUME UlpInv, Ulp!CallProxy
  PROVE  UlpInv'
<1> DEFINE c == asking.call
           p == asking.ulp
<1>1. /\ asking # Ulp!Idle /\ asking' = Ulp!Idle
      /\ mPosMode' = IF c.op # "Mode" THEN mPosMode
                     ELSE [mPosMode EXCEPT ![p] = [mode |-> c.mode, single |-> c.single]]
      /\ mFixSet' = CASE c.op = "Start" -> [mFixSet EXCEPT ![p] = TRUE]
                      [] c.op = "Stop" -> [mFixSet EXCEPT ![p] = FALSE]
                      [] OTHER -> mFixSet
      /\ ulpMsgs' = Append(ulpMsgs, c) /\ raced' = (raced \/ p # mUlp)
      /\ UNCHANGED <<mUlp, given, mFixCriteria, restarted, isOpen, running, want>>
  BY DEF Ulp!CallProxy, Ulp!Told, Ulp!sessionVars, Ulp!modemVars
<1>2. c \in Ulp!Calls /\ p \in Ulp!Proxies /\ mUlp \in Ulp!Proxies
  BY <1>1 DEF UlpInv, UlpTypes, UlpCall
<1>3. /\ c \in Ulp!Msgs /\ c.op \in {"Mode", "Start", "Stop"}
      /\ c.op = "Mode" => /\ c.mode \in Modes /\ c.single \in BOOLEAN
                          /\ c = Ulp!Mode(c.mode, c.single)
  BY <1>2, UlpMessages
<1>4. ulpMsgs \in Seq(Ulp!Msgs) /\ InOrder(ulpMsgs, mUlp, given) /\ given \in Ulp!Proxies
  BY DEF UlpInv, UlpTypes, ProxiesInOrder
<1>5. ulpMsgs' \in Seq(Ulp!Msgs) /\ InOrder(ulpMsgs', mUlp, given)
  BY <1>1, <1>2, <1>3, <1>4, UlpAppend, OrderOnAppend
<1>6. /\ WillSet(ulpMsgs, WantedMsg) /\ c.op \notin {"Mode", "Stop"} =>
           WillSet(ulpMsgs', WantedMsg)
      /\ NoneSet(ulpMsgs) /\ c.op \notin {"Mode", "Stop"} => NoneSet(ulpMsgs')
      /\ c = WantedMsg => WillSet(ulpMsgs', WantedMsg)
  BY <1>1, <1>3, <1>4, SetOnAppend
<1>7. mPosMode' \in [Ulp!Proxies -> Ulp!Criteria] /\ mFixSet' \in [Ulp!Proxies -> BOOLEAN]
  BY <1>1, <1>2, <1>3 DEF UlpInv, UlpTypes, Ulp!Criteria
<1>8. UlpTypes'
  BY <1>1, <1>5, <1>7 DEF UlpInv, UlpTypes
<1>9. ProxiesInOrder'
  BY <1>1, <1>5 DEF UlpInv, ProxiesInOrder
<1>10. (~isOpen => running = "none")' /\ (want.fix => want.mode # "INVALID")'
  BY <1>1 DEF UlpInv
<1>11. ASSUME Unraced' PROVE ProxyKnows' /\ AskingIsWanted' /\ ModeArrives'
  <2>1. Unraced /\ p = mUlp
    BY <1>1, <1>11 DEF Unraced
  <2>2. /\ ProxyKnows /\ AskingIsWanted /\ ModeArrives
        /\ Wanted' = Wanted /\ WantedMsg' = WantedMsg /\ (Settled => Settled')
    BY <1>1, <2>1 DEF UlpInv, Wanted, WantedMsg, Settled
  <2>3. \A o : (Asking(o) <=> c.op = o) /\ ~Asking(o)'
    BY <1>1 DEF Asking
  <2>4. ProxyKnows'
    <3>1. CASE c.op = "Mode"
      <4>1. c = WantedMsg
        BY <2>2, <2>3, <3>1 DEF AskingIsWanted
      <4>2. c.mode = want.mode /\ c.single = want.single
        BY <4>1 DEF WantedMsg, Ulp!Mode
      <4>3. mPosMode'[mUlp] = Wanted
        BY <1>1, <1>2, <2>1, <3>1, <4>2 DEF UlpInv, UlpTypes, Wanted
      <4>4. mFixSet'[mUlp] = want.fix
        BY <1>1, <2>2, <2>3, <3>1 DEF ProxyKnows
      <4> QED
        BY <1>1, <2>2, <4>3, <4>4 DEF ProxyKnows
    <3>2. CASE c.op = "Start"
      <4>1. mFixSet'[mUlp] = TRUE /\ want.fix
        BY <1>1, <1>2, <2>1, <2>2, <2>3, <3>2 DEF UlpInv, UlpTypes, AskingIsWanted
      <4>2. want.mode # "INVALID" => mPosMode'[mUlp] = Wanted
        BY <1>1, <2>2, <2>3, <3>2 DEF ProxyKnows
      <4>3. want.fix = TRUE
        BY <4>1 DEF UlpInv, UlpTypes
      <4> QED
        BY <1>1, <2>2, <4>1, <4>2, <4>3 DEF ProxyKnows
    <3>3. CASE c.op = "Stop"
      <4>1. mFixSet'[mUlp] = FALSE /\ ~want.fix /\ want.mode = "INVALID"
        BY <1>1, <1>2, <2>1, <2>2, <2>3, <3>3 DEF UlpInv, UlpTypes, AskingIsWanted
      <4>2. want.fix = FALSE
        BY <4>1 DEF UlpInv, UlpTypes
      <4> QED
        BY <1>1, <4>1, <4>2 DEF ProxyKnows
    <3> QED
      BY <1>3, <3>1, <3>2, <3>3
  <2>5. AskingIsWanted'
    BY <2>3 DEF AskingIsWanted
  <2>6. ModeArrives'
    BY <1>1, <1>3, <1>6, <2>2, <2>3 DEF ModeArrives, AskingIsWanted
  <2> QED
    BY <2>4, <2>5, <2>6
<1> QED
  BY <1>8, <1>9, <1>10, <1>11 DEF UlpInv

\* What a new proxy sends when it is told the old one's state, one message at a time.
AfterMode(s, pos) == IF pos.mode = "INVALID" THEN s ELSE Append(s, Ulp!Mode(pos.mode, pos.single))
AfterStart(s, fix) == IF fix THEN Append(s, Ulp!Msg("Start")) ELSE s

LEMMA UlpHandedOn ==
  ASSUME NEW s \in Seq(Ulp!Msgs), NEW pos \in Ulp!Criteria, NEW fix \in BOOLEAN,
         NEW news, news = Ulp!HandedOn(pos, fix)
  PROVE  /\ s \o news = AfterStart(AfterMode(s, pos), fix)
         /\ (Ulp!Msg("Start") \in {news[i] : i \in DOMAIN news}) = fix
<1>1. /\ Ulp!Msg("Start") \in Ulp!Msgs /\ Ulp!Msg("Start").op = "Start"
      /\ pos.mode # "INVALID" => /\ Ulp!Mode(pos.mode, pos.single) \in Ulp!Msgs
                                 /\ Ulp!Mode(pos.mode, pos.single).op = "Mode"
  BY UlpMessages DEF Ulp!Criteria
<1> DEFINE m == Ulp!Mode(pos.mode, pos.single)
           f == Ulp!Msg("Start")
<1>2. news = (IF pos.mode # "INVALID" THEN <<m>> ELSE <<>>) \o (IF fix THEN <<f>> ELSE <<>>)
  BY DEF Ulp!HandedOn
<1>3. f # m
  BY DEF Ulp!Mode, Ulp!Msg
<1> HIDE DEF m, f
<1>4. CASE pos.mode = "INVALID" /\ fix
  <2>1. news = <<f>>
    BY <1>2, <1>4
  <2>2. s \o <<f>> = Append(s, f)
    BY <1>1 DEF f
  <2>3. f \in {news[i] : i \in DOMAIN news}
    BY <2>1
  <2> QED
    BY <1>4, <2>1, <2>2, <2>3 DEF AfterMode, AfterStart, m, f
<1>5. CASE pos.mode = "INVALID" /\ ~fix
  <2>1. news = <<>>
    BY <1>2, <1>5
  <2> QED
    BY <1>1, <1>5, <2>1 DEF AfterMode, AfterStart
<1>6. CASE pos.mode # "INVALID" /\ fix
  <2>1. news = <<m>> \o <<f>> /\ m \in Ulp!Msgs /\ f \in Ulp!Msgs
    BY <1>1, <1>2, <1>6 DEF m, f
  <2>2. /\ s \o news = Append(Append(s, m), f)
        /\ 2 \in DOMAIN news /\ news[2] = f
    <3>1. s \o (<<m>> \o <<f>>) = Append(Append(s, m), f)
      <4>1. <<m>> \o <<f>> = Append(<<m>>, f) /\ s \o <<m>> = Append(s, m)
        BY <2>1
      <4>2. s \o Append(<<m>>, f) = Append(s \o <<m>>, f)
        BY <2>1
      <4> QED
        BY ONLY <4>1, <4>2, Zenon
    <3>2. 2 \in DOMAIN (<<m>> \o <<f>>) /\ (<<m>> \o <<f>>)[2] = f
      BY <2>1
    <3>3. s \o news = Append(Append(s, m), f)
      BY <2>1, <3>1, Zenon
    <3>4. 2 \in DOMAIN news /\ news[2] = f
      BY <2>1, <3>2, Zenon
    <3> QED
      BY <3>3, <3>4
  <2>3. f \in {news[i] : i \in DOMAIN news}
    BY <2>2
  <2> QED
    BY <1>6, <2>2, <2>3 DEF AfterMode, AfterStart, m, f
<1>7. CASE pos.mode # "INVALID" /\ ~fix
  <2>1. news = <<m>>
    BY <1>2, <1>7
  <2>2. s \o <<m>> = Append(s, m)
    BY <1>1, <1>7 DEF m
  <2>3. f \notin {news[i] : i \in DOMAIN news}
    BY <1>3, <2>1
  <2> QED
    BY <1>7, <2>1, <2>2, <2>3 DEF AfterMode, AfterStart, m, f
<1> QED
  BY <1>4, <1>5, <1>6, <1>7

LEMMA UlpReplaced ==
  ASSUME UlpInv, NEW p \in Ulp!Proxies, Ulp!setUlpProxy(p)
  PROVE  UlpInv'
<1>1. /\ ulpMsgs # <<>> /\ Head(ulpMsgs) = Ulp!SetUlp(p)
      /\ Head(ulpMsgs).op = "SetUlp" /\ Head(ulpMsgs).ulp = p
      /\ UNCHANGED <<given, raced, mFixCriteria, restarted, isOpen, running, asking, want>>
  BY UlpMessages DEF Ulp!setUlpProxy, Ulp!Takes, Ulp!sessionVars, Ulp!modemVars, Ulp!fwVars
<1>2. CASE p = mUlp
  <2>1. ulpMsgs' = Tail(ulpMsgs) /\ UNCHANGED ulpFrameVars
    BY <1>1, <1>2 DEF Ulp!setUlpProxy, Ulp!Handled, ulpFrameVars
  <2>2. Settled => Settled'
    BY <1>1 DEF Settled, Wanted
  <2> QED
    BY <1>1, <2>1, <2>2, UlpHandled DEF UlpInv, UlpTypes
<1>3. CASE p # mUlp
  <2> DEFINE pos == mPosMode[mUlp]
             fix == mFixSet[mUlp]
             t == Tail(ulpMsgs)
             news == Ulp!HandedOn(pos, fix)
  <2>1. /\ mUlp' = p /\ mPosMode' = [mPosMode EXCEPT ![p] = pos]
        /\ mFixSet' = [mFixSet EXCEPT ![p] =
                          Ulp!Msg("Start") \in {news[i] : i \in DOMAIN news}]
        /\ ulpMsgs' = t \o news
    BY <1>3 DEF Ulp!setUlpProxy
  <2>2. pos \in Ulp!Criteria /\ fix \in BOOLEAN
    BY DEF UlpInv, UlpTypes
  <2>3. /\ t \in Seq(Ulp!Msgs) /\ InOrder(t, p, given) /\ mUlp < p /\ p <= given
        /\ given \in Ulp!Proxies
    <3>1. /\ ulpMsgs \in Seq(Ulp!Msgs) /\ InOrder(ulpMsgs, mUlp, given)
          /\ mUlp \in Ulp!Proxies /\ given \in Ulp!Proxies
      BY DEF UlpInv, UlpTypes, ProxiesInOrder
    <3>2. t \in Seq(Ulp!Msgs)
      BY <1>1, <3>1, UlpTail
    <3>3. InOrder(t, p, given) /\ mUlp <= p /\ p <= given
      BY <1>1, <3>1, OrderOnTail
    <3> QED
      BY <1>3, <3>1, <3>2, <3>3, EngineAssumption DEF Ulp!Proxies
  <2>4. /\ Ulp!Msg("Start") \in Ulp!Msgs /\ Ulp!Msg("Start").op = "Start"
        /\ pos.mode # "INVALID" => /\ Ulp!Mode(pos.mode, pos.single) \in Ulp!Msgs
                                   /\ Ulp!Mode(pos.mode, pos.single).op = "Mode"
    BY <2>2, UlpMessages DEF Ulp!Criteria
  <2> HIDE DEF pos, fix, t, news
  <2>5. ulpMsgs' = AfterStart(AfterMode(t, pos), fix) /\ mFixSet' = [mFixSet EXCEPT ![p] = fix]
    <3>1. /\ t \o news = AfterStart(AfterMode(t, pos), fix)
          /\ (Ulp!Msg("Start") \in {news[i] : i \in DOMAIN news}) = fix
      BY <2>2, <2>3, UlpHandedOn DEF news
    <3> QED
      BY <2>1, <3>1
  <2> DEFINE u == AfterMode(t, pos)
  <2> HIDE DEF u
  <2>6. /\ u \in Seq(Ulp!Msgs) /\ InOrder(u, p, given)
        /\ pos.mode # "INVALID" => WillSet(u, Ulp!Mode(pos.mode, pos.single))
    <3>1. CASE pos.mode = "INVALID"
      BY <2>3, <3>1 DEF u, AfterMode
    <3>2. CASE pos.mode # "INVALID"
      <4> DEFINE x == Ulp!Mode(pos.mode, pos.single)
      <4>1. u = Append(t, x) /\ x \in Ulp!Msgs /\ x.op = "Mode"
        BY <2>4, <3>2 DEF u, AfterMode
      <4> HIDE DEF x
      <4>2. u \in Seq(Ulp!Msgs)
        BY <2>3, <4>1, UlpAppend
      <4>3. InOrder(u, p, given)
        BY <2>3, <4>1, OrderOnAppend
      <4>4. WillSet(u, x)
        BY <2>3, <4>1, SetOnAppend
      <4> QED
        BY <4>2, <4>3, <4>4 DEF x
    <3> QED
      BY <3>1, <3>2
  <2>7. /\ ulpMsgs' \in Seq(Ulp!Msgs) /\ InOrder(ulpMsgs', p, given)
        /\ \A m : WillSet(u, m) => WillSet(ulpMsgs', m)
    <3>1. ulpMsgs' = AfterStart(u, fix)
      BY <2>5 DEF u
    <3> QED
      BY <2>3, <2>4, <2>6, <3>1, UlpAppend, OrderOnAppend, SetOnAppend DEF AfterStart
  <2>8. UlpTypes'
    BY <1>1, <2>1, <2>2, <2>5, <2>7 DEF UlpInv, UlpTypes
  <2>9. ProxiesInOrder'
    <3>1. asking # Ulp!Idle => asking.ulp \in Ulp!Proxies /\ asking.ulp <= mUlp
      BY DEF UlpInv, UlpTypes, UlpCall, ProxiesInOrder
    <3>2. asking # Ulp!Idle => asking.ulp <= p
      BY <2>3, <3>1, EngineAssumption DEF UlpInv, UlpTypes, Ulp!Proxies
    <3> QED
      BY <1>1, <2>1, <2>3, <2>7, <3>2 DEF ProxiesInOrder
  <2>10. (~isOpen => running = "none")' /\ (want.fix => want.mode # "INVALID")'
    BY <1>1 DEF UlpInv
  <2>11. ASSUME Unraced' PROVE ProxyKnows' /\ AskingIsWanted' /\ ModeArrives'
    <3>1. asking = Ulp!Idle
      <4>1. asking # Ulp!Idle => /\ asking.ulp = p /\ asking.ulp \in Ulp!Proxies
                                /\ asking.ulp <= mUlp
        BY <1>1, <2>1, <2>11 DEF Unraced, UlpInv, UlpTypes, UlpCall, ProxiesInOrder
      <4> QED
        BY <2>3, <4>1, EngineAssumption DEF UlpInv, UlpTypes, Ulp!Proxies
    <3>2. Unraced
      BY <1>1, <2>11, <3>1 DEF Unraced
    <3>3. \A o : ~Asking(o) /\ ~Asking(o)'
      BY <1>1, <3>1 DEF Asking
    <3>4. fix = want.fix /\ (want.mode # "INVALID" => pos = Wanted)
      BY <3>2, <3>3 DEF UlpInv, ProxyKnows, fix, pos
    <3>5. mFixSet'[p] = fix /\ mPosMode'[p] = pos
      BY <2>1, <2>5 DEF UlpInv, UlpTypes
    <3>6. ProxyKnows'
      BY <1>1, <2>1, <3>4, <3>5 DEF ProxyKnows, Wanted
    <3>7. AskingIsWanted'
      BY <3>3 DEF AskingIsWanted
    <3>8. want.mode # "INVALID" => WillSet(ulpMsgs', WantedMsg)
      BY <2>6, <2>7, <3>4 DEF Wanted, WantedMsg
    <3>9. ModeArrives'
      BY <1>1, <3>8 DEF ModeArrives, WantedMsg
    <3> QED
      BY <3>6, <3>7, <3>9
  <2> QED
    BY <2>8, <2>9, <2>10, <2>11 DEF UlpInv
<1> QED
  BY <1>2, <1>3

LEMMA UlpStep ==
  ASSUME UlpInv, [Ulp!Next]_(Ulp!vars)
  PROVE  UlpInv'
<1>1. CASE UNCHANGED Ulp!vars
  BY <1>1 DEF Ulp!vars, Ulp!proxyVars, Ulp!sessionVars, Ulp!modemVars, Ulp!fwVars, UlpInv, UlpTypes,
     ProxiesInOrder, Unraced, ProxyKnows, AskingIsWanted, ModeArrives, Settled, Asking, Wanted,
     WantedMsg
<1>2. CASE Ulp!Framework
  BY <1>2, UlpAsks, UlpCallProxy DEF Ulp!Framework
<1>3. CASE Ulp!MsgTaskStep
  BY <1>3, UlpReplaced, UlpStartStop, UlpPosition, UlpSsr, UlpEngineUp, UlpPositionMode
     DEF Ulp!MsgTaskStep
<1>4. CASE Ulp!HandOver \/ Ulp!reportPosition \/ Ulp!Crash \/ Ulp!Recover
  BY <1>4, UlpHandOver, UlpModem
<1> QED
  BY <1>1, <1>2, <1>3, <1>4 DEF Ulp!Next

(***************************************************************************)
(* The proxy in use knows whether a fix is wanted and in which mode, and a *)
(* modem at work on a periodic session works in the mode last set, through *)
(* every replacement of the proxy, unless the session was restarted since  *)
(* (LocEngAdapter::setUlpProxy, loc_eng_set_position_mode).                *)
(***************************************************************************)
THEOREM SessionInMode == Ulp!Spec => []SessionFollows
<1>1. Ulp!Init => UlpInv
  <2>1. ASSUME Ulp!Init PROVE UlpTypes /\ ProxiesInOrder
    <3>1. Ulp!NoMode \in Ulp!Criteria /\ 0 \in Ulp!Proxies
      BY EngineAssumption DEF Ulp!NoMode, Ulp!Criteria, Ulp!Proxies
    <3>2. /\ mUlp = 0 /\ given = 0 /\ ulpMsgs = <<>> /\ asking = Ulp!Idle
          /\ mPosMode = [p \in Ulp!Proxies |-> Ulp!NoMode]
          /\ mFixSet = [p \in Ulp!Proxies |-> FALSE] /\ mFixCriteria = Ulp!NoMode
          /\ want = [mode |-> "INVALID", single |-> FALSE, fix |-> FALSE]
          /\ raced = FALSE /\ isOpen = TRUE /\ restarted = FALSE
      BY <2>1 DEF Ulp!Init
    <3>3. ulpMsgs \in Seq(Ulp!Msgs) /\ Len(ulpMsgs) = 0
      BY <3>2
    <3> QED
      BY <3>1, <3>2, <3>3 DEF UlpTypes, ProxiesInOrder, InOrder
  <2>2. ASSUME Ulp!Init
        PROVE  /\ 0 \in Ulp!Proxies /\ mUlp = 0 /\ mFixSet = [p \in Ulp!Proxies |-> FALSE]
               /\ want.mode = "INVALID" /\ want.fix = FALSE /\ asking = Ulp!Idle
               /\ isOpen = TRUE
    BY <2>2, EngineAssumption DEF Ulp!Init, Ulp!Proxies
  <2>3. ASSUME Ulp!Init PROVE ProxyKnows /\ AskingIsWanted /\ ModeArrives
    BY <2>2, <2>3 DEF ProxyKnows, AskingIsWanted, ModeArrives, Asking
  <2> QED
    BY <2>1, <2>2, <2>3 DEF UlpInv
<1>2. UlpInv /\ [Ulp!Next]_(Ulp!vars) => UlpInv'
  BY UlpStep
<1>3. UlpInv => SessionFollows
  <2> SUFFICES ASSUME UlpInv, Ulp!Quiet, ~raced
               PROVE  /\ mFixSet[mUlp] = want.fix
                      /\ want.mode # "INVALID" => mPosMode[mUlp].mode = want.mode
                      /\ ~restarted => Ulp!InMode
    BY DEF SessionFollows, Ulp!SessionFollows
  <2>1. Unraced /\ ulpMsgs = <<>> /\ \A o : ~Asking(o)
    BY DEF Unraced, Ulp!Quiet, Asking
  <2>2. ~WillSet(ulpMsgs, WantedMsg)
    BY <2>1 DEF WillSet
  <2>3. /\ mFixSet[mUlp] = want.fix
        /\ want.mode # "INVALID" => mPosMode[mUlp] = Wanted /\ Settled
        /\ want.fix => want.mode # "INVALID"
    BY <2>1, <2>2 DEF UlpInv, ProxyKnows, ModeArrives
  <2> QED
    BY <2>3 DEF Wanted, Settled, Ulp!InMode
<1> QED
  BY <1>1, <1>2, <1>3, PTL DEF Ulp!Spec

-----------------------------------------------------------------------------
(* The settings.                                                           *)

\* The settings that loc_eng_reinit sends one after the other.
Resent == Conf \cup Servers \cup {"DATA"}

SetTypes ==
  /\ gps_conf \in [Config!ConfKeys -> Config!Vals]
  /\ agpsStatus \in Config!Vals /\ hosts \in [Servers -> Config!Vals]
  /\ {adapter, agps_status_cb, open} \subseteq BOOLEAN
  /\ q \in Seq(Config!Msgs)
  /\ fw \in [at : {"send", "restore"}, tmp : [Config!ConfKeys -> Config!Vals]] \cup {Config!Idle}
  /\ mt \in [at : {"reinit"}, todo : Seq(Resent), val : 0..(MaxVal + 1), last : {"Init", "Up"}]
            \cup {Config!Idle}
  /\ mt # Config!Idle /\ mt.val # 0 => mt.todo # <<>>
  /\ told \in [Config!Settings -> Config!Vals] /\ phase \in {"up", "down", "opening"}

Has(m, s) == \E i \in 1..Len(s) : s[i] = m

\* No message gives setting k another value than v.
OnlyValue(k, v, s) == \A i \in 1..Len(s), w \in Config!Vals : s[i] = Config!Set(k, w) => w = v

\* A message gives k the value v, no later one gives it another, and the modem
\* is open (o), or will be by then.
WillTell(k, v, s, o) ==
  \E i \in 1..Len(s) :
    /\ s[i] = Config!Set(k, v)
    /\ o \/ \E j \in 1..i : s[j] = Config!Msg("Ssr")
    /\ \A j \in (i + 1)..Len(s), w \in Config!Vals : s[j] = Config!Set(k, w) => w = v

\* A modem that is not open although it is back is about to be opened.
OpenIsQueued == phase # "down" /\ ~open => Has(Config!Msg("Ssr"), q)

\* loc_eng_reinit will begin, or has still to come to k.
ReinitComes(k) == \/ phase # "up"
                  \/ Has(Config!Msg("Up"), q)
                  \/ k \notin Servers /\ Has(Config!Msg("Init"), q)
ReinitReads(k) == mt # Config!Idle /\ \E i \in 1..Len(mt.todo) : mt.todo[i] = k

\* The framework's thread is about to send k.
UpdateSends(k) == fw # Config!Idle /\ fw.at = "send" /\ k \in Conf /\ fw.tmp[k] # gps_conf[k]

Excepted(k) == k \in untold \/ k \in overtaken
Needed(k) == adapter /\ Config!held(k) # 0 /\ (k \in Servers => agps_status_cb)

\* The modem has, or is going to have, the value of k that the HAL holds.
Arrives(k) ==
  Needed(k) /\ ~Excepted(k) =>
    \/ ReinitComes(k)
    \/ ReinitReads(k)
    \/ UpdateSends(k)
    \/ WillTell(k, Config!held(k), q, open)
    \/ told[k] = Config!held(k) /\ OnlyValue(k, Config!held(k), q)

SettingsInv == SetTypes /\ OpenIsQueued /\ \A k \in Config!Repeated : Arrives(k)

LEMMA SetMessages ==
  /\ \A k, v, l, w : Config!Set(k, v) = Config!Set(l, w) => k = l /\ v = w
  /\ \A k, v, o : o # "Set" => Config!Set(k, v) # Config!Msg(o)
  /\ \A o, p : Config!Msg(o) = Config!Msg(p) => o = p
  /\ \A k \in Config!Settings, v \in Config!Vals : Config!Set(k, v) \in Config!Msgs
  /\ \A o \in {"Init", "Up", "Ssr", "SuplMode", "GnssConfig", "SetCapabilities"} :
       Config!Msg(o) \in Config!Msgs
<1>1. \A k, v, l, w : Config!Set(k, v) = Config!Set(l, w) => k = l /\ v = w
  BY DEF Config!Set
<1>2. \A k, v, o : o # "Set" => Config!Set(k, v) # Config!Msg(o)
  <2>1. \A k, v : Config!Set(k, v).op = "Set"
    BY DEF Config!Set
  <2>2. \A o : Config!Msg(o).op = o
    BY DEF Config!Msg
  <2> QED
    BY <2>1, <2>2
<1>3. \A o, p : Config!Msg(o) = Config!Msg(p) => o = p
  BY DEF Config!Msg
<1>4. /\ \A k \in Config!Settings, v \in Config!Vals : Config!Set(k, v) \in Config!Msgs
      /\ \A o \in {"Init", "Up", "Ssr", "SuplMode", "GnssConfig", "SetCapabilities"} :
           Config!Msg(o) \in Config!Msgs
  BY DEF Config!Msgs
<1> QED
  BY <1>1, <1>2, <1>3, <1>4

LEMMA ConcatSeq ==
  ASSUME NEW S, NEW s \in Seq(S), NEW b \in Seq(S), NEW t, t = s \o b
  PROVE  /\ t \in Seq(S) /\ Len(s) \in Nat /\ Len(b) \in Nat /\ Len(t) = Len(s) + Len(b)
         /\ \A i \in 1..Len(s) : t[i] = s[i]
         /\ \A i \in 1..Len(b) : t[Len(s) + i] = b[i]
OBVIOUS

LEMMA HasConcat ==
  ASSUME NEW S, NEW s \in Seq(S), NEW b \in Seq(S), NEW t, t = s \o b
  PROVE  /\ t \in Seq(S)
         /\ \A m : Has(m, s) \/ Has(m, b) => Has(m, t)
<1>1. /\ t \in Seq(S) /\ Len(s) \in Nat /\ Len(b) \in Nat /\ Len(t) = Len(s) + Len(b)
      /\ \A i \in 1..Len(s) : t[i] = s[i]
      /\ \A i \in 1..Len(b) : t[Len(s) + i] = b[i]
  BY ConcatSeq
<1>2. ASSUME NEW m, Has(m, s) PROVE Has(m, t)
  BY <1>1, <1>2 DEF Has
<1>3. ASSUME NEW m, Has(m, b) PROVE Has(m, t)
  <2>1. PICK i \in 1..Len(b) : b[i] = m
    BY <1>3 DEF Has
  <2>2. Len(s) + i \in 1..Len(t) /\ t[Len(s) + i] = m
    BY <1>1, <2>1
  <2> QED
    BY <2>2 DEF Has
<1> QED
  BY <1>1, <1>2, <1>3

\* t, behind its first n messages, gives k no other value than v.
ValueBehind(k, v, n, t) ==
  \A i \in 1..Len(t), w \in Config!Vals : i > n /\ t[i] = Config!Set(k, w) => w = v

\* What is added brings no other value.
LEMMA AppendedValue ==
  ASSUME NEW s \in Seq(Config!Msgs), NEW b \in Seq(Config!Msgs), NEW t, t = s \o b,
         NEW k, NEW v, OnlyValue(k, v, b)
  PROVE  ValueBehind(k, v, Len(s), t)
<1> SUFFICES ASSUME NEW i \in 1..Len(t), NEW w \in Config!Vals,
                    i > Len(s), t[i] = Config!Set(k, w)
             PROVE  w = v
  BY DEF ValueBehind
<1>1. /\ Len(s) \in Nat /\ Len(b) \in Nat /\ Len(t) = Len(s) + Len(b)
      /\ \A j \in 1..Len(b) : t[Len(s) + j] = b[j]
  BY ConcatSeq
<1>2. i - Len(s) \in 1..Len(b) /\ Len(s) + (i - Len(s)) = i
  BY <1>1
<1>3. b[i - Len(s)] = Config!Set(k, w)
  BY <1>1, <1>2
<1> QED
  BY <1>2, <1>3 DEF OnlyValue

\* What the modem will be told, it will be told when more messages follow.
LEMMA TellKept ==
  ASSUME NEW s \in Seq(Config!Msgs), NEW b \in Seq(Config!Msgs), NEW t, t = s \o b,
         NEW k, NEW v, NEW o \in BOOLEAN, OnlyValue(k, v, b), WillTell(k, v, s, o)
  PROVE  WillTell(k, v, t, o)
<1>1. /\ Len(s) \in Nat /\ Len(b) \in Nat /\ Len(t) = Len(s) + Len(b)
      /\ \A i \in 1..Len(s) : t[i] = s[i]
  BY ConcatSeq
<1>2. PICK i \in 1..Len(s) :
        /\ s[i] = Config!Set(k, v)
        /\ o \/ \E j \in 1..i : s[j] = Config!Msg("Ssr")
        /\ \A j \in (i + 1)..Len(s), w \in Config!Vals : s[j] = Config!Set(k, w) => w = v
  BY DEF WillTell
<1>3. i \in 1..Len(t) /\ t[i] = Config!Set(k, v)
  BY <1>1, <1>2
<1>4. o \/ \E j \in 1..i : t[j] = Config!Msg("Ssr")
  BY <1>1, <1>2
<1>5. ValueBehind(k, v, Len(s), t)
  BY AppendedValue, Zenon
<1>6. ASSUME NEW j \in (i + 1)..Len(t), NEW w \in Config!Vals, t[j] = Config!Set(k, w)
      PROVE  w = v
  <2>1. CASE j > Len(s)
    <3>1. j \in 1..Len(t)
      BY <1>1
    <3> QED
      BY <1>6, <1>5, <2>1, <3>1 DEF ValueBehind
  <2>2. CASE ~(j > Len(s))
    <3>1. j \in (i + 1)..Len(s) /\ s[j] = Config!Set(k, w)
      BY <1>1, <1>6, <2>2
    <3> QED
      BY <1>2, <3>1
  <2> QED
    BY <2>1, <2>2
<1> QED
  BY <1>3, <1>4, <1>6 DEF WillTell

\* Messages are added at the end.
LEMMA TellAppended ==
  ASSUME NEW s \in Seq(Config!Msgs), NEW b \in Seq(Config!Msgs), NEW t, t = s \o b,
         NEW k, NEW v, NEW o \in BOOLEAN, OnlyValue(k, v, b)
  PROVE  /\ OnlyValue(k, v, s) => OnlyValue(k, v, t)
         /\ WillTell(k, v, s, o) => WillTell(k, v, t, o)
         /\ Has(Config!Set(k, v), b) /\ (o \/ Has(Config!Msg("Ssr"), s)) => WillTell(k, v, t, o)
<1>1. /\ t \in Seq(Config!Msgs) /\ Len(s) \in Nat /\ Len(b) \in Nat /\ Len(t) = Len(s) + Len(b)
      /\ \A i \in 1..Len(s) : t[i] = s[i]
      /\ \A i \in 1..Len(b) : t[Len(s) + i] = b[i]
  BY ConcatSeq
<1>2. ValueBehind(k, v, Len(s), t)
  BY AppendedValue, Zenon
<1>3. ASSUME OnlyValue(k, v, s) PROVE OnlyValue(k, v, t)
  <2> SUFFICES ASSUME NEW i \in 1..Len(t), NEW w \in Config!Vals, t[i] = Config!Set(k, w)
               PROVE  w = v
    BY DEF OnlyValue
  <2>1. CASE i > Len(s)
    BY <1>2, <2>1 DEF ValueBehind
  <2>2. CASE ~(i > Len(s))
    <3>1. i \in 1..Len(s) /\ s[i] = Config!Set(k, w)
      BY <1>1, <2>2
    <3> QED
      BY <1>3, <3>1 DEF OnlyValue
  <2> QED
    BY <2>1, <2>2
<1>4. ASSUME WillTell(k, v, s, o) PROVE WillTell(k, v, t, o)
  BY ONLY <1>4, TellKept, s \in Seq(Config!Msgs), b \in Seq(Config!Msgs), t = s \o b,
     OnlyValue(k, v, b), o \in BOOLEAN, Zenon
<1>5. ASSUME Has(Config!Set(k, v), b), o \/ Has(Config!Msg("Ssr"), s) PROVE WillTell(k, v, t, o)
  <2>1. PICK i \in 1..Len(b) : b[i] = Config!Set(k, v)
    BY <1>5 DEF Has
  <2>2. Len(s) + i \in 1..Len(t) /\ t[Len(s) + i] = Config!Set(k, v)
    BY <1>1, <2>1
  <2>3. o \/ \E j \in 1..(Len(s) + i) : t[j] = Config!Msg("Ssr")
    <3>1. CASE Has(Config!Msg("Ssr"), s)
      <4>1. PICK j \in 1..Len(s) : s[j] = Config!Msg("Ssr")
        BY <3>1 DEF Has
      <4>2. j \in 1..(Len(s) + i) /\ t[j] = Config!Msg("Ssr")
        BY <1>1, <4>1
      <4> QED
        BY <4>2
    <3> QED
      BY <1>5, <3>1
  <2>4. ASSUME NEW j \in ((Len(s) + i) + 1)..Len(t), NEW w \in Config!Vals,
               t[j] = Config!Set(k, w)
        PROVE  w = v
    <3>1. j \in 1..Len(t) /\ j > Len(s)
      BY <1>1
    <3> QED
      BY <1>2, <2>4, <3>1 DEF ValueBehind
  <2> QED
    BY <2>2, <2>3, <2>4 DEF WillTell
<1> QED
  BY <1>3, <1>4, <1>5

\* The oldest message is taken.
LEMMA TellTaken ==
  ASSUME NEW s \in Seq(Config!Msgs), s # <<>>, NEW t, t = Tail(s), NEW k, NEW v, NEW o \in BOOLEAN
  PROVE  /\ t \in Seq(Config!Msgs)
         /\ \A m : Has(m, s) => Head(s) = m \/ Has(m, t)
         /\ OnlyValue(k, v, s) => OnlyValue(k, v, t)
         /\ WillTell(k, v, s, o) =>
              \/ WillTell(k, v, t, o)
              \/ o /\ Head(s) = Config!Set(k, v) /\ OnlyValue(k, v, t)
              \/ Head(s) = Config!Msg("Ssr") /\ WillTell(k, v, t, TRUE)
<1>1. /\ t \in Seq(Config!Msgs) /\ Len(s) = Len(t) + 1 /\ Len(t) \in Nat
      /\ \A i \in 1..Len(t) : t[i] = s[i + 1]
      /\ Head(s) = s[1]
  OBVIOUS
<1>2. ASSUME NEW m, Has(m, s), Head(s) # m PROVE Has(m, t)
  <2>1. PICK i \in 1..Len(s) : s[i] = m
    BY <1>2 DEF Has
  <2>2. i - 1 \in 1..Len(t) /\ t[i - 1] = m
    BY <1>1, <1>2, <2>1
  <2> QED
    BY <2>2 DEF Has
<1>3. ASSUME OnlyValue(k, v, s) PROVE OnlyValue(k, v, t)
  <2>1. \A i \in 1..Len(t) : i + 1 \in 1..Len(s)
    BY <1>1
  <2> QED
    BY <1>1, <1>3, <2>1 DEF OnlyValue
<1>4. ASSUME WillTell(k, v, s, o)
      PROVE  \/ WillTell(k, v, t, o)
             \/ o /\ Head(s) = Config!Set(k, v) /\ OnlyValue(k, v, t)
             \/ Head(s) = Config!Msg("Ssr") /\ WillTell(k, v, t, TRUE)
  <2>1. PICK i \in 1..Len(s) :
          /\ s[i] = Config!Set(k, v)
          /\ o \/ \E j \in 1..i : s[j] = Config!Msg("Ssr")
          /\ \A j \in (i + 1)..Len(s), w \in Config!Vals : s[j] = Config!Set(k, w) => w = v
    BY <1>4 DEF WillTell
  <2>2. ASSUME NEW j \in 1..Len(t), j + 1 > i, NEW w \in Config!Vals, t[j] = Config!Set(k, w)
        PROVE  w = v
    <3>1. j + 1 \in (i + 1)..Len(s) /\ s[j + 1] = Config!Set(k, w)
      BY <1>1, <2>2
    <3> QED
      BY <2>1, <3>1
  <2>3. CASE i = 1
    <3>1. OnlyValue(k, v, t)
      BY <1>1, <2>2, <2>3 DEF OnlyValue
    <3>2. s[1] # Config!Msg("Ssr")
      BY <2>1, <2>3, SetMessages
    <3>3. o
      BY <2>1, <2>3, <3>2
    <3> QED
      BY <1>1, <2>1, <2>3, <3>1, <3>3
  <2>4. CASE i # 1
    <3>1. i - 1 \in 1..Len(t) /\ t[i - 1] = Config!Set(k, v)
      BY <1>1, <2>1, <2>4
    <3>2. \A j \in ((i - 1) + 1)..Len(t), w \in Config!Vals : t[j] = Config!Set(k, w) => w = v
      <4>1. \A j \in ((i - 1) + 1)..Len(t) : j \in 1..Len(t) /\ j + 1 > i
        BY <1>1, <2>4
      <4> QED
        BY <2>2, <4>1
    <3>3. WillTell(k, v, t, TRUE)
      BY <3>1, <3>2 DEF WillTell
    <3>4. CASE o
      BY <3>3, <3>4
    <3>5. CASE ~o /\ Head(s) # Config!Msg("Ssr")
      <4>1. PICK j \in 1..i : s[j] = Config!Msg("Ssr")
        BY <2>1, <3>5
      <4>2. j - 1 \in 1..(i - 1) /\ t[j - 1] = Config!Msg("Ssr")
        BY <1>1, <2>1, <3>5, <4>1
      <4> QED
        BY <3>1, <3>2, <4>2 DEF WillTell
    <3> QED
      BY <3>3, <3>4, <3>5
  <2> QED
    BY <2>3, <2>4
<1> QED
  BY <1>1, <1>2, <1>3, <1>4

LEMMA OrderedSettings ==
  ASSUME NEW K, K \subseteq Resent, NEW s, s = Config!Ordered(K)
  PROVE  s \in Seq(K) /\ \A k \in K : Has(k, s)
<1>1. ASSUME NEW k PROVE Config!Only(K, k) \in Seq(K) /\ (k \in K => Has(k, Config!Only(K, k)))
  <2>1. CASE k \in K
    <3>1. Config!Only(K, k) = <<k>> /\ <<k>> \in Seq(K) /\ Len(<<k>>) = 1 /\ <<k>>[1] = k
      BY <2>1 DEF Config!Only
    <3> QED
      BY <3>1 DEF Has
  <2>2. CASE k \notin K
    BY <2>2 DEF Config!Only
  <2> QED
    BY <2>1, <2>2
<1>2. PICK a, b, c, d, e, f : /\ a = Config!Only(K, "SUPL_VER") /\ b = Config!Only(K, "LPP_PROFILE")
                              /\ c = Config!Only(K, "A_GLONASS") /\ d = Config!Only(K, "DATA")
                              /\ e = Config!Only(K, "SUPL") /\ f = Config!Only(K, "C2K")
  OBVIOUS
<1>3. PICK t, u, v, w : t = a \o b /\ u = t \o c /\ v = u \o d /\ w = v \o e /\ s = w \o f
  BY <1>2 DEF Config!Ordered
<1>4. /\ {a, b, c, d, e, f} \subseteq Seq(K)
      /\ "SUPL_VER" \in K => Has("SUPL_VER", a)
      /\ "LPP_PROFILE" \in K => Has("LPP_PROFILE", b)
      /\ "A_GLONASS" \in K => Has("A_GLONASS", c)
      /\ "DATA" \in K => Has("DATA", d)
      /\ "SUPL" \in K => Has("SUPL", e)
      /\ "C2K" \in K => Has("C2K", f)
  BY <1>1, <1>2
<1>5. t \in Seq(K) /\ \A m : Has(m, a) \/ Has(m, b) => Has(m, t)
  <2>1. a \in Seq(K) /\ b \in Seq(K) /\ t = a \o b
    BY <1>3, <1>4
  <2> QED
    BY ONLY <2>1, HasConcat
<1>6. u \in Seq(K) /\ \A m : Has(m, t) \/ Has(m, c) => Has(m, u)
  <2>1. t \in Seq(K) /\ c \in Seq(K) /\ u = t \o c
    BY <1>3, <1>4, <1>5
  <2> QED
    BY ONLY <2>1, HasConcat
<1>7. v \in Seq(K) /\ \A m : Has(m, u) \/ Has(m, d) => Has(m, v)
  <2>1. u \in Seq(K) /\ d \in Seq(K) /\ v = u \o d
    BY <1>3, <1>4, <1>6
  <2> QED
    BY ONLY <2>1, HasConcat
<1>8. w \in Seq(K) /\ \A m : Has(m, v) \/ Has(m, e) => Has(m, w)
  <2>1. v \in Seq(K) /\ e \in Seq(K) /\ w = v \o e
    BY <1>3, <1>4, <1>7
  <2> QED
    BY ONLY <2>1, HasConcat
<1>9. s \in Seq(K) /\ \A m : Has(m, w) \/ Has(m, f) => Has(m, s)
  <2>1. w \in Seq(K) /\ f \in Seq(K) /\ s = w \o f
    BY <1>3, <1>4, <1>8
  <2> QED
    BY ONLY <2>1, HasConcat
<1>10. \A k \in K : k \in {"SUPL_VER", "LPP_PROFILE", "A_GLONASS", "DATA", "SUPL", "C2K"}
  BY EngineAssumption DEF Resent
<1> QED
  BY <1>4, <1>5, <1>6, <1>7, <1>8, <1>9, <1>10

\* Of what kind a setting is, and where the HAL holds it.
LEMMA SettingKinds ==
  ASSUME NEW k \in Config!Repeated
  PROVE  /\ k \in Config!Settings /\ k \notin {"LOCK", "MEASUREMENT_MASK"}
         /\ 0 \in Config!Vals /\ 1 \in Config!Vals
         /\ \/ /\ k \in Conf /\ k \in Resent /\ k \notin Servers /\ k # "DATA"
               /\ k \in Config!ConfKeys
               /\ Config!held(k) = gps_conf[k] /\ Config!held(k)' = gps_conf'[k]
            \/ /\ k \in Servers /\ k \in Resent /\ k \notin Conf /\ k # "DATA"
               /\ Config!held(k) = hosts[k] /\ Config!held(k)' = hosts'[k]
            \/ /\ k = "DATA" /\ k \in Resent /\ k \notin Conf /\ k \notin Servers
               /\ Config!held(k) = agpsStatus /\ Config!held(k)' = agpsStatus'
            \/ /\ k = "SENSORS_AND_XTRA" /\ k \notin Resent /\ k \notin Conf /\ k \notin Servers
               /\ Config!held(k) = 1 /\ Config!held(k)' = 1
<1>1. k \in Config!Settings /\ 0 \in Config!Vals /\ 1 \in Config!Vals
  BY EngineAssumption DEF Config!Settings, Config!Vals
<1>2. k \in Conf \/ k \in Servers \/ k = "DATA" \/ k = "SENSORS_AND_XTRA"
  BY DEF Config!Repeated, Config!Fixed
<1>3. CASE k \in Conf
  <2>1. k \in {"SUPL_VER", "LPP_PROFILE", "A_GLONASS"} /\ k \notin Servers
    BY <1>3, EngineAssumption
  <2>2. k \in Config!ConfKeys /\ k \in Resent
    BY <1>3 DEF Config!ConfKeys, Resent
  <2> QED
    BY <1>1, <1>3, <2>1, <2>2 DEF Config!held
<1>4. CASE k \in Servers
  <2>1. k \in {"SUPL", "C2K"} /\ k \notin Conf
    BY <1>4, EngineAssumption
  <2> QED
    BY <1>1, <1>4, <2>1 DEF Config!held, Resent
<1>5. CASE k = "DATA"
  <2>1. k \notin Conf /\ k \notin Servers
    BY <1>5, EngineAssumption
  <2> QED
    BY <1>1, <1>5, <2>1 DEF Config!held, Resent
<1>6. CASE k = "SENSORS_AND_XTRA"
  <2>1. k \notin Conf /\ k \notin Servers
    BY <1>6, EngineAssumption
  <2> QED
    BY <1>1, <1>6, <2>1 DEF Config!held, Resent
<1> QED
  BY <1>2, <1>3, <1>4, <1>5, <1>6

LEMMA MsgForSetting ==
  ASSUME NEW k \in Resent, NEW v
  PROVE  Config!MsgFor(k, v) = Config!Set(k, v) /\ k \in Config!Repeated
<1>1. k \in {"SUPL_VER", "LPP_PROFILE", "A_GLONASS", "DATA", "SUPL", "C2K"}
  BY EngineAssumption DEF Resent
<1>2. k \in Config!Repeated
  BY DEF Resent, Config!Repeated
<1> QED
  BY <1>1, <1>2 DEF Config!MsgFor, Config!LocEngSuplVer, Config!LocEngLppConfig,
     Config!LocEngAGlonassProtocol, Config!LocEngEnableData, Config!LocEngSetServerUrl,
     Config!LocEngSetServerIpv4

\* The messages for the settings K give them their values and no other.
LEMMA MsgsForSettings ==
  ASSUME NEW K, K \subseteq Resent, NEW vals, \A k \in K : vals[k] \in Config!Vals,
         NEW b, b = Config!MsgsFor(K, vals)
  PROVE  /\ b \in Seq(Config!Msgs)
         /\ \A k \in K : Has(Config!Set(k, vals[k]), b)
         /\ \A k, v : (k \in K => v = vals[k]) => OnlyValue(k, v, b)
<1>1. PICK s : s = Config!Ordered(K)
  OBVIOUS
<1>2. s \in Seq(K) /\ \A k \in K : Has(k, s)
  BY <1>1, OrderedSettings
<1>3. b = [i \in 1..Len(s) |-> Config!MsgFor(s[i], vals[s[i]])]
  BY <1>1, <1>2 DEF Config!MsgsFor
<1>4. \A i \in 1..Len(s) : /\ s[i] \in K /\ b[i] = Config!Set(s[i], vals[s[i]])
                           /\ b[i] \in Config!Msgs
  <2> SUFFICES ASSUME NEW i \in 1..Len(s)
               PROVE  /\ s[i] \in K /\ b[i] = Config!Set(s[i], vals[s[i]])
                      /\ b[i] \in Config!Msgs
    OBVIOUS
  <2>1. s[i] \in K /\ s[i] \in Resent
    BY <1>2
  <2>2. b[i] = Config!Set(s[i], vals[s[i]]) /\ s[i] \in Config!Settings
    BY <1>3, <2>1, MsgForSetting, SettingKinds
  <2> QED
    BY <2>1, <2>2, SetMessages
<1>5. b \in Seq(Config!Msgs) /\ Len(b) = Len(s) /\ Len(s) \in Nat
  <2>1. Len(s) \in Nat
    BY <1>2
  <2>2. b \in [1..Len(s) -> Config!Msgs]
    BY <1>3, <1>4
  <2> QED
    BY <2>1, <2>2
<1>6. ASSUME NEW k \in K PROVE Has(Config!Set(k, vals[k]), b)
  <2>1. PICK i \in 1..Len(s) : s[i] = k
    BY <1>2 DEF Has
  <2> QED
    BY <1>4, <1>5, <2>1 DEF Has
<1>7. ASSUME NEW k, NEW v, k \in K => v = vals[k] PROVE OnlyValue(k, v, b)
  <2> SUFFICES ASSUME NEW i \in 1..Len(s), NEW w \in Config!Vals, b[i] = Config!Set(k, w)
               PROVE  w = v
    BY <1>5 DEF OnlyValue
  <2>1. s[i] = k /\ vals[s[i]] = w
    BY <1>4, SetMessages
  <2> QED
    BY <1>4, <1>7, <2>1
<1> QED
  BY <1>5, <1>6, <1>7

\* Messages of other settings, and those that give k the value it has.
LEMMA OtherMessages ==
  ASSUME NEW k, NEW v
  PROVE  /\ OnlyValue(k, v, <<>>)
         /\ \A o : o # "Set" => OnlyValue(k, v, <<Config!Msg(o)>>)
         /\ \A l, w : (l = k => w = v) => OnlyValue(k, v, <<Config!Set(l, w)>>)
         /\ \A o, l, w : o # "Set" /\ l # k => OnlyValue(k, v, <<Config!Msg(o), Config!Set(l, w)>>)
<1>1. OnlyValue(k, v, <<>>)
  BY DEF OnlyValue
<1>2. ASSUME NEW o, o # "Set" PROVE OnlyValue(k, v, <<Config!Msg(o)>>)
  <2>1. \A i \in 1..Len(<<Config!Msg(o)>>) : <<Config!Msg(o)>>[i] = Config!Msg(o)
    OBVIOUS
  <2> QED
    BY <1>2, <2>1, SetMessages DEF OnlyValue
<1>3. ASSUME NEW l, NEW w, l = k => w = v PROVE OnlyValue(k, v, <<Config!Set(l, w)>>)
  <2>1. \A i \in 1..Len(<<Config!Set(l, w)>>) : <<Config!Set(l, w)>>[i] = Config!Set(l, w)
    OBVIOUS
  <2> QED
    BY <1>3, <2>1, SetMessages DEF OnlyValue
<1>4. ASSUME NEW o, NEW l, NEW w, o # "Set", l # k
      PROVE  OnlyValue(k, v, <<Config!Msg(o), Config!Set(l, w)>>)
  <2>1. \A i \in 1..Len(<<Config!Msg(o), Config!Set(l, w)>>) :
          <<Config!Msg(o), Config!Set(l, w)>>[i] \in {Config!Msg(o), Config!Set(l, w)}
    OBVIOUS
  <2> QED
    BY <1>4, <2>1, SetMessages DEF OnlyValue
<1> QED
  BY <1>1, <1>2, <1>3, <1>4

LEMMA Appended ==
  ASSUME SettingsInv, NEW b \in Seq(Config!Msgs), q' = q \o b
  PROVE  q' \in Seq(Config!Msgs) /\ \A m : Has(m, q) \/ Has(m, b) => Has(m, q')
<1>1. q \in Seq(Config!Msgs)
  BY DEF SettingsInv, SetTypes
<1> QED
  BY ONLY <1>1, b \in Seq(Config!Msgs), q' = q \o b, HasConcat

\* A step that adds messages b and leaves k as it is.
LEMMA ArrivesKept ==
  ASSUME SettingsInv, NEW k \in Config!Repeated,
         NEW b \in Seq(Config!Msgs), q' = q \o b, OnlyValue(k, Config!held(k), b),
         Config!held(k)' = Config!held(k), told' = told, open' = open, phase' = phase,
         Needed(k)' => Needed(k), Excepted(k) => Excepted(k)',
         ReinitReads(k) => ReinitReads(k)', UpdateSends(k) => UpdateSends(k)'
  PROVE  Arrives(k)'
<1> SUFFICES ASSUME Needed(k), ~Excepted(k)
             PROVE  \/ ReinitComes(k)'
                    \/ ReinitReads(k)'
                    \/ UpdateSends(k)'
                    \/ WillTell(k, Config!held(k), q', open)
                    \/ told[k] = Config!held(k) /\ OnlyValue(k, Config!held(k), q')
  BY DEF Arrives
<1>1. PICK h : h = Config!held(k)
  OBVIOUS
<1>2. /\ OnlyValue(k, Config!held(k), q) => OnlyValue(k, Config!held(k), q')
      /\ WillTell(k, Config!held(k), q, open) => WillTell(k, Config!held(k), q', open)
  <2>1. /\ q \in Seq(Config!Msgs) /\ b \in Seq(Config!Msgs) /\ q' = q \o b
        /\ OnlyValue(k, h, b) /\ open \in BOOLEAN
    BY <1>1 DEF SettingsInv, SetTypes
  <2>2. ASSUME OnlyValue(k, h, q) PROVE OnlyValue(k, h, q')
    BY ONLY <2>1, <2>2, TellAppended
  <2>3. ASSUME WillTell(k, h, q, open) PROVE WillTell(k, h, q', open)
    BY ONLY <2>1, <2>3, TellKept, Zenon
  <2> QED
    BY <1>1, <2>2, <2>3
<1>3. \A m : Has(m, q) => Has(m, q')
  BY Appended
<1>4. ReinitComes(k) => ReinitComes(k)'
  BY <1>3 DEF ReinitComes
<1>5. Arrives(k)
  BY DEF SettingsInv
<1> QED
  BY <1>2, <1>4, <1>5 DEF Arrives

\* A step that sends nothing and leaves k as it is.
LEMMA ArrivesIdle ==
  ASSUME SettingsInv, NEW k \in Config!Repeated, q' = q,
         Config!held(k)' = Config!held(k), told' = told, open' = open, phase' = phase,
         Needed(k)' => Needed(k), Excepted(k) => Excepted(k)',
         ReinitReads(k) => ReinitReads(k)', UpdateSends(k) => UpdateSends(k)'
  PROVE  Arrives(k)'
<1>1. q \o <<>> = q /\ <<>> \in Seq(Config!Msgs)
  BY DEF SettingsInv, SetTypes
<1>2. OnlyValue(k, Config!held(k), <<>>)
  BY OtherMessages
<1> QED
  BY <1>1, <1>2, ArrivesKept

\* A step that sends the value that k has now.
LEMMA ArrivesSent ==
  ASSUME SettingsInv, NEW k \in Config!Repeated,
         NEW b \in Seq(Config!Msgs), q' = q \o b, OnlyValue(k, Config!held(k)', b),
         Has(Config!Set(k, Config!held(k)'), b),
         open' = open, phase' = phase
  PROVE  Arrives(k)'
<1>1. q \in Seq(Config!Msgs) /\ open \in BOOLEAN
  BY DEF SettingsInv, SetTypes
<1>2. CASE phase # "up"
  BY <1>2 DEF Arrives, ReinitComes
<1>3. CASE phase = "up"
  <2>1. open \/ Has(Config!Msg("Ssr"), q)
    BY <1>3 DEF SettingsInv, OpenIsQueued
  <2>2. WillTell(k, Config!held(k)', q', open)
    BY <1>1, <2>1, TellAppended
  <2> QED
    BY <2>2 DEF Arrives
<1> QED
  BY <1>2, <1>3

\* The message thread takes a message other than those that begin a reinit.
LEMMA ArrivesTaken ==
  ASSUME SettingsInv, NEW k \in Config!Repeated, q # <<>>, q' = Tail(q),
         Head(q) # Config!Msg("Up"), Head(q) # Config!Msg("Init"),
         Config!held(k)' = Config!held(k), phase' = phase,
         open => open', Head(q) = Config!Msg("Ssr") => open' \/ phase # "up",
         \/ told'[k] = told[k] /\ (open => \A v : Head(q) # Config!Set(k, v))
         \/ \E v \in Config!Vals : Head(q) = Config!Set(k, v) /\ told'[k] = IF open THEN v ELSE told[k],
         Needed(k)' => Needed(k), Excepted(k)' = Excepted(k),
         ReinitReads(k) => ReinitReads(k)', UpdateSends(k) => UpdateSends(k)'
  PROVE  Arrives(k)'
<1> SUFFICES ASSUME Needed(k), ~Excepted(k)
             PROVE  \/ ReinitComes(k)'
                    \/ ReinitReads(k)'
                    \/ UpdateSends(k)'
                    \/ WillTell(k, Config!held(k), q', open')
                    \/ told'[k] = Config!held(k) /\ OnlyValue(k, Config!held(k), q')
  BY DEF Arrives
<1>1. q \in Seq(Config!Msgs) /\ open \in BOOLEAN /\ q[1] = Head(q) /\ 1 \in 1..Len(q)
  BY DEF SettingsInv, SetTypes
<1>2. /\ \A m : Has(m, q) => Head(q) = m \/ Has(m, q')
      /\ OnlyValue(k, Config!held(k), q) => OnlyValue(k, Config!held(k), q')
      /\ WillTell(k, Config!held(k), q, open) =>
           \/ WillTell(k, Config!held(k), q', open)
           \/ open /\ Head(q) = Config!Set(k, Config!held(k)) /\ OnlyValue(k, Config!held(k), q')
           \/ Head(q) = Config!Msg("Ssr") /\ WillTell(k, Config!held(k), q', TRUE)
  <2>1. q \in Seq(Config!Msgs) /\ open \in BOOLEAN /\ q # <<>> /\ q' = Tail(q)
    BY <1>1
  <2>2. PICK h : h = Config!held(k)
    OBVIOUS
  <2>3. /\ \A m : Has(m, q) => Head(q) = m \/ Has(m, Tail(q))
        /\ OnlyValue(k, h, q) => OnlyValue(k, h, Tail(q))
        /\ WillTell(k, h, q, open) =>
             \/ WillTell(k, h, Tail(q), open)
             \/ open /\ Head(q) = Config!Set(k, h) /\ OnlyValue(k, h, Tail(q))
             \/ Head(q) = Config!Msg("Ssr") /\ WillTell(k, h, Tail(q), TRUE)
    BY ONLY <2>1, TellTaken
  <2> QED
    BY ONLY <2>1, <2>2, <2>3
<1>3. ReinitComes(k) => ReinitComes(k)'
  BY <1>2 DEF ReinitComes
<1>4. CASE ReinitComes(k) \/ ReinitReads(k) \/ UpdateSends(k)
  BY <1>3, <1>4
<1>5. CASE told[k] = Config!held(k) /\ OnlyValue(k, Config!held(k), q)
  <2>1. ASSUME NEW v \in Config!Vals, Head(q) = Config!Set(k, v) PROVE v = Config!held(k)
    BY <1>1, <1>5, <2>1 DEF OnlyValue
  <2>2. told'[k] = Config!held(k)
    BY <1>5, <2>1
  <2> QED
    BY <1>2, <1>5, <2>2
<1>6. CASE WillTell(k, Config!held(k), q, open)
  <2>1. CASE WillTell(k, Config!held(k), q', open)
    <3>1. WillTell(k, Config!held(k), q', open')
      BY <1>1, <2>1 DEF WillTell
    <3> QED
      BY <3>1
  <2>2. CASE open /\ Head(q) = Config!Set(k, Config!held(k)) /\ OnlyValue(k, Config!held(k), q')
    <3>1. told'[k] = Config!held(k)
      BY <2>2, SetMessages
    <3> QED
      BY <2>2, <3>1
  <2>3. CASE Head(q) = Config!Msg("Ssr") /\ WillTell(k, Config!held(k), q', TRUE)
    <3>1. CASE phase # "up"
      BY <3>1 DEF ReinitComes
    <3>2. CASE open'
      BY <2>3, <3>2 DEF WillTell
    <3> QED
      BY <2>3, <3>1, <3>2
  <2> QED
    BY <1>2, <1>6, <2>1, <2>2, <2>3
<1>7. Arrives(k)
  BY DEF SettingsInv
<1> QED
  BY <1>4, <1>5, <1>6, <1>7 DEF Arrives

LEMMA OpenKept ==
  ASSUME SettingsInv, NEW b \in Seq(Config!Msgs), q' = q \o b, open' = open, phase' = phase
  PROVE  OpenIsQueued'
<1>1. q \in Seq(Config!Msgs)
  BY DEF SettingsInv, SetTypes
<1>2. Has(Config!Msg("Ssr"), q) => Has(Config!Msg("Ssr"), q')
  BY Appended
<1> QED
  BY <1>2 DEF SettingsInv, OpenIsQueued

\* A message that gives no setting of loc_eng_reinit a value is all that is sent.
LEMMA OtherSent ==
  ASSUME SettingsInv, NEW x \in Config!Msgs,
         \A k \in Config!Repeated : \A v : OnlyValue(k, v, <<x>>),
         q' = q \o <<x>>, mt' = mt \/ mt.todo = <<>>,
         UNCHANGED <<gps_conf, agpsStatus, hosts, adapter, agps_status_cb, fw, told, phase, open,
                     untold, overtaken>>
  PROVE  q' \in Seq(Config!Msgs) /\ OpenIsQueued' /\ \A k \in Config!Repeated : Arrives(k)'
<1>1. <<x>> \in Seq(Config!Msgs)
  OBVIOUS
<1>2. q' \in Seq(Config!Msgs) /\ OpenIsQueued'
  BY <1>1, Appended, OpenKept
<1>3. ASSUME NEW k \in Config!Repeated PROVE Arrives(k)'
  <2>1. Config!held(k)' = Config!held(k)
    BY SettingKinds
  <2>2. Needed(k)' = Needed(k) /\ Excepted(k)' = Excepted(k) /\ UpdateSends(k)' = UpdateSends(k)
    BY <2>1 DEF Needed, Excepted, UpdateSends
  <2>3. ReinitReads(k) => ReinitReads(k)'
    <3>1. CASE mt' = mt
      BY <3>1 DEF ReinitReads
    <3>2. CASE mt.todo = <<>>
      BY <3>2 DEF ReinitReads
    <3> QED
      BY <3>1, <3>2
  <2>4. OnlyValue(k, Config!held(k), <<x>>)
    OBVIOUS
  <2> QED
    BY <1>1, <2>1, <2>2, <2>3, <2>4, ArrivesKept
<1> QED
  BY <1>2, <1>3

\* The messages that do not.
LEMMA NoSetting ==
  /\ \A o \in {"Init", "Up", "Ssr", "SuplMode", "GnssConfig", "SetCapabilities"} :
       /\ Config!Msg(o) \in Config!Msgs
       /\ \A k \in Config!Repeated : \A v : OnlyValue(k, v, <<Config!Msg(o)>>)
  /\ \A w \in Config!Vals :
       /\ Config!setGpsLockMsg(w) = Config!Set("LOCK", w)
       /\ Config!setGpsLockMsg(w) \in Config!Msgs
       /\ Config!LocEngUpdateRegistrationMask(w) \in Config!Msgs
       /\ \A k \in Config!Repeated : \A v : /\ OnlyValue(k, v, <<Config!setGpsLockMsg(w)>>)
                                        /\ OnlyValue(k, v, <<Config!LocEngUpdateRegistrationMask(w)>>)
<1>1. \A o \in {"Init", "Up", "Ssr", "SuplMode", "GnssConfig", "SetCapabilities"} :
        /\ Config!Msg(o) \in Config!Msgs
        /\ \A k \in Config!Repeated : \A v : OnlyValue(k, v, <<Config!Msg(o)>>)
  BY SetMessages, OtherMessages
<1>2. \A l \in {"LOCK", "MEASUREMENT_MASK"}, w \in Config!Vals :
        /\ Config!Set(l, w) \in Config!Msgs
        /\ \A k \in Config!Repeated : \A v : OnlyValue(k, v, <<Config!Set(l, w)>>)
  BY SetMessages, OtherMessages, SettingKinds DEF Config!Settings, Config!OnceOnly
<1>3. \A w : /\ Config!setGpsLockMsg(w) = Config!Set("LOCK", w)
             /\ Config!LocEngUpdateRegistrationMask(w) = Config!Set("MEASUREMENT_MASK", w)
  BY DEF Config!setGpsLockMsg, Config!LocEngUpdateRegistrationMask
<1> QED
  BY <1>1, <1>2, <1>3

LEMMA StepInit ==
  ASSUME SettingsInv, Config!loc_init
  PROVE  SettingsInv'
<1>v. 0 \in Config!Vals
  BY EngineAssumption DEF Config!Vals
<1>u. UNCHANGED <<gps_conf, agpsStatus, fw, mt, told, phase, open, untold, overtaken>>
  BY DEF Config!loc_init, Config!modemVars, Config!ghosts
<1>t. SetTypes
  BY DEF SettingsInv
<1>1. CASE adapter
  <2>1. /\ q' = q \o <<Config!setGpsLockMsg(0)>>
        /\ UNCHANGED <<adapter, agps_status_cb, hosts>>
    BY <1>1 DEF Config!loc_init, Config!Sends, Config!halVars
  <2>2. q' \in Seq(Config!Msgs) /\ OpenIsQueued' /\ \A k \in Config!Repeated : Arrives(k)'
    BY <1>u, <1>v, <2>1, NoSetting, OtherSent
  <2>3. SetTypes'
    BY <1>t, <1>u, <2>1, <2>2 DEF SetTypes
  <2> QED
    BY <2>2, <2>3 DEF SettingsInv
<1>2. CASE ~adapter
  <2>1. /\ q' = q \o <<Config!Msg("Init"), Config!setGpsLockMsg(0)>>
        /\ adapter' = TRUE /\ agps_status_cb' = FALSE
        /\ hosts' = [t \in Servers |-> 0]
    BY <1>2 DEF Config!loc_init, Config!Sends, Config!loc_eng_init
  <2>2. PICK b : b = <<Config!Msg("Init"), Config!setGpsLockMsg(0)>>
    OBVIOUS
  <2>3. b \in Seq(Config!Msgs) /\ Has(Config!Msg("Init"), b)
    <3>1. Config!Msg("Init") \in Config!Msgs /\ Config!setGpsLockMsg(0) \in Config!Msgs
      BY <1>v, NoSetting
    <3>2. Len(b) = 2 /\ b[1] = Config!Msg("Init")
      BY <2>2
    <3> QED
      BY <2>2, <3>1, <3>2 DEF Has
  <2>4. /\ q' \in Seq(Config!Msgs) /\ Has(Config!Msg("Init"), q')
        /\ OpenIsQueued'
    BY <1>u, <2>1, <2>2, <2>3, Appended, OpenKept
  <2>5. SetTypes'
    BY <1>t, <1>u, <1>v, <2>1, <2>4 DEF SetTypes
  <2>6. ASSUME NEW k \in Config!Repeated PROVE Arrives(k)'
    <3>1. CASE k \in Servers
      <4>1. ~Needed(k)'
        BY <2>1, <3>1 DEF Needed
      <4> QED
        BY <4>1 DEF Arrives
    <3>2. CASE k \notin Servers
      BY <2>4, <3>2 DEF Arrives, ReinitComes
    <3> QED
      BY <3>1, <3>2
  <2> QED
    BY <2>4, <2>5, <2>6 DEF SettingsInv
<1> QED
  BY <1>1, <1>2

\* loc_cleanup, loc_eng_gps_measurement_init and -close.
LEMMA StepOther ==
  ASSUME SettingsInv,
         \/ Config!loc_cleanup
         \/ Config!loc_eng_gps_measurement_init \/ Config!loc_eng_gps_measurement_close
  PROVE  SettingsInv'
<1>1. PICK x \in Config!Msgs : /\ q' = q \o <<x>>
                               /\ \A k \in Config!Repeated : \A v : OnlyValue(k, v, <<x>>)
  <2>1. {0, 1, gps_conf["GPS_LOCK"]} \subseteq Config!Vals
    BY EngineAssumption DEF Config!Vals, Config!ConfKeys, SettingsInv, SetTypes
  <2>2. CASE Config!loc_cleanup
    <3>1. q' = q \o <<Config!setGpsLockMsg(gps_conf["GPS_LOCK"])>>
      BY <2>2 DEF Config!loc_cleanup, Config!Sends
    <3> QED
      BY <2>1, <3>1, NoSetting
  <2>3. CASE Config!loc_eng_gps_measurement_init
    <3>1. q' = q \o <<Config!LocEngUpdateRegistrationMask(1)>>
      BY <2>3 DEF Config!loc_eng_gps_measurement_init, Config!Sends
    <3> QED
      BY <2>1, <3>1, NoSetting
  <2>4. CASE Config!loc_eng_gps_measurement_close
    <3>1. q' = q \o <<Config!LocEngUpdateRegistrationMask(0)>>
      BY <2>4 DEF Config!loc_eng_gps_measurement_close, Config!Sends
    <3> QED
      BY <2>1, <3>1, NoSetting
  <2> QED
    BY <2>2, <2>3, <2>4
<1>2. UNCHANGED <<gps_conf, agpsStatus, hosts, adapter, agps_status_cb, fw, mt, told, phase, open,
                  untold, overtaken>>
  BY DEF Config!loc_cleanup, Config!loc_eng_gps_measurement_init,
         Config!loc_eng_gps_measurement_close, Config!confVars, Config!halVars, Config!modemVars,
         Config!ghosts
<1>3. q' \in Seq(Config!Msgs) /\ OpenIsQueued' /\ \A k \in Config!Repeated : Arrives(k)'
  BY <1>1, <1>2, OtherSent
<1>4. SetTypes'
  BY <1>2, <1>3 DEF SettingsInv, SetTypes
<1> QED
  BY <1>3, <1>4 DEF SettingsInv

\* loc_eng_set_server, called for the servers S.
LEMMA ServersSent ==
  ASSUME SettingsInv, NEW S, S \subseteq Servers, Config!loc_eng_set_server(S),
         hosts' \in [Servers -> Config!Vals],
         \A t \in Servers \ S : /\ hosts'[t] = hosts[t]
                                /\ hosts[t] = 0 \/ agps_status_cb' = agps_status_cb,
         UNCHANGED <<gps_conf, agpsStatus, adapter, fw, mt, told, phase, open>>
  PROVE  q' \in Seq(Config!Msgs) /\ OpenIsQueued' /\ \A k \in Config!Repeated : Arrives(k)'
<1>1. PICK K \in SUBSET S : /\ q' = q \o Config!MsgsFor(K, hosts')
                            /\ untold' = (untold \ K) \cup (S \ K) /\ overtaken' = overtaken \ K
  BY DEF Config!loc_eng_set_server, Config!Reachable, Config!Sends
<1>2. PICK b : b = Config!MsgsFor(K, hosts')
  OBVIOUS
<1>3. PICK h : h = hosts'
  OBVIOUS
<1>4. K \subseteq Resent /\ (\A k \in K : h[k] \in Config!Vals) /\ b = Config!MsgsFor(K, h)
  BY <1>2, <1>3 DEF Resent
<1>5. /\ b \in Seq(Config!Msgs)
      /\ \A k \in K : Has(Config!Set(k, h[k]), b)
      /\ \A k, v : (k \in K => v = h[k]) => OnlyValue(k, v, b)
  BY ONLY <1>4, MsgsForSettings
<1>6. q' = q \o b /\ q' \in Seq(Config!Msgs) /\ OpenIsQueued'
  BY <1>1, <1>2, <1>5, Appended, OpenKept
<1>7. ASSUME NEW k \in Config!Repeated PROVE Arrives(k)'
  <2>1. CASE k \in K
    <3>1. Config!held(k)' = h[k]
      BY <1>3, <2>1, SettingKinds
    <3>2. Has(Config!Set(k, Config!held(k)'), b) /\ OnlyValue(k, Config!held(k)', b)
      BY <1>5, <2>1, <3>1
    <3> QED
      BY <1>5, <1>6, <3>2, ArrivesSent
  <2>2. CASE k \in S /\ k \notin K
    <3>1. Excepted(k)'
      BY <1>1, <2>2 DEF Excepted
    <3> QED
      BY <3>1 DEF Arrives
  <2>3. CASE k \in Servers /\ k \notin S /\ hosts[k] = 0
    <3>1. Config!held(k)' = 0
      BY <2>3, SettingKinds
    <3> QED
      BY <3>1 DEF Arrives, Needed
  <2>4. CASE k \notin S /\ (k \in Servers => hosts[k] # 0)
    <3>1. Config!held(k)' = Config!held(k)
      BY <2>4, SettingKinds
    <3>2. k \in Servers => agps_status_cb' = agps_status_cb
      BY <2>4
    <3>3. Needed(k)' => Needed(k)
      BY <3>1, <3>2 DEF Needed
    <3>4. Excepted(k) => Excepted(k)'
      BY <1>1, <2>4 DEF Excepted
    <3>5. ReinitReads(k)' = ReinitReads(k) /\ UpdateSends(k)' = UpdateSends(k)
      BY DEF ReinitReads, UpdateSends
    <3>6. OnlyValue(k, Config!held(k), b)
      BY <1>5, <2>4
    <3> QED
      BY <1>5, <1>6, <3>1, <3>3, <3>4, <3>5, <3>6, ArrivesKept
  <2> QED
    BY <2>1, <2>2, <2>3, <2>4
<1> QED
  BY <1>6, <1>7

LEMMA StepServer ==
  ASSUME SettingsInv, NEW t \in Servers, NEW v \in 1..MaxVal,
         Config!loc_eng_set_server_proxy(t, v)
  PROVE  SettingsInv'
<1>t. SetTypes /\ v \in Config!Vals
  BY EngineAssumption DEF SettingsInv, Config!Vals
<1>1. /\ hosts' = [hosts EXCEPT ![t] = v]
      /\ UNCHANGED <<gps_conf, agpsStatus, adapter, agps_status_cb, fw, mt, told, phase, open>>
  BY DEF Config!loc_eng_set_server_proxy, Config!halVars, Config!modemVars
<1>2. hosts' \in [Servers -> Config!Vals] /\ \A l \in Servers \ {t} : hosts'[l] = hosts[l]
  BY <1>t, <1>1 DEF SetTypes
<1>3. q' \in Seq(Config!Msgs) /\ OpenIsQueued' /\ \A k \in Config!Repeated : Arrives(k)'
  <2>1. CASE adapter
    <3>1. Config!loc_eng_set_server({t})
      BY <2>1 DEF Config!loc_eng_set_server_proxy
    <3> QED
      BY <1>1, <1>2, <3>1, ServersSent
  <2>2. CASE ~adapter
    <3>1. q' = q
      BY <2>2 DEF Config!loc_eng_set_server_proxy
    <3>2. q' \in Seq(Config!Msgs) /\ OpenIsQueued'
      BY <1>t, <1>1, <3>1 DEF SettingsInv, SetTypes, OpenIsQueued
    <3>3. ASSUME NEW k \in Config!Repeated PROVE Arrives(k)'
      BY <1>1, <2>2 DEF Arrives, Needed
    <3> QED
      BY <3>2, <3>3
  <2> QED
    BY <2>1, <2>2
<1>4. SetTypes'
  BY <1>t, <1>1, <1>2, <1>3 DEF SetTypes
<1> QED
  BY <1>3, <1>4 DEF SettingsInv

LEMMA StepAgpsInit ==
  ASSUME SettingsInv, Config!loc_eng_agps_init
  PROVE  SettingsInv'
<1>t. SetTypes
  BY DEF SettingsInv
<1>1. /\ agps_status_cb' = TRUE
      /\ UNCHANGED <<gps_conf, agpsStatus, hosts, adapter, fw, mt, told, phase, open>>
      /\ Config!loc_eng_set_server({l \in Servers : hosts[l] # 0})
  BY DEF Config!loc_eng_agps_init, Config!modemVars
<1>2. PICK S : S = {l \in Servers : hosts[l] # 0}
  OBVIOUS
<1>3. /\ S \subseteq Servers /\ Config!loc_eng_set_server(S) /\ hosts' \in [Servers -> Config!Vals]
      /\ \A l \in Servers \ S : hosts'[l] = hosts[l] /\ hosts[l] = 0
  BY <1>t, <1>1, <1>2 DEF SetTypes
<1>4. q' \in Seq(Config!Msgs) /\ OpenIsQueued' /\ \A k \in Config!Repeated : Arrives(k)'
  BY <1>1, <1>3, ServersSent
<1>5. SetTypes'
  BY <1>t, <1>1, <1>4 DEF SetTypes
<1> QED
  BY <1>4, <1>5 DEF SettingsInv

LEMMA StepNetwork ==
  ASSUME SettingsInv, NEW v \in {0, 1}, NEW apn \in BOOLEAN,
         Config!loc_eng_agps_ril_update_network_availability(v, apn)
  PROVE  SettingsInv'
<1>t. SetTypes /\ v \in Config!Vals
  BY EngineAssumption DEF SettingsInv, Config!Vals
<1>1. /\ agpsStatus' = v
      /\ UNCHANGED <<gps_conf, hosts, adapter, agps_status_cb, fw, mt, told, phase, open>>
  BY DEF Config!loc_eng_agps_ril_update_network_availability, Config!halVars, Config!modemVars
<1>2. PICK b \in Seq(Config!Msgs) :
        /\ q' = q \o b
        /\ \/ /\ b = <<Config!Set("DATA", v)>>
              /\ untold' = untold \ {"DATA"} /\ overtaken' = overtaken \ {"DATA"}
           \/ b = <<>> /\ untold' = untold \cup {"DATA"} /\ overtaken' = overtaken
  <2>1. CASE adapter /\ apn
    <3>1. /\ q' = q \o <<Config!Set("DATA", v)>>
          /\ untold' = untold \ {"DATA"} /\ overtaken' = overtaken \ {"DATA"}
      BY <2>1 DEF Config!loc_eng_agps_ril_update_network_availability, Config!Sends,
                  Config!SentNow, Config!LocEngEnableData
    <3>2. Config!Set("DATA", v) \in Config!Msgs
      BY <1>t, SetMessages DEF Config!Settings, Config!Repeated
    <3>3. <<Config!Set("DATA", v)>> \in Seq(Config!Msgs)
      BY <3>2
    <3> QED
      BY <3>1, <3>3
  <2>2. CASE ~(adapter /\ apn)
    <3>1. /\ q' = q /\ untold' = untold \cup {"DATA"} /\ overtaken' = overtaken
      BY <2>2 DEF Config!loc_eng_agps_ril_update_network_availability
    <3>2. q \o <<>> = q /\ <<>> \in Seq(Config!Msgs)
      BY <1>t DEF SetTypes
    <3> QED
      BY <3>1, <3>2
  <2> QED
    BY <2>1, <2>2
<1>3. q' \in Seq(Config!Msgs) /\ OpenIsQueued'
  BY <1>1, <1>2, Appended, OpenKept
<1>4. ASSUME NEW k \in Config!Repeated PROVE Arrives(k)'
  <2>1. CASE k # "DATA"
    <3>1. Config!held(k)' = Config!held(k)
      BY <1>1, <2>1, SettingKinds
    <3>2. /\ Needed(k)' = Needed(k) /\ Excepted(k)' = Excepted(k)
          /\ ReinitReads(k)' = ReinitReads(k) /\ UpdateSends(k)' = UpdateSends(k)
      BY <1>1, <1>2, <2>1, <3>1 DEF Needed, Excepted, ReinitReads, UpdateSends
    <3>3. /\ OnlyValue(k, Config!held(k), <<>>)
          /\ OnlyValue(k, Config!held(k), <<Config!Set("DATA", v)>>)
      BY <2>1, OtherMessages
    <3>4. OnlyValue(k, Config!held(k), b)
      BY <1>2, <3>3
    <3> QED
      BY <1>1, <1>2, <3>1, <3>2, <3>4, ArrivesKept
  <2>2. CASE k = "DATA" /\ b = <<Config!Set("DATA", v)>>
    <3>1. Config!held(k)' = v
      BY <1>1, <2>2, SettingKinds
    <3>2. OnlyValue(k, Config!held(k)', b)
      BY <2>2, <3>1, OtherMessages
    <3>3. Len(b) = 1 /\ b[1] = Config!Set(k, Config!held(k)')
      BY <2>2, <3>1
    <3>4. Has(Config!Set(k, Config!held(k)'), b)
      BY <3>3 DEF Has
    <3> QED
      BY <1>1, <1>2, <3>2, <3>4, ArrivesSent
  <2>3. CASE k = "DATA" /\ b # <<Config!Set("DATA", v)>>
    <3>1. Excepted(k)'
      BY <1>2, <2>3 DEF Excepted
    <3> QED
      BY <3>1 DEF Arrives
  <2> QED
    BY <2>1, <2>2, <2>3
<1>5. SetTypes'
  BY <1>t, <1>1, <1>3 DEF SetTypes
<1> QED
  BY <1>3, <1>4, <1>5 DEF SettingsInv

LEMMA UpdateTypes ==
  ASSUME SetTypes, fw # Config!Idle
  PROVE  /\ fw.at \in {"send", "restore"} /\ fw.tmp \in [Config!ConfKeys -> Config!Vals]
         /\ fw = [at |-> fw.at, tmp |-> fw.tmp]
BY DEF SetTypes

LEMMA NotIdle ==
  /\ \A a, t : a # "idle" => [at |-> a, tmp |-> t] # Config!Idle
  /\ Config!Idle.at = "idle"
BY DEF Config!Idle

\* loc_eng_configuration_update.
LEMMA StepParse ==
  ASSUME SettingsInv, NEW l \in Conf \cup {"SUPL_MODE", "GPS_LOCK"}, NEW v \in 1..MaxVal,
         Config!configuration_update_parse(l, v)
  PROVE  SettingsInv'
<1>t. SetTypes /\ v \in Config!Vals /\ l \in Config!ConfKeys
  BY EngineAssumption DEF SettingsInv, Config!Vals, Config!ConfKeys
<1>1. /\ gps_conf' = [gps_conf EXCEPT ![l] = v] /\ fw' = [at |-> "send", tmp |-> gps_conf]
      /\ fw = Config!Idle
      /\ UNCHANGED <<agpsStatus, hosts, adapter, agps_status_cb, q, mt, told, phase, open,
                     untold, overtaken>>
  BY DEF Config!configuration_update_parse, Config!Change, Config!halVars, Config!modemVars,
         Config!ghosts
<1>2. /\ gps_conf' \in [Config!ConfKeys -> Config!Vals]
      /\ fw' \in [at : {"send", "restore"}, tmp : [Config!ConfKeys -> Config!Vals]]
  BY <1>t, <1>1 DEF SetTypes
<1>3. SetTypes'
  BY <1>t, <1>1, <1>2 DEF SetTypes
<1>4. OpenIsQueued'
  BY <1>1 DEF SettingsInv, OpenIsQueued
<1>5. ASSUME NEW k \in Config!Repeated PROVE Arrives(k)'
  <2>1. CASE k \in Conf /\ gps_conf'[k] # gps_conf[k]
    <3>1. /\ fw' # Config!Idle /\ fw'.at = "send" /\ fw'.tmp[k] # gps_conf'[k]
      BY <1>1, <2>1, NotIdle
    <3>2. UpdateSends(k)'
      BY <2>1, <3>1 DEF UpdateSends
    <3> QED
      BY <3>2 DEF Arrives
  <2>2. CASE ~(k \in Conf /\ gps_conf'[k] # gps_conf[k])
    <3>1. Config!held(k)' = Config!held(k)
      BY <1>1, <2>2, SettingKinds
    <3>2. /\ Needed(k)' = Needed(k) /\ Excepted(k)' = Excepted(k)
          /\ ReinitReads(k)' = ReinitReads(k) /\ ~UpdateSends(k)
      BY <1>1, <3>1 DEF Needed, Excepted, ReinitReads, UpdateSends
    <3> QED
      BY <1>1, <3>1, <3>2, ArrivesIdle
  <2> QED
    BY <2>1, <2>2
<1> QED
  BY <1>3, <1>4, <1>5 DEF SettingsInv

LEMMA StepRestore ==
  ASSUME SettingsInv, Config!configuration_update_restore
  PROVE  SettingsInv'
<1>t. SetTypes
  BY DEF SettingsInv
<1>1. /\ fw.at = "restore" /\ fw' = Config!Idle
      /\ gps_conf' = [k \in Config!ConfKeys |-> IF k \in Conf \cup {"GPS_LOCK"} THEN gps_conf[k]
                                                ELSE fw.tmp[k]]
      /\ UNCHANGED <<agpsStatus, hosts, adapter, agps_status_cb, q, mt, told, phase, open,
                     untold, overtaken>>
  BY DEF Config!configuration_update_restore, Config!halVars, Config!modemVars, Config!ghosts
<1>2. fw # Config!Idle /\ fw.tmp \in [Config!ConfKeys -> Config!Vals]
  BY <1>t, <1>1, NotIdle, UpdateTypes
<1>3. gps_conf' \in [Config!ConfKeys -> Config!Vals]
  BY <1>t, <1>1, <1>2 DEF SetTypes
<1>4. SetTypes'
  BY <1>t, <1>1, <1>3 DEF SetTypes
<1>5. OpenIsQueued'
  BY <1>1 DEF SettingsInv, OpenIsQueued
<1>6. ASSUME NEW k \in Config!Repeated PROVE Arrives(k)'
  <2>1. k \in Conf => gps_conf'[k] = gps_conf[k]
    BY <1>1 DEF Config!ConfKeys
  <2>2. Config!held(k)' = Config!held(k)
    BY <1>1, <2>1, SettingKinds
  <2>3. /\ Needed(k)' = Needed(k) /\ Excepted(k)' = Excepted(k)
        /\ ReinitReads(k)' = ReinitReads(k) /\ ~UpdateSends(k)
    BY <1>1, <2>2 DEF Needed, Excepted, ReinitReads, UpdateSends
  <2> QED
    BY <1>1, <2>2, <2>3, ArrivesIdle
<1> QED
  BY <1>4, <1>5, <1>6 DEF SettingsInv

LEMMA StepSend ==
  ASSUME SettingsInv, Config!configuration_update_send
  PROVE  SettingsInv'
<1>t. SetTypes
  BY DEF SettingsInv
<1>1. /\ fw.at = "send" /\ fw' = [fw EXCEPT !.at = "restore"]
      /\ UNCHANGED <<gps_conf, agpsStatus, hosts, adapter, agps_status_cb, mt, told, phase, open>>
  BY DEF Config!configuration_update_send, Config!confVars, Config!halVars, Config!modemVars
<1>2. fw # Config!Idle /\ fw' = [at |-> "restore", tmp |-> fw.tmp]
      /\ fw.tmp \in [Config!ConfKeys -> Config!Vals]
  BY <1>t, <1>1, NotIdle, UpdateTypes
<1>3. fw' \in [at : {"send", "restore"}, tmp : [Config!ConfKeys -> Config!Vals]]
  BY <1>2
<1>4. CASE ~adapter
  <2>1. UNCHANGED <<q, untold, overtaken>>
    BY <1>4 DEF Config!configuration_update_send
  <2>2. SetTypes'
    BY <1>t, <1>1, <1>3, <2>1 DEF SetTypes
  <2>3. OpenIsQueued'
    BY <1>1, <2>1 DEF SettingsInv, OpenIsQueued
  <2>4. ASSUME NEW k \in Config!Repeated PROVE Arrives(k)'
    BY <1>1, <1>4 DEF Arrives, Needed
  <2> QED
    BY <2>2, <2>3, <2>4 DEF SettingsInv
<1>5. CASE adapter
  <2>1. PICK K, u : /\ K = Config!Changed \cap Conf
                    /\ u = IF "SUPL_MODE" \in Config!Changed THEN <<Config!Msg("SuplMode")>> ELSE <<>>
    OBVIOUS
  <2>2. PICK b, g : b = Config!MsgsFor(K, g) /\ g = gps_conf
    OBVIOUS
  <2>3. /\ q' = q \o (b \o u)
        /\ untold' = untold \ Config!Changed /\ overtaken' = overtaken \ Config!Changed
    BY <1>5, <2>1, <2>2 DEF Config!configuration_update_send, Config!Sends, Config!SentNow
  <2>4. K \subseteq Resent /\ \A k \in K : g[k] \in Config!Vals
    BY <1>t, <2>1, <2>2 DEF Resent, Config!Changed, SetTypes
  <2>5. /\ b \in Seq(Config!Msgs)
        /\ \A k \in K : Has(Config!Set(k, g[k]), b)
        /\ \A k, v : (k \in K => v = g[k]) => OnlyValue(k, v, b)
    BY ONLY <2>2, <2>4, MsgsForSettings
  <2>6. /\ u \in Seq(Config!Msgs)
        /\ \A k \in Config!Repeated : \A v : OnlyValue(k, v, u)
    <3>1. /\ <<>> \in Seq(Config!Msgs) /\ <<Config!Msg("SuplMode")>> \in Seq(Config!Msgs)
          /\ \A k \in Config!Repeated : \A v : /\ OnlyValue(k, v, <<>>)
                                           /\ OnlyValue(k, v, <<Config!Msg("SuplMode")>>)
      BY NoSetting, OtherMessages
    <3> QED
      BY <2>1, <3>1
  <2>7. PICK c : c = b \o u
    OBVIOUS
  <2>8. /\ c \in Seq(Config!Msgs) /\ q' = q \o c
        /\ \A m : Has(m, b) => Has(m, c)
    BY <2>3, <2>5, <2>6, <2>7, HasConcat
  <2>9. ASSUME NEW k \in Config!Repeated, NEW v, k \in K => v = g[k] PROVE OnlyValue(k, v, c)
    BY <2>5, <2>6, <2>7, <2>9, TellAppended
  <2>10. q' \in Seq(Config!Msgs) /\ OpenIsQueued'
    BY <1>1, <2>8, Appended, OpenKept
  <2>11. SetTypes'
    BY <1>t, <1>1, <1>3, <2>10 DEF SetTypes
  <2>12. ASSUME NEW k \in Config!Repeated PROVE Arrives(k)'
    <3>1. CASE k \in K
      <4>1. Config!held(k)' = g[k]
        BY <1>1, <2>1, <2>2, <3>1, SettingKinds
      <4>2. Has(Config!Set(k, Config!held(k)'), c) /\ OnlyValue(k, Config!held(k)', c)
        BY <2>5, <2>8, <2>9, <3>1, <4>1
      <4> QED
        BY <1>1, <2>8, <4>2, ArrivesSent
    <3>2. CASE k \notin K
      <4>1. Config!held(k)' = Config!held(k)
        BY <1>1, SettingKinds
      <4>2. k \notin Config!Changed
        BY <2>1, <3>2, SettingKinds, EngineAssumption DEF Config!Changed, Config!ConfKeys
      <4>3. Excepted(k)' = Excepted(k) /\ Needed(k)' = Needed(k) /\ ReinitReads(k)' = ReinitReads(k)
        BY <1>1, <2>3, <4>1, <4>2 DEF Excepted, Needed, ReinitReads
      <4>4. ~UpdateSends(k)
        BY <4>2 DEF UpdateSends, Config!Changed, Config!ConfKeys
      <4>5. OnlyValue(k, Config!held(k), c)
        BY <2>9, <3>2
      <4> QED
        BY <1>1, <2>8, <4>1, <4>3, <4>4, <4>5, ArrivesKept
    <3> QED
      BY <3>1, <3>2
  <2> QED
    BY <2>10, <2>11, <2>12 DEF SettingsInv
<1> QED
  BY <1>4, <1>5

LEMMA OldestTaken ==
  ASSUME SettingsInv, q # <<>>, q' = Tail(q)
  PROVE  q' \in Seq(Config!Msgs) /\ \A m : Has(m, q) => Head(q) = m \/ Has(m, q')
<1>1. q \in Seq(Config!Msgs)
  BY DEF SettingsInv, SetTypes
<1> QED
  BY <1>1, TellTaken

\* LocEngSuplMode, LocEngGnssConstellationConfig and LocEngSetCapabilities.
LEMMA StepCapabilities ==
  ASSUME SettingsInv,
         \/ Config!LocEngSuplMode
         \/ Config!LocEngGnssConstellationConfig
         \/ Config!LocEngSetCapabilities
  PROVE  SettingsInv'
<1>t. SetTypes
  BY DEF SettingsInv
<1>1. /\ q # <<>> /\ q' = Tail(q)
      /\ Head(q) \in {Config!Msg("SuplMode"), Config!Msg("GnssConfig"), Config!Msg("SetCapabilities")}
      /\ UNCHANGED <<agpsStatus, hosts, adapter, agps_status_cb, fw, mt, told, phase, open,
                     untold, overtaken>>
  BY DEF Config!LocEngSuplMode, Config!LocEngGnssConstellationConfig, Config!LocEngSetCapabilities,
         Config!Takes, Config!Handled, Config!confVars, Config!halVars, Config!modemVars,
         Config!ghosts, Config!threads
<1>2. \/ gps_conf' = gps_conf
      \/ gps_conf' = [gps_conf EXCEPT !["MEASUREMENTS"] = 1]
  <2>1. CASE Config!LocEngSuplMode \/ Config!LocEngSetCapabilities
    BY <2>1 DEF Config!LocEngSuplMode, Config!LocEngSetCapabilities, Config!confVars
  <2>2. CASE Config!LocEngGnssConstellationConfig
    <3>1. gps_conf' = [gps_conf EXCEPT !["MEASUREMENTS"] = IF open THEN 1
                                                           ELSE gps_conf["MEASUREMENTS"]]
      BY <2>2 DEF Config!LocEngGnssConstellationConfig
    <3> QED
      BY <1>t, <3>1 DEF SetTypes
  <2> QED
    BY <2>1, <2>2
<1>3. gps_conf' \in [Config!ConfKeys -> Config!Vals] /\ \A k \in Conf : gps_conf'[k] = gps_conf[k]
  BY <1>t, <1>2, EngineAssumption DEF SetTypes, Config!Vals, Config!ConfKeys
<1>4. q' \in Seq(Config!Msgs) /\ OpenIsQueued'
  BY <1>1, OldestTaken, SetMessages DEF SettingsInv, OpenIsQueued
<1>5. SetTypes'
  BY <1>t, <1>1, <1>3, <1>4 DEF SetTypes
<1>6. ASSUME NEW k \in Config!Repeated PROVE Arrives(k)'
  <2>1. Config!held(k)' = Config!held(k)
    BY <1>1, <1>3, SettingKinds
  <2>2. /\ Needed(k)' = Needed(k) /\ Excepted(k)' = Excepted(k)
        /\ ReinitReads(k)' = ReinitReads(k) /\ UpdateSends(k)' = UpdateSends(k)
    BY <1>1, <1>3, <2>1 DEF Needed, Excepted, ReinitReads, UpdateSends
  <2>3. /\ Head(q) # Config!Msg("Up") /\ Head(q) # Config!Msg("Init")
        /\ Head(q) # Config!Msg("Ssr") /\ \A v : Head(q) # Config!Set(k, v)
    BY <1>1, SetMessages
  <2> QED
    BY <1>1, <2>1, <2>2, <2>3, ArrivesTaken
<1> QED
  BY <1>4, <1>5, <1>6 DEF SettingsInv

LEMMA StepSsr ==
  ASSUME SettingsInv, Config!LocSsrMsg
  PROVE  SettingsInv'
<1>t. SetTypes
  BY DEF SettingsInv
<1>1. /\ q # <<>> /\ q' = Tail(q) /\ Head(q) = Config!Msg("Ssr")
      /\ open' = (phase # "down")
      /\ UNCHANGED <<gps_conf, agpsStatus, hosts, adapter, agps_status_cb, fw, mt, told, phase,
                     untold, overtaken>>
  BY DEF Config!LocSsrMsg, Config!Takes, Config!Handled, Config!confVars, Config!halVars,
         Config!ghosts, Config!threads
<1>2. q' \in Seq(Config!Msgs) /\ OpenIsQueued'
  BY <1>1, OldestTaken DEF OpenIsQueued
<1>3. SetTypes'
  BY <1>t, <1>1, <1>2 DEF SetTypes
<1>4. ASSUME NEW k \in Config!Repeated PROVE Arrives(k)'
  <2>1. Config!held(k)' = Config!held(k)
    BY <1>1, SettingKinds
  <2>2. /\ Needed(k)' = Needed(k) /\ Excepted(k)' = Excepted(k)
        /\ ReinitReads(k)' = ReinitReads(k) /\ UpdateSends(k)' = UpdateSends(k)
    BY <1>1, <2>1 DEF Needed, Excepted, ReinitReads, UpdateSends
  <2>3. /\ Head(q) # Config!Msg("Up") /\ Head(q) # Config!Msg("Init")
        /\ \A v : Head(q) # Config!Set(k, v)
    BY <1>1, SetMessages
  <2>4. CASE phase = "down"
    BY <1>1, <2>4 DEF Arrives, ReinitComes
  <2>5. CASE phase # "down"
    <3>1. open' = TRUE
      BY <1>1, <2>5
    <3> QED
      BY <1>1, <2>1, <2>2, <2>3, <3>1, ArrivesTaken
  <2> QED
    BY <2>4, <2>5
<1> QED
  BY <1>2, <1>3, <1>4 DEF SettingsInv

LEMMA StepSet ==
  ASSUME SettingsInv, NEW l \in Config!Settings, NEW v \in Config!Vals, Config!LocEngSet(l, v)
  PROVE  SettingsInv'
<1>t. SetTypes
  BY DEF SettingsInv
<1>1. /\ q # <<>> /\ q' = Tail(q) /\ Head(q) = Config!Set(l, v)
      /\ told' = [told EXCEPT ![l] = IF open THEN v ELSE told[l]]
      /\ UNCHANGED <<gps_conf, agpsStatus, hosts, adapter, agps_status_cb, fw, mt, phase, open,
                     untold, overtaken>>
  BY DEF Config!LocEngSet, Config!Takes, Config!Handled, Config!confVars, Config!halVars,
         Config!ghosts, Config!threads
<1>2. q' \in Seq(Config!Msgs) /\ OpenIsQueued'
  BY <1>1, OldestTaken, SetMessages DEF SettingsInv, OpenIsQueued
<1>3. told' \in [Config!Settings -> Config!Vals]
  BY <1>t, <1>1 DEF SetTypes
<1>4. SetTypes'
  BY <1>t, <1>1, <1>2, <1>3 DEF SetTypes
<1>5. ASSUME NEW k \in Config!Repeated PROVE Arrives(k)'
  <2>1. Config!held(k)' = Config!held(k)
    BY <1>1, SettingKinds
  <2>2. /\ Needed(k)' = Needed(k) /\ Excepted(k)' = Excepted(k)
        /\ ReinitReads(k)' = ReinitReads(k) /\ UpdateSends(k)' = UpdateSends(k)
    BY <1>1, <2>1 DEF Needed, Excepted, ReinitReads, UpdateSends
  <2>3. /\ Head(q) # Config!Msg("Up") /\ Head(q) # Config!Msg("Init")
        /\ Head(q) # Config!Msg("Ssr")
    BY <1>1, SetMessages
  <2>4. \/ told'[k] = told[k] /\ (open => \A w : Head(q) # Config!Set(k, w))
        \/ Head(q) = Config!Set(k, v) /\ told'[k] = IF open THEN v ELSE told[k]
    <3>1. CASE k = l
      BY <1>t, <1>1, <3>1 DEF SetTypes
    <3>2. CASE k # l
      <4>1. told'[k] = told[k]
        BY <1>t, <1>1, <3>2, SettingKinds DEF SetTypes
      <4>2. \A w : Head(q) # Config!Set(k, w)
        BY <1>1, <3>2, SetMessages
      <4> QED
        BY <4>1, <4>2
    <3> QED
      BY <3>1, <3>2
  <2> QED
    BY <1>1, <2>1, <2>2, <2>3, <2>4, ArrivesTaken
<1> QED
  BY <1>2, <1>4, <1>5 DEF SettingsInv

\* The modem.
LEMMA StepModem ==
  ASSUME SettingsInv, Config!Crash \/ Config!Recover
  PROVE  SettingsInv'
<1>t. SetTypes
  BY DEF SettingsInv
<1>1. CASE Config!Crash
  <2>1. /\ phase' = "down" /\ open' = FALSE /\ told' = [k \in Config!Settings |-> 0]
        /\ UNCHANGED <<gps_conf, agpsStatus, hosts, adapter, agps_status_cb, q, fw, mt>>
    BY <1>1 DEF Config!Crash, Config!confVars, Config!halVars, Config!threads
  <2>2. SetTypes' /\ OpenIsQueued'
    <3>1. told' \in [Config!Settings -> Config!Vals]
      BY <2>1, EngineAssumption DEF Config!Vals
    <3> QED
      BY <1>t, <2>1, <3>1 DEF SetTypes, OpenIsQueued
  <2>3. ASSUME NEW k \in Config!Repeated PROVE Arrives(k)'
    BY <2>1 DEF Arrives, ReinitComes
  <2> QED
    BY <2>2, <2>3 DEF SettingsInv
<1>2. CASE Config!Recover
  <2>1. UNCHANGED <<gps_conf, agpsStatus, hosts, adapter, agps_status_cb, fw, mt, told, open,
                    untold, overtaken>>
    BY <1>2 DEF Config!Recover, Config!confVars, Config!halVars, Config!threads, Config!ghosts
  <2>2. \/ phase' = "opening" /\ q' = q \o <<Config!Msg("Ssr")>>
        \/ /\ phase = "opening" /\ phase' = "up"
           /\ q' = q \o IF adapter THEN <<Config!Msg("Up")>> ELSE <<>>
    BY <1>2 DEF Config!Recover, Config!Sends
  <2>3. /\ <<Config!Msg("Ssr")>> \in Seq(Config!Msgs) /\ <<Config!Msg("Up")>> \in Seq(Config!Msgs)
        /\ <<>> \in Seq(Config!Msgs)
        /\ \A m : Has(m, <<m>>)
    <3>1. \A m : Len(<<m>>) = 1 /\ <<m>>[1] = m
      OBVIOUS
    <3> QED
      BY <3>1, SetMessages DEF Has
  <2>4. CASE phase' = "opening" /\ q' = q \o <<Config!Msg("Ssr")>>
    <3>1. q' \in Seq(Config!Msgs) /\ Has(Config!Msg("Ssr"), q')
      BY <2>3, <2>4, Appended
    <3>2. SetTypes' /\ OpenIsQueued'
      BY <1>t, <2>1, <2>4, <3>1 DEF SetTypes, OpenIsQueued
    <3>3. ASSUME NEW k \in Config!Repeated PROVE Arrives(k)'
      BY <2>4 DEF Arrives, ReinitComes
    <3> QED
      BY <3>2, <3>3 DEF SettingsInv
  <2>5. CASE /\ phase = "opening" /\ phase' = "up"
             /\ q' = q \o IF adapter THEN <<Config!Msg("Up")>> ELSE <<>>
    <3>1. /\ q' \in Seq(Config!Msgs) /\ \A m : Has(m, q) => Has(m, q')
          /\ adapter => Has(Config!Msg("Up"), q')
      <4>1. CASE adapter
        <5>1. q' = q \o <<Config!Msg("Up")>>
          BY <2>5, <4>1
        <5> QED
          BY <2>3, <4>1, <5>1, Appended
      <4>2. CASE ~adapter
        <5>1. q' = q \o <<>>
          BY <2>5, <4>2
        <5> QED
          BY <2>3, <4>2, <5>1, Appended
      <4> QED
        BY <4>1, <4>2
    <3>2. SetTypes' /\ OpenIsQueued'
      BY <1>t, <2>1, <2>5, <3>1 DEF SetTypes, OpenIsQueued, SettingsInv
    <3>3. ASSUME NEW k \in Config!Repeated PROVE Arrives(k)'
      BY <2>1, <3>1 DEF Arrives, ReinitComes, Needed
    <3> QED
      BY <3>2, <3>3 DEF SettingsInv
  <2> QED
    BY <2>2, <2>4, <2>5
<1> QED
  BY <1>1, <1>2

LEMMA ReinitTypes ==
  ASSUME SetTypes, mt # Config!Idle
  PROVE  /\ mt.at = "reinit" /\ mt.todo \in Seq(Resent) /\ mt.val \in 0..(MaxVal + 1)
         /\ mt.last \in {"Init", "Up"}
         /\ mt = [at |-> "reinit", todo |-> mt.todo, val |-> mt.val, last |-> mt.last]
BY DEF SetTypes

LEMMA ReinitSettings ==
  ASSUME NEW all \in BOOLEAN
  PROVE  /\ Config!ReinitOrder(all) \in Seq(Resent)
         /\ \A k \in Resent : (k \in Servers => all) => Has(k, Config!ReinitOrder(all))
<1>1. PICK K, s : /\ K = {k \in Config!Repeated : k \in Servers => all} \ Config!Fixed
                  /\ s = Config!Ordered(K)
  OBVIOUS
<1>2. K \subseteq Resent /\ \A k \in Resent : (k \in Servers => all) => k \in K
  BY <1>1, EngineAssumption DEF Resent, Config!Repeated, Config!Fixed
<1>3. Config!ReinitOrder(all) = s
  <2>1. ASSUME NEW k, k # "SENSORS_AND_XTRA"
        PROVE  Config!Only({l \in Config!Repeated : l \in Servers => all}, k) = Config!Only(K, k)
    BY <1>1, <2>1 DEF Config!Only, Config!Fixed
  <2> QED
    BY <1>1, <2>1 DEF Config!ReinitOrder, Config!Ordered
<1>4. s \in Seq(K) /\ \A k \in K : Has(k, s)
  BY <1>1, <1>2, OrderedSettings
<1>5. s \in Seq(Resent)
  BY <1>2, <1>4
<1> QED
  BY <1>2, <1>3, <1>4, <1>5

\* LocEngInit and LocEngUp.
LEMMA BeginsReinit ==
  ASSUME SettingsInv, NEW m \in {"Init", "Up"}, NEW all \in BOOLEAN,
         m = "Up" => all = agps_status_cb, m = "Init" => ~all,
         Config!BeginReinit(m, Config!ReinitOrder(all))
  PROVE  SettingsInv'
<1>t. SetTypes
  BY DEF SettingsInv
<1>1. PICK todo, b : /\ todo = Config!ReinitOrder(all)
                     /\ b = <<Config!Msg("GnssConfig"), Config!LocEngSensorsAndXtra>>
  OBVIOUS
<1>2. todo \in Seq(Resent) /\ \A k \in Resent : (k \in Servers => all) => Has(k, todo)
  BY <1>1, ReinitSettings
<1>3. /\ q # <<>> /\ Head(q) = Config!Msg(m) /\ q' = Tail(q) \o b
      /\ mt' = [at |-> "reinit", todo |-> todo, val |-> 0, last |-> m]
      /\ mt = Config!Idle
      /\ UNCHANGED <<gps_conf, agpsStatus, hosts, adapter, agps_status_cb, fw, told, phase, open,
                     untold, overtaken>>
  BY <1>1 DEF Config!BeginReinit, Config!Takes, Config!confVars, Config!halVars, Config!modemVars,
              Config!ghosts
<1>4. /\ b \in Seq(Config!Msgs)
      /\ Has(Config!Set("SENSORS_AND_XTRA", 1), b)
      /\ \A k \in Config!Repeated : \A v : (k = "SENSORS_AND_XTRA" => v = 1) => OnlyValue(k, v, b)
  <2>1. Config!LocEngSensorsAndXtra = Config!Set("SENSORS_AND_XTRA", 1)
    BY DEF Config!LocEngSensorsAndXtra
  <2>2. "SENSORS_AND_XTRA" \in Config!Settings /\ 1 \in Config!Vals
    BY EngineAssumption DEF Config!Settings, Config!Repeated, Config!Fixed, Config!Vals
  <2>3. /\ Config!Set("SENSORS_AND_XTRA", 1) \in Config!Msgs /\ Config!Msg("GnssConfig") \in Config!Msgs
    BY <2>2, SetMessages
  <2>4. /\ Len(b) = 2 /\ b[1] = Config!Msg("GnssConfig") /\ b[2] = Config!Set("SENSORS_AND_XTRA", 1)
        /\ b \in Seq(Config!Msgs)
    BY <1>1, <2>1, <2>3
  <2>5. \A i \in 1..2 : i = 1 \/ i = 2
    OBVIOUS
  <2> QED
    BY <2>4, <2>5, SetMessages DEF Has, OnlyValue
<1>5. PICK s : s = Tail(q)
  OBVIOUS
<1>6. /\ s \in Seq(Config!Msgs) /\ q' = s \o b
      /\ \A x : Has(x, q) => Head(q) = x \/ Has(x, s)
  <2>1. q \in Seq(Config!Msgs)
    BY <1>t DEF SetTypes
  <2> QED
    BY <1>3, <1>5, <2>1, TellTaken
<1>7. /\ q' \in Seq(Config!Msgs)
      /\ \A x : Has(x, s) \/ Has(x, b) => Has(x, q')
  BY ONLY <1>4, <1>6, HasConcat
<1>8. Config!Msg(m) # Config!Msg("Ssr") /\ \A k, v : Config!Msg(m) # Config!Set(k, v)
  BY SetMessages
<1>9. OpenIsQueued'
  BY <1>3, <1>6, <1>7, <1>8 DEF SettingsInv, OpenIsQueued
<1>10. SetTypes'
  <2>1. mt' \in [at : {"reinit"}, todo : Seq(Resent), val : 0..(MaxVal + 1), last : {"Init", "Up"}]
    BY <1>2, <1>3, EngineAssumption
  <2> QED
    BY <1>t, <1>3, <1>7, <2>1 DEF SetTypes
<1>11. ASSUME NEW k \in Config!Repeated PROVE Arrives(k)'
  <2>h. Config!held(k)' = Config!held(k)
    BY <1>3, SettingKinds
  <2>n. /\ Needed(k)' = Needed(k) /\ Excepted(k)' = Excepted(k) /\ UpdateSends(k)' = UpdateSends(k)
        /\ ~ReinitReads(k)
    BY <1>3, <2>h DEF Needed, Excepted, UpdateSends, ReinitReads
  <2>1. CASE k \in Resent /\ (k \in Servers => all)
    <3>1. Has(k, todo) /\ mt' # Config!Idle /\ mt'.todo = todo
      BY <1>2, <1>3, <2>1 DEF Config!Idle
    <3>2. ReinitReads(k)'
      BY <3>1 DEF ReinitReads, Has
    <3> QED
      BY <3>2 DEF Arrives
  <2>2. CASE k \notin Resent
    <3>1. k = "SENSORS_AND_XTRA" /\ Config!held(k)' = 1
      BY <2>2, SettingKinds
    <3>2. CASE phase # "up"
      BY <1>3, <3>2 DEF Arrives, ReinitComes
    <3>3. CASE phase = "up"
      <4>1. open \/ Has(Config!Msg("Ssr"), s)
        BY <1>3, <1>6, <1>8, <3>3 DEF SettingsInv, OpenIsQueued
      <4>2. OnlyValue(k, 1, b) /\ Has(Config!Set(k, 1), b) /\ open \in BOOLEAN
        BY <1>t, <1>4, <3>1 DEF SetTypes
      <4>3. WillTell(k, 1, q', open)
        BY ONLY <1>4, <1>6, <4>1, <4>2, TellAppended
      <4> QED
        BY <1>3, <3>1, <4>3 DEF Arrives
    <3> QED
      BY <3>2, <3>3
  <2>3. CASE k \in Servers /\ ~all
    <3> SUFFICES ASSUME Needed(k), ~Excepted(k)
                 PROVE  \/ ReinitComes(k)'
                        \/ UpdateSends(k)'
                        \/ WillTell(k, Config!held(k), q', open)
                        \/ told[k] = Config!held(k) /\ OnlyValue(k, Config!held(k), q')
      BY <1>3, <2>h, <2>n DEF Arrives
    <3>1. m = "Init" /\ Head(q) # Config!Msg("Up")
      BY <1>3, <2>3, SetMessages DEF Needed
    <3>2. ReinitComes(k) => ReinitComes(k)'
      BY <1>3, <1>6, <1>7, <2>3, <3>1 DEF ReinitComes
    <3>3. k # "SENSORS_AND_XTRA"
      BY <2>3, EngineAssumption
    <3>4. PICK h : h = Config!held(k)
      OBVIOUS
    <3>a. q \in Seq(Config!Msgs) /\ q # <<>> /\ s = Tail(q) /\ open \in BOOLEAN
      BY <1>t, <1>3, <1>5 DEF SetTypes
    <3>b. /\ s \in Seq(Config!Msgs) /\ b \in Seq(Config!Msgs) /\ q' = s \o b
          /\ OnlyValue(k, h, b) /\ open \in BOOLEAN
      BY <1>4, <1>6, <3>3, <3>a
    <3>5. /\ OnlyValue(k, h, q) => OnlyValue(k, h, Tail(q))
          /\ WillTell(k, h, q, open) =>
               \/ WillTell(k, h, Tail(q), open)
               \/ open /\ Head(q) = Config!Set(k, h) /\ OnlyValue(k, h, Tail(q))
               \/ Head(q) = Config!Msg("Ssr") /\ WillTell(k, h, Tail(q), TRUE)
      BY ONLY <3>a, TellTaken, Zenon
    <3>6. /\ OnlyValue(k, h, q) => OnlyValue(k, h, s)
          /\ WillTell(k, h, q, open) =>
               \/ WillTell(k, h, s, open)
               \/ Head(q) = Config!Set(k, h)
               \/ Head(q) = Config!Msg("Ssr")
      BY ONLY <3>5, <3>a
    <3>7. WillTell(k, h, q, open) => WillTell(k, h, s, open)
      BY <1>3, <1>8, <3>6
    <3>8. /\ OnlyValue(k, h, s) => OnlyValue(k, h, q')
          /\ WillTell(k, h, s, open) => WillTell(k, h, q', open)
      <4>1. ASSUME OnlyValue(k, h, s) PROVE OnlyValue(k, h, q')
        BY ONLY <3>b, <4>1, TellAppended
      <4>2. ASSUME WillTell(k, h, s, open) PROVE WillTell(k, h, q', open)
        BY ONLY <3>b, <4>2, TellKept, Zenon
      <4> QED
        BY ONLY <4>1, <4>2
    <3>9. Arrives(k)
      BY DEF SettingsInv
    <3> QED
      BY <2>n, <3>2, <3>4, <3>6, <3>7, <3>8, <3>9 DEF Arrives
  <2> QED
    BY <2>1, <2>2, <2>3
<1> QED
  BY <1>9, <1>10, <1>11 DEF SettingsInv

LEMMA StepReinit ==
  ASSUME SettingsInv, Config!LocEngInit \/ Config!loc_eng_handle_engine_up
  PROVE  SettingsInv'
<1>1. agps_status_cb \in BOOLEAN
  BY DEF SettingsInv, SetTypes
<1>2. CASE Config!LocEngInit
  <2>1. PICK m, all : m = "Init" /\ all = FALSE
    OBVIOUS
  <2>2. Config!BeginReinit(m, Config!ReinitOrder(all))
    BY <1>2, <2>1 DEF Config!LocEngInit
  <2> QED
    BY <2>1, <2>2, BeginsReinit
<1>3. CASE Config!loc_eng_handle_engine_up
  <2>1. PICK m, all : m = "Up" /\ all = agps_status_cb
    OBVIOUS
  <2>2. Config!BeginReinit(m, Config!ReinitOrder(all))
    BY <1>3, <2>1 DEF Config!loc_eng_handle_engine_up
  <2> QED
    BY <1>1, <2>1, <2>2, BeginsReinit
<1> QED
  BY <1>2, <1>3

LEMMA StepRead ==
  ASSUME SettingsInv, Config!reinit_read
  PROVE  SettingsInv'
<1>t. SetTypes
  BY DEF SettingsInv
<1>1. /\ mt # Config!Idle /\ mt.todo # <<>> /\ mt.val = 0
      /\ UNCHANGED <<gps_conf, agpsStatus, hosts, adapter, agps_status_cb, q, fw, told, phase, open,
                     overtaken>>
  BY NotIdle DEF Config!reinit_read, Config!confVars, Config!halVars, Config!modemVars
<1>2. PICK l \in Resent : l = Head(mt.todo) /\ l = mt.todo[1]
  BY <1>t, <1>1, ReinitTypes
<1>3. Config!held(l) \in Config!Vals /\ l \in Config!Repeated
  BY <1>t, MsgForSetting, SettingKinds DEF SetTypes
<1>4. \/ /\ Config!held(l) = 0 /\ l \in Servers
         /\ mt' = [mt EXCEPT !.todo = Tail(mt.todo)] /\ untold' = untold
      \/ /\ mt' = [mt EXCEPT !.val = Config!held(l) + 1] /\ untold' = untold \ {l}
  BY <1>2 DEF Config!reinit_read
<1>5. OpenIsQueued'
  BY <1>1 DEF SettingsInv, OpenIsQueued
<1>6. CASE /\ Config!held(l) = 0 /\ l \in Servers
           /\ mt' = [mt EXCEPT !.todo = Tail(mt.todo)] /\ untold' = untold
  <2>1. mt' = [at |-> "reinit", todo |-> Tail(mt.todo), val |-> mt.val, last |-> mt.last]
    BY <1>t, <1>1, <1>6, ReinitTypes
  <2>2. /\ Tail(mt.todo) \in Seq(Resent)
        /\ Len(mt.todo) \in Nat /\ Len(Tail(mt.todo)) = Len(mt.todo) - 1
        /\ \A i \in 1..Len(Tail(mt.todo)) : Tail(mt.todo)[i] = mt.todo[i + 1]
    <3>1. mt.todo \in Seq(Resent) /\ mt.todo # <<>>
      BY <1>t, <1>1, ReinitTypes
    <3> QED
      BY ONLY <3>1
  <2>3. SetTypes'
    <3>1. mt' \in [at : {"reinit"}, todo : Seq(Resent), val : 0..(MaxVal + 1), last : {"Init", "Up"}]
      BY <1>t, <1>1, <2>1, <2>2, ReinitTypes
    <3>2. mt'.val = 0
      BY <1>1, <2>1
    <3> QED
      BY <1>t, <1>1, <3>1, <3>2 DEF SetTypes
  <2>4. ASSUME NEW k \in Config!Repeated PROVE Arrives(k)'
    <3>1. Config!held(k)' = Config!held(k)
      BY <1>1, SettingKinds
    <3>2. Needed(k)' = Needed(k) /\ Excepted(k)' = Excepted(k) /\ UpdateSends(k)' = UpdateSends(k)
      BY <1>1, <1>6, <3>1 DEF Needed, Excepted, UpdateSends
    <3>3. CASE k = l
      BY <1>6, <3>1, <3>3 DEF Arrives, Needed
    <3>4. CASE k # l
      <4>1. ASSUME ReinitReads(k) PROVE ReinitReads(k)'
        <5>1. PICK i \in 1..Len(mt.todo) : mt.todo[i] = k
          BY <4>1 DEF ReinitReads
        <5>2. i - 1 \in 1..Len(Tail(mt.todo)) /\ Tail(mt.todo)[i - 1] = k
          BY <1>2, <2>2, <3>4, <5>1
        <5>3. mt' # Config!Idle /\ mt'.todo = Tail(mt.todo)
          BY <2>1 DEF Config!Idle
        <5> QED
          BY <5>2, <5>3 DEF ReinitReads
      <4> QED
        BY <1>1, <3>1, <3>2, <4>1, ArrivesIdle
    <3> QED
      BY <3>3, <3>4
  <2> QED
    BY <1>5, <2>3, <2>4 DEF SettingsInv
<1>7. CASE mt' = [mt EXCEPT !.val = Config!held(l) + 1] /\ untold' = untold \ {l}
  <2>1. mt' = [at |-> "reinit", todo |-> mt.todo, val |-> Config!held(l) + 1, last |-> mt.last]
    BY <1>t, <1>1, <1>7, ReinitTypes
  <2>2. mt' # Config!Idle /\ mt'.todo = mt.todo
    BY <2>1 DEF Config!Idle
  <2>3. SetTypes'
    <3>1. Config!held(l) + 1 \in 0..(MaxVal + 1)
      BY <1>3, EngineAssumption DEF Config!Vals
    <3>2. mt' \in [at : {"reinit"}, todo : Seq(Resent), val : 0..(MaxVal + 1), last : {"Init", "Up"}]
      BY <1>t, <1>1, <2>1, <3>1, ReinitTypes
    <3> QED
      BY <1>t, <1>1, <2>2, <3>2 DEF SetTypes
  <2>4. ASSUME NEW k \in Config!Repeated PROVE Arrives(k)'
    <3>1. Config!held(k)' = Config!held(k)
      BY <1>1, SettingKinds
    <3>2. Needed(k)' = Needed(k) /\ UpdateSends(k)' = UpdateSends(k)
      BY <1>1, <3>1 DEF Needed, UpdateSends
    <3>3. ReinitReads(k)' = ReinitReads(k)
      BY <1>1, <2>2 DEF ReinitReads
    <3>4. CASE k = l
      <4>1. 1 \in 1..Len(mt.todo)
        BY <1>t, <1>1, ReinitTypes
      <4>2. ReinitReads(k)
        BY <1>1, <1>2, <3>4, <4>1 DEF ReinitReads
      <4> QED
        BY <3>3, <4>2 DEF Arrives
    <3>5. CASE k # l
      <4>1. Excepted(k)' = Excepted(k)
        BY <1>1, <1>7, <3>5 DEF Excepted
      <4> QED
        BY <1>1, <3>1, <3>2, <3>3, <4>1, ArrivesIdle
    <3> QED
      BY <3>4, <3>5
  <2> QED
    BY <1>5, <2>3, <2>4 DEF SettingsInv
<1> QED
  BY <1>4, <1>6, <1>7

LEMMA StepReinitSend ==
  ASSUME SettingsInv, NEW ok \in BOOLEAN, Config!reinit_send(ok)
  PROVE  SettingsInv'
<1>t. SetTypes
  BY DEF SettingsInv
<1>1. /\ mt # Config!Idle /\ mt.val # 0
      /\ UNCHANGED <<gps_conf, agpsStatus, hosts, adapter, agps_status_cb, fw, told, phase, open>>
  BY NotIdle DEF Config!reinit_send, Config!confVars, Config!halVars, Config!modemVars
<1>2. /\ mt.todo \in Seq(Resent) /\ mt.todo # <<>> /\ mt.val - 1 \in Config!Vals
      /\ mt.last \in {"Init", "Up"} /\ 0 \in 0..(MaxVal + 1)
  BY <1>t, <1>1, ReinitTypes, EngineAssumption DEF SetTypes, Config!Vals
<1>3. PICK l \in Resent, v \in Config!Vals : l = Head(mt.todo) /\ l = mt.todo[1] /\ v = mt.val - 1
  BY <1>2
<1>4. l \in Config!Repeated /\ Config!MsgFor(l, v) = Config!Set(l, v)
  BY MsgForSetting
<1>5. /\ q' = IF ok THEN Append(q, Config!MsgFor(l, v)) ELSE q
      /\ overtaken' = IF ok /\ v # Config!held(l) /\ ~(fw.at = "send" /\ l \in Config!Changed)
                      THEN overtaken \cup {l} ELSE overtaken \ {l}
      /\ untold' = IF ok THEN untold ELSE untold \cup {l}
      /\ mt' = [mt EXCEPT !.todo = Tail(mt.todo), !.val = 0]
  BY <1>3 DEF Config!reinit_send
<1>6. PICK b \in Seq(Config!Msgs) : /\ q' = q \o b
                                    /\ b = IF ok THEN <<Config!Set(l, v)>> ELSE <<>>
  <2>1. Config!Set(l, v) \in Config!Msgs
    BY <1>4, SettingKinds, SetMessages
  <2>2. <<Config!Set(l, v)>> \in Seq(Config!Msgs) /\ <<>> \in Seq(Config!Msgs)
    BY <2>1
  <2>3. Append(q, Config!Set(l, v)) = q \o <<Config!Set(l, v)>> /\ q = q \o <<>>
    BY <1>t, <2>1 DEF SetTypes
  <2> QED
    BY <1>4, <1>5, <2>2, <2>3
<1>7. mt' = [at |-> "reinit", todo |-> Tail(mt.todo), val |-> 0, last |-> mt.last]
  BY <1>t, <1>1, <1>5, ReinitTypes
<1>8. mt' # Config!Idle /\ mt'.todo = Tail(mt.todo) /\ mt'.val = 0
  BY <1>7 DEF Config!Idle
<1>9. /\ Tail(mt.todo) \in Seq(Resent)
      /\ Len(mt.todo) \in Nat /\ Len(Tail(mt.todo)) = Len(mt.todo) - 1
      /\ \A i \in 1..Len(Tail(mt.todo)) : Tail(mt.todo)[i] = mt.todo[i + 1]
  <2>1. mt.todo \in Seq(Resent) /\ mt.todo # <<>>
    BY <1>2
  <2> QED
    BY ONLY <2>1
<1>10. q' \in Seq(Config!Msgs) /\ OpenIsQueued'
  BY <1>1, <1>6, Appended, OpenKept
<1>11. SetTypes'
  <2>1. mt' \in [at : {"reinit"}, todo : Seq(Resent), val : 0..(MaxVal + 1), last : {"Init", "Up"}]
    BY <1>2, <1>7, <1>9
  <2> QED
    BY <1>t, <1>1, <1>8, <1>10, <2>1 DEF SetTypes
<1>12. ASSUME NEW k \in Config!Repeated PROVE Arrives(k)'
  <2>1. Config!held(k)' = Config!held(k)
    BY <1>1, SettingKinds
  <2>2. Needed(k)' = Needed(k) /\ UpdateSends(k)' = UpdateSends(k)
    BY <1>1, <2>1 DEF Needed, UpdateSends
  <2>3. CASE k # l
    <3>1. ASSUME ReinitReads(k) PROVE ReinitReads(k)'
      <4>1. PICK i \in 1..Len(mt.todo) : mt.todo[i] = k
        BY <3>1 DEF ReinitReads
      <4>2. i - 1 \in 1..Len(Tail(mt.todo)) /\ Tail(mt.todo)[i - 1] = k
        BY <1>3, <1>9, <2>3, <4>1
      <4> QED
        BY <1>8, <4>2 DEF ReinitReads
    <3>2. Excepted(k)' = Excepted(k)
      BY <1>5, <2>3 DEF Excepted
    <3>3. /\ OnlyValue(k, Config!held(k), <<>>)
          /\ OnlyValue(k, Config!held(k), <<Config!Set(l, v)>>)
      BY <2>3, OtherMessages
    <3>4. OnlyValue(k, Config!held(k), b)
      BY <1>6, <3>3
    <3> QED
      BY <1>1, <1>6, <2>1, <2>2, <3>1, <3>2, <3>4, ArrivesKept
  <2>4. CASE k = l /\ ~ok
    <3>1. Excepted(k)'
      BY <1>5, <2>4 DEF Excepted
    <3> QED
      BY <3>1 DEF Arrives
  <2>5. CASE k = l /\ ok /\ v = Config!held(l)
    <3>1. OnlyValue(k, Config!held(k)', b)
      BY <1>6, <2>1, <2>5, OtherMessages
    <3>2. Len(b) = 1 /\ b[1] = Config!Set(k, Config!held(k)')
      BY <1>6, <2>1, <2>5
    <3>3. Has(Config!Set(k, Config!held(k)'), b)
      BY <3>2 DEF Has
    <3> QED
      BY <1>1, <1>6, <3>1, <3>3, ArrivesSent
  <2>6. CASE k = l /\ ok /\ v # Config!held(l)
    <3>1. CASE fw.at = "send" /\ l \in Config!Changed
      <4>1. l \in Config!ConfKeys /\ fw.tmp[l] # gps_conf[l] /\ fw # Config!Idle
        BY <3>1, NotIdle DEF Config!Changed
      <4>2. l \in Conf
        BY <4>1, EngineAssumption DEF Config!ConfKeys, Resent
      <4>3. UpdateSends(k)
        BY <2>6, <3>1, <4>1, <4>2 DEF UpdateSends
      <4> QED
        BY <2>2, <4>3 DEF Arrives
    <3>2. CASE ~(fw.at = "send" /\ l \in Config!Changed)
      <4>1. Excepted(k)'
        BY <1>5, <2>6, <3>2 DEF Excepted
      <4> QED
        BY <4>1 DEF Arrives
    <3> QED
      BY <3>1, <3>2
  <2> QED
    BY <2>3, <2>4, <2>5, <2>6
<1> QED
  BY <1>10, <1>11, <1>12 DEF SettingsInv

LEMMA StepReinitEnd ==
  ASSUME SettingsInv, Config!EndReinit
  PROVE  SettingsInv'
<1>t. SetTypes
  BY DEF SettingsInv
<1>1. /\ mt.todo = <<>> /\ mt' = Config!Idle
      /\ UNCHANGED <<gps_conf, agpsStatus, hosts, adapter, agps_status_cb, fw, told, phase, open,
                     untold, overtaken>>
  BY DEF Config!EndReinit, Config!confVars, Config!halVars, Config!modemVars, Config!ghosts
<1>2. CASE q' = q
  <2>1. SetTypes' /\ OpenIsQueued'
    BY <1>t, <1>1, <1>2 DEF SettingsInv, SetTypes, OpenIsQueued
  <2>2. ASSUME NEW k \in Config!Repeated PROVE Arrives(k)'
    <3>1. Config!held(k)' = Config!held(k)
      BY <1>1, SettingKinds
    <3>2. /\ Needed(k)' = Needed(k) /\ Excepted(k)' = Excepted(k)
          /\ UpdateSends(k)' = UpdateSends(k) /\ ~ReinitReads(k)
      BY <1>1, <3>1 DEF Needed, Excepted, UpdateSends, ReinitReads
    <3> QED
      BY <1>1, <1>2, <3>1, <3>2, ArrivesIdle
  <2> QED
    BY <2>1, <2>2 DEF SettingsInv
<1>3. CASE q' = Append(q, Config!Msg("SetCapabilities"))
  <2>1. PICK x \in Config!Msgs : /\ x = Config!Msg("SetCapabilities")
                                 /\ \A k \in Config!Repeated : \A v : OnlyValue(k, v, <<x>>)
    BY NoSetting
  <2>2. q' = q \o <<x>>
    BY <1>t, <1>3, <2>1 DEF SetTypes
  <2>3. q' \in Seq(Config!Msgs) /\ OpenIsQueued' /\ \A k \in Config!Repeated : Arrives(k)'
    BY <1>1, <2>1, <2>2, OtherSent
  <2>4. SetTypes'
    BY <1>t, <1>1, <2>3 DEF SetTypes
  <2> QED
    BY <2>3, <2>4 DEF SettingsInv
<1> QED
  BY <1>2, <1>3 DEF Config!EndReinit

LEMMA SettingsStep ==
  ASSUME SettingsInv, [Config!Next]_(Config!vars)
  PROVE  SettingsInv'
<1>1. CASE UNCHANGED Config!vars
  <2>1. UNCHANGED <<gps_conf, agpsStatus, hosts, adapter, agps_status_cb, q, fw, mt, told, phase,
                    open, untold, overtaken>>
    BY <1>1 DEF Config!vars, Config!confVars, Config!halVars, Config!modemVars, Config!ghosts
  <2>2. SetTypes' /\ OpenIsQueued'
    BY <2>1 DEF SettingsInv, SetTypes, OpenIsQueued
  <2>3. ASSUME NEW k \in Config!Repeated PROVE Arrives(k)'
    <3>1. Config!held(k)' = Config!held(k)
      BY <2>1, SettingKinds
    <3>2. /\ Needed(k)' = Needed(k) /\ Excepted(k)' = Excepted(k)
          /\ UpdateSends(k)' = UpdateSends(k) /\ ReinitReads(k)' = ReinitReads(k)
      BY <2>1, <3>1 DEF Needed, Excepted, UpdateSends, ReinitReads
    <3> QED
      BY <2>1, <3>1, <3>2, ArrivesIdle
  <2> QED
    BY <2>2, <2>3 DEF SettingsInv
<1>2. CASE Config!Framework
  BY <1>2, StepInit, StepOther, StepAgpsInit, StepSend, StepRestore, StepServer, StepNetwork,
     StepParse DEF Config!Framework
<1>3. CASE Config!MsgTaskStep
  BY <1>3, StepCapabilities, StepSsr, StepReinit, StepRead, StepReinitEnd, StepSet, StepReinitSend
     DEF Config!MsgTaskStep
<1>4. CASE Config!Crash \/ Config!Recover
  BY <1>4, StepModem
<1> QED
  BY <1>1, <1>2, <1>3, <1>4 DEF Config!Next

-----------------------------------------------------------------------------
(* The lock and the measurement mask.                                      *)

\* The last value sent is on its way, or the modem has it if it has not lost it.
Stays(k) ==
  \/ WillTell(k, Config!held(k), q, TRUE)
  \/ OnlyValue(k, Config!held(k), q) /\ (k \in forgotten \/ told[k] = Config!held(k))

OnceInv ==
  /\ asked = [t \in Servers \cup {"LOCK"} |-> asked[t]]
  /\ adapter \/ ~gps_measurement_cb
  /\ \A k \in Config!OnceOnly : Stays(k)

\* Messages that give neither a value.
Keeps(b) == b \in Seq(Config!Msgs) /\ \A k \in Config!OnceOnly : \A v : OnlyValue(k, v, b)

LEMMA KeepsMessages ==
  /\ Keeps(<<>>)
  /\ \A o \in {"Init", "Up", "Ssr", "SuplMode", "GnssConfig", "SetCapabilities"} :
       Keeps(<<Config!Msg(o)>>)
  /\ \A l \in Config!Repeated, w \in Config!Vals : Keeps(<<Config!Set(l, w)>>)
<1>1. Keeps(<<>>)
  BY OtherMessages DEF Keeps
<1>2. ASSUME NEW o \in {"Init", "Up", "Ssr", "SuplMode", "GnssConfig", "SetCapabilities"}
      PROVE  Keeps(<<Config!Msg(o)>>)
  <2>1. Config!Msg(o) \in Config!Msgs
    BY SetMessages
  <2>2. <<Config!Msg(o)>> \in Seq(Config!Msgs)
    BY <2>1
  <2> QED
    BY <2>2, OtherMessages DEF Keeps
<1>3. ASSUME NEW l \in Config!Repeated, NEW w \in Config!Vals PROVE Keeps(<<Config!Set(l, w)>>)
  <2>1. Config!Set(l, w) \in Config!Msgs /\ l \notin Config!OnceOnly
    BY SetMessages, SettingKinds DEF Config!OnceOnly
  <2>2. <<Config!Set(l, w)>> \in Seq(Config!Msgs)
    BY <2>1
  <2> QED
    BY <2>1, <2>2, OtherMessages DEF Keeps
<1> QED
  BY <1>1, <1>2, <1>3

LEMMA KeepsBoth ==
  ASSUME NEW b, Keeps(b), NEW c, Keeps(c)
  PROVE  Keeps(b \o c)
<1>1. PICK t : t = b \o c
  OBVIOUS
<1>2. b \in Seq(Config!Msgs) /\ c \in Seq(Config!Msgs) /\ t \in Seq(Config!Msgs)
  BY <1>1 DEF Keeps
<1>3. ASSUME NEW k \in Config!OnceOnly, NEW v PROVE OnlyValue(k, v, t)
  <2>1. OnlyValue(k, v, b) /\ OnlyValue(k, v, c)
    BY DEF Keeps
  <2> QED
    BY ONLY <1>1, <1>2, <2>1, TellAppended
<1> QED
  BY <1>1, <1>2, <1>3 DEF Keeps

\* What loc_eng_set_server and the update of the configuration send.
LEMMA KeepsSettings ==
  ASSUME NEW K, K \subseteq Resent, NEW vals, \A k \in K : vals[k] \in Config!Vals
  PROVE  Keeps(Config!MsgsFor(K, vals))
<1>1. PICK b : b = Config!MsgsFor(K, vals)
  OBVIOUS
<1>2. b \in Seq(Config!Msgs) /\ \A k, v : (k \in K => v = vals[k]) => OnlyValue(k, v, b)
  BY ONLY <1>1, K \subseteq Resent, \A k \in K : vals[k] \in Config!Vals, MsgsForSettings
<1>3. \A k \in Config!OnceOnly : k \notin K
  BY EngineAssumption DEF Config!OnceOnly, Resent
<1> QED
  BY <1>1, <1>2, <1>3 DEF Keeps

LEMMA OnceHeld ==
  /\ "LOCK" \in Config!OnceOnly /\ "MEASUREMENT_MASK" \in Config!OnceOnly
  /\ Config!OnceOnly \subseteq Config!Settings
  /\ Config!held("LOCK") = asked["LOCK"] /\ Config!held("LOCK")' = asked'["LOCK"]
  /\ Config!held("MEASUREMENT_MASK") = IF gps_measurement_cb THEN 1 ELSE 0
  /\ Config!held("MEASUREMENT_MASK")' = IF gps_measurement_cb' THEN 1 ELSE 0
<1>1. \A k \in {"LOCK", "MEASUREMENT_MASK"} : k \notin Conf /\ k \notin Servers /\ k # "DATA"
  BY EngineAssumption
<1> QED
  BY <1>1 DEF Config!OnceOnly, Config!Settings, Config!held

\* A step that adds messages of other settings, or takes another's message.
LEMMA StaysKept ==
  ASSUME NEW k \in Config!OnceOnly, Stays(k), q \in Seq(Config!Msgs),
         NEW b, Keeps(b), NEW s \in Seq(Config!Msgs), q' = s \o b,
         s = q \/ (q # <<>> /\ s = Tail(q) /\ \A v : Head(q) # Config!Set(k, v)),
         Config!held(k)' = Config!held(k), told'[k] = told[k],
         k \in forgotten => k \in forgotten'
  PROVE  Stays(k)'
<1>1. PICK h : h = Config!held(k)
  OBVIOUS
<1>2. /\ OnlyValue(k, h, q) => OnlyValue(k, h, s)
      /\ WillTell(k, h, q, TRUE) => WillTell(k, h, s, TRUE)
  <2>1. CASE s = q
    BY <2>1
  <2>2. CASE s # q
    <3>1. q # <<>> /\ s = Tail(q) /\ Head(q) # Config!Set(k, h)
      BY <2>2
    <3>2. /\ OnlyValue(k, h, q) => OnlyValue(k, h, s)
          /\ WillTell(k, h, q, TRUE) =>
               WillTell(k, h, s, TRUE) \/ (TRUE /\ Head(q) = Config!Set(k, h) /\ OnlyValue(k, h, s))
      BY ONLY <3>1, q \in Seq(Config!Msgs), TellTaken
    <3> QED
      BY <3>1, <3>2
  <2> QED
    BY <2>1, <2>2
<1>3. b \in Seq(Config!Msgs) /\ OnlyValue(k, h, b)
  BY DEF Keeps
<1>4. /\ OnlyValue(k, h, s) => OnlyValue(k, h, q')
      /\ WillTell(k, h, s, TRUE) => WillTell(k, h, q', TRUE)
  <2>1. ASSUME OnlyValue(k, h, s) PROVE OnlyValue(k, h, q')
    BY ONLY <1>3, <2>1, s \in Seq(Config!Msgs), q' = s \o b, TellAppended
  <2>2. ASSUME WillTell(k, h, s, TRUE) PROVE WillTell(k, h, q', TRUE)
    BY ONLY <1>3, <2>2, s \in Seq(Config!Msgs), q' = s \o b, TellKept, Zenon
  <2> QED
    BY <2>1, <2>2
<1> QED
  BY <1>1, <1>2, <1>4 DEF Stays

\* A step that sends the value of k.
LEMMA StaysSent ==
  ASSUME NEW k, q \in Seq(Config!Msgs), NEW b \in Seq(Config!Msgs), q' = q \o b,
         OnlyValue(k, Config!held(k)', b), Has(Config!Set(k, Config!held(k)'), b)
  PROVE  Stays(k)'
<1>1. PICK h : h = Config!held(k)'
  OBVIOUS
<1>2. OnlyValue(k, h, b) /\ Has(Config!Set(k, h), b)
  BY <1>1
<1>3. WillTell(k, h, q', TRUE)
  BY ONLY <1>2, q \in Seq(Config!Msgs), b \in Seq(Config!Msgs), q' = q \o b, TellAppended
<1> QED
  BY <1>1, <1>3 DEF Stays

\* A step that is about neither.
LEMMA OtherOnce ==
  ASSUME SettingsInv, OnceInv, NEW b, Keeps(b), NEW s \in Seq(Config!Msgs), q' = s \o b,
         \/ s = q
         \/ /\ q # <<>> /\ s = Tail(q)
            /\ \A k \in Config!OnceOnly : \A v : Head(q) # Config!Set(k, v),
         asked' = [t \in Servers \cup {"LOCK"} |-> asked'[t]], asked'["LOCK"] = asked["LOCK"],
         adapter' = adapter,
         \A k \in Config!OnceOnly : told'[k] = told[k] /\ (k \in forgotten => k \in forgotten'),
         gps_measurement_cb' = gps_measurement_cb
  PROVE  OnceInv'
<1>1. q \in Seq(Config!Msgs)
  BY DEF SettingsInv, SetTypes
<1>2. ASSUME NEW k \in Config!OnceOnly PROVE Stays(k)'
  <2>1. Config!held(k)' = Config!held(k)
    BY OnceHeld DEF Config!OnceOnly
  <2>2. Stays(k)
    BY DEF OnceInv
  <2> QED
    BY <1>1, <2>1, <2>2, StaysKept
<1> QED
  BY <1>2 DEF OnceInv

\* One of the two is sent.
LEMMA OneSent ==
  ASSUME SettingsInv, OnceInv, NEW k \in Config!OnceOnly, NEW b \in Seq(Config!Msgs), q' = q \o b,
         Config!held(k)' \in Config!Vals,
         b \in {<<Config!Set(k, Config!held(k)')>>,
                <<Config!Msg("Init"), Config!Set(k, Config!held(k)')>>},
         \A l \in Config!OnceOnly \ {k} : Config!held(l)' = Config!held(l),
         told' = told, forgotten' = forgotten
  PROVE  \A l \in Config!OnceOnly : Stays(l)'
<1>1. q \in Seq(Config!Msgs)
  BY DEF SettingsInv, SetTypes
<1>2. PICK h : h = Config!held(k)'
  OBVIOUS
<1>3. \A i \in 1..Len(b) : b[i] \in {Config!Msg("Init"), Config!Set(k, h)}
  BY <1>2
<1>4. Len(b) \in 1..Len(b) /\ b[Len(b)] = Config!Set(k, h)
  <2>1. PICK x, y : x = Config!Set(k, h) /\ y = Config!Msg("Init")
    OBVIOUS
  <2>2. b = <<x>> \/ b = <<y, x>>
    BY <1>2, <2>1
  <2>3. Len(b) \in 1..Len(b) /\ b[Len(b)] = x
    <3>1. CASE b = <<x>>
      BY ONLY <3>1
    <3>2. CASE b = <<y, x>>
      BY ONLY <3>2
    <3> QED
      BY <2>2, <3>1, <3>2
  <2> QED
    BY <2>1, <2>3
<1>5. Has(Config!Set(k, h), b) /\ OnlyValue(k, h, b)
  BY <1>3, <1>4, SetMessages DEF Has, OnlyValue
<1>6. Stays(k)'
  BY <1>1, <1>2, <1>5, StaysSent
<1>7. ASSUME NEW l \in Config!OnceOnly \ {k} PROVE Stays(l)'
  <2>1. Stays(l)
    BY DEF OnceInv
  <2>2. PICK g : g = Config!held(l)
    OBVIOUS
  <2>3. OnlyValue(l, g, b)
    BY <1>3, SetMessages DEF OnlyValue
  <2>4. OnlyValue(l, g, q) => OnlyValue(l, g, q')
    <3> HAVE OnlyValue(l, g, q)
    <3> QED
      BY ONLY <1>1, <2>3, b \in Seq(Config!Msgs), q' = q \o b, OnlyValue(l, g, q), TellAppended
  <2>5. WillTell(l, g, q, TRUE) => WillTell(l, g, q', TRUE)
    <3> HAVE WillTell(l, g, q, TRUE)
    <3> QED
      BY ONLY <1>1, <2>3, b \in Seq(Config!Msgs), q' = q \o b, WillTell(l, g, q, TRUE), TellKept,
         Zenon
  <2> QED
    BY <2>1, <2>2, <2>4, <2>5 DEF Stays
<1> QED
  BY <1>6, <1>7

LEMMA OnceInit ==
  ASSUME SettingsInv, OnceInv, Config!loc_init
  PROVE  OnceInv'
<1>1. 0 \in Config!Vals
  BY EngineAssumption DEF Config!Vals
<1>2. /\ asked' = [asked EXCEPT !["LOCK"] = 0] /\ adapter' = TRUE
      /\ gps_measurement_cb' = IF adapter THEN gps_measurement_cb ELSE FALSE
      /\ told' = told /\ forgotten' = forgotten
      /\ q' = q \o IF adapter THEN <<Config!setGpsLockMsg(0)>>
                   ELSE <<Config!Msg("Init"), Config!setGpsLockMsg(0)>>
  BY DEF Config!loc_init, Config!loc_eng_init, Config!Sends, Config!halVars, Config!modemVars,
         SettingsInv, SetTypes
<1>3. asked' = [t \in Servers \cup {"LOCK"} |-> asked'[t]] /\ asked'["LOCK"] = 0
  BY <1>2 DEF OnceInv
<1>4. PICK b : b = IF adapter THEN <<Config!setGpsLockMsg(0)>>
                   ELSE <<Config!Msg("Init"), Config!setGpsLockMsg(0)>>
  OBVIOUS
<1>5. b \in Seq(Config!Msgs)
  <2>1. Config!setGpsLockMsg(0) \in Config!Msgs /\ Config!Msg("Init") \in Config!Msgs
    BY <1>1, NoSetting
  <2> QED
    BY <1>4, <2>1
<1>6. Config!setGpsLockMsg(0) = Config!Set("LOCK", Config!held("LOCK")')
  BY <1>3, OnceHeld DEF Config!setGpsLockMsg
<1>7. \A l \in Config!OnceOnly \ {"LOCK"} : Config!held(l)' = Config!held(l)
  BY <1>2, OnceHeld DEF OnceInv, Config!OnceOnly
<1>8. Config!held("LOCK")' \in Config!Vals /\ "LOCK" \in Config!OnceOnly
  BY <1>1, <1>3, OnceHeld
<1>9. \A l \in Config!OnceOnly : Stays(l)'
  BY <1>2, <1>4, <1>5, <1>6, <1>7, <1>8, OneSent
<1> QED
  BY <1>2, <1>3, <1>9 DEF OnceInv

LEMMA OnceOther ==
  ASSUME SettingsInv, OnceInv,
         \/ Config!loc_cleanup
         \/ Config!loc_eng_gps_measurement_init \/ Config!loc_eng_gps_measurement_close
  PROVE  OnceInv'
<1>1. {0, 1, gps_conf["GPS_LOCK"]} \subseteq Config!Vals
  BY EngineAssumption DEF Config!Vals, Config!ConfKeys, SettingsInv, SetTypes
<1>2. CASE Config!loc_cleanup
  <2>1. PICK v \in Config!Vals : v = gps_conf["GPS_LOCK"]
    BY <1>1
  <2>2. /\ asked' = [asked EXCEPT !["LOCK"] = v] /\ q' = q \o <<Config!setGpsLockMsg(v)>>
        /\ UNCHANGED <<adapter, gps_measurement_cb, told, forgotten>>
    BY <1>2, <2>1 DEF Config!loc_cleanup, Config!Sends, Config!halVars, Config!modemVars
  <2>3. asked' = [t \in Servers \cup {"LOCK"} |-> asked'[t]] /\ asked'["LOCK"] = v
    BY <2>2 DEF OnceInv
  <2>4. Config!held("LOCK")' = v /\ "LOCK" \in Config!OnceOnly
    BY <2>3, OnceHeld
  <2>5. Config!setGpsLockMsg(v) = Config!Set("LOCK", v) /\ Config!setGpsLockMsg(v) \in Config!Msgs
    BY NoSetting
  <2>6. \A l \in Config!OnceOnly \ {"LOCK"} : Config!held(l)' = Config!held(l)
    BY <2>2, OnceHeld DEF Config!OnceOnly
  <2>7. PICK b \in Seq(Config!Msgs) : b = <<Config!Set("LOCK", v)>>
    <3>1. PICK x \in Config!Msgs : x = Config!Set("LOCK", v)
      BY <2>5
    <3>2. <<x>> \in Seq(Config!Msgs)
      BY ONLY x \in Config!Msgs
    <3> QED
      BY <3>1, <3>2
  <2>8. \A l \in Config!OnceOnly : Stays(l)'
    BY <2>2, <2>4, <2>5, <2>6, <2>7, OneSent
  <2> QED
    BY <2>2, <2>3, <2>8 DEF OnceInv
<1>3. CASE Config!loc_eng_gps_measurement_init \/ Config!loc_eng_gps_measurement_close
  <2>1. PICK v \in {0, 1} : /\ q' = q \o <<Config!LocEngUpdateRegistrationMask(v)>>
                            /\ gps_measurement_cb' = (v = 1) /\ adapter
                            /\ UNCHANGED <<asked, adapter, told, forgotten>>
    <3>1. CASE Config!loc_eng_gps_measurement_init
      <4>1. /\ q' = q \o <<Config!LocEngUpdateRegistrationMask(1)>> /\ gps_measurement_cb' = TRUE
            /\ adapter /\ UNCHANGED <<asked, adapter, told, forgotten>>
        BY <3>1 DEF Config!loc_eng_gps_measurement_init, Config!Sends, Config!modemVars,
                    Config!ghosts
      <4> QED
        BY <4>1
    <3>2. CASE Config!loc_eng_gps_measurement_close
      <4>1. /\ q' = q \o <<Config!LocEngUpdateRegistrationMask(0)>> /\ gps_measurement_cb' = FALSE
            /\ adapter /\ UNCHANGED <<asked, adapter, told, forgotten>>
        BY <3>2 DEF Config!loc_eng_gps_measurement_close, Config!Sends, Config!modemVars,
                    Config!ghosts
      <4>2. gps_measurement_cb' = (0 = 1)
        <5>1. FALSE = (0 = 1)
          OBVIOUS
        <5> QED
          BY <4>1, <5>1, Zenon
      <4>3. 0 \in {0, 1}
        OBVIOUS
      <4> QED
        BY <4>1, <4>2, <4>3
    <3> QED
      BY <1>3, <3>1, <3>2
  <2>2. PICK m : m = "MEASUREMENT_MASK"
    OBVIOUS
  <2>3. Config!held(m)' = v /\ m \in Config!OnceOnly /\ v \in Config!Vals
    BY <1>1, <2>1, <2>2, OnceHeld
  <2>4. /\ Config!LocEngUpdateRegistrationMask(v) = Config!Set(m, v)
        /\ Config!LocEngUpdateRegistrationMask(v) \in Config!Msgs
    BY <2>2, <2>3, NoSetting DEF Config!LocEngUpdateRegistrationMask
  <2>5. \A l \in Config!OnceOnly \ {m} : Config!held(l)' = Config!held(l)
    BY <2>1, <2>2, OnceHeld DEF Config!OnceOnly
  <2>6. PICK b \in Seq(Config!Msgs) : b = <<Config!Set(m, v)>>
    <3>1. PICK x \in Config!Msgs : x = Config!Set(m, v)
      BY <2>4
    <3>2. <<x>> \in Seq(Config!Msgs)
      BY ONLY x \in Config!Msgs
    <3> QED
      BY <3>1, <3>2
  <2>7. \A l \in Config!OnceOnly : Stays(l)'
    BY <2>1, <2>3, <2>4, <2>5, <2>6, OneSent
  <2> QED
    BY <2>1, <2>7 DEF OnceInv
<1> QED
  BY <1>2, <1>3

\* A change of the framework that adds messages of other settings.
LEMMA OnceFramework ==
  ASSUME SettingsInv, SettingsInv', OnceInv,
         \/ Config!loc_eng_agps_init
         \/ Config!configuration_update_send \/ Config!configuration_update_restore
         \/ \E t \in Servers, v \in 1..MaxVal : Config!loc_eng_set_server_proxy(t, v)
         \/ \E v \in {0, 1}, apn \in BOOLEAN :
              Config!loc_eng_agps_ril_update_network_availability(v, apn)
         \/ \E k \in Conf \cup {"SUPL_MODE", "GPS_LOCK"}, v \in 1..MaxVal :
              Config!configuration_update_parse(k, v)
  PROVE  OnceInv'
<1>q. /\ q \in Seq(Config!Msgs) /\ hosts' \in [Servers -> Config!Vals]
      /\ gps_conf \in [Config!ConfKeys -> Config!Vals]
  BY DEF SettingsInv, SetTypes
<1>n. q' = q => q' = q \o <<>>
  BY <1>q
<1>1. /\ UNCHANGED <<adapter, gps_measurement_cb, told, forgotten>>
      /\ asked' = asked \/ \E t \in Servers : \E v : asked' = [asked EXCEPT ![t] = v]
  <2>1. CASE \E t \in Servers, v \in 1..MaxVal : Config!loc_eng_set_server_proxy(t, v)
    BY <2>1 DEF Config!loc_eng_set_server_proxy, Config!halVars, Config!modemVars
  <2>2. CASE ~\E t \in Servers, v \in 1..MaxVal : Config!loc_eng_set_server_proxy(t, v)
    BY <2>2 DEF Config!loc_eng_agps_init, Config!configuration_update_send,
       Config!configuration_update_restore, Config!loc_eng_agps_ril_update_network_availability,
       Config!configuration_update_parse, Config!halVars, Config!modemVars, Config!ghosts
  <2> QED
    BY <2>1, <2>2
<1>2. asked' = [t \in Servers \cup {"LOCK"} |-> asked'[t]] /\ asked'["LOCK"] = asked["LOCK"]
  <2>1. "LOCK" \notin Servers
    BY EngineAssumption
  <2> QED
    BY <1>1, <2>1 DEF OnceInv
<1>3. \A S : S \subseteq Servers /\ Config!loc_eng_set_server(S) =>
        \E b : Keeps(b) /\ q' = q \o b
  <2> SUFFICES ASSUME NEW S, S \subseteq Servers, Config!loc_eng_set_server(S)
               PROVE  \E b : Keeps(b) /\ q' = q \o b
    OBVIOUS
  <2>1. PICK K \in SUBSET S, h \in {hosts'} : h = hosts' /\ q' = q \o Config!MsgsFor(K, h)
    BY DEF Config!loc_eng_set_server, Config!Reachable, Config!Sends
  <2>2. K \subseteq Resent /\ \A k \in K : h[k] \in Config!Vals
    BY <1>q, <2>1 DEF Resent
  <2>3. Keeps(Config!MsgsFor(K, h))
    BY ONLY <2>2, KeepsSettings
  <2> QED
    BY <2>1, <2>3
<1>4. PICK b : Keeps(b) /\ q' = q \o b
  <2>1. CASE Config!loc_eng_agps_init
    BY <1>3, <2>1 DEF Config!loc_eng_agps_init
  <2>2. CASE Config!configuration_update_restore \/ \E k \in Conf \cup {"SUPL_MODE", "GPS_LOCK"},
               v \in 1..MaxVal : Config!configuration_update_parse(k, v)
    BY <1>n, <2>2, KeepsMessages DEF Config!configuration_update_restore,
       Config!configuration_update_parse
  <2>3. ASSUME NEW t \in Servers, NEW v \in 1..MaxVal, Config!loc_eng_set_server_proxy(t, v)
        PROVE  \E b : Keeps(b) /\ q' = q \o b
    <3>1. CASE adapter
      <4>1. {t} \subseteq Servers /\ Config!loc_eng_set_server({t})
        BY <2>3, <3>1 DEF Config!loc_eng_set_server_proxy
      <4> QED
        BY <1>3, <4>1
    <3>2. CASE ~adapter
      BY <1>n, <2>3, <3>2, KeepsMessages DEF Config!loc_eng_set_server_proxy
    <3> QED
      BY <3>1, <3>2
  <2>4. ASSUME NEW v \in {0, 1}, NEW apn \in BOOLEAN,
               Config!loc_eng_agps_ril_update_network_availability(v, apn)
        PROVE  \E b : Keeps(b) /\ q' = q \o b
    <3>1. "DATA" \in Config!Repeated /\ v \in Config!Vals
      BY EngineAssumption DEF Config!Repeated, Config!Vals
    <3>2. q' = q \o <<Config!Set("DATA", v)>> \/ q' = q
      BY <2>4 DEF Config!loc_eng_agps_ril_update_network_availability, Config!Sends,
                  Config!LocEngEnableData
    <3> QED
      BY <1>n, <3>1, <3>2, KeepsMessages
  <2>5. CASE Config!configuration_update_send
    <3>1. PICK K, u, g : /\ K = Config!Changed \cap Conf /\ g = gps_conf
                         /\ u = IF "SUPL_MODE" \in Config!Changed THEN <<Config!Msg("SuplMode")>>
                                ELSE <<>>
      OBVIOUS
    <3>2. q' = q \o (Config!MsgsFor(K, g) \o u) \/ q' = q
      BY <2>5, <3>1 DEF Config!configuration_update_send, Config!Sends
    <3>3. K \subseteq Resent /\ \A k \in K : g[k] \in Config!Vals
      BY <1>q, <3>1 DEF Resent, Config!Changed
    <3>4. Keeps(Config!MsgsFor(K, g))
      BY ONLY <3>3, KeepsSettings
    <3>5. Keeps(u)
      BY <3>1, KeepsMessages
    <3>6. Keeps(Config!MsgsFor(K, g) \o u)
      BY ONLY <3>4, <3>5, KeepsBoth
    <3> QED
      BY <1>n, <3>2, <3>6, KeepsMessages
  <2> QED
    BY <2>1, <2>2, <2>3, <2>4, <2>5
<1> QED
  BY <1>q, <1>1, <1>2, <1>4, OtherOnce

\* The message thread.
LEMMA OnceTaken ==
  ASSUME SettingsInv, OnceInv,
         \/ Config!LocEngSuplMode \/ Config!LocEngGnssConstellationConfig
         \/ Config!LocEngSetCapabilities \/ Config!LocSsrMsg
         \/ Config!LocEngInit \/ Config!loc_eng_handle_engine_up
  PROVE  OnceInv'
<1>1. PICK o, b : /\ Config!Takes(Config!Msg(o)) /\ q' = Tail(q) \o b /\ Keeps(b)
                  /\ o \in {"Init", "Up", "Ssr", "SuplMode", "GnssConfig", "SetCapabilities"}
  <2>1. Keeps(<<Config!Msg("GnssConfig"), Config!LocEngSensorsAndXtra>>)
    <3>1. "SENSORS_AND_XTRA" \in Config!Repeated /\ 1 \in Config!Vals
      BY EngineAssumption DEF Config!Repeated, Config!Fixed, Config!Vals
    <3>2. Keeps(<<Config!Msg("GnssConfig")>>) /\ Keeps(<<Config!LocEngSensorsAndXtra>>)
      BY <3>1, KeepsMessages DEF Config!LocEngSensorsAndXtra
    <3>3. <<Config!Msg("GnssConfig"), Config!LocEngSensorsAndXtra>>
            = <<Config!Msg("GnssConfig")>> \o <<Config!LocEngSensorsAndXtra>>
      OBVIOUS
    <3>4. Keeps(<<Config!Msg("GnssConfig")>> \o <<Config!LocEngSensorsAndXtra>>)
      BY ONLY <3>2, KeepsBoth
    <3> QED
      BY <3>3, <3>4
  <2>2. q # <<>> => Tail(q) = Tail(q) \o <<>>
    BY DEF SettingsInv, SetTypes
  <2>3. ASSUME \/ Config!LocEngSuplMode \/ Config!LocEngGnssConstellationConfig
               \/ Config!LocEngSetCapabilities \/ Config!LocSsrMsg
        PROVE  \E o \in {"SuplMode", "GnssConfig", "SetCapabilities", "Ssr"} :
                 Config!Takes(Config!Msg(o)) /\ q' = Tail(q)
    BY <2>3 DEF Config!LocEngSuplMode, Config!LocEngGnssConstellationConfig,
       Config!LocEngSetCapabilities, Config!LocSsrMsg, Config!Handled
  <2>4. ASSUME Config!LocEngInit \/ Config!loc_eng_handle_engine_up
        PROVE  \E o \in {"Init", "Up"} :
                 /\ Config!Takes(Config!Msg(o))
                 /\ q' = Tail(q) \o <<Config!Msg("GnssConfig"), Config!LocEngSensorsAndXtra>>
    BY <2>4 DEF Config!LocEngInit, Config!loc_eng_handle_engine_up, Config!BeginReinit
  <2>5. \A o : Config!Takes(Config!Msg(o)) => q # <<>>
    BY DEF Config!Takes
  <2> QED
    BY <2>1, <2>2, <2>3, <2>4, <2>5, KeepsMessages
<1>2. q # <<>> /\ \A k \in Config!OnceOnly : \A v : Head(q) # Config!Set(k, v)
  BY <1>1, SetMessages DEF Config!Takes
<1>3. UNCHANGED <<adapter, gps_measurement_cb, told, forgotten, asked>>
  <2>1. CASE Config!LocEngInit \/ Config!loc_eng_handle_engine_up
    BY <2>1 DEF Config!LocEngInit, Config!loc_eng_handle_engine_up, Config!BeginReinit,
                Config!halVars, Config!modemVars, Config!ghosts
  <2>2. CASE ~(Config!LocEngInit \/ Config!loc_eng_handle_engine_up)
    BY <2>2 DEF Config!LocEngSuplMode, Config!LocEngGnssConstellationConfig,
       Config!LocEngSetCapabilities, Config!LocSsrMsg, Config!halVars, Config!modemVars,
       Config!ghosts
  <2> QED
    BY <2>1, <2>2
<1>4. Tail(q) \in Seq(Config!Msgs)
  BY <1>2 DEF SettingsInv, SetTypes
<1>5. asked' = [t \in Servers \cup {"LOCK"} |-> asked'[t]] /\ asked'["LOCK"] = asked["LOCK"]
  BY <1>3 DEF OnceInv
<1> QED
  BY <1>1, <1>2, <1>3, <1>4, <1>5, OtherOnce

LEMMA OnceReinit ==
  ASSUME SettingsInv, OnceInv,
         Config!reinit_read \/ Config!EndReinit \/ \E ok \in BOOLEAN : Config!reinit_send(ok)
  PROVE  OnceInv'
<1>q. SetTypes /\ q \in Seq(Config!Msgs)
  BY DEF SettingsInv, SetTypes
<1>n. q' = q => q' = q \o <<>>
  BY <1>q
<1>1. UNCHANGED <<adapter, gps_measurement_cb, told, forgotten, asked>>
  BY DEF Config!reinit_read, Config!EndReinit, Config!reinit_send, Config!halVars,
         Config!modemVars, Config!ghosts
<1>2. PICK b : Keeps(b) /\ q' = q \o b
  <2>1. CASE Config!reinit_read
    BY <1>n, <2>1, KeepsMessages DEF Config!reinit_read
  <2>2. CASE Config!EndReinit
    <3>1. q' = q \/ q' = Append(q, Config!Msg("SetCapabilities"))
      BY <2>2 DEF Config!EndReinit
    <3>2. Config!Msg("SetCapabilities") \in Config!Msgs
      BY SetMessages
    <3>3. Append(q, Config!Msg("SetCapabilities")) = q \o <<Config!Msg("SetCapabilities")>>
      BY <1>q, <3>2
    <3> QED
      BY <1>n, <3>1, <3>3, KeepsMessages
  <2>3. ASSUME NEW ok \in BOOLEAN, Config!reinit_send(ok) PROVE \E b : Keeps(b) /\ q' = q \o b
    <3>1. mt # Config!Idle /\ mt.val # 0
      BY <2>3, NotIdle DEF Config!reinit_send
    <3>2. /\ mt.todo \in Seq(Resent) /\ mt.todo # <<>> /\ mt.val - 1 \in Config!Vals
      BY <1>q, <3>1, ReinitTypes, EngineAssumption DEF SetTypes, Config!Vals
    <3>3. PICK l \in Resent, v \in Config!Vals : l = Head(mt.todo) /\ v = mt.val - 1
      BY <3>2
    <3>4. Config!MsgFor(l, v) = Config!Set(l, v) /\ l \in Config!Repeated
      BY MsgForSetting
    <3>5. q' = q \/ q' = Append(q, Config!Set(l, v))
      BY <2>3, <3>3, <3>4 DEF Config!reinit_send
    <3>6. Config!Set(l, v) \in Config!Msgs
      BY <3>4, SettingKinds, SetMessages
    <3>7. Append(q, Config!Set(l, v)) = q \o <<Config!Set(l, v)>>
      BY <1>q, <3>6
    <3> QED
      BY <1>n, <3>4, <3>5, <3>7, KeepsMessages
  <2> QED
    BY <2>1, <2>2, <2>3
<1>3. asked' = [t \in Servers \cup {"LOCK"} |-> asked'[t]] /\ asked'["LOCK"] = asked["LOCK"]
  BY <1>1 DEF OnceInv
<1> QED
  BY <1>q, <1>1, <1>2, <1>3, OtherOnce

LEMMA OnceSet ==
  ASSUME SettingsInv, OnceInv, NEW l \in Config!Settings, NEW v \in Config!Vals,
         Config!LocEngSet(l, v)
  PROVE  OnceInv'
<1>1. /\ q # <<>> /\ q' = Tail(q) /\ Head(q) = Config!Set(l, v)
      /\ told' = [told EXCEPT ![l] = IF open THEN v ELSE told[l]]
      /\ forgotten' = IF open THEN forgotten \ {l}
                      ELSE forgotten \cup ({l} \cap Config!OnceOnly)
      /\ UNCHANGED <<adapter, gps_measurement_cb, asked>>
  BY DEF Config!LocEngSet, Config!Takes, Config!Handled, Config!halVars, Config!ghosts
<1>2. q \in Seq(Config!Msgs) /\ told \in [Config!Settings -> Config!Vals]
  BY DEF SettingsInv, SetTypes
<1>3. Tail(q) \in Seq(Config!Msgs) /\ Tail(q) = Tail(q) \o <<>> /\ 1 \in 1..Len(q) /\ Head(q) = q[1]
  BY <1>1, <1>2
<1>4. ASSUME NEW k \in Config!OnceOnly PROVE Stays(k)'
  <2>1. Config!held(k)' = Config!held(k)
    BY <1>1, OnceHeld DEF Config!OnceOnly
  <2>2. Stays(k)
    BY DEF OnceInv
  <2>3. CASE k # l
    <3>1. /\ told'[k] = told[k] /\ (k \in forgotten => k \in forgotten')
          /\ \A w : Head(q) # Config!Set(k, w)
      BY <1>1, <1>2, <2>3, OnceHeld, SetMessages
    <3> QED
      BY <1>1, <1>2, <1>3, <2>1, <2>2, <3>1, KeepsMessages, StaysKept
  <2>4. CASE k = l
    <3>1. PICK h : h = Config!held(k)
      OBVIOUS
    <3>2. told'[k] = IF open THEN v ELSE told[k]
      BY <1>1, <1>2, <2>4
    <3>3. ~open => k \in forgotten'
      BY <1>1, <2>4
    <3>4. /\ OnlyValue(k, h, q) => OnlyValue(k, h, q')
          /\ WillTell(k, h, q, TRUE) =>
               \/ WillTell(k, h, q', TRUE)
               \/ Head(q) = Config!Set(k, h) /\ OnlyValue(k, h, q')
               \/ Head(q) = Config!Msg("Ssr")
      <4>1. /\ OnlyValue(k, h, q) => OnlyValue(k, h, Tail(q))
            /\ WillTell(k, h, q, TRUE) =>
                 \/ WillTell(k, h, Tail(q), TRUE)
                 \/ TRUE /\ Head(q) = Config!Set(k, h) /\ OnlyValue(k, h, Tail(q))
                 \/ Head(q) = Config!Msg("Ssr") /\ WillTell(k, h, Tail(q), TRUE)
        BY ONLY <1>1, <1>2, TellTaken
      <4> QED
        BY <1>1, <4>1
    <3>5. Head(q) # Config!Msg("Ssr") /\ (Head(q) = Config!Set(k, h) => v = h)
      BY <1>1, SetMessages
    <3>6. OnlyValue(k, h, q) => v = h
      BY <1>1, <1>3, <2>4 DEF OnlyValue
    <3> QED
      BY <2>1, <2>2, <3>1, <3>2, <3>3, <3>4, <3>5, <3>6 DEF Stays
  <2> QED
    BY <2>3, <2>4
<1> QED
  BY <1>1, <1>4 DEF OnceInv

LEMMA OnceModem ==
  ASSUME SettingsInv, OnceInv, Config!Crash \/ Config!Recover
  PROVE  OnceInv'
<1>1. CASE Config!Crash
  <2>1. /\ forgotten' = Config!OnceOnly
        /\ UNCHANGED <<adapter, gps_measurement_cb, asked, q>>
    BY <1>1 DEF Config!Crash, Config!halVars, Config!ghosts
  <2>2. ASSUME NEW k \in Config!OnceOnly PROVE Stays(k)'
    <3>1. Config!held(k)' = Config!held(k)
      BY <2>1, OnceHeld DEF Config!OnceOnly
    <3> QED
      BY <2>1, <3>1 DEF OnceInv, Stays
  <2> QED
    BY <2>1, <2>2 DEF OnceInv
<1>2. CASE Config!Recover
  <2>1. UNCHANGED <<adapter, gps_measurement_cb, told, forgotten, asked>>
    BY <1>2 DEF Config!Recover, Config!halVars, Config!ghosts
  <2>2. PICK b : Keeps(b) /\ q' = q \o b
    BY <1>2, KeepsMessages DEF Config!Recover, Config!Sends
  <2>3. q \in Seq(Config!Msgs)
    BY DEF SettingsInv, SetTypes
  <2>4. asked' = [t \in Servers \cup {"LOCK"} |-> asked'[t]] /\ asked'["LOCK"] = asked["LOCK"]
    BY <2>1 DEF OnceInv
  <2> QED
    BY <2>1, <2>2, <2>3, <2>4, OtherOnce
<1> QED
  BY <1>1, <1>2

LEMMA OnceStep ==
  ASSUME SettingsInv, SettingsInv', OnceInv, [Config!Next]_(Config!vars)
  PROVE  OnceInv'
<1>1. CASE UNCHANGED Config!vars
  <2>1. UNCHANGED <<adapter, gps_measurement_cb, told, forgotten, asked, q>>
    BY <1>1 DEF Config!vars, Config!halVars, Config!modemVars, Config!ghosts
  <2>2. ASSUME NEW k \in Config!OnceOnly PROVE Stays(k)'
    <3>1. Config!held(k)' = Config!held(k)
      BY <2>1, OnceHeld DEF Config!OnceOnly
    <3> QED
      BY <2>1, <3>1 DEF OnceInv, Stays
  <2> QED
    BY <2>1, <2>2 DEF OnceInv
<1>2. CASE Config!Framework
  BY <1>2, OnceInit, OnceOther, OnceFramework DEF Config!Framework
<1>3. CASE Config!MsgTaskStep
  BY <1>3, OnceTaken, OnceReinit, OnceSet DEF Config!MsgTaskStep
<1>4. CASE Config!Crash \/ Config!Recover
  BY <1>4, OnceModem
<1> QED
  BY <1>1, <1>2, <1>3, <1>4 DEF Config!Next

(***************************************************************************)
(* With nothing under way an open modem has the settings the HAL holds,    *)
(* through any number of restarts and changes, save one whose change had   *)
(* nothing to send or was overtaken by the value reinit had read           *)
(* (loc_eng_reinit, loc_eng_configuration_update); of the lock and the     *)
(* measurement mask, which are not repeated, it has the last value sent    *)
(* unless it was restarted or not open since.                              *)
(***************************************************************************)
THEOREM SettingsArrive == Config!Spec => []SettingsReachModem
<1>1. Config!Init => SettingsInv /\ OnceInv
  <2> SUFFICES ASSUME Config!Init
               PROVE  SettingsInv /\ OnceInv
    OBVIOUS
  <2>1. /\ gps_conf = [k \in Config!ConfKeys |-> IF k = "MEASUREMENTS" THEN 0 ELSE 1]
        /\ agpsStatus = 0 /\ hosts = [t \in Servers |-> 0]
        /\ adapter \in BOOLEAN /\ agps_status_cb = adapter /\ open = TRUE
        /\ q = <<>> /\ fw = Config!Idle /\ mt = Config!Idle /\ phase = "up"
        /\ told = [k \in Config!Settings |-> IF adapter /\ k \in Conf \cup Config!Fixed THEN 1 ELSE 0]
    BY DEF Config!Init, Config!loc_eng_read_config
  <2>2. {0, 1} \subseteq Config!Vals
    BY EngineAssumption DEF Config!Vals
  <2>3. SetTypes /\ OpenIsQueued
    <3>1. /\ gps_conf \in [Config!ConfKeys -> Config!Vals] /\ hosts \in [Servers -> Config!Vals]
          /\ told \in [Config!Settings -> Config!Vals]
      BY <2>1, <2>2
    <3>2. q \in Seq(Config!Msgs)
      BY <2>1
    <3> QED
      BY <2>1, <2>2, <3>1, <3>2 DEF SetTypes, OpenIsQueued
  <2>4. ASSUME NEW k \in Config!Repeated, Needed(k) PROVE told[k] = Config!held(k)
    BY <2>1, <2>4, SettingKinds DEF Needed, Config!Fixed
  <2>5. ASSUME NEW k \in Config!Repeated PROVE Arrives(k)
    <3>1. OnlyValue(k, Config!held(k), q)
      BY <2>1, OtherMessages
    <3> QED
      BY <2>4, <3>1 DEF Arrives
  <2>6. OnceInv
    <3>1. /\ asked = [t \in Servers \cup {"LOCK"} |-> 0] /\ gps_measurement_cb = FALSE
      BY DEF Config!Init
    <3>2. \A k \in Config!OnceOnly : Config!held(k) = 0
      BY <3>1, OnceHeld DEF Config!OnceOnly
    <3>3. \A k \in Config!OnceOnly : told[k] = 0
      BY <2>1, OnceHeld, EngineAssumption DEF Config!OnceOnly, Config!Fixed
    <3>4. \A k \in Config!OnceOnly : OnlyValue(k, 0, q)
      BY <2>1, OtherMessages
    <3> QED
      BY <3>1, <3>2, <3>3, <3>4 DEF OnceInv, Stays
  <2> QED
    BY <2>3, <2>5, <2>6 DEF SettingsInv
<1>2. SettingsInv /\ OnceInv /\ [Config!Next]_(Config!vars) => SettingsInv' /\ OnceInv'
  BY SettingsStep, OnceStep
<1>3. SettingsInv /\ OnceInv => SettingsReachModem
  <2> SUFFICES ASSUME SettingsInv, OnceInv, Config!Quiet
               PROVE  /\ \A k \in Config!Repeated \ (untold \cup overtaken) :
                           Config!held(k) # 0 /\ (k \in Servers => agps_status_cb)
                             => told[k] = Config!held(k)
                      /\ \A k \in Config!OnceOnly \ forgotten : told[k] = Config!held(k)
    BY DEF SettingsReachModem, Config!SettingsReachModem
  <2>q. q = <<>> /\ \A k, v, o : ~WillTell(k, v, q, o)
    BY DEF Config!Quiet, WillTell
  <2>o. \A k \in Config!OnceOnly \ forgotten : told[k] = Config!held(k)
    BY <2>q DEF OnceInv, Stays
  <2> SUFFICES ASSUME NEW k \in Config!Repeated \ (untold \cup overtaken),
                      Config!held(k) # 0, k \in Servers => agps_status_cb
               PROVE  told[k] = Config!held(k)
    BY <2>o
  <2>1. /\ q = <<>> /\ fw = Config!Idle /\ mt = Config!Idle /\ phase = "up" /\ adapter
        /\ \A m : ~Has(m, q)
    BY DEF Config!Quiet, Has
  <2>2. Needed(k) /\ ~Excepted(k) /\ ~ReinitComes(k) /\ ~ReinitReads(k) /\ ~UpdateSends(k)
    BY <2>1 DEF Needed, Excepted, ReinitComes, ReinitReads, UpdateSends
  <2> QED
    BY <2>2, <2>q DEF SettingsInv, Arrives
<1> QED
  BY <1>1, <1>2, <1>3, PTL DEF Config!Spec

-----------------------------------------------------------------------------
(***************************************************************************)
(* The connection to the daemons (DmnConn).                                *)
(***************************************************************************)

LEMMA RequestsAre ==
  ASSUME NEW S, NEW s \in Seq(S)
  PROVE  IsSelection(Dmn!RequestsOn(s), s, Dmn!Requests)
<1> DEFINE F == CHOOSE f : f = [i \in 0..Len(s) |->
                      IF i = 0 THEN <<>>
                      ELSE IF s[i] \in Dmn!Requests THEN Append(f[i - 1], s[i]) ELSE f[i - 1]]
<1>1. Dmn!RequestsOn(s) = F[Len(s)]
  BY Zenon DEF Dmn!RequestsOn
<1>2. IsSelection(F[Len(s)], s, Dmn!Requests)
  BY SelectionIs
<1> QED
  BY <1>1, <1>2

\* The requests that a message adds at the end, or takes from the front.
LEMMA RequestsChange ==
  ASSUME NEW S, NEW s \in Seq(S)
  PROVE  /\ Dmn!RequestsOn(s) \in Seq(S)
         /\ s = <<>> => Dmn!RequestsOn(s) = <<>>
         /\ \A x \in S : Dmn!RequestsOn(Append(s, x)) =
                           IF x \in Dmn!Requests THEN Append(Dmn!RequestsOn(s), x)
                           ELSE Dmn!RequestsOn(s)
         /\ s # <<>> => Dmn!RequestsOn(s) =
                          IF Head(s) \in Dmn!Requests
                          THEN <<Head(s)>> \o Dmn!RequestsOn(Tail(s))
                          ELSE Dmn!RequestsOn(Tail(s))
<1>1. IsSelection(Dmn!RequestsOn(s), s, Dmn!Requests)
  BY RequestsAre
<1>2. Dmn!RequestsOn(s) \in Seq(S)
  BY <1>1, SelectionElements
<1>3. ASSUME s = <<>> PROVE Dmn!RequestsOn(s) = <<>>
  BY <1>1, <1>3 DEF IsSelection, Selects
<1>4. ASSUME NEW x \in S
      PROVE  Dmn!RequestsOn(Append(s, x)) = IF x \in Dmn!Requests
                                            THEN Append(Dmn!RequestsOn(s), x)
                                            ELSE Dmn!RequestsOn(s)
  <2>1. IsSelection(Dmn!RequestsOn(Append(s, x)), Append(s, x), Dmn!Requests)
    BY RequestsAre, Append(s, x) \in Seq(S)
  <2> QED
    BY ONLY <1>1, <2>1, SelectionOfAppend, s \in Seq(S), x \in S
<1>5. ASSUME s # <<>>
      PROVE  Dmn!RequestsOn(s) = IF Head(s) \in Dmn!Requests
                                 THEN <<Head(s)>> \o Dmn!RequestsOn(Tail(s))
                                 ELSE Dmn!RequestsOn(Tail(s))
  <2>1. IsSelection(Dmn!RequestsOn(Tail(s)), Tail(s), Dmn!Requests)
    BY <1>5, RequestsAre, Tail(s) \in Seq(S)
  <2> QED
    BY ONLY <1>1, <1>5, <2>1, SelectionOfTail, s \in Seq(S)
<1> QED
  BY <1>2, <1>3, <1>4, <1>5 DEF IsSelection

\* Passing on what is in front, and a message at the end.
LEMMA PrefixGrows ==
  ASSUME NEW S, NEW f \in Seq(S), NEW g \in Seq(S), NEW x \in S
  PROVE  /\ Dmn!IsPrefix(f, f \o g)
         /\ Dmn!IsPrefix(f, g) => Dmn!IsPrefix(f, Append(g, x))
<1>1. /\ f \o g \in Seq(S) /\ Len(f \o g) = Len(f) + Len(g) /\ Len(f) \in Nat /\ Len(g) \in Nat
      /\ \A i \in 1..Len(f) : (f \o g)[i] = f[i]
  OBVIOUS
<1>2. Dmn!IsPrefix(f, f \o g)
  <2>1. SubSeq(f, 1, Len(f)) = SubSeq(f \o g, 1, Len(f))
    OBVIOUS
  <2> QED
    BY <1>1, <2>1 DEF Dmn!IsPrefix
<1>3. ASSUME Dmn!IsPrefix(f, g) PROVE Dmn!IsPrefix(f, Append(g, x))
  <2>1. SubSeq(Append(g, x), 1, Len(f)) = SubSeq(g, 1, Len(f))
    BY <1>1, <1>3 DEF Dmn!IsPrefix
  <2> QED
    BY <1>1, <1>3, <2>1 DEF Dmn!IsPrefix
<1> QED
  BY <1>2, <1>3

-----------------------------------------------------------------------------
Started == {"proc", "test", "post", "ended"}
Stopping == {"flagged", "unblocked", "joined"}
Unreadable(s) == InQueue({Dmn!BadMessage}, s)

DmnTypes ==
  /\ server \in {"none", "init", "ready"} \cup Started
  /\ caller \in {"idle", "wait", "blocked", "launched"} \cup Stopping
  /\ pipe \in Seq(Dmn!Messages) /\ written \in Seq(Dmn!Messages)
  /\ forwarded \in Seq(Dmn!Messages)

\* Who waits for whom.
DmnPlaces ==
  /\ caller = "idle" <=> server = "none"
  /\ caller = "blocked" => server \in {"init", "ready"}
  /\ thread_ready <=> server \in Started
  /\ ~early /\ caller \in {"launched"} \cup Stopping => server \in Started
  /\ thread_exit => server \in Started \/ caller \in Stopping
  /\ caller \in Stopping => thread_exit
  /\ server \in {"post", "ended"} => thread_exit
  /\ thread_exit => caller \in Stopping \/ Unreadable(written)
  /\ caller = "joined" => server = "ended"
  /\ ~early /\ caller = "unblocked" /\ server = "proc" => pipe # <<>>

DmnPipe ==
  /\ msgqid = IF server \in {"none", "init"} THEN "unset"
              ELSE IF server = "ended" THEN "closed" ELSE "open"
  /\ msgqid = "unset" => pipe = <<>>
  /\ Unreadable(pipe) => Unreadable(written)
  /\ Dmn!ServedInOrder

DmnInv == DmnTypes /\ DmnPlaces /\ DmnPipe

\* The messages that are told apart.
LEMMA DmnMessages ==
  /\ Dmn!Requests \subseteq Dmn!Messages
  /\ {Dmn!BadMessage, Dmn!Unblock} \subseteq Dmn!Messages
  /\ Dmn!Unblock # Dmn!BadMessage /\ Dmn!Unblock \notin Dmn!Requests
<1>1. Dmn!Unblock.type = "UNBLOCK" /\ Dmn!BadMessage.type = "oversized"
  BY DEF Dmn!Unblock, Dmn!BadMessage
<1>2. \A r \in Dmn!Requests : r.type # "UNBLOCK"
  BY DEF Dmn!Requests
<1> QED
  BY <1>1, <1>2 DEF Dmn!Messages

\* A message written to the pipe.
LEMMA PipeWrite ==
  ASSUME DmnTypes, DmnPipe, msgqid = "open", NEW m \in Dmn!Messages,
         m \notin Dmn!Requests \cup {Dmn!BadMessage},
         pipe' = Append(pipe, m), UNCHANGED <<server, msgqid, written, forwarded>>
  PROVE  pipe' \in Seq(Dmn!Messages) /\ pipe' # <<>> /\ DmnPipe'
<1>1. pipe \in Seq(Dmn!Messages)
  BY DEF DmnTypes
<1>2. pipe' \in Seq(Dmn!Messages) /\ pipe' # <<>>
  BY <1>1
<1>3. Unreadable(pipe') => Unreadable(pipe)
  BY <1>1, AppendQueue DEF Unreadable
<1>4. Dmn!RequestsOn(pipe') = Dmn!RequestsOn(pipe)
  BY <1>1, RequestsChange
<1>5. Dmn!ServedInOrder'
  BY <1>4 DEF DmnPipe, Dmn!ServedInOrder, Dmn!Served
<1>6. Unreadable(pipe)' => Unreadable(written)'
  BY <1>3 DEF DmnPipe, Unreadable
<1> QED
  BY <1>2, <1>5, <1>6 DEF DmnPipe

LEMMA UnblockKeepsDmn ==
  ASSUME DmnInv, Dmn!unblock_proc
  PROVE  DmnInv'
<1>1. /\ caller = "flagged" /\ caller' = "unblocked" /\ thread_exit' = thread_exit
      /\ pipe' = IF msgqid = "open" THEN Append(pipe, Dmn!Unblock) ELSE pipe
      /\ UNCHANGED <<server, thread_ready, msgqid, written, lost, forwarded, answers, early>>
  BY DEF Dmn!unblock_proc, Dmn!UnblockStep, Dmn!UnblockOrder, Dmn!pipewrite, DmnInv, DmnPlaces,
         Stopping
<1>2. pipe' \in Seq(Dmn!Messages) /\ DmnPipe' /\ (msgqid = "open" => pipe' # <<>>)
  <2>1. CASE msgqid = "open"
    BY <1>1, <2>1, PipeWrite, DmnMessages DEF DmnInv
  <2>2. CASE msgqid # "open"
    BY <1>1, <2>2 DEF DmnInv, DmnTypes, DmnPipe, Dmn!ServedInOrder, Dmn!Served
  <2> QED
    BY <2>1, <2>2
<1>3. DmnTypes'
  BY <1>1, <1>2 DEF DmnInv, DmnTypes, Stopping
<1>4. DmnPlaces'
  BY <1>1, <1>2 DEF DmnInv, DmnPlaces, DmnPipe, Stopping, Started
<1> QED
  BY <1>2, <1>3, <1>4 DEF DmnInv

LEMMA ServerKeepsDmn ==
  ASSUME DmnInv, Dmn!server_proc
  PROVE  DmnInv'
<1>1. /\ server = "proc" /\ server' = "test" /\ pipe # <<>> /\ pipe' = Tail(pipe)
      /\ forwarded' = IF Head(pipe) \in Dmn!Requests THEN Append(forwarded, Head(pipe))
                      ELSE forwarded
      /\ thread_exit' = (thread_exit \/ Head(pipe) = Dmn!BadMessage)
      /\ UNCHANGED <<thread_ready, msgqid, caller, written, lost, answers, early>>
  BY DEF Dmn!server_proc, Dmn!piperead, Dmn!Handle
<1>2. /\ pipe \in Seq(Dmn!Messages) /\ written \in Seq(Dmn!Messages)
      /\ forwarded \in Seq(Dmn!Messages)
  BY DEF DmnInv, DmnTypes
<1>3. pipe' \in Seq(Dmn!Messages) /\ Head(pipe) \in Dmn!Messages
  BY <1>1, <1>2
<1>4. forwarded' \in Seq(Dmn!Messages)
  BY <1>1, <1>2, <1>3
<1>5. msgqid = "open"
  BY <1>1 DEF DmnInv, DmnPipe
<1>6. forwarded' \o Dmn!RequestsOn(pipe') = Dmn!RequestsOn(written)
  <2>1. forwarded \o Dmn!RequestsOn(pipe) = Dmn!RequestsOn(written)
    BY <1>5 DEF DmnInv, DmnPipe, Dmn!ServedInOrder, Dmn!Served
  <2>2. Dmn!RequestsOn(pipe) = IF Head(pipe) \in Dmn!Requests
                               THEN <<Head(pipe)>> \o Dmn!RequestsOn(pipe')
                               ELSE Dmn!RequestsOn(pipe')
    BY <1>1, <1>2, RequestsChange
  <2>3. Dmn!RequestsOn(pipe') \in Seq(Dmn!Messages)
    BY <1>3, RequestsChange
  <2>4. Append(forwarded, Head(pipe)) \o Dmn!RequestsOn(pipe')
          = forwarded \o (<<Head(pipe)>> \o Dmn!RequestsOn(pipe'))
    BY <1>2, <1>3, <2>3
  <2> QED
    BY <1>1, <2>1, <2>2, <2>4
<1>7. Dmn!ServedInOrder'
  <2>1. Dmn!IsPrefix(forwarded', forwarded' \o Dmn!RequestsOn(pipe'))
    BY <1>3, <1>4, RequestsChange, PrefixGrows
  <2>2. written' = written
    BY <1>1
  <2> QED
    BY <1>6, <2>1, <2>2 DEF Dmn!ServedInOrder, Dmn!Served, Dmn!IsPrefix
<1>8. Unreadable(pipe') => Unreadable(written)
  BY <1>1, <1>2, TailQueue DEF Unreadable, DmnInv, DmnPipe
<1>9. Head(pipe) = Dmn!BadMessage => Unreadable(written)
  <2>1. Head(pipe) = Dmn!BadMessage => Unreadable(pipe)
    BY <1>1, <1>2 DEF Unreadable, InQueue
  <2> QED
    BY <2>1 DEF DmnInv, DmnPipe
<1>10. DmnTypes'
  BY <1>1, <1>3, <1>4 DEF DmnInv, DmnTypes, Started
<1>11. DmnPlaces'
  BY <1>1, <1>9 DEF DmnInv, DmnPlaces, Started, Stopping, Unreadable
<1>12. DmnPipe'
  BY <1>1, <1>5, <1>7, <1>8 DEF DmnPipe, DmnInv, Unreadable
<1> QED
  BY <1>10, <1>11, <1>12 DEF DmnInv

LEMMA WritingKeepsDmn ==
  ASSUME DmnInv, NEW m \in Dmn!Messages \ {Dmn!Unblock}, Dmn!DaemonWrites(m)
  PROVE  DmnInv'
<1>1. /\ msgqid # "unset" /\ written' = Append(written, m)
      /\ pipe' = IF msgqid = "open" THEN Append(pipe, m) ELSE pipe
      /\ UNCHANGED <<server, thread_exit, thread_ready, msgqid, caller, forwarded, answers,
                     early>>
  BY DEF Dmn!DaemonWrites, Dmn!pipewrite
<1>2. /\ pipe \in Seq(Dmn!Messages) /\ written \in Seq(Dmn!Messages)
      /\ forwarded \in Seq(Dmn!Messages)
  BY DEF DmnInv, DmnTypes
<1>3. pipe' \in Seq(Dmn!Messages) /\ written' \in Seq(Dmn!Messages) /\ (pipe # <<>> => pipe' # <<>>)
  BY <1>1, <1>2
<1>4. Unreadable(written) => Unreadable(written')
  BY <1>1, <1>2, AppendQueue DEF Unreadable
<1>5. Unreadable(pipe') => Unreadable(written')
  BY <1>1, <1>2, <1>4, AppendQueue DEF Unreadable, DmnInv, DmnPipe
<1>6. Dmn!RequestsOn(written') = IF m \in Dmn!Requests THEN Append(Dmn!RequestsOn(written), m)
                                 ELSE Dmn!RequestsOn(written)
  BY <1>1, <1>2, RequestsChange
<1>7. Dmn!IsPrefix(forwarded, Dmn!RequestsOn(written'))
  <2>1. Dmn!RequestsOn(written) \in Seq(Dmn!Messages)
    BY <1>2, RequestsChange
  <2>2. Dmn!IsPrefix(forwarded, Dmn!RequestsOn(written))
    BY DEF DmnInv, DmnPipe, Dmn!ServedInOrder, Dmn!Served
  <2> QED
    BY <1>2, <1>6, <2>1, <2>2, PrefixGrows
<1>8. msgqid # "closed" => forwarded \o Dmn!RequestsOn(pipe') = Dmn!RequestsOn(written')
  <2> SUFFICES ASSUME msgqid # "closed"
               PROVE  forwarded \o Dmn!RequestsOn(pipe') = Dmn!RequestsOn(written')
    OBVIOUS
  <2>1. pipe' = Append(pipe, m)
    BY <1>1 DEF DmnInv, DmnPipe
  <2>2. forwarded \o Dmn!RequestsOn(pipe) = Dmn!RequestsOn(written)
    BY DEF DmnInv, DmnPipe, Dmn!ServedInOrder, Dmn!Served
  <2>3. Dmn!RequestsOn(pipe') = IF m \in Dmn!Requests THEN Append(Dmn!RequestsOn(pipe), m)
                                ELSE Dmn!RequestsOn(pipe)
    BY <1>2, <2>1, RequestsChange
  <2>4. Dmn!RequestsOn(pipe) \in Seq(Dmn!Messages)
    BY <1>2, RequestsChange
  <2>5. forwarded \o Append(Dmn!RequestsOn(pipe), m) = Append(forwarded \o Dmn!RequestsOn(pipe), m)
    BY <1>2, <2>4
  <2> QED
    BY <1>6, <2>2, <2>3, <2>5
<1>9. Dmn!ServedInOrder'
  BY <1>1, <1>7, <1>8 DEF Dmn!ServedInOrder, Dmn!Served, Dmn!IsPrefix
<1>10. DmnTypes'
  BY <1>1, <1>3 DEF DmnInv, DmnTypes
<1>11. DmnPlaces'
  BY <1>1, <1>3, <1>4 DEF DmnInv, DmnPlaces, Unreadable
<1>12. DmnPipe'
  BY <1>1, <1>5, <1>9 DEF DmnPipe, DmnInv, Unreadable
<1> QED
  BY <1>10, <1>11, <1>12 DEF DmnInv

\* The steps that write nothing to a pipe and take nothing from it.
LEMMA OthersKeepDmn ==
  ASSUME DmnInv, UNCHANGED <<pipe, written, forwarded>>,
         \/ Dmn!launch_thelper \/ Dmn!signal_wait \/ Dmn!SpuriousWakeup \/ Dmn!unblock_thelper
         \/ Dmn!join_thelper \/ Dmn!proc_init \/ Dmn!signal_ready \/ Dmn!server_loop
         \/ \E d \in Daemons : Dmn!data_conn(d)
  PROVE  DmnInv'
<1> USE DEF Started, Stopping
<1>1. DmnTypes'
  BY DEF DmnInv, DmnTypes, DmnPlaces, Dmn!launch_thelper, Dmn!signal_wait, Dmn!SpuriousWakeup,
         Dmn!unblock_thelper, Dmn!join_thelper, Dmn!proc_init, Dmn!signal_ready,
         Dmn!server_loop, Dmn!LoopTest, Dmn!data_conn, Dmn!UnblockStep
<1>2. Unreadable(written)' = Unreadable(written) /\ Unreadable(pipe)' = Unreadable(pipe)
  BY DEF Unreadable, InQueue
<1>3. DmnPlaces'
  <2>1. CASE Dmn!launch_thelper
    BY <1>2, <2>1 DEF DmnInv, DmnPlaces, Dmn!launch_thelper
  <2>2. CASE Dmn!signal_wait
    BY <1>2, <2>2 DEF DmnInv, DmnTypes, DmnPlaces, Dmn!signal_wait
  <2>3. CASE Dmn!SpuriousWakeup
    BY <1>2, <2>3 DEF DmnInv, DmnPlaces, Dmn!SpuriousWakeup
  <2>4. CASE Dmn!unblock_thelper
    BY <1>2, <2>4 DEF DmnInv, DmnPlaces, Dmn!unblock_thelper, Dmn!UnblockStep, Dmn!UnblockOrder
  <2>5. CASE Dmn!join_thelper
    BY <1>2, <2>5 DEF DmnInv, DmnPlaces, Dmn!join_thelper
  <2>6. CASE Dmn!proc_init
    BY <1>2, <2>6 DEF DmnInv, DmnPlaces, Dmn!proc_init
  <2>7. CASE Dmn!signal_ready
    BY <1>2, <2>7 DEF DmnInv, DmnPlaces, Dmn!signal_ready
  <2>8. CASE Dmn!server_loop
    BY <1>2, <2>8 DEF DmnInv, DmnPlaces, Dmn!server_loop, Dmn!LoopTest
  <2>9. CASE \E d \in Daemons : Dmn!data_conn(d)
    BY <1>2, <2>9 DEF DmnInv, DmnPlaces, Dmn!data_conn
  <2> QED
    BY <2>1, <2>2, <2>3, <2>4, <2>5, <2>6, <2>7, <2>8, <2>9
<1>4. msgqid' = IF server' \in {"none", "init"} THEN "unset"
                ELSE IF server' = "ended" THEN "closed" ELSE "open"
  BY DEF DmnInv, DmnTypes, DmnPipe, DmnPlaces, Dmn!launch_thelper, Dmn!signal_wait,
         Dmn!SpuriousWakeup, Dmn!unblock_thelper, Dmn!UnblockStep, Dmn!UnblockOrder,
         Dmn!join_thelper, Dmn!proc_init, Dmn!pipeget, Dmn!signal_ready, Dmn!server_loop,
         Dmn!LoopTest, Dmn!data_conn
<1>5. /\ msgqid' = "unset" => msgqid = "unset"
      /\ msgqid' # "closed" => msgqid # "closed"
  BY <1>4 DEF DmnInv, DmnTypes, DmnPipe, DmnPlaces, Dmn!launch_thelper, Dmn!signal_wait,
         Dmn!SpuriousWakeup, Dmn!unblock_thelper, Dmn!UnblockStep, Dmn!UnblockOrder,
         Dmn!join_thelper, Dmn!proc_init, Dmn!pipeget, Dmn!signal_ready, Dmn!server_loop,
         Dmn!LoopTest, Dmn!data_conn
<1>6. Dmn!ServedInOrder'
  BY <1>5 DEF DmnInv, DmnPipe, Dmn!ServedInOrder, Dmn!Served, Dmn!IsPrefix
<1>7. DmnPipe'
  BY <1>2, <1>4, <1>5, <1>6 DEF DmnInv, DmnPipe
<1> QED
  BY <1>1, <1>3, <1>7 DEF DmnInv

\* The end of the thread removes the pipes with what is on them.
LEMMA EndKeepsDmn ==
  ASSUME DmnInv, Dmn!proc_post
  PROVE  DmnInv'
<1>1. /\ server = "post" /\ server' = "ended" /\ msgqid' = "closed" /\ pipe' = <<>>
      /\ UNCHANGED <<thread_exit, thread_ready, caller, written, lost, forwarded, answers, early>>
  BY DEF Dmn!proc_post, Dmn!piperemove
<1>2. DmnTypes'
  BY <1>1 DEF DmnInv, DmnTypes, Started
<1>3. DmnPlaces'
  BY <1>1 DEF DmnInv, DmnPlaces, Started, Stopping, Unreadable
<1>4. ~Unreadable(pipe')
  BY <1>1 DEF Unreadable, InQueue
<1>5. Dmn!ServedInOrder'
  BY <1>1 DEF DmnInv, DmnPipe, Dmn!ServedInOrder, Dmn!Served, Dmn!IsPrefix
<1> QED
  BY <1>1, <1>2, <1>3, <1>4, <1>5 DEF DmnInv, DmnPipe, Unreadable

LEMMA DmnStep == DmnInv /\ [Dmn!Next]_(Dmn!vars) => DmnInv'
<1> SUFFICES ASSUME DmnInv, [Dmn!Next]_(Dmn!vars)
             PROVE  DmnInv'
  OBVIOUS
<1>1. CASE UNCHANGED Dmn!vars
  BY <1>1 DEF DmnInv, DmnTypes, DmnPlaces, DmnPipe, Unreadable, InQueue, Dmn!ServedInOrder,
              Dmn!Served, Dmn!IsPrefix, Dmn!vars
<1>2. CASE Dmn!unblock_proc
  BY <1>2, UnblockKeepsDmn
<1>3. CASE Dmn!server_proc
  BY <1>3, ServerKeepsDmn
<1>4. CASE Dmn!proc_post
  BY <1>4, EndKeepsDmn
<1>5. CASE \E m \in Dmn!Messages \ {Dmn!Unblock} : Dmn!DaemonWrites(m)
  BY <1>5, WritingKeepsDmn
<1>6. CASE \/ Dmn!launch_thelper \/ Dmn!signal_wait \/ Dmn!SpuriousWakeup
           \/ Dmn!unblock_thelper \/ Dmn!join_thelper \/ Dmn!proc_init \/ Dmn!signal_ready
           \/ Dmn!server_loop \/ \E d \in Daemons : Dmn!data_conn(d)
  <2>1. UNCHANGED <<pipe, written, forwarded>>
    BY <1>6 DEF Dmn!launch_thelper, Dmn!signal_wait, Dmn!SpuriousWakeup, Dmn!unblock_thelper,
         Dmn!UnblockStep, Dmn!UnblockOrder, Dmn!join_thelper, Dmn!proc_init, Dmn!signal_ready,
         Dmn!server_loop, Dmn!data_conn
  <2> QED
    BY <1>6, <2>1, OthersKeepDmn
<1> QED
  BY <1>1, <1>2, <1>3, <1>4, <1>5, <1>6 DEF Dmn!Next, Dmn!ServerSteps

(***************************************************************************)
(* The engine gets the daemons' requests in the order they were written,   *)
(* each once, and those it does not have are on the pipe until it is       *)
(* removed; launch waits only for a server that will signal it; a server   *)
(* that is unblocked while it waits for a message finds one; and the       *)
(* thread ends only because it was told to or could not read a message,    *)
(* before its mutex is destroyed (thelper_main, loc_api_server_proc).      *)
(***************************************************************************)
THEOREM DaemonsAreServed ==
  Dmn!Spec => [](Dmn!ServedInOrder /\ Dmn!SleepersAreWoken /\ Dmn!StopsWhenTold)
<1>1. Dmn!Init => DmnInv
  <2> SUFFICES ASSUME Dmn!Init
               PROVE  DmnInv
    OBVIOUS
  <2>1. /\ server = "none" /\ thread_exit = FALSE /\ thread_ready = FALSE /\ pipe = <<>>
        /\ msgqid = "unset" /\ caller = "idle" /\ written = <<>> /\ forwarded = <<>>
    BY DEF Dmn!Init
  <2>2. <<>> \in Seq(Dmn!Messages)
    OBVIOUS
  <2>3. DmnTypes
    BY <2>1, <2>2 DEF DmnTypes
  <2>4. DmnPlaces
    BY <2>1 DEF DmnPlaces, Started, Stopping
  <2>5. Dmn!RequestsOn(<<>>) = <<>>
    BY <2>2, RequestsChange
  <2>6. <<>> \o <<>> = <<>>
    BY <2>2
  <2>7. Dmn!IsPrefix(<<>>, <<>>)
    BY <2>2, <2>6, PrefixGrows, DmnMessages
  <2>8. Dmn!ServedInOrder
    BY <2>1, <2>5, <2>6, <2>7 DEF Dmn!ServedInOrder, Dmn!Served
  <2>9. ~Unreadable(pipe)
    BY <2>1 DEF Unreadable, InQueue
  <2> QED
    BY <2>1, <2>3, <2>4, <2>8, <2>9 DEF DmnInv, DmnPipe
<1>2. DmnInv /\ [Dmn!Next]_(Dmn!vars) => DmnInv'
  BY DmnStep
<1>3. DmnInv => Dmn!ServedInOrder /\ Dmn!SleepersAreWoken /\ Dmn!StopsWhenTold
  <2> SUFFICES ASSUME DmnInv
               PROVE  Dmn!ServedInOrder /\ Dmn!SleepersAreWoken /\ Dmn!StopsWhenTold
    OBVIOUS
  <2>1. Dmn!ServedInOrder
    BY DEF DmnInv, DmnPipe
  <2>2. Dmn!SleepersAreWoken
    BY DEF DmnInv, DmnPlaces, Dmn!SleepersAreWoken
  <2>3. Unreadable(written) => Dmn!BadMessage \in Dmn!ToSet(written)
    BY DEF DmnInv, DmnTypes, Unreadable, InQueue, Dmn!ToSet
  <2>4. Dmn!StopsWhenTold
    BY <2>3 DEF DmnInv, DmnPlaces, Stopping, Dmn!StopsWhenTold
  <2> QED
    BY <2>1, <2>2, <2>4
<1> QED
  BY <1>1, <1>2, <1>3, PTL DEF Dmn!Spec

=============================================================================
