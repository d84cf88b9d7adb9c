--------------------------- MODULE LocEngSession ---------------------------
(***************************************************************************)
(* The fix session of the location engine, loc_eng.cpp and LocEngAdapter:  *)
(* the framework calls start, stop, cleanup and delete_aiding_data, the    *)
(* modem reports status and positions, crashes and comes back, and the     *)
(* engine's MsgTask thread handles one message after the other.            *)
(*                                                                         *)
(* Each call of the framework or the modem is a step that appends to the   *)
(* queue; each message is handled in one step.  The modem behind LocApi is *)
(* not in the repository; it is what the handlers use of it: it runs a fix *)
(* or not, and it takes calls from the moment LocSsrMsg has re-opened it.  *)
(***************************************************************************)
EXTENDS Naturals, Sequences

CONSTANTS Aiding,        \* bits of GpsAidingData
          MaxCalls,      \* bound: calls of the framework
          MaxCrashes,    \* bound: modem restarts
          MaxReports     \* bound: positions and network requests of the modem

ASSUME SessionAssumption ==
  MaxCalls \in Nat /\ MaxCrashes \in Nat /\ MaxReports \in Nat

VARIABLES single,        \* recurrence of the position mode
          msgs,
          mNavigating,
          mute_session_state, engine_status,
          aiding_data_for_deletion,
          modem,         \* "down", then "opening" until all is told, then "up"
          opened,        \* the modem takes calls
          fixing,        \* it works on a fix for us
          engineOn,      \* its engine is on and reported so
          toldEngine,    \* engine status last given to the framework
          wanted,        \* the framework's last call was start
          startFix,      \* what the modem made of the last start it was given
          calls, crashes, reports

engineVars == <<mNavigating, mute_session_state, engine_status,
                aiding_data_for_deletion, toldEngine, startFix>>
modemVars == <<modem, opened, fixing, engineOn>>
bounds == <<calls, crashes, reports>>
vars == <<single, msgs, engineVars, modemVars, wanted, bounds>>

Masks == (SUBSET Aiding) \ {{}}
Statuses == {"SESSION_BEGIN", "SESSION_END", "ENGINE_ON", "ENGINE_OFF"}

StartFix == [op |-> "StartFix"]
StopFix == [op |-> "StopFix"]
Down == [op |-> "Down"]
Up == [op |-> "Up"]
Ssr == [op |-> "Ssr"]
RequestNi == [op |-> "RequestNi"]
DelAidData(f) == [op |-> "DelAidData", type |-> f]
ReportStatus(s) == [op |-> "ReportStatus", status |-> s]
ReportPosition(s, p) == [op |-> "ReportPosition", status |-> s, passes |-> p]

Msgs == {StartFix, StopFix, Down, Up, Ssr, RequestNi}
        \cup {DelAidData(f) : f \in Masks}
        \cup {ReportStatus(s) : s \in Statuses}
        \cup {ReportPosition(s, p) : s \in {"SUCCESS", "INTERMEDIATE", "FAILURE"}, p \in BOOLEAN}

TypeOK ==
  /\ single \in BOOLEAN
  /\ msgs \in Seq(Msgs)
  /\ mNavigating \in BOOLEAN
  /\ mute_session_state \in {"NONE", "WAIT", "IN_SESSION"}
  /\ engine_status \in {"NONE", "ENGINE_ON", "ENGINE_OFF"}
  /\ aiding_data_for_deletion \subseteq Aiding
  /\ modem \in {"up", "down", "opening"}
  /\ opened \in BOOLEAN /\ fixing \in BOOLEAN /\ engineOn \in BOOLEAN
  /\ (opened \/ engineOn => modem # "down") /\ (fixing => opened)
  /\ toldEngine \in {"NONE", "ENGINE_ON", "ENGINE_OFF"}
  /\ wanted \in BOOLEAN /\ startFix \in {"taken", "kept", "refused"}
  /\ calls \in 0..MaxCalls /\ crashes \in 0..MaxCrashes /\ reports \in 0..MaxReports

\* loc_eng_init has run and the modem is open; memset cleared the rest.
Init ==
  /\ single \in BOOLEAN
  /\ msgs = <<>>
  /\ mNavigating = FALSE
  /\ mute_session_state = "NONE" /\ engine_status = "NONE"
  /\ aiding_data_for_deletion = {}
  /\ modem = "up" /\ opened = TRUE /\ fixing = FALSE /\ engineOn = FALSE
  /\ toldEngine = "NONE"
  /\ wanted = FALSE /\ startFix = "taken"
  /\ calls = 0 /\ crashes = 0 /\ reports = 0

sendMsg(m) == msgs' = Append(msgs, m)

-----------------------------------------------------------------------------
(* The framework.                                                          *)

Calls == calls < MaxCalls /\ calls' = calls + 1 /\ UNCHANGED <<crashes, reports>>

loc_eng_start ==
  /\ Calls
  /\ sendMsg(StartFix)
  /\ wanted' = TRUE
  /\ UNCHANGED <<single, engineVars, modemVars>>

loc_eng_stop ==
  /\ Calls
  /\ sendMsg(StopFix)
  /\ wanted' = FALSE
  /\ UNCHANGED <<single, engineVars, modemVars>>

\* The framework has stopped before it cleans up; isInSession may be late.
loc_eng_cleanup ==
  /\ Calls
  /\ ~wanted
  /\ IF mNavigating THEN sendMsg(StopFix) ELSE UNCHANGED msgs
  /\ UNCHANGED <<single, engineVars, modemVars, wanted>>

loc_eng_delete_aiding_data(f) ==
  /\ Calls
  /\ sendMsg(DelAidData(f))
  /\ UNCHANGED <<single, engineVars, modemVars, wanted>>

-----------------------------------------------------------------------------
(* The modem, as the handlers see it.                                      *)

Reports == reports < MaxReports /\ reports' = reports + 1 /\ UNCHANGED <<calls, crashes>>

EngineTurnsOn ==
  /\ fixing /\ ~engineOn
  /\ engineOn' = TRUE
  /\ msgs' = msgs \o <<ReportStatus("SESSION_BEGIN"), ReportStatus("ENGINE_ON")>>
  /\ UNCHANGED <<single, engineVars, modem, opened, fixing, wanted, bounds>>

EngineTurnsOff ==
  /\ ~fixing /\ engineOn
  /\ engineOn' = FALSE
  /\ msgs' = msgs \o <<ReportStatus("SESSION_END"), ReportStatus("ENGINE_OFF")>>
  /\ UNCHANGED <<single, engineVars, modem, opened, fixing, wanted, bounds>>

\* A single fix is over for the modem with its final position or failure.
SendsPosition(s, p) ==
  /\ Reports
  /\ fixing
  /\ sendMsg(ReportPosition(s, p))
  /\ fixing' = ~(single /\ s # "INTERMEDIATE")
  /\ UNCHANGED <<single, engineVars, modem, opened, engineOn, wanted>>

\* A network-initiated request with GPS_NI_PRIVACY_OVERRIDE.
SendsNi ==
  /\ Reports
  /\ opened
  /\ sendMsg(RequestNi)
  /\ UNCHANGED <<single, engineVars, modemVars, wanted>>

Crash ==
  /\ modem = "up"
  /\ crashes < MaxCrashes /\ crashes' = crashes + 1 /\ UNCHANGED <<calls, reports>>
  /\ modem' = "down" /\ opened' = FALSE /\ fixing' = FALSE /\ engineOn' = FALSE
  /\ sendMsg(Down)
  /\ UNCHANGED <<single, engineVars, wanted>>

\* LocApiBase::handleEngineUpEvent sends LocSsrMsg ...
Recover ==
  /\ modem = "down"
  /\ modem' = "opening"
  /\ sendMsg(Ssr)
  /\ UNCHANGED <<single, engineVars, opened, fixing, engineOn, wanted, bounds>>

\* ... and then has the adapter send LocEngUp.
handleEngineUpEvent ==
  /\ modem = "opening"
  /\ modem' = "up"
  /\ sendMsg(Up)
  /\ UNCHANGED <<single, engineVars, opened, fixing, engineOn, wanted, bounds>>

-----------------------------------------------------------------------------
(* The MsgTask thread.                                                     *)

Takes(m) == msgs # <<>> /\ Head(msgs) = m
Handled == msgs' = Tail(msgs)
HandledThenSent(m) == msgs' = Append(Tail(msgs), m)

\* A start that only notes that it started.
start_handlerFlagOnly ==
  /\ Takes(StartFix) /\ Handled
  /\ mNavigating' = TRUE /\ UNCHANGED <<fixing, startFix>>
  /\ UNCHANGED <<single, mute_session_state, engine_status, aiding_data_for_deletion,
                 toldEngine, modem, opened, engineOn, wanted, bounds>>

(***************************************************************************)
(* startFix of a modem that is not open fails with one of the codes that   *)
(* keep the session (ENGINE_DOWN, PHONE_OFFLINE, INTERNAL).  An open one   *)
(* starts, fails with one of these and starts nothing, or refuses with     *)
(* another code, but does not refuse what it is already doing.             *)
(***************************************************************************)
loc_eng_start_handler ==
  /\ Takes(StartFix) /\ Handled
  /\ \/ mNavigating /\ UNCHANGED <<mNavigating, fixing, startFix>>
     \/ ~mNavigating /\ mNavigating' = TRUE /\ fixing' = opened /\ startFix' = "taken"
     \/ /\ ~mNavigating /\ opened
        /\ mNavigating' = TRUE /\ startFix' = "kept" /\ UNCHANGED fixing
     \/ /\ ~mNavigating /\ opened /\ ~fixing
        /\ startFix' = "refused" /\ UNCHANGED <<mNavigating, fixing>>
  /\ UNCHANGED <<single, mute_session_state, engine_status, aiding_data_for_deletion,
                 toldEngine, modem, opened, engineOn, wanted, bounds>>

\* A stop that leaves the modem at work.
stop_handlerFlagOnly ==
  /\ Takes(StopFix) /\ Handled
  /\ mNavigating' = FALSE
  /\ UNCHANGED <<single, mute_session_state, engine_status, aiding_data_for_deletion,
                 toldEngine, startFix, modemVars, wanted, bounds>>

loc_eng_stop_handler ==
  /\ Takes(StopFix) /\ Handled
  /\ mNavigating' = FALSE
  /\ fixing' = (fixing /\ ~mNavigating)
  /\ UNCHANGED <<single, mute_session_state, engine_status, aiding_data_for_deletion,
                 toldEngine, startFix, modem, opened, engineOn, wanted, bounds>>

\* A muted session that only ends with SESSION_END.
muteAfterSessionOnly(status) ==
  CASE mute_session_state = "WAIT" /\ status \in {"SESSION_BEGIN", "ENGINE_ON"} -> "IN_SESSION"
    [] mute_session_state = "IN_SESSION" /\ status = "SESSION_END" -> "NONE"
    [] OTHER -> mute_session_state

muteAfter(status) ==
  CASE mute_session_state = "WAIT" /\ status \in {"SESSION_BEGIN", "ENGINE_ON"} -> "IN_SESSION"
    [] mute_session_state = "IN_SESSION" /\ status \in {"SESSION_END", "ENGINE_OFF"} -> "NONE"
    [] OTHER -> mute_session_state

\* Only ENGINE_ON and ENGINE_OFF are kept, and told unless muted.
loc_eng_report_status(status) ==
  /\ mute_session_state' = muteAfter(status)
  /\ IF status \in {"ENGINE_ON", "ENGINE_OFF"}
     THEN /\ engine_status' = status
          /\ toldEngine' = IF muteAfter(status) = "IN_SESSION" THEN toldEngine ELSE status
     ELSE UNCHANGED <<engine_status, toldEngine>>

\* The mask goes to the modem unless the engine is on.
update_aiding_data_for_deletion(status, mask) ==
  aiding_data_for_deletion' = IF status = "ENGINE_ON" THEN mask ELSE {}

LocEngReportStatus(status) ==
  /\ Takes(ReportStatus(status)) /\ Handled
  /\ loc_eng_report_status(status)
  /\ update_aiding_data_for_deletion(engine_status', aiding_data_for_deletion)
  /\ UNCHANGED <<single, mNavigating, startFix, modemVars, wanted, bounds>>

\* A new mask replaces the one that is waiting.
LocEngDelAidData(f) ==
  /\ Takes(DelAidData(f)) /\ Handled
  /\ update_aiding_data_for_deletion(engine_status, f)
  /\ UNCHANGED <<single, mNavigating, mute_session_state, engine_status, toldEngine,
                 startFix, modemVars, wanted, bounds>>

(***************************************************************************)
(* A position that is reported ends a single session; an intermediate one  *)
(* also stops the modem.  passes is the filter on technology and accuracy. *)
(***************************************************************************)
LocEngReportPosition(s, p) ==
  /\ Takes(ReportPosition(s, p)) /\ Handled
  /\ IF mute_session_state # "IN_SESSION" /\ single /\ (s = "FAILURE" \/ p)
     THEN mNavigating' = FALSE /\ fixing' = (fixing /\ s # "INTERMEDIATE")
     ELSE UNCHANGED <<mNavigating, fixing>>
  /\ UNCHANGED <<single, mute_session_state, engine_status, aiding_data_for_deletion,
                 toldEngine, startFix, modem, opened, engineOn, wanted, bounds>>

loc_eng_mute_one_session ==
  /\ Takes(RequestNi) /\ Handled
  /\ mute_session_state' = "WAIT"
  /\ UNCHANGED <<single, mNavigating, engine_status, aiding_data_for_deletion,
                 toldEngine, startFix, modemVars, wanted, bounds>>

\* Engine down that tells nobody.
engine_downSilent ==
  /\ Takes(Down) /\ Handled
  /\ UNCHANGED <<single, engineVars, modemVars, wanted, bounds>>

loc_eng_handle_engine_down ==
  /\ Takes(Down) /\ Handled
  /\ loc_eng_report_status("ENGINE_OFF")
  /\ UNCHANGED <<single, mNavigating, aiding_data_for_deletion, startFix,
                 modemVars, wanted, bounds>>

\* close(), which ends what the modem does for us, and open().
LocSsrMsg ==
  /\ Takes(Ssr) /\ Handled
  /\ opened' = (modem # "down")
  /\ fixing' = FALSE
  /\ UNCHANGED <<single, engineVars, modem, engineOn, wanted, bounds>>

\* Engine up that leaves the session flag set.
engine_upFlagKept ==
  /\ Takes(Up)
  /\ IF mNavigating THEN HandledThenSent(StartFix) ELSE Handled
  /\ UNCHANGED <<single, engineVars, modemVars, wanted, bounds>>

loc_eng_handle_engine_up ==
  /\ Takes(Up)
  /\ mNavigating' = FALSE
  /\ IF mNavigating THEN HandledThenSent(StartFix) ELSE Handled
  /\ UNCHANGED <<single, mute_session_state, engine_status, aiding_data_for_deletion,
                 toldEngine, startFix, modemVars, wanted, bounds>>

-----------------------------------------------------------------------------
Framework == loc_eng_start \/ loc_eng_stop \/ loc_eng_cleanup
             \/ \E f \in Masks : loc_eng_delete_aiding_data(f)

Modem == \/ EngineTurnsOn \/ EngineTurnsOff \/ SendsNi \/ Crash
         \/ Recover \/ handleEngineUpEvent
         \/ \E s \in {"SUCCESS", "INTERMEDIATE", "FAILURE"}, p \in BOOLEAN : SendsPosition(s, p)

MsgTaskStep ==
  \/ loc_eng_start_handler \/ loc_eng_stop_handler \/ loc_eng_mute_one_session
  \/ loc_eng_handle_engine_down \/ LocSsrMsg \/ loc_eng_handle_engine_up
  \/ \E f \in Masks : LocEngDelAidData(f)
  \/ \E s \in Statuses : LocEngReportStatus(s)
  \/ \E s \in {"SUCCESS", "INTERMEDIATE", "FAILURE"}, p \in BOOLEAN : LocEngReportPosition(s, p)

Next == Framework \/ Modem \/ MsgTaskStep

Spec == Init /\ [][Next]_vars

\* The MsgTask thread runs, and a modem that is down comes back.
FairSpec == Spec /\ WF_vars(MsgTaskStep) /\ WF_vars(Recover \/ handleEngineUpEvent)

-----------------------------------------------------------------------------
Quiet == msgs = <<>> /\ modem # "opening"

(***************************************************************************)
(* loc_eng_handle_engine_up: "If we crashed in the middle of navigating,   *)
(* we restart."  However starts, stops, crashes and restarts interleave in *)
(* the queue, when it is empty a periodic session that the framework wants *)
(* is in session unless the modem refused it, and an open modem works on   *)
(* it if it took the start: one that failed with a code that keeps the     *)
(* session stays idle, in session, until its next restart.                 *)
(***************************************************************************)
WantedIsInSession ==
  Quiet /\ wanted /\ ~single =>
    /\ startFix # "refused" => mNavigating
    /\ opened /\ startFix = "taken" => fixing

(***************************************************************************)
(* The modem does not work on a periodic fix for nobody: with the queue    *)
(* empty, a modem at work has a session that a stop would end.             *)
(***************************************************************************)
NoOrphanFix == Quiet /\ fixing /\ ~single => mNavigating

(***************************************************************************)
(* The end of the engine is seen, through every order of status reports,   *)
(* network requests and crashes of the modem: with the queue empty a muted *)
(* session mutes no longer than the engine is on, and what the framework   *)
(* was last told of the engine is not a stale ON.                          *)
(***************************************************************************)
EngineEndIsSeen ==
  Quiet => /\ mute_session_state = "IN_SESSION" => engineOn
           /\ toldEngine = "ENGINE_ON" => engineOn

(***************************************************************************)
(* A periodic session that is wanted gets a modem at work, over crashes of *)
(* the modem, unless the framework gives up or an open modem fails the     *)
(* start (nobody tries again before the modem's next restart).             *)
(***************************************************************************)
WantedIsServed == wanted /\ ~single ~> fixing \/ ~wanted \/ startFix # "taken"

(***************************************************************************)
(* loc_eng_stop: "Stops the tracking session".  With the queue empty and   *)
(* stop the framework's last call, no periodic session is running.         *)
(***************************************************************************)
StopMeansStopped == Quiet /\ ~wanted /\ ~single => ~mNavigating /\ ~fixing
=============================================================================
