----------------------------- MODULE LocEngUlp ------------------------------
(***************************************************************************)
(* The position mode of a session and the ULP proxy, LocEngAdapter and     *)
(* loc_eng.cpp.  The framework's thread talks to the proxy in mUlp; the    *)
(* MsgTask thread replaces and deletes that proxy when the LBS library has *)
(* a better one, and keeps mFixCriteria, the mode the modem is started     *)
(* with.                                                                   *)
(*                                                                         *)
(* A proxy is a number; 0 is the UlpProxyBase of the constructor.  A base  *)
(* proxy notes what it is told and has the caller send the message; one of *)
(* the LBS library sends the same message through LocInternalAdapter.  The *)
(* modem takes calls while open and, after a restart, once LocSsrMsg has   *)
(* re-opened it; LocEngUp follows.                                         *)
(***************************************************************************)
EXTENDS Naturals, Sequences

CONSTANTS Modes,         \* position modes of GpsPositionMode
          MaxProxies,    \* bound: proxies the LBS library hands over
          MaxAsks,       \* bound: calls of the framework
          MaxSsr         \* bound: modem restarts

VARIABLES mUlp,          \* the proxy in use
          mPosMode, mFixSet,   \* per proxy, what it was told
          deleted,       \* proxies that were deleted
          given,         \* proxies handed over so far
          mFixCriteria,  \* [mode, single], the adapter's copy
          inSession,     \* mNavigating
          ulpMsgs,       \* the MsgTask queue
          asking,        \* the framework's thread, inside a call
          ssr,           \* the modem: "up", "down", "opening"
          isOpen,        \* it takes calls
          running,       \* the mode it works with, or "none"
          want,          \* what the framework last asked for: [mode, single, fix]
          asks, ssrs,
          raced,         \* a call went to a proxy that was being replaced
          restarted      \* a session was restarted and no mode was set since

proxyVars == <<mUlp, mPosMode, mFixSet, deleted, given, raced>>
sessionVars == <<mFixCriteria, inSession, restarted>>
modemVars == <<ssr, isOpen, running, ssrs>>
fwVars == <<asking, want, asks>>
vars == <<proxyVars, sessionVars, modemVars, fwVars, ulpMsgs>>

Proxies == 0..MaxProxies
Criteria == [mode: Modes \cup {"INVALID"}, single: BOOLEAN]
Idle == [op |-> "none"]

Mode(m, s) == [op |-> "Mode", mode |-> m, single |-> s]
Msg(o) == [op |-> o]
SetUlp(p) == [op |-> "SetUlp", ulp |-> p]
Calls == {Mode(m, s) : m \in Modes, s \in BOOLEAN} \cup {Msg("Start"), Msg("Stop")}
Msgs == Calls \cup {SetUlp(p) : p \in Proxies} \cup {Msg("Ssr"), Msg("Up"), Msg("Position")}

TypeOK == /\ mUlp \in Proxies /\ given \in Proxies /\ deleted \subseteq Proxies
          /\ mPosMode \in [Proxies -> Criteria] /\ mFixSet \in [Proxies -> BOOLEAN]
          /\ mFixCriteria \in Criteria
          /\ {inSession, isOpen, raced, restarted} \subseteq BOOLEAN
          /\ ulpMsgs \in Seq(Msgs)
          /\ ssr \in {"up", "down", "opening"}
          /\ running \in Modes \cup {"INVALID", "none"}
          /\ want \in [mode: Modes \cup {"INVALID"}, single: BOOLEAN, fix: BOOLEAN]
          /\ asks \in 0..MaxAsks /\ ssrs \in 0..MaxSsr

NoMode == [mode |-> "INVALID", single |-> FALSE]

\* The constructor of LocEngAdapter: a base proxy, no mode, no session.
Init == /\ mUlp = 0 /\ given = 0 /\ deleted = {}
        /\ mPosMode = [p \in Proxies |-> NoMode] /\ mFixSet = [p \in Proxies |-> FALSE]
        /\ mFixCriteria = NoMode /\ inSession = FALSE /\ restarted = FALSE
        /\ ulpMsgs = <<>> /\ asking = Idle
        /\ ssr = "up" /\ isOpen = TRUE /\ running = "none"
        /\ want = [mode |-> "INVALID", single |-> FALSE, fix |-> FALSE]
        /\ asks = 0 /\ ssrs = 0 /\ raced = FALSE

-----------------------------------------------------------------------------
(* The framework's thread: getUlpProxy() first, then the call of that      *)
(* proxy.  It sets the mode before each start.                             *)

Asks(c) == /\ asking = Idle /\ asks < MaxAsks
           /\ asks' = asks + 1
           /\ asking' = [op |-> "call", call |-> c, ulp |-> mUlp]
           /\ UNCHANGED <<proxyVars, sessionVars, modemVars, ulpMsgs>>

loc_start == /\ want.mode # "INVALID" /\ ~want.fix
             /\ Asks(Msg("Start"))
             /\ want' = [want EXCEPT !.fix = TRUE]

\* The next start needs a new mode.
loc_stop == /\ want.fix
            /\ Asks(Msg("Stop"))
            /\ want' = [mode |-> "INVALID", single |-> FALSE, fix |-> FALSE]

loc_set_position_mode(m, s) == /\ Asks(Mode(m, s))
                               /\ want' = [mode |-> m, single |-> s, fix |-> want.fix]

\* sendFixMode, sendStartFix and sendStopFix of a proxy.
Told(pos, fix, p, c) ==
  /\ pos' = IF c.op # "Mode" THEN pos
            ELSE [pos EXCEPT ![p] = [mode |-> c.mode, single |-> c.single]]
  /\ fix' = CASE c.op = "Start" -> [fix EXCEPT ![p] = TRUE]
              [] c.op = "Stop" -> [fix EXCEPT ![p] = FALSE]
              [] OTHER -> fix

\* loc_eng_start, loc_eng_stop or loc_eng_set_position_mode, from the proxy on.
CallProxy == /\ asking # Idle
             /\ asking' = Idle
             /\ Told(mPosMode, mFixSet, asking.ulp, asking.call)
             /\ ulpMsgs' = Append(ulpMsgs, asking.call)
             /\ raced' = (raced \/ asking.ulp # mUlp)
             /\ UNCHANGED <<mUlp, deleted, given, sessionVars, modemVars, want, asks>>

-----------------------------------------------------------------------------
(* The LBS library hands a proxy over, LocInternalAdapter::setUlpProxy: a  *)
(* new one, or when it is initialised twice the last one again (while its  *)
(* first message waits a second one would find it in use and do nothing).  *)
HandOver == \E ulp \in {given, given + 1} :
              /\ ulp \in 1..MaxProxies
              /\ SetUlp(ulp) \notin {ulpMsgs[i] : i \in DOMAIN ulpMsgs}
              /\ given' = ulp
              /\ ulpMsgs' = Append(ulpMsgs, SetUlp(ulp))
              /\ UNCHANGED <<mUlp, mPosMode, mFixSet, deleted, raced, sessionVars, modemVars,
                             fwVars>>

-----------------------------------------------------------------------------
(* The MsgTask thread.                                                     *)

Takes(m) == ulpMsgs # <<>> /\ Head(ulpMsgs) = m
Handled == ulpMsgs' = Tail(ulpMsgs)

\* A new proxy that is told of the mode only.
ModeOnly(pos, fix) == IF pos.mode # "INVALID" THEN <<Mode(pos.mode, pos.single)>> ELSE <<>>

\* What the new proxy is told of the old one's state.
HandedOn(pos, fix) == (IF pos.mode # "INVALID" THEN <<Mode(pos.mode, pos.single)>> ELSE <<>>)
                      \o (IF fix THEN <<Msg("Start")>> ELSE <<>>)

\* The new proxy sends what it is told, and the old one is deleted; the proxy
\* in use already is left alone.
setUlpProxy(new) ==
  /\ Takes(SetUlp(new))
  /\ IF new = mUlp THEN Handled /\ UNCHANGED <<mUlp, deleted, mPosMode, mFixSet>>
     ELSE LET told == HandedOn(mPosMode[mUlp], mFixSet[mUlp])
          IN  /\ mUlp' = new /\ deleted' = deleted \cup {mUlp}
              /\ mPosMode' = [mPosMode EXCEPT ![new] = mPosMode[mUlp]]
              /\ mFixSet' = [mFixSet EXCEPT ![new] = Msg("Start") \in {told[i] : i \in DOMAIN told}]
              /\ ulpMsgs' = Tail(ulpMsgs) \o told
  /\ UNCHANGED <<given, raced, sessionVars, modemVars, fwVars>>

\* LocApi hands a new mode to a modem at work at once.
LocEngPositionMode(m, s) ==
  /\ Takes(Mode(m, s)) /\ Handled
  /\ mFixCriteria' = [mode |-> m, single |-> s]
  /\ running' = IF isOpen /\ running # "none" THEN m ELSE running
  /\ restarted' = FALSE
  /\ UNCHANGED <<proxyVars, inSession, ssr, isOpen, ssrs, fwVars>>

\* setInSession: without a session there is no mode.
CriteriaAfter(session) == IF session THEN mFixCriteria
                                     ELSE [mFixCriteria EXCEPT !.mode = "INVALID"]

setInSession(session) == inSession' = session /\ mFixCriteria' = CriteriaAfter(session)

\* startFix(mFixCriteria); a modem that is not open fails with a code that
\* keeps the session, and an open one may fail with such a code or another.
LocEngStartFix ==
  /\ Takes(Msg("Start")) /\ Handled
  /\ \/ inSession /\ UNCHANGED <<inSession, mFixCriteria, running>>
     \/ /\ ~inSession /\ setInSession(TRUE)
        /\ running' = IF isOpen THEN mFixCriteria.mode ELSE "none"
     \/ ~inSession /\ isOpen /\ setInSession(TRUE) /\ UNCHANGED running
     \/ ~inSession /\ isOpen /\ UNCHANGED <<inSession, mFixCriteria, running>>
  /\ UNCHANGED <<proxyVars, restarted, ssr, isOpen, ssrs, fwVars>>

LocEngStopFix ==
  /\ Takes(Msg("Stop")) /\ Handled
  /\ IF inSession THEN setInSession(FALSE) /\ running' = "none"
     ELSE UNCHANGED <<inSession, mFixCriteria, running>>
  /\ UNCHANGED <<proxyVars, restarted, ssr, isOpen, ssrs, fwVars>>

\* A final position ends a single session; the recurrence outlives the mode.
LocEngReportPosition ==
  /\ Takes(Msg("Position")) /\ Handled
  /\ IF mFixCriteria.single THEN setInSession(FALSE) ELSE UNCHANGED <<inSession, mFixCriteria>>
  /\ UNCHANGED <<proxyVars, restarted, modemVars, fwVars>>

LocSsrMsg ==
  /\ Takes(Msg("Ssr")) /\ Handled
  /\ isOpen' = (ssr # "down") /\ running' = "none"
  /\ UNCHANGED <<proxyVars, sessionVars, ssr, ssrs, fwVars>>

\* "This sets the copy in adapter to modem", and the session is started again.
loc_eng_handle_engine_up ==
  /\ Takes(Msg("Up"))
  /\ IF inSession
     THEN /\ setInSession(FALSE) /\ restarted' = TRUE
          /\ ulpMsgs' = Append(Tail(ulpMsgs), Msg("Start"))
     ELSE Handled /\ UNCHANGED sessionVars
  /\ UNCHANGED <<proxyVars, modemVars, fwVars>>

-----------------------------------------------------------------------------
(* The modem.                                                              *)

\* A position goes through the proxy, which passes it on; a single fix is over.
reportPosition == /\ running # "none"
                  /\ Msg("Position") \notin {ulpMsgs[i] : i \in DOMAIN ulpMsgs}
                  /\ mFixCriteria.single
                  /\ ulpMsgs' = Append(ulpMsgs, Msg("Position"))
                  /\ running' = "none"
                  /\ UNCHANGED <<proxyVars, sessionVars, ssr, isOpen, ssrs, fwVars>>

Crash == /\ ssr = "up" /\ ssrs < MaxSsr
         /\ ssrs' = ssrs + 1 /\ ssr' = "down" /\ isOpen' = FALSE /\ running' = "none"
         /\ UNCHANGED <<proxyVars, sessionVars, ulpMsgs, fwVars>>

\* LocApiBase::handleEngineUpEvent: LocSsrMsg, then the adapter's LocEngUp.
Recover == /\ ssr # "up"
           /\ ssr' = IF ssr = "down" THEN "opening" ELSE "up"
           /\ ulpMsgs' = Append(ulpMsgs, Msg(IF ssr = "down" THEN "Ssr" ELSE "Up"))
           /\ UNCHANGED <<proxyVars, sessionVars, isOpen, running, ssrs, fwVars>>

-----------------------------------------------------------------------------
Framework == loc_start \/ loc_stop \/ CallProxy
             \/ \E m \in Modes, s \in BOOLEAN : loc_set_position_mode(m, s)

MsgTaskStep == \/ \E p \in Proxies : setUlpProxy(p)
               \/ LocEngStartFix \/ LocEngStopFix \/ LocEngReportPosition
               \/ LocSsrMsg \/ loc_eng_handle_engine_up
               \/ \E m \in Modes, s \in BOOLEAN : LocEngPositionMode(m, s)

Next == Framework \/ HandOver \/ MsgTaskStep \/ reportPosition \/ Crash \/ Recover

Spec == Init /\ [][Next]_vars

-----------------------------------------------------------------------------
Quiet == ulpMsgs = <<>> /\ asking = Idle /\ ssr = "up"
InMode == want.fix /\ ~want.single => running \in {want.mode, "none"}

(***************************************************************************)
(* The session follows the framework through changes of the mode and of    *)
(* the proxy: with nothing under way the proxy in use knows whether a fix  *)
(* is wanted and in which mode, and a modem at work on a wanted periodic   *)
(* session works in the mode last set, unless loc_eng_handle_engine_up has *)
(* restarted the session since.  A call that raced the replacement of the  *)
(* proxy is excepted: the next proxy is then told of an older mode.        *)
(***************************************************************************)
SessionFollows ==
  Quiet /\ ~raced => /\ mFixSet[mUlp] = want.fix
                     /\ want.mode # "INVALID" => mPosMode[mUlp].mode = want.mode
                     /\ ~restarted => InMode

(***************************************************************************)
(* loc_eng_handle_engine_up says of a session that it restarts: "This sets *)
(* the copy in adapter to modem".  A modem at work on a wanted periodic    *)
(* session works in the mode last set after its own restart too.           *)
(***************************************************************************)
ModeSurvivesRestart == Quiet => InMode

(***************************************************************************)
(* getUlpProxy() of the framework's thread against the deletion of the     *)
(* proxy in setUlpProxy: nobody calls a deleted proxy.  The code does not  *)
(* keep this; see Divergences in the README.                               *)
(***************************************************************************)
NoDeletedProxy == asking # Idle => asking.ulp \notin deleted
=============================================================================
