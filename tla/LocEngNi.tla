------------------------------ MODULE LocEngNi ------------------------------
(***************************************************************************)
(* Network initiated requests, loc_eng_ni.cpp: the modem asks whether it   *)
(* may locate the device, the user answers in the framework, and a thread  *)
(* per request waits for the answer, up to respTimeLeft seconds, and hands *)
(* it to the modem.                                                        *)
(*                                                                         *)
(* Three kinds of threads share a loc_eng_ni_session_s_type: the message   *)
(* thread (request handler and engine restart), the user's thread in       *)
(* loc_eng_ni_respond and the ni_thread_procs.  tLock guards respRecvd and *)
(* resp, but not rawRequest and reqID: what is done under the lock with    *)
(* the first two is one step, and an access to rawRequest is a step of its *)
(* own, under the lock or not, except where loc_eng_ni_respond tests reqID *)
(* and rawRequest of a session in one condition.  respTimeLeft is          *)
(* abstracted: a thread may time out whenever it waits.                    *)
(***************************************************************************)
EXTENDS Naturals, FiniteSets, Sequences, SequencesExt

CONSTANTS Requests,     \* the modem's requests, numbered; each is a block
          Emergency,    \* those of type GPS_NI_TYPE_EMERGENCY_SUPL
          UserChoices,  \* the responses the user chooses from
          MaxRestarts,  \* bound: modem restarts
          NULL          \* no request, no message, reqID 0

ASSUME NiAssumption ==
  /\ Requests \subseteq Nat /\ NULL \notin Requests
  /\ Emergency \subseteq Requests
  /\ UserChoices \subseteq {"ACCEPT", "DENY", "NORESP"}
  /\ MaxRestarts \in Nat

Sessions == {"session", "sessionEs"}
sessionOf(r) == IF r \in Emergency THEN "sessionEs" ELSE "session"

Responses == {"ACCEPT", "DENY", "NORESP", "IGNORE", "unset"}

VARIABLES rawRequest, reqID, respRecvd, resp,  \* the fields of each session
          tpc,       \* where the ni_thread_proc started for a request is
          tmsg,      \* the LocEngInformNiResponse that thread has made
          msgs,      \* the queue of the message thread
          hpc,       \* where the message thread is in a handler
          upc,       \* where the user's thread is in loc_eng_ni_respond
          shown,     \* requests the user was notified of and has not answered
          userSaid,  \* what the user answered to each request
          told,      \* what the modem was told about each request
          freed,     \* how often each request's block was freed
          asked,     \* requests the modem has made
          dropped,   \* requests cleared by an engine restart
          restarts

session == <<rawRequest, reqID, respRecvd, resp>>
thread == <<tpc, tmsg>>
client == <<shown, userSaid>>
modem == <<told, asked, restarts>>
vars == <<session, thread, msgs, hpc, upc, client, modem, freed, dropped>>

Idle == [at |-> "idle"]
\* The answer of a thread that found rawRequest cleared has no request.
Answer == [req : Requests \cup {NULL}, resp : Responses]
ASSUME NullAssumption == NULL \notin Answer

Msg == [type : {"LocEngRequestNi"}, req : Requests]
       \cup [type : {"LocEngDown"}]
       \cup [type : {"LocEngInformNiResponse"}, answer : Answer]

TypeOK ==
  /\ rawRequest \in [Sessions -> Requests \cup {NULL}]
  /\ reqID \in [Sessions -> Requests \cup {NULL}]
  /\ respRecvd \in [Sessions -> BOOLEAN]
  /\ resp \in [Sessions -> Responses]
  /\ tpc \in [Requests -> {"none", "failed", "start", "wait", "woken",
                           "make", "clear", "unlocked", "done"}]
  /\ tmsg \in [Requests -> Answer \cup {NULL}]
  /\ msgs \in Seq(Msg)
  /\ hpc \in {Idle} \cup [at : {"notify"}, req : Requests]
             \cup [at : {"test", "free", "clear", "signal"}, ses : Sessions]
  /\ upc \in {Idle}
             \cup [at : {"accept", "ignore", "set"}, ses : Sessions, resp : UserChoices]
  /\ shown \subseteq Requests
  /\ userSaid \in [Requests -> UserChoices \cup {NULL}]
  /\ told \in [Requests -> Responses \cup {NULL}]
  /\ freed \in [Requests -> Nat]
  /\ asked \subseteq Requests /\ dropped \subseteq Requests
  /\ restarts \in 0..MaxRestarts

\* loc_eng_ni_init has run; loc_eng_data is static, so resp is 0.
Init ==
  /\ rawRequest = [s \in Sessions |-> NULL]
  /\ reqID = [s \in Sessions |-> NULL]
  /\ respRecvd = [s \in Sessions |-> FALSE]
  /\ resp = [s \in Sessions |-> "unset"]
  /\ tpc = [r \in Requests |-> "none"]
  /\ tmsg = [r \in Requests |-> NULL]
  /\ msgs = <<>> /\ hpc = Idle /\ upc = Idle
  /\ shown = {}
  /\ userSaid = [r \in Requests |-> NULL]
  /\ told = [r \in Requests |-> NULL]
  /\ freed = [r \in Requests |-> 0]
  /\ asked = {} /\ dropped = {}
  /\ restarts = 0

-----------------------------------------------------------------------------
(* The modem.                                                              *)

\* Requests are numbered as they come.
ModemRequests(r) ==
  /\ r \notin asked
  /\ \A q \in Requests : q < r => q \in asked
  /\ asked' = asked \cup {r}
  /\ msgs' = Append(msgs, [type |-> "LocEngRequestNi", req |-> r])
  /\ UNCHANGED <<session, thread, hpc, upc, client, told, restarts, freed, dropped>>

ModemRestarts ==
  /\ restarts < MaxRestarts
  /\ restarts' = restarts + 1
  /\ msgs' = Append(msgs, [type |-> "LocEngDown"])
  /\ UNCHANGED <<session, thread, hpc, upc, client, told, asked, freed, dropped>>

-----------------------------------------------------------------------------
(* The message thread.                                                     *)

Free(r) == freed' = [freed EXCEPT ![r] = @ + 1]

\* The message thread takes its next message, of this type.
Takes(type) ==
  /\ hpc = Idle
  /\ msgs # <<>> /\ Head(msgs).type = type
  /\ msgs' = Tail(msgs)

\* A handler that lets a new SUPL request take the place of the last one.
inProgressEsOnly(r) == rawRequest["sessionEs"] # NULL

\* One session or the other is busy with an earlier request.
inProgress(r) ==
  \/ rawRequest["sessionEs"] # NULL
  \/ r \notin Emergency /\ rawRequest["session"] # NULL

\* loc_eng_ni_request_handler: a request that is ignored.
IgnoreRequest ==
  /\ Takes("LocEngRequestNi")
  /\ inProgress(Head(msgs).req)
  /\ Free(Head(msgs).req)
  /\ UNCHANGED <<session, thread, hpc, upc, client, modem, dropped>>

\* loc_eng_ni_request_handler up to "Save request".
AcceptRequest ==
  /\ Takes("LocEngRequestNi")
  /\ LET r == Head(msgs).req IN
       /\ ~inProgress(r)
       /\ rawRequest' = [rawRequest EXCEPT ![sessionOf(r)] = r]
       /\ hpc' = [at |-> "notify", req |-> r]
  /\ UNCHANGED <<reqID, respRecvd, resp, thread, upc, client, modem, freed, dropped>>

\* loc_eng_ni_request_handler from the request ID to ni_notify_cb.  When
\* pthread_create fails the handler only logs it.
Notify ==
  /\ hpc.at = "notify"
  /\ reqID' = [reqID EXCEPT ![sessionOf(hpc.req)] = hpc.req]
  /\ \E pc \in {"start", "failed"} : tpc' = [tpc EXCEPT ![hpc.req] = pc]
  /\ shown' = shown \cup {hpc.req}
  /\ hpc' = Idle
  /\ UNCHANGED <<rawRequest, respRecvd, resp, tmsg, msgs, upc, userSaid, modem,
                 freed, dropped>>

\* LocEngInformNiResponse: proc() and the destructor.  Without a request it
\* tells the modem of none, and free(NULL) does nothing.
InformNiResponse ==
  /\ Takes("LocEngInformNiResponse")
  /\ LET a == Head(msgs).answer IN
       \/ a.req = NULL /\ UNCHANGED <<told, freed>>
       \/ a.req # NULL /\ told' = [told EXCEPT ![a.req] = a.resp] /\ Free(a.req)
  /\ UNCHANGED <<session, thread, hpc, upc, client, asked, restarts, dropped>>

\* The threads of session s that have its tLock over a step.
Holders(s) == {t \in Requests : sessionOf(t) = s /\ tpc[t] \in {"make", "clear"}}

Waiting(s) == {t \in Requests : sessionOf(t) = s /\ tpc[t] = "wait"}

\* pthread_cond_signal on tCond wakes one thread of the session, if one waits.
pthread_cond_signal(s) ==
  IF Waiting(s) = {} THEN UNCHANGED tpc
  ELSE \E t \in Waiting(s) : tpc' = [tpc EXCEPT ![t] = "woken"]

\* loc_eng_ni_respond that only leaves the answer to be found.
respondUnsignalled(s, a) ==
  /\ Holders(s) = {}
  /\ resp' = [resp EXCEPT ![s] = a]
  /\ respRecvd' = [respRecvd EXCEPT ![s] = TRUE]
  /\ UNCHANGED tpc

\* An answer left for the session's thread, under tLock.
respond(s, a) ==
  /\ Holders(s) = {}
  /\ resp' = [resp EXCEPT ![s] = a]
  /\ respRecvd' = [respRecvd EXCEPT ![s] = TRUE]
  /\ pthread_cond_signal(s)

(***************************************************************************)
(* loc_eng_ni_reset_on_engine_restart: first sessionEs, then session.      *)
(***************************************************************************)
nextSession(s) ==
  IF s = "sessionEs" THEN [at |-> "test", ses |-> "session"] ELSE Idle

Test(s) ==
  IF rawRequest[s] # NULL THEN [at |-> "free", ses |-> s] ELSE nextSession(s)

EngineDown ==
  /\ Takes("LocEngDown")
  /\ hpc' = Test("sessionEs")
  /\ UNCHANGED <<session, thread, upc, client, modem, freed, dropped>>

ResetTest ==
  /\ hpc.at = "test"
  /\ hpc' = Test(hpc.ses)
  /\ UNCHANGED <<session, thread, msgs, upc, client, modem, freed, dropped>>

\* free(rawRequest), which the thread may have cleared since the test.
ResetFree ==
  /\ hpc.at = "free"
  /\ IF rawRequest[hpc.ses] = NULL THEN UNCHANGED freed
     ELSE Free(rawRequest[hpc.ses])
  /\ hpc' = [hpc EXCEPT !.at = "clear"]
  /\ UNCHANGED <<session, thread, msgs, upc, client, modem, dropped>>

\* The reset without rawRequest = NULL.
ResetClearForgotten ==
  /\ hpc.at = "clear"
  /\ dropped' = dropped \cup ({rawRequest[hpc.ses]} \ {NULL})
  /\ hpc' = [hpc EXCEPT !.at = "signal"]
  /\ UNCHANGED <<session, thread, msgs, upc, client, modem, freed>>

ResetClear ==
  /\ hpc.at = "clear"
  /\ dropped' = dropped \cup ({rawRequest[hpc.ses]} \ {NULL})
  /\ rawRequest' = [rawRequest EXCEPT ![hpc.ses] = NULL]
  /\ hpc' = [hpc EXCEPT !.at = "signal"]
  /\ UNCHANGED <<reqID, respRecvd, resp, thread, msgs, upc, client, modem, freed>>

\* "the goal is to wake up ni_thread_proc and let it exit"
ResetSignal ==
  /\ hpc.at = "signal"
  /\ respond(hpc.ses, resp[hpc.ses])
  /\ hpc' = nextSession(hpc.ses)
  /\ UNCHANGED <<rawRequest, reqID, tmsg, msgs, upc, client, modem, freed, dropped>>

MsgTaskStep ==
  \/ IgnoreRequest \/ AcceptRequest \/ Notify \/ InformNiResponse
  \/ EngineDown \/ ResetTest \/ ResetFree \/ ResetClear \/ ResetSignal

-----------------------------------------------------------------------------
(* ni_thread_proc, started for request t.                                  *)

(***************************************************************************)
(* Past the loop: a thread that finds a request in the session goes on to  *)
(* make an answer of it, and one that finds none unlocks.                  *)
(***************************************************************************)
EndWait(t, a) ==
  LET s == sessionOf(t) IN
  /\ resp' = [resp EXCEPT ![s] = a]
  /\ respRecvd' = [respRecvd EXCEPT ![s] = FALSE]
  /\ tpc' = [tpc EXCEPT ![t] = IF rawRequest[s] = NULL THEN "unlocked" ELSE "make"]
  /\ UNCHANGED <<rawRequest, reqID, tmsg, msgs, hpc, upc, client, modem, freed, dropped>>

\* while (!respRecvd) at the top and after each wakeup.
TestResp(t) ==
  LET s == sessionOf(t) IN
  /\ tpc[t] \in {"start", "woken"} /\ Holders(s) = {}
  /\ \/ respRecvd[s] /\ EndWait(t, resp[s])
     \/ /\ ~respRecvd[s]
        /\ tpc' = [tpc EXCEPT ![t] = "wait"]
        /\ UNCHANGED <<session, tmsg, msgs, hpc, upc, client, modem, freed, dropped>>

\* A loop without ETIMEDOUT.
TimeOutNever(t) == FALSE

\* pthread_cond_timedwait returns ETIMEDOUT, perhaps although an answer came
\* before it had the lock again.
TimeOut(t) ==
  tpc[t] \in {"wait", "woken"} /\ Holders(sessionOf(t)) = {} /\ EndWait(t, "NORESP")

\* The message takes over the request that rawRequest, read again behind the
\* call of operator new, has now; an ignored request is freed.
Make(t) ==
  LET s == sessionOf(t)  r == rawRequest[s] IN
  /\ tpc[t] = "make"
  /\ IF resp[s] = "IGNORE"
     THEN /\ IF r = NULL THEN UNCHANGED freed ELSE Free(r)
          /\ UNCHANGED tmsg
     ELSE tmsg' = [tmsg EXCEPT ![t] = [req |-> r, resp |-> resp[s]]] /\ UNCHANGED freed
  /\ tpc' = [tpc EXCEPT ![t] = "clear"]
  /\ UNCHANGED <<session, msgs, hpc, upc, client, modem, dropped>>

\* The unlock with rawRequest left in the session.
ClearForgotten(t) ==
  /\ tpc[t] = "clear"
  /\ tpc' = [tpc EXCEPT ![t] = "unlocked"]
  /\ UNCHANGED <<session, tmsg, msgs, hpc, upc, client, modem, freed, dropped>>

\* rawRequest = NULL, whatever it is by now, and the unlock.
Clear(t) ==
  /\ tpc[t] = "clear"
  /\ rawRequest' = [rawRequest EXCEPT ![sessionOf(t)] = NULL]
  /\ tpc' = [tpc EXCEPT ![t] = "unlocked"]
  /\ UNCHANGED <<reqID, respRecvd, resp, tmsg, msgs, hpc, upc, client, modem, freed, dropped>>

\* Behind the unlock: reqID = 0, sendMsg.
Finish(t) ==
  /\ tpc[t] = "unlocked"
  /\ tpc' = [tpc EXCEPT ![t] = "done"]
  /\ reqID' = [reqID EXCEPT ![sessionOf(t)] = NULL]
  /\ msgs' = IF tmsg[t] = NULL THEN msgs
             ELSE Append(msgs, [type |-> "LocEngInformNiResponse", answer |-> tmsg[t]])
  /\ tmsg' = [tmsg EXCEPT ![t] = NULL]
  /\ UNCHANGED <<rawRequest, respRecvd, resp, hpc, upc, client, modem, freed, dropped>>

ni_thread_proc(t) == TestResp(t) \/ TimeOut(t) \/ Make(t) \/ Clear(t) \/ Finish(t)

-----------------------------------------------------------------------------
(* The user.                                                               *)

Active(s, r) == reqID[s] = r /\ rawRequest[s] # NULL

(***************************************************************************)
(* loc_eng_ni_respond chooses the session without a lock.  A request's ID  *)
(* is in one of the two only, so that one of the two conditions is false   *)
(* anyway; what the two reads of a condition find apart, a call a little   *)
(* earlier finds at once.                                                  *)
(***************************************************************************)
loc_eng_ni_respond(r, a) ==
  /\ upc = Idle
  /\ r \in shown
  /\ shown' = shown \ {r}
  /\ userSaid' = [userSaid EXCEPT ![r] = a]
  /\ upc' = CASE Active("sessionEs", r) ->
                   [at |-> IF a = "ACCEPT" THEN "accept" ELSE "set",
                    ses |-> "sessionEs", resp |-> a]
              [] ~Active("sessionEs", r) /\ Active("session", r) ->
                   [at |-> "set", ses |-> "session", resp |-> a]
              [] OTHER -> Idle
  /\ UNCHANGED <<session, thread, msgs, hpc, modem, freed, dropped>>

TestIgnore ==
  /\ upc.at = "accept"
  /\ upc' = [upc EXCEPT !.at = IF rawRequest["session"] # NULL THEN "ignore" ELSE "set"]
  /\ UNCHANGED <<session, thread, msgs, hpc, client, modem, freed, dropped>>

\* "ignore any SUPL NI non-Es session if a SUPL NI ES is accepted"
IgnoreOther ==
  /\ upc.at = "ignore"
  /\ respond("session", "IGNORE")
  /\ upc' = [upc EXCEPT !.at = "set"]
  /\ UNCHANGED <<rawRequest, reqID, tmsg, msgs, hpc, client, modem, freed, dropped>>

SetResponse ==
  /\ upc.at = "set"
  /\ respond(upc.ses, upc.resp)
  /\ upc' = Idle
  /\ UNCHANGED <<rawRequest, reqID, tmsg, msgs, hpc, client, modem, freed, dropped>>

-----------------------------------------------------------------------------
UserStep == TestIgnore \/ IgnoreOther \/ SetResponse

Next ==
  \/ MsgTaskStep \/ UserStep \/ ModemRestarts
  \/ \E r \in Requests : ModemRequests(r) \/ ni_thread_proc(r)
  \/ \E r \in Requests, a \in UserChoices : loc_eng_ni_respond(r, a)

Spec == Init /\ [][Next]_vars

(***************************************************************************)
(* Threads are scheduled and time passes, so that a wait ends.  Neither    *)
(* the modem nor the user has to do anything.                              *)
(***************************************************************************)
FairSpec ==
  /\ Spec
  /\ WF_vars(MsgTaskStep) /\ WF_vars(UserStep)
  /\ \A r \in Requests : WF_vars(ni_thread_proc(r))

-----------------------------------------------------------------------------
\* The places that hold an answer to r the modem has got or will get.
AnswersTo(r) ==
  Cardinality({t \in Requests : tmsg[t] # NULL /\ tmsg[t].req = r})
  + Cardinality({i \in 1..Len(msgs) : /\ msgs[i].type = "LocEngInformNiResponse"
                                      /\ msgs[i].answer.req = r})
  + (IF told[r] = NULL THEN 0 ELSE 1)

(***************************************************************************)
(* The modem gets at most one answer to a request, although a thread may   *)
(* answer a request other than the one it was started for, and although a  *)
(* restart takes the request from the session without the lock.            *)
(***************************************************************************)
OneAnswerEach == \A r \in Requests : AnswersTo(r) <= 1

\* The session has r, and no thread has just made an answer of what it has.
Held(r) ==
  /\ rawRequest[sessionOf(r)] = r
  /\ \A t \in Requests : tpc[t] = "clear" => sessionOf(t) # sessionOf(r)

\* The places that still have to free the block of r.
OwnersOf(r) ==
  Cardinality({t \in Requests : tmsg[t] # NULL /\ tmsg[t].req = r})
  + Cardinality({i \in 1..Len(msgs) :
      \/ msgs[i].type = "LocEngRequestNi" /\ msgs[i].req = r
      \/ msgs[i].type = "LocEngInformNiResponse" /\ msgs[i].answer.req = r})
  + (IF Held(r) THEN 1 ELSE 0)

(***************************************************************************)
(* As long as the modem does not restart the block of a request, which     *)
(* wanders from message to session to thread to message, has one owner     *)
(* until it is freed, and is freed once.  loc_eng_ni.cpp says of the free  *)
(* "this is a bit weird ... But there is no better way".                   *)
(***************************************************************************)
BlockHasOneOwner ==
  restarts = 0 => \A r \in asked : OwnersOf(r) + freed[r] = 1

(***************************************************************************)
(* An answer left in a session is seen: while respRecvd is set no thread   *)
(* of the session sleeps on unless another one is about to look, whatever  *)
(* the order of pthread_cond_signal and pthread_cond_timedwait.            *)
(***************************************************************************)
NoLostResponse ==
  \A s \in Sessions :
    respRecvd[s] /\ Waiting(s) # {} =>
      \E t \in Requests : sessionOf(t) = s /\ tpc[t] \in {"start", "woken"}

(***************************************************************************)
(* loc_eng_ni_reset_on_engine_restart clears rawRequest without tLock,     *)
(* before, between or after the two reads of a thread that has the lock.   *)
(* A request it has cleared is in no answer made after that, and an answer *)
(* without a request is made only by a thread whose session it cleared.    *)
(* The comment at the first read wants no answer at all then ("we need the *)
(* thread to exit without calling sending data"); that does not hold.      *)
(***************************************************************************)
ClearedIsNotAnswered ==
  [][\A t \in Requests : tmsg'[t] # tmsg[t] /\ tmsg'[t] # NULL =>
       /\ tmsg'[t].req \notin dropped
       /\ tmsg'[t].req = NULL => \E r \in dropped : sessionOf(r) = sessionOf(t)]_vars

(***************************************************************************)
(* A request leaves its session, by answer, timeout or restart, so that    *)
(* the next one is not ignored for ever; unless its thread could not be    *)
(* created.                                                                *)
(***************************************************************************)
EveryRequestEnds ==
  \A r \in Requests :
    rawRequest[sessionOf(r)] = r ~> rawRequest[sessionOf(r)] # r \/ tpc[r] = "failed"

(***************************************************************************)
(* loc_eng_ni.cpp on loc_eng_ni_request_handler: "Displays the NI request  *)
(* and awaits user input".  What the modem is told about a request, other  *)
(* than that nobody answered, is what the user answered to that request.   *)
(***************************************************************************)
AnsweredByUser ==
  \A r \in Requests : told[r] \in {NULL, "NORESP", userSaid[r]}
=============================================================================
