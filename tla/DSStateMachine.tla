--------------------------- MODULE DSStateMachine ---------------------------
(***************************************************************************)
(* ds_nif, the state machine for emergency SUPL data calls                 *)
(* (loc_eng_agps.cpp, DSStateMachine and DSSubscriber).  The four states   *)
(* are those of AgpsStateMachine; what differs is the other side.  A data  *)
(* call is started through data services, which may refuse at once: then   *)
(* the machine stays in AgpsReleasedState and tries again from a timer,    *)
(* and after MAX_START_DATA_CALL_RETRIES it hands the client over to the   *)
(* ordinary ATL machine (agnss_nif, here only the set atl of its           *)
(* clients).                                                               *)
(*                                                                         *)
(* The timer's callback runs on another thread and reads the list; the     *)
(* message it posts is taken like any other.                               *)
(***************************************************************************)
EXTENDS Naturals, Sequences, SequencesExt

CONSTANTS DSClients,   \* connection handles of the modem
          MaxRequests  \* bound: requests the clients make

VARIABLES mStatePtr,
          mSubscribers,  \* the list, head first
          mRetries,
          timers,        \* retry timers that run
          msgs,          \* messages for the engine's thread
          dsi,           \* what data services were asked and did not answer
          up,            \* the data call is up
          client,        \* what each client believes it has
          atl,           \* clients subscribed with agnss_nif
          requests,      \* requests made so far
          unstarted      \* a refused start was taken for a started one

vars == <<mStatePtr, mSubscribers, mRetries, timers, msgs, dsi, up, client, atl, requests,
          unstarted>>

MAX_START_DATA_CALL_RETRIES == 4

LocMsgs == [ev : {"SUPL_ES", "REQUEST_ATL", "RELEASE_ATL"}, id : DSClients]
             \cup [ev : {"OPENED", "CLOSED"}]

TypeOK == /\ mStatePtr \in {"Released", "Pending", "Acquired", "Releasing"}
          /\ mSubscribers \in Seq([id : DSClients, inactive : BOOLEAN])
          /\ mRetries \in 0..MAX_START_DATA_CALL_RETRIES
          /\ timers \in Nat /\ requests \in 0..MaxRequests
          /\ msgs \in Seq(LocMsgs)
          /\ dsi \in Seq({"START", "STOP"})
          /\ up \in BOOLEAN /\ unstarted \in BOOLEAN
          /\ client \in [DSClients -> {"idle", "opening", "open", "closing"}]
          /\ atl \subseteq DSClients

Init == /\ mStatePtr = "Released" /\ mSubscribers = <<>> /\ mRetries = 0
        /\ timers = 0 /\ msgs = <<>> /\ dsi = <<>> /\ up = FALSE
        /\ client = [s \in DSClients |-> "idle"] /\ atl = {}
        /\ requests = 0 /\ unstarted = FALSE

-----------------------------------------------------------------------------
(* The list, to which linked_list_add adds at the head.                    *)

On(subs, s) == \E i \in DOMAIN subs : subs[i].id = s
\* Those of a list that are or are not inactive, in their order.
Those(subs, inactive) ==
  LET of[i \in 0..Len(subs)] ==
        IF i = 0 THEN <<>>
        ELSE IF subs[i] \in [id : DSClients, inactive : {inactive}]
             THEN Append(of[i - 1], subs[i]) ELSE of[i - 1]
  IN  of[Len(subs)]
Active(subs) == Those(subs, FALSE)
FirstActive(subs) == IF Active(subs) = <<>> THEN <<>> ELSE <<Head(Active(subs))>>
Inactive(subs) == Those(subs, TRUE)
IDs(subs) == {subs[i].id : i \in DOMAIN subs}

addSubscriber(s) == IF On(mSubscribers, s) THEN mSubscribers
                    ELSE <<[id |-> s, inactive |-> FALSE]>> \o mSubscribers

\* A client's open and close status, and requestATL for each of a list.
Opened(c, S) == [s \in DSClients |-> IF s \in S /\ c[s] = "opening" THEN "open" ELSE c[s]]
Closed(c, S) ==
  [s \in DSClients |-> IF s \in S /\ c[s] \in {"open", "closing"} THEN "idle" ELSE c[s]]
requestATL(subs) == [i \in DOMAIN subs |-> [ev |-> "REQUEST_ATL", id |-> subs[i].id]]

(***************************************************************************)
(* sendRsrcRequest(GPS_REQUEST_AGPS_DATA_CONN) with the list subs.         *)
(* openAndStartDataCall starts the call, is busy, or fails.  A client that *)
(* cannot be served is the first active one of the list, whoever asked.    *)
(***************************************************************************)
StartAccepted == /\ dsi' = Append(dsi, "START")
                 /\ msgs' = Tail(msgs)
                 /\ UNCHANGED <<mRetries, timers>>

\* loc_timer_start: a LocTimerWrapper that calls delay_callback once and then
\* deletes itself.  Its handle, taken for an error code, is not kept.
loc_timer_start == timers' = timers + 1

\* The retry without incRetries.
BusyUncounted == /\ loc_timer_start
                 /\ msgs' = Tail(msgs)
                 /\ UNCHANGED <<mRetries, dsi>>

StartBusy == /\ mRetries < MAX_START_DATA_CALL_RETRIES
             /\ mRetries' = mRetries + 1
             /\ loc_timer_start
             /\ msgs' = Tail(msgs)
             /\ UNCHANGED dsi

\* "Unrecognized return value": nobody is told and nothing is tried again.
StartUnrecognized == /\ msgs' = Tail(msgs)
                     /\ UNCHANGED <<mRetries, timers, dsi>>

\* Too many retries, no profile, or an error: informStatus(RSRC_DENIED).
StartDenied(subs) == /\ mRetries' = 0
                     /\ msgs' = Tail(msgs) \o requestATL(FirstActive(subs))
                     /\ UNCHANGED <<timers, dsi>>

StartRefused(subs) == StartBusy \/ StartUnrecognized \/ StartDenied(subs)

\* RSRC_SUBSCRIBE in the four states, for LocEngRequestSuplEs.
SubscribeReleased(s) ==
  /\ mStatePtr = "Released"
  /\ mSubscribers' = addSubscriber(s)
  /\ \/ StartAccepted /\ mStatePtr' = "Pending"
     \/ StartRefused(mSubscribers') /\ UNCHANGED mStatePtr
  /\ UNCHANGED <<client, unstarted>>

SubscribeWaiting(s) ==
  /\ mStatePtr \in {"Pending", "Releasing"}
  /\ mSubscribers' = addSubscriber(s) /\ msgs' = Tail(msgs)
  /\ UNCHANGED <<mStatePtr, mRetries, timers, dsi, client, unstarted>>

SubscribeAcquired(s) ==
  /\ mStatePtr = "Acquired"
  /\ client' = Opened(client, {s})
  /\ mSubscribers' = addSubscriber(s) /\ msgs' = Tail(msgs)
  /\ UNCHANGED <<mStatePtr, mRetries, timers, dsi, unstarted>>

subscribeRsrc(s) == SubscribeReleased(s) \/ SubscribeWaiting(s) \/ SubscribeAcquired(s)

(***************************************************************************)
(* RSRC_UNSUBSCRIBE, for LocEngReleaseATL.  setInactive also sends the     *)
(* close status, so the client is free before the data call is.  In        *)
(* AgpsReleasedState the subscriber stays on the list.                     *)
(***************************************************************************)
unsubscribeRsrc(s) ==
  /\ client' = Closed(client, {s})
  /\ msgs' = Tail(msgs)
  /\ mSubscribers' = IF mStatePtr = "Released" THEN mSubscribers
                     ELSE [i \in DOMAIN mSubscribers |->
                             IF mSubscribers[i].id = s
                             THEN [mSubscribers[i] EXCEPT !.inactive = TRUE]
                             ELSE mSubscribers[i]]
  /\ IF mStatePtr \in {"Pending", "Acquired"} /\ Active(mSubscribers') = <<>>
     THEN mStatePtr' = "Releasing" /\ dsi' = Append(dsi, "STOP")
     ELSE UNCHANGED <<mStatePtr, dsi>>
  /\ UNCHANGED <<mRetries, timers, unstarted>>

-----------------------------------------------------------------------------
(* DSStateMachine::onRsrcEvent, for LocEngSuplEsOpened and                 *)
(* LocEngSuplEsClosed.                                                     *)

OnOpened ==
  /\ msgs' = Tail(msgs)
  /\ IF mStatePtr = "Pending"
     THEN /\ mStatePtr' = "Acquired"
          /\ client' = Opened(client, IDs(Active(mSubscribers)))
     ELSE UNCHANGED <<mStatePtr, client>>
  /\ UNCHANGED <<mSubscribers, mRetries, timers, dsi, unstarted>>

\* A machine that does not turn RELEASED into DENIED.
PendingClosedIgnored ==
  /\ mStatePtr = "Pending"
  /\ msgs' = Tail(msgs)
  /\ UNCHANGED <<mStatePtr, mSubscribers, mRetries, timers, dsi, client, unstarted>>

\* RELEASED changes nothing in AgpsPendingState and is repeated as DENIED:
\* everyone is handed over to ATL.
PendingClosed ==
  /\ mStatePtr = "Pending"
  /\ mStatePtr' = "Released" /\ mSubscribers' = <<>>
  /\ mRetries' = IF mSubscribers = <<>> THEN mRetries ELSE 0
  /\ msgs' = Tail(msgs) \o requestATL(mSubscribers)
  /\ UNCHANGED <<timers, dsi, client, unstarted>>

\* informStatus(RSRC_RELEASED) is closeDataCall, which ends it for everyone.
AcquiredClosed ==
  /\ mStatePtr = "Acquired"
  /\ mStatePtr' = "Released" /\ mSubscribers' = <<>>
  /\ client' = Closed(client, IDs(mSubscribers))
  /\ msgs' = Tail(msgs)
  /\ UNCHANGED <<mRetries, timers, dsi, unstarted>>

\* The inactive ones go.  Whoever subscribed meanwhile needs a data call,
\* and whether it could be started is not looked at.
ReleasingClosed ==
  /\ mStatePtr = "Releasing"
  /\ mSubscribers' = Active(mSubscribers)
  /\ client' = Closed(client, IDs(Inactive(mSubscribers)))
  /\ IF mSubscribers' = <<>>
     THEN /\ mStatePtr' = "Released" /\ msgs' = Tail(msgs)
          /\ UNCHANGED <<mRetries, timers, dsi, unstarted>>
     ELSE /\ mStatePtr' = "Pending"
          /\ \/ StartAccepted /\ UNCHANGED unstarted
             \/ StartRefused(mSubscribers') /\ unstarted' = TRUE

ReleasedClosed ==
  /\ mStatePtr = "Released"
  /\ msgs' = Tail(msgs)
  /\ UNCHANGED <<mStatePtr, mSubscribers, mRetries, timers, dsi, client, unstarted>>

OnClosed == PendingClosed \/ AcquiredClosed \/ ReleasingClosed \/ ReleasedClosed

-----------------------------------------------------------------------------
(* One message of the engine's thread.                                     *)

LocEngRequestSuplEs == /\ Head(msgs).ev = "SUPL_ES"
                       /\ subscribeRsrc(Head(msgs).id)
                       /\ UNCHANGED atl

\* LocEngReleaseATL asks agnss_nif first and answers itself if nobody knows
\* the client.
LocEngReleaseATL ==
  /\ Head(msgs).ev = "RELEASE_ATL"
  /\ LET s == Head(msgs).id IN
       IF s \notin atl /\ On(mSubscribers, s)
       THEN unsubscribeRsrc(s) /\ UNCHANGED atl
       ELSE /\ atl' = atl \ {s} /\ client' = Closed(client, {s}) /\ msgs' = Tail(msgs)
            /\ UNCHANGED <<mStatePtr, mSubscribers, mRetries, timers, dsi, unstarted>>

\* The ordinary machine takes over and, here, opens at once.
LocEngRequestATL == /\ Head(msgs).ev = "REQUEST_ATL"
                    /\ atl' = atl \cup {Head(msgs).id}
                    /\ client' = Opened(client, {Head(msgs).id})
                    /\ msgs' = Tail(msgs)
                    /\ UNCHANGED <<mStatePtr, mSubscribers, mRetries, timers, dsi, unstarted>>

HalStep == /\ msgs # <<>>
           /\ \/ LocEngRequestSuplEs \/ LocEngReleaseATL \/ LocEngRequestATL
              \/ (Head(msgs).ev = "OPENED" /\ OnOpened /\ UNCHANGED atl)
              \/ (Head(msgs).ev = "CLOSED" /\ OnClosed /\ UNCHANGED atl)
           /\ UNCHANGED <<up, requests>>

\* delay_callback on the timer's thread: requestSuplES for the first active
\* subscriber.
retryCallback ==
  /\ timers > 0
  /\ timers' = timers - 1
  /\ msgs' = msgs \o [i \in DOMAIN FirstActive(mSubscribers) |->
                        [ev |-> "SUPL_ES", id |-> FirstActive(mSubscribers)[i].id]]
  /\ UNCHANGED <<mStatePtr, mSubscribers, mRetries, dsi, up, client, atl, requests, unstarted>>

-----------------------------------------------------------------------------
(* The modem and data services.                                            *)

ClientOpens(s) == /\ client[s] = "idle" /\ requests < MaxRequests
                  /\ requests' = requests + 1
                  /\ client' = [client EXCEPT ![s] = "opening"]
                  /\ msgs' = Append(msgs, [ev |-> "SUPL_ES", id |-> s])
                  /\ UNCHANGED <<mStatePtr, mSubscribers, mRetries, timers, dsi, up, atl, unstarted>>

ClientCloses(s) == /\ client[s] \in {"opening", "open"}
                   /\ client' = [client EXCEPT ![s] = "closing"]
                   /\ msgs' = Append(msgs, [ev |-> "RELEASE_ATL", id |-> s])
                   /\ UNCHANGED <<mStatePtr, mSubscribers, mRetries, timers, dsi, up, atl, requests,
                                  unstarted>>

DsAnswers == /\ dsi # <<>>
             /\ dsi' = Tail(dsi)
             /\ up' \in (IF Head(dsi) = "START" THEN BOOLEAN ELSE {FALSE})
             /\ msgs' = Append(msgs, [ev |-> IF up' THEN "OPENED" ELSE "CLOSED"])
             /\ UNCHANGED <<mStatePtr, mSubscribers, mRetries, timers, client, atl, requests,
                            unstarted>>

DsLoses == /\ up /\ up' = FALSE
           /\ msgs' = Append(msgs, [ev |-> "CLOSED"])
           /\ UNCHANGED <<mStatePtr, mSubscribers, mRetries, timers, dsi, client, atl, requests,
                          unstarted>>

Next == \/ HalStep \/ retryCallback \/ DsAnswers \/ DsLoses
        \/ \E s \in DSClients : ClientOpens(s) \/ ClientCloses(s)

(* The engine's thread and the timer run and data services answer.         *)
Fairness == WF_vars(HalStep) /\ WF_vars(retryCallback) /\ WF_vars(DsAnswers)

Spec == Init /\ [][Next]_vars /\ Fairness

-----------------------------------------------------------------------------
Queued(ev) == \E i \in DOMAIN msgs : msgs[i].ev = ev

(* Where the machine waits for data services, they have something to       *)
(* answer or their answer is queued; see unstarted for the exception.      *)
WaitingIsAnswered ==
  /\ mStatePtr = "Pending" => "START" \in ToSet(dsi) \/ Queued("OPENED") \/ Queued("CLOSED")
                              \/ unstarted
  /\ mStatePtr = "Releasing" => "STOP" \in ToSet(dsi) \/ Queued("CLOSED")

(* A client believes that it has a data call only while one of the two     *)
(* machines knows of it, and ds_nif only while the call is up or its end   *)
(* is queued.                                                              *)
OpenIsHeld ==
  /\ \A s \in DSClients :
       client[s] = "open" /\ s \notin atl => /\ mStatePtr \in {"Acquired", "Releasing"}
                                             /\ On(mSubscribers, s)
  /\ mStatePtr = "Acquired" => up \/ Queued("CLOSED")

(* A client that closes will hear of it: its release is still queued.      *)
ClosingIsAnswered ==
  \A s \in DSClients : client[s] = "closing" =>
    \E i \in DOMAIN msgs : msgs[i] = [ev |-> "RELEASE_ATL", id |-> s]

(* A data call that is asked for is settled.  The retries of a refused one *)
(* end, whatever the modem asks for meanwhile: each is counted, and at the *)
(* limit the client is handed over to ATL.  And AgpsPendingState is left   *)
(* again, since data services answer a start and a stop; unless a refused  *)
(* start was taken for a started one, as AgpsReleasingState does, which    *)
(* does not look at what sendRsrcRequest returns.                          *)
DataCallIsSettled == /\ [](WaitingIsAnswered /\ OpenIsHeld /\ ClosingIsAnswered)
                     /\ []<>(timers = 0)
                     /\ mStatePtr = "Pending" ~> (mStatePtr # "Pending" \/ unstarted)

(* "already requested for NIF resource ... we need to add subscriber to    *)
(* the list": a client that asks for a data call is on the list as active  *)
(* until it was answered.  The code does not keep this; see Divergences in *)
(* the README.                                                             *)
OpeningIsOnList ==
  \A s \in DSClients :
    client[s] = "opening" => \/ \E i \in DOMAIN msgs : msgs[i].ev \in {"SUPL_ES", "REQUEST_ATL"}
                                                       /\ msgs[i].id = s
                             \/ s \in IDs(Active(mSubscribers))

(* "the list should really be empty": when nothing is left to do in        *)
(* AgpsReleasedState, nobody is subscribed.  The code does not keep this;  *)
(* see Divergences in the README.                                          *)
ReleasedIsEmpty ==
  mStatePtr = "Released" /\ msgs = <<>> /\ timers = 0 => mSubscribers = <<>>

=============================================================================
