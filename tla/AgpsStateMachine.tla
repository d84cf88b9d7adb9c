-------------------------- MODULE AgpsStateMachine --------------------------
(***************************************************************************)
(* One network interface (NIF) state machine of the location engine,       *)
(* gps/loc_api/libloc_api_50001/loc_eng_agps.cpp, between the clients that *)
(* subscribe to a data connection and the connectivity service of the      *)
(* framework that opens and closes it.                                     *)
(*                                                                         *)
(* Every handler runs on the adapter's message thread, which takes LocMsg  *)
(* objects from one FIFO; a step of the HAL is the whole proc() of the     *)
(* message at its head.  Clients and framework run on their own and only   *)
(* append to that FIFO; what the HAL asks of the framework, through        *)
(* agps_status_cb, waits in fwReq until the framework gets to it.          *)
(*                                                                         *)
(* Kind "ATL" is agnss_nif or internet_nif: ATLSubscriber, any number of   *)
(* subscribers, the modem on the other side.  Kind "BIT" is internet_nif   *)
(* with BITSubscriber, which is ATLSubscriber with a daemon on the other   *)
(* side.  Kind "WIFI" is wifi_nif: WIFISubscriber, which waits for the     *)
(* close to complete, and one subscriber at a time.                        *)
(***************************************************************************)
EXTENDS Naturals, Sequences

CONSTANTS Subs,        \* the IDs subscribers are told apart by
          Kind,        \* "ATL", "BIT" or "WIFI"
          FreedMatch,  \* whether the memory of a deleted subscriber may be
                       \* reused before it is compared once more
          MaxQ,        \* bound: messages in the FIFO when a client, the modem
                       \* or the network adds one
          MaxFw,       \* bound: requests the framework has not handled when
                       \* a client adds one
          MaxRestarts  \* bound: modem restarts

ASSUME AgpsAssumption == /\ Kind \in {"ATL", "BIT", "WIFI"}
                         /\ FreedMatch \in BOOLEAN
                         /\ MaxQ \in Nat /\ MaxFw \in Nat /\ MaxRestarts \in Nat

VARIABLES mStatePtr,     \* the state object in charge
          mSubscribers,  \* "absent", or on the list as "active" / "inactive"
          msgs,          \* the message thread's FIFO
          client,        \* what each client believes it has
          fwReq,         \* agps_status_cb calls the framework has not handled
          fwUp,          \* the framework holds the connection
          restarts       \* modem restarts so far

vars == <<mStatePtr, mSubscribers, msgs, client, fwReq, fwUp, restarts>>

waitForCloseComplete == Kind = "WIFI"

\* loc_eng_agps_init creating wifi_nif like the other two.
neverSingleSubscriber == FALSE

mEnforceSingleSubscriber == Kind = "WIFI"

Events == {"GRANTED", "RELEASED", "DENIED"}
LocMsgs == [ev : {"SUBSCRIBE", "UNSUBSCRIBE"}, id : Subs]
             \cup [ev : Events \cup {"ENGINE_UP"}]
Msg(e) == [ev |-> e]
Sub(s) == [ev |-> "SUBSCRIBE", id |-> s]
Unsub(s) == [ev |-> "UNSUBSCRIBE", id |-> s]

TypeOK == /\ mStatePtr \in {"Released", "Pending", "Acquired", "Releasing"}
          /\ mSubscribers \in [Subs -> {"absent", "active", "inactive"}]
          /\ msgs \in Seq(LocMsgs)
          /\ client \in [Subs -> {"idle", "opening", "open", "closing"}]
          /\ fwReq \in Seq({"REQUEST", "RELEASE"})
          /\ fwUp \in BOOLEAN
          /\ restarts \in Nat

Init == /\ mStatePtr = "Released"
        /\ mSubscribers = [s \in Subs |-> "absent"]
        /\ msgs = <<>>
        /\ client = [s \in Subs |-> "idle"]
        /\ fwReq = <<>>
        /\ fwUp = FALSE
        /\ restarts = 0

-----------------------------------------------------------------------------
(* The subscriber list.                                                    *)

hasSubscriber(subs, s) == subs[s] # "absent"
hasSubscribers(subs) == \E s \in Subs : subs[s] # "absent"
hasActiveSubscribers(subs) == \E s \in Subs : subs[s] = "active"

\* An equal subscriber that is on the list already is left as it is.
addSubscriber(s) ==
  mSubscribers' = [mSubscribers EXCEPT ![s] = IF @ = "absent" THEN "active" ELSE @]

(***************************************************************************)
(* notifyRsrcStatus, as the client sees it.  An ATL client gets open       *)
(* status and close status; a daemon gets success or failure of the        *)
(* request or of the release it is waiting for, and a WIFI one hears       *)
(* nothing of UNSUBSCRIBE.                                                 *)
(***************************************************************************)
notifyRsrcStatus(c, event) ==
  CASE event = "GRANTED"  -> IF c = "opening" THEN "open" ELSE c
    [] event = "DENIED"   -> IF c = "opening" \/ (c = "closing" /\ Kind # "ATL")
                             THEN "idle" ELSE c
    [] event = "RELEASED" -> IF c \in {"open", "closing"} THEN "idle" ELSE c
    [] event = "UNSUBSCRIBE" ->
         IF c \in {"open", "closing"} /\ Kind # "WIFI" THEN "idle" ELSE c

\* notifySubscribers to the subscribers in S, which stay on the list.
notifySubscribers(S, event) ==
  client' = [s \in Subs |-> IF s \in S THEN notifyRsrcStatus(client[s], event)
                                       ELSE client[s]]

\* notifySubscribers that deletes without telling.
deleteOnly(S, event) ==
  /\ mSubscribers' = [s \in Subs |-> IF s \in S THEN "absent" ELSE mSubscribers[s]]
  /\ UNCHANGED client

\* notifySubscribers with postNotifyDelete.
notifyAndDelete(S, event) ==
  /\ notifySubscribers(S, event)
  /\ mSubscribers' = [s \in Subs |-> IF s \in S THEN "absent" ELSE mSubscribers[s]]

(***************************************************************************)
(* notifySubscribers for one subscriber of the list and postNotifyDelete:  *)
(* after the match is deleted the loop searches the list once more, and    *)
(* compares what is left with the deleted object (forMe reads rcver->ID).  *)
(* If another thread has reused that memory, any of the others may match.  *)
(***************************************************************************)
notifyOneAndDelete(s, event) ==
  \E stale \in SUBSET {t \in Subs \ {s} : hasSubscriber(mSubscribers, t)} :
    /\ FreedMatch \/ stale = {}
    /\ notifyAndDelete({s} \cup stale, event)

\* sendRsrcRequest with the comparison the wrong way round.
sendRsrcRequestInverted(action, subs) ==
  fwReq' = IF hasActiveSubscribers(subs) # (action = "REQUEST")
           THEN Append(fwReq, action) ELSE fwReq

\* sendRsrcRequest: a request needs an active subscriber, a release none.
sendRsrcRequest(action, subs) ==
  fwReq' = IF hasActiveSubscribers(subs) = (action = "REQUEST")
           THEN Append(fwReq, action) ELSE fwReq

-----------------------------------------------------------------------------
(* onRsrcEvent(RSRC_SUBSCRIBE) of the four states, behind subscribeRsrc.   *)

SubscribeDenied(s) ==
  /\ mEnforceSingleSubscriber /\ hasSubscribers(mSubscribers)
  /\ notifySubscribers({s}, "DENIED")
  /\ UNCHANGED <<mStatePtr, mSubscribers, fwReq>>

ReleasedSubscribe(s) ==
  /\ mStatePtr = "Released"
  /\ addSubscriber(s)
  /\ sendRsrcRequest("REQUEST", mSubscribers')
  /\ mStatePtr' = "Pending"
  /\ UNCHANGED client

PendingSubscribe(s) ==
  /\ mStatePtr \in {"Pending", "Releasing"}
  /\ addSubscriber(s)
  /\ UNCHANGED <<mStatePtr, client, fwReq>>

\* AgpsAcquiredState handling RSRC_SUBSCRIBE as the waiting states do.
AcquiredSubscribeQuiet(s) ==
  /\ mStatePtr = "Acquired"
  /\ addSubscriber(s)
  /\ UNCHANGED <<mStatePtr, client, fwReq>>

AcquiredSubscribe(s) ==
  /\ mStatePtr = "Acquired"
  /\ notifySubscribers({s}, "GRANTED")
  /\ addSubscriber(s)
  /\ UNCHANGED <<mStatePtr, fwReq>>

subscribeRsrc(s) ==
  \/ SubscribeDenied(s)
  \/ /\ ~(mEnforceSingleSubscriber /\ hasSubscribers(mSubscribers))
     /\ \/ ReleasedSubscribe(s)
        \/ PendingSubscribe(s)
        \/ AcquiredSubscribe(s)

-----------------------------------------------------------------------------
(* onRsrcEvent(RSRC_UNSUBSCRIBE), behind unsubscribeRsrc.                  *)

\* The subscriber becomes inactive, or is told and taken off the list.
dropSubscriber(s) ==
  IF waitForCloseComplete
  THEN /\ mSubscribers' = [mSubscribers EXCEPT ![s] = "inactive"]
       /\ UNCHANGED client
  ELSE notifyOneAndDelete(s, "UNSUBSCRIBE")

ReleasedUnsubscribe(s) ==
  /\ mStatePtr = "Released"
  /\ notifySubscribers({s}, "UNSUBSCRIBE")
  /\ UNCHANGED <<mStatePtr, mSubscribers, fwReq>>

\* AgpsPendingState and AgpsAcquiredState changing state but not telling the
\* connectivity service.
HoldingUnsubscribeQuiet(s) ==
  /\ mStatePtr \in {"Pending", "Acquired"}
  /\ dropSubscriber(s)
  /\ mStatePtr' = IF ~hasSubscribers(mSubscribers') THEN "Released"
                  ELSE IF ~hasActiveSubscribers(mSubscribers') THEN "Releasing"
                  ELSE mStatePtr
  /\ UNCHANGED fwReq

\* AgpsPendingState and AgpsAcquiredState.
HoldingUnsubscribe(s) ==
  /\ mStatePtr \in {"Pending", "Acquired"}
  /\ dropSubscriber(s)
  /\ mStatePtr' = IF ~hasSubscribers(mSubscribers') THEN "Released"
                  ELSE IF ~hasActiveSubscribers(mSubscribers') THEN "Releasing"
                  ELSE mStatePtr
  /\ IF hasActiveSubscribers(mSubscribers') THEN UNCHANGED fwReq
     ELSE sendRsrcRequest("RELEASE", mSubscribers')

ReleasingUnsubscribe(s) ==
  /\ mStatePtr = "Releasing"
  /\ dropSubscriber(s)
  /\ mStatePtr' = IF hasSubscribers(mSubscribers') THEN mStatePtr ELSE "Released"
  /\ UNCHANGED fwReq

\* unsubscribeRsrc finds nobody: LocEngReleaseATL::proc answers on its own, with
\* the status of a failure, which ends the client's connection as well as that
\* of a success; LocEngReqRelWifi::proc and LocEngReqRelBIT::proc do not.
UnsubscribeUnknown(s) ==
  /\ ~hasSubscriber(mSubscribers, s)
  /\ IF Kind = "ATL" THEN notifySubscribers({s}, "UNSUBSCRIBE") ELSE UNCHANGED client
  /\ UNCHANGED <<mStatePtr, mSubscribers, fwReq>>

unsubscribeRsrc(s) ==
  \/ UnsubscribeUnknown(s)
  \/ /\ hasSubscriber(mSubscribers, s)
     /\ \/ ReleasedUnsubscribe(s)
        \/ HoldingUnsubscribe(s)
        \/ ReleasingUnsubscribe(s)

-----------------------------------------------------------------------------
(* onRsrcEvent(RSRC_GRANTED / RSRC_RELEASED / RSRC_DENIED), after an       *)
(* LocEngAtlOpenSuccess, LocEngAtlClosed or LocEngAtlOpenFailed.           *)

OnGranted ==
  /\ mStatePtr = "Pending"
  /\ mStatePtr' = "Acquired"
  /\ notifySubscribers({s \in Subs : mSubscribers[s] = "active"}, "GRANTED")
  /\ UNCHANGED <<mSubscribers, fwReq>>

\* DENIED in AgpsPendingState, RELEASED in AgpsAcquiredState.
ToReleased(event) ==
  /\ \/ mStatePtr = "Pending" /\ event = "DENIED"
     \/ mStatePtr = "Acquired" /\ event = "RELEASED"
  /\ mStatePtr' = "Released"
  /\ notifyAndDelete({s \in Subs : hasSubscriber(mSubscribers, s)}, event)
  /\ UNCHANGED fwReq

\* RELEASED or DENIED in AgpsReleasingState: whoever subscribed meanwhile
\* needs the NIF again.
OnReleaseDone(event) ==
  /\ mStatePtr = "Releasing"
  /\ event \in {"DENIED", "RELEASED"}
  /\ notifyAndDelete({s \in Subs : mSubscribers[s] = "inactive"}, event)
  /\ IF hasActiveSubscribers(mSubscribers')
     THEN /\ mStatePtr' = "Pending"
          /\ sendRsrcRequest("REQUEST", mSubscribers')
     ELSE /\ mStatePtr' = "Released"
          /\ UNCHANGED fwReq

\* Every other event leaves the machine alone.
Ignored(event) ==
  /\ \/ mStatePtr = "Released"
     \/ mStatePtr = "Pending" /\ event = "RELEASED"
     \/ mStatePtr = "Acquired" /\ event \in {"GRANTED", "DENIED"}
     \/ mStatePtr = "Releasing" /\ event = "GRANTED"
  /\ UNCHANGED <<mStatePtr, mSubscribers, client, fwReq>>

onRsrcEvent(event) ==
  \/ event = "GRANTED" /\ OnGranted
  \/ ToReleased(event)
  \/ OnReleaseDone(event)
  \/ Ignored(event)

\* loc_eng_handle_engine_up: dropAllSubscribers, and no more than that.
dropAllSubscribers ==
  /\ mSubscribers' = [s \in Subs |-> "absent"]
  /\ UNCHANGED <<mStatePtr, client, fwReq>>

\* The message thread takes the oldest message and runs its proc().
HalStep ==
  /\ msgs # <<>>
  /\ msgs' = Tail(msgs)
  /\ LET m == Head(msgs) IN
       \/ m.ev = "SUBSCRIBE" /\ subscribeRsrc(m.id)
       \/ m.ev = "UNSUBSCRIBE" /\ unsubscribeRsrc(m.id)
       \/ m.ev \in Events /\ onRsrcEvent(m.ev)
       \/ m.ev = "ENGINE_UP" /\ dropAllSubscribers
  /\ UNCHANGED <<fwUp, restarts>>

-----------------------------------------------------------------------------
(* The clients: the modem's ATL clients, or the daemons.                   *)

sendMsg(m) == msgs' = Append(msgs, m)

InSeq(x, seq) == \E i \in 1..Len(seq) : seq[i] = x

\* LocSsrMsg, sent just before ENGINE_UP, opens the link to a modem that has
\* restarted; nothing comes from it before.
ClientOpens(s) ==
  /\ client[s] = "idle"
  /\ Kind = "ATL" => ~InSeq(Msg("ENGINE_UP"), msgs)
  /\ Len(msgs) < MaxQ /\ Len(fwReq) < MaxFw
  /\ client' = [client EXCEPT ![s] = "opening"]
  /\ sendMsg(Sub(s))
  /\ UNCHANGED <<mStatePtr, mSubscribers, fwReq, fwUp, restarts>>

\* A client may give up before it was answered.
ClientCloses(s) ==
  /\ client[s] \in {"opening", "open"}
  /\ Len(msgs) < MaxQ
  /\ client' = [client EXCEPT ![s] = "closing"]
  /\ sendMsg(Unsub(s))
  /\ UNCHANGED <<mStatePtr, mSubscribers, fwReq, fwUp, restarts>>

\* The modem restarts: its clients are gone, what they sent is not.  The
\* daemons know nothing of it, and wifi_nif is left alone.
ModemRestarts ==
  /\ Kind # "WIFI"
  /\ restarts < MaxRestarts
  /\ Len(msgs) < MaxQ
  /\ restarts' = restarts + 1
  /\ client' = IF Kind = "ATL" THEN [s \in Subs |-> "idle"] ELSE client
  /\ sendMsg(Msg("ENGINE_UP"))
  /\ UNCHANGED <<mStatePtr, mSubscribers, fwReq, fwUp>>

-----------------------------------------------------------------------------
(* The framework's connectivity service.                                   *)

\* What it calls: LocEngAtlOpenSuccess, LocEngAtlOpenFailed and LocEngAtlClosed.
\* The framework names an APN: without one loc_eng_agps_open returns 0 and
\* queues nothing, and the machine would wait on.
loc_eng_agps_open == sendMsg(Msg("GRANTED"))
loc_eng_agps_open_failed == sendMsg(Msg("DENIED"))
loc_eng_agps_closed == sendMsg(Msg("RELEASED"))

FwOpens ==
  /\ fwReq # <<>> /\ Head(fwReq) = "REQUEST"
  /\ fwReq' = Tail(fwReq)
  /\ \/ fwUp' = TRUE /\ loc_eng_agps_open
     \/ ~fwUp /\ UNCHANGED fwUp /\ loc_eng_agps_open_failed
  /\ UNCHANGED <<mStatePtr, mSubscribers, client, restarts>>

FwCloses ==
  /\ fwReq # <<>> /\ Head(fwReq) = "RELEASE"
  /\ fwReq' = Tail(fwReq)
  /\ fwUp' = FALSE
  /\ loc_eng_agps_closed
  /\ UNCHANGED <<mStatePtr, mSubscribers, client, restarts>>

\* The network goes away on its own.
FwLoses ==
  /\ fwUp
  /\ Len(msgs) < MaxQ
  /\ fwUp' = FALSE
  /\ loc_eng_agps_closed
  /\ UNCHANGED <<mStatePtr, mSubscribers, client, fwReq, restarts>>

Next == \/ HalStep
        \/ \E s \in Subs : ClientOpens(s) \/ ClientCloses(s)
        \/ ModemRestarts
        \/ FwOpens \/ FwCloses \/ FwLoses

Spec == Init /\ [][Next]_vars

(***************************************************************************)
(* The message thread keeps running and the framework answers.  Clients,   *)
(* the network and the modem owe nothing.                                  *)
(***************************************************************************)
FairSpec == Spec /\ WF_vars(HalStep) /\ WF_vars(FwOpens) /\ WF_vars(FwCloses)

-----------------------------------------------------------------------------
(***************************************************************************)
(* In AgpsReleasedState the list is empty: what onRsrcEvent logs as        *)
(* "subscriber list not empty!!!" does not happen.                         *)
(***************************************************************************)
ReleasedIsEmpty == mStatePtr = "Released" => ~hasSubscribers(mSubscribers)

(***************************************************************************)
(* In AgpsPendingState an answer is on its way: the request is with the    *)
(* framework, or GRANTED or DENIED is queued.  Without it the state, which *)
(* has no timeout, would never be left.                                    *)
(***************************************************************************)
PendingIsAnswered ==
  mStatePtr = "Pending" => \/ InSeq("REQUEST", fwReq)
                           \/ InSeq(Msg("GRANTED"), msgs)
                           \/ InSeq(Msg("DENIED"), msgs)

(***************************************************************************)
(* The same for AgpsReleasingState, which waits for RELEASED or DENIED.    *)
(***************************************************************************)
ReleasingIsAnswered ==
  mStatePtr = "Releasing" => \/ InSeq("RELEASE", fwReq)
                             \/ InSeq(Msg("RELEASED"), msgs)
                             \/ InSeq(Msg("DENIED"), msgs)

(***************************************************************************)
(* A client that was told the connection is open is an active subscriber   *)
(* of a machine in AgpsAcquiredState: it is never left believing in a      *)
(* connection that the machine has given up.                               *)
(***************************************************************************)
OpenMeansAcquired ==
  \A s \in Subs : client[s] = "open" => mStatePtr = "Acquired"
                                        /\ mSubscribers[s] = "active"

(***************************************************************************)
(* A client that waits for its connection is not forgotten: its request is *)
(* still queued, or it is subscribed and the machine is about to be        *)
(* answered.                                                               *)
(***************************************************************************)
OpeningIsServed ==
  \A s \in Subs : client[s] = "opening" =>
    \/ InSeq(Sub(s), msgs)
    \/ mSubscribers[s] = "active" /\ mStatePtr \in {"Pending", "Releasing"}

\* Likewise a client that waits for its connection to close.
ClosingIsServed ==
  \A s \in Subs : client[s] = "closing" =>
    \/ InSeq(Unsub(s), msgs)
    \/ mSubscribers[s] = "inactive" /\ mStatePtr = "Releasing"

(***************************************************************************)
(* No client is forgotten by the list or by the states of the machine: who *)
(* waits for its connection, or for its release, has its message queued or *)
(* is subscribed with a machine that is about to be answered; and          *)
(* AgpsReleasingState, which has no timeout, will be answered.             *)
(***************************************************************************)
NoClientForgotten == OpeningIsServed /\ ClosingIsServed /\ ReleasingIsAnswered

(***************************************************************************)
(* When everything has been handled and nobody is subscribed, the          *)
(* framework holds no connection: every connection is released in the end. *)
(***************************************************************************)
NoOrphanConnection ==
  msgs = <<>> /\ fwReq = <<>> /\ ~hasSubscribers(mSubscribers) => ~fwUp

\* Every request and every release of a client is answered.
EveryClientAnswered ==
  \A s \in Subs : /\ client[s] = "opening" ~> client[s] # "opening"
                  /\ client[s] = "closing" ~> client[s] # "closing"
=============================================================================
