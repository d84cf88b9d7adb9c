----------------------------- MODULE AgpsProofs -----------------------------
(***************************************************************************)
(* Proofs about AgpsStateMachine, for any set of subscribers, all kinds of *)
(* interface and whatever the bounds are, and about DSStateMachine.        *)
(***************************************************************************)
EXTENDS AgpsMC, SequenceTheorems, Induction, TLAPS

ClientStates == {"idle", "opening", "open", "closing"}
SubStates == {"absent", "active", "inactive"}
Told == Events \cup {"UNSUBSCRIBE"}

-----------------------------------------------------------------------------
(* What Append and Tail do to the elements of a sequence.                  *)

LEMMA InAppend ==
  ASSUME NEW S, NEW seq \in Seq(S), NEW e \in S, NEW x
  PROVE  InSeq(x, Append(seq, e)) <=> InSeq(x, seq) \/ x = e
<1>1. /\ Len(Append(seq, e)) = Len(seq) + 1
      /\ \A i \in 1..Len(seq) : Append(seq, e)[i] = seq[i]
      /\ Append(seq, e)[Len(seq) + 1] = e
      /\ Len(seq) \in Nat
  BY AppendProperties, LenProperties
<1>2. ASSUME InSeq(x, seq) PROVE InSeq(x, Append(seq, e))
  <2>1. PICK i \in 1..Len(seq) : seq[i] = x
    BY <1>2 DEF InSeq
  <2> QED
    BY <1>1, <2>1 DEF InSeq
<1>3. x = e => InSeq(x, Append(seq, e))
  BY <1>1 DEF InSeq
<1>4. ASSUME InSeq(x, Append(seq, e)), x # e PROVE InSeq(x, seq)
  <2>1. PICK i \in 1..Len(seq) + 1 : Append(seq, e)[i] = x
    BY <1>1, <1>4 DEF InSeq
  <2>2. i \in 1..Len(seq)
    BY <1>1, <1>4, <2>1
  <2> QED
    BY <1>1, <2>1, <2>2 DEF InSeq
<1> QED
  BY <1>2, <1>3, <1>4

LEMMA InTail ==
  ASSUME NEW S, NEW seq \in Seq(S), seq # <<>>, NEW x
  PROVE  InSeq(x, seq) <=> x = Head(seq) \/ InSeq(x, Tail(seq))
<1>1. /\ Len(Tail(seq)) = Len(seq) - 1
      /\ \A i \in 1..Len(Tail(seq)) : Tail(seq)[i] = seq[i + 1]
      /\ Len(seq) \in Nat \ {0}
      /\ Head(seq) = seq[1]
  BY HeadTailProperties, EmptySeq
<1>2. ASSUME InSeq(x, seq), x # Head(seq) PROVE InSeq(x, Tail(seq))
  <2>1. PICK i \in 1..Len(seq) : seq[i] = x
    BY <1>2 DEF InSeq
  <2>2. i - 1 \in 1..Len(Tail(seq)) /\ Tail(seq)[i - 1] = x
    BY <1>1, <1>2, <2>1
  <2> QED
    BY <2>2 DEF InSeq
<1>3. ASSUME InSeq(x, Tail(seq)) PROVE InSeq(x, seq)
  <2>1. PICK i \in 1..Len(Tail(seq)) : Tail(seq)[i] = x
    BY <1>3 DEF InSeq
  <2>2. i + 1 \in 1..Len(seq) /\ seq[i + 1] = x
    BY <1>1, <2>1
  <2> QED
    BY <2>2 DEF InSeq
<1>4. x = Head(seq) => InSeq(x, seq)
  BY <1>1 DEF InSeq
<1> QED
  BY <1>2, <1>3, <1>4

-----------------------------------------------------------------------------
(* Types of the operators the handlers are built from.                     *)

LEMMA NotifyType ==
  ASSUME NEW c \in ClientStates, NEW e \in Told
  PROVE  notifyRsrcStatus(c, e) \in ClientStates
BY DEF notifyRsrcStatus, ClientStates, Told, Events

LEMMA NotifySubscribersType ==
  ASSUME client \in [Subs -> ClientStates], NEW T, NEW e \in Told,
         notifySubscribers(T, e)
  PROVE  client' \in [Subs -> ClientStates]
<1>1. \A s \in Subs : notifyRsrcStatus(client[s], e) \in ClientStates
  BY NotifyType
<1> QED
  BY <1>1 DEF notifySubscribers

LEMMA SendType ==
  ASSUME fwReq \in Seq({"REQUEST", "RELEASE"}), NEW a \in {"REQUEST", "RELEASE"},
         NEW subs, sendRsrcRequest(a, subs)
  PROVE  fwReq' \in Seq({"REQUEST", "RELEASE"})
BY AppendProperties DEF sendRsrcRequest

LEMMA MsgTypes ==
  /\ \A e \in Events \cup {"ENGINE_UP"} : Msg(e) \in LocMsgs
  /\ \A s \in Subs : Sub(s) \in LocMsgs /\ Unsub(s) \in LocMsgs
BY DEF Msg, Sub, Unsub, LocMsgs

\* The message at the head of a non-empty FIFO, and the rest.
LEMMA HeadMsg ==
  ASSUME TypeOK, msgs # <<>>
  PROVE  /\ Head(msgs) \in LocMsgs
         /\ Tail(msgs) \in Seq(LocMsgs)
         /\ Head(msgs).ev \in {"SUBSCRIBE", "UNSUBSCRIBE"} => Head(msgs).id \in Subs
<1>1. Head(msgs) \in LocMsgs /\ Tail(msgs) \in Seq(LocMsgs)
  BY HeadTailProperties DEF TypeOK
<1>2. Head(msgs).ev \in {"SUBSCRIBE", "UNSUBSCRIBE"} => Head(msgs).id \in Subs
  BY <1>1 DEF LocMsgs, Events
<1> QED
  BY <1>1, <1>2

-----------------------------------------------------------------------------
(* The handlers keep the types of what they touch.                         *)

HandlerType == /\ mStatePtr \in {"Released", "Pending", "Acquired", "Releasing"}
               /\ mSubscribers \in [Subs -> SubStates]
               /\ client \in [Subs -> ClientStates]
               /\ fwReq \in Seq({"REQUEST", "RELEASE"})

LEMMA NotifyAndDeleteType ==
  ASSUME HandlerType, NEW T, NEW e \in Told, notifyAndDelete(T, e)
  PROVE  client' \in [Subs -> ClientStates] /\ mSubscribers' \in [Subs -> SubStates]
<1>1. client' \in [Subs -> ClientStates]
  BY NotifySubscribersType DEF notifyAndDelete, HandlerType
<1>2. mSubscribers' \in [Subs -> SubStates]
  BY DEF notifyAndDelete, HandlerType, SubStates
<1> QED
  BY <1>1, <1>2

LEMMA AddSubscriberType ==
  ASSUME HandlerType, NEW s \in Subs, addSubscriber(s)
  PROVE  /\ mSubscribers' \in [Subs -> SubStates]
         /\ hasSubscriber(mSubscribers', s)
         /\ mSubscribers[s] = "absent" => mSubscribers'[s] = "active"
         /\ \A t \in Subs : mSubscribers[t] # "absent" => mSubscribers'[t] = mSubscribers[t]
         /\ \A t \in Subs \ {s} : mSubscribers'[t] = mSubscribers[t]
BY DEF HandlerType, SubStates, addSubscriber, hasSubscriber

LEMMA SubscribeType ==
  ASSUME HandlerType, NEW s \in Subs, subscribeRsrc(s)
  PROVE  HandlerType'
<1>t. "DENIED" \in Told /\ "GRANTED" \in Told
  BY DEF Told, Events
<1>1. CASE SubscribeDenied(s)
  BY <1>1, <1>t, NotifySubscribersType DEF SubscribeDenied, HandlerType
<1>2. CASE ReleasedSubscribe(s)
  BY <1>2, AddSubscriberType, SendType DEF ReleasedSubscribe, HandlerType
<1>3. CASE PendingSubscribe(s)
  BY <1>3, AddSubscriberType DEF PendingSubscribe, HandlerType
<1>4. CASE AcquiredSubscribe(s)
  BY <1>4, <1>t, AddSubscriberType, NotifySubscribersType
  DEF AcquiredSubscribe, HandlerType
<1> QED
  BY <1>1, <1>2, <1>3, <1>4 DEF subscribeRsrc

LEMMA DropSubscriberType ==
  ASSUME HandlerType, NEW s \in Subs, dropSubscriber(s)
  PROVE  client' \in [Subs -> ClientStates] /\ mSubscribers' \in [Subs -> SubStates]
<1>t. "UNSUBSCRIBE" \in Told
  BY DEF Told
<1>1. CASE waitForCloseComplete
  BY <1>1 DEF dropSubscriber, HandlerType, SubStates
<1>2. CASE ~waitForCloseComplete
  BY <1>2, <1>t, NotifyAndDeleteType DEF dropSubscriber, notifyOneAndDelete
<1> QED
  BY <1>1, <1>2

LEMMA UnsubscribeType ==
  ASSUME HandlerType, NEW s \in Subs, unsubscribeRsrc(s)
  PROVE  HandlerType'
<1>t. "UNSUBSCRIBE" \in Told
  BY DEF Told
<1>1. CASE UnsubscribeUnknown(s)
  BY <1>1, <1>t, NotifySubscribersType DEF UnsubscribeUnknown, HandlerType
<1>2. CASE ReleasedUnsubscribe(s)
  BY <1>2, <1>t, NotifySubscribersType DEF ReleasedUnsubscribe, HandlerType
<1>3. CASE HoldingUnsubscribe(s)
  BY <1>3, DropSubscriberType, SendType DEF HoldingUnsubscribe, HandlerType
<1>4. CASE ReleasingUnsubscribe(s)
  BY <1>4, DropSubscriberType DEF ReleasingUnsubscribe, HandlerType
<1> QED
  BY <1>1, <1>2, <1>3, <1>4 DEF unsubscribeRsrc

LEMMA EventType ==
  ASSUME HandlerType, NEW e \in Events, onRsrcEvent(e)
  PROVE  HandlerType'
<1>t. "GRANTED" \in Told /\ e \in Told
  BY DEF Told, Events
<1>1. CASE OnGranted
  BY <1>1, <1>t, NotifySubscribersType DEF OnGranted, HandlerType
<1>2. CASE ToReleased(e)
  BY <1>2, <1>t, NotifyAndDeleteType DEF ToReleased, HandlerType
<1>3. CASE OnReleaseDone(e)
  BY <1>3, <1>t, NotifyAndDeleteType, SendType DEF OnReleaseDone, HandlerType
<1>4. CASE Ignored(e)
  BY <1>4 DEF Ignored, HandlerType
<1> QED
  BY <1>1, <1>2, <1>3, <1>4 DEF onRsrcEvent

\* The type invariant holds of every behaviour of the state machine.
THEOREM TypeCorrect == Spec => []TypeOK
<1>1. Init => TypeOK
  <2> SUFFICES ASSUME Init PROVE TypeOK
    OBVIOUS
  <2>1. msgs \in Seq(LocMsgs) /\ fwReq \in Seq({"REQUEST", "RELEASE"})
    BY EmptySeq DEF Init
  <2>2. fwUp \in BOOLEAN
    BY DEF Init
  <2> QED
    BY <2>1, <2>2 DEF Init, TypeOK
<1>2. TypeOK /\ [Next]_vars => TypeOK'
  <2> SUFFICES ASSUME TypeOK, [Next]_vars PROVE TypeOK'
    OBVIOUS
  <2>h. HandlerType
    BY DEF TypeOK, HandlerType, SubStates, ClientStates
  <2>1. CASE UNCHANGED vars
    BY <2>1 DEF TypeOK, vars
  <2>2. CASE HalStep
    <3>1. HandlerType'
      <4>1. CASE Head(msgs).ev = "SUBSCRIBE" /\ subscribeRsrc(Head(msgs).id)
        BY <2>2, <2>h, <4>1, HeadMsg, SubscribeType DEF HalStep
      <4>2. CASE Head(msgs).ev = "UNSUBSCRIBE" /\ unsubscribeRsrc(Head(msgs).id)
        BY <2>2, <2>h, <4>2, HeadMsg, UnsubscribeType DEF HalStep
      <4>3. CASE Head(msgs).ev \in Events /\ onRsrcEvent(Head(msgs).ev)
        BY <2>h, <4>3, EventType
      <4>4. CASE dropAllSubscribers
        BY <2>h, <4>4 DEF dropAllSubscribers, HandlerType, SubStates
      <4> QED
        BY <2>2, <4>1, <4>2, <4>3, <4>4 DEF HalStep
    <3>2. msgs' \in Seq(LocMsgs)
      BY <2>2, HeadMsg DEF HalStep
    <3> QED
      BY <2>2, <3>1, <3>2 DEF HalStep, TypeOK, HandlerType, SubStates, ClientStates
  <2>3. ASSUME NEW s \in Subs, ClientOpens(s) PROVE TypeOK'
    <3>1. msgs' \in Seq(LocMsgs)
      BY <2>3, MsgTypes, AppendProperties DEF ClientOpens, sendMsg, TypeOK
    <3> QED
      BY <2>3, <3>1 DEF ClientOpens, TypeOK
  <2>4. ASSUME NEW s \in Subs, ClientCloses(s) PROVE TypeOK'
    <3>1. msgs' \in Seq(LocMsgs)
      BY <2>4, MsgTypes, AppendProperties DEF ClientCloses, sendMsg, TypeOK
    <3> QED
      BY <2>4, <3>1 DEF ClientCloses, TypeOK
  <2>5. CASE ModemRestarts
    <3>1. msgs' \in Seq(LocMsgs)
      BY <2>5, MsgTypes, AppendProperties DEF ModemRestarts, sendMsg, TypeOK
    <3> QED
      BY <2>5, <3>1 DEF ModemRestarts, TypeOK
  <2>m. Msg("GRANTED") \in LocMsgs /\ Msg("DENIED") \in LocMsgs /\ Msg("RELEASED") \in LocMsgs
    BY MsgTypes DEF Events
  <2>6. CASE FwOpens
    <3>1. msgs' \in Seq(LocMsgs)
      <4>1. msgs' = Append(msgs, Msg("GRANTED")) \/ msgs' = Append(msgs, Msg("DENIED"))
        BY <2>6 DEF FwOpens, loc_eng_agps_open, loc_eng_agps_open_failed, sendMsg
      <4>2. msgs \in Seq(LocMsgs)
        BY DEF TypeOK
      <4> QED
        BY <2>m, <4>1, <4>2, AppendProperties
    <3>2. fwReq' \in Seq({"REQUEST", "RELEASE"})
      BY <2>6, HeadTailProperties
        DEF FwOpens, loc_eng_agps_open, loc_eng_agps_open_failed, TypeOK
    <3>3. fwUp' \in BOOLEAN
      BY <2>6 DEF FwOpens, loc_eng_agps_open, loc_eng_agps_open_failed, TypeOK
    <3> QED
      BY <2>6, <3>1, <3>2, <3>3
        DEF FwOpens, loc_eng_agps_open, loc_eng_agps_open_failed, TypeOK
  <2>7. CASE FwCloses
    <3>1. msgs' \in Seq(LocMsgs)
      BY <2>7, <2>m, AppendProperties DEF FwCloses, loc_eng_agps_closed, sendMsg, TypeOK
    <3>2. fwReq' \in Seq({"REQUEST", "RELEASE"})
      BY <2>7, HeadTailProperties DEF FwCloses, loc_eng_agps_closed, TypeOK
    <3> QED
      BY <2>7, <3>1, <3>2 DEF FwCloses, loc_eng_agps_closed, TypeOK
  <2>8. CASE FwLoses
    <3>1. msgs' \in Seq(LocMsgs)
      BY <2>8, <2>m, AppendProperties DEF FwLoses, loc_eng_agps_closed, sendMsg, TypeOK
    <3> QED
      BY <2>8, <3>1 DEF FwLoses, loc_eng_agps_closed, TypeOK
  <2> QED
    BY <2>1, <2>2, <2>3, <2>4, <2>5, <2>6, <2>7, <2>8 DEF Next
<1> QED
  BY <1>1, <1>2, PTL DEF Spec

-----------------------------------------------------------------------------
(***************************************************************************)
(* ReleasedIsEmpty and PendingIsAnswered are inductive together: the       *)
(* request sent on the way from Released to Pending goes out because the   *)
(* new subscriber is not already there as an inactive one, which is what   *)
(* the empty list of Released guarantees.                                  *)
(***************************************************************************)
Answered == \/ InSeq("REQUEST", fwReq)
            \/ InSeq(Msg("GRANTED"), msgs)
            \/ InSeq(Msg("DENIED"), msgs)

MachineInv == ReleasedIsEmpty /\ PendingIsAnswered

\* Taking a message that is no answer leaves the answer where it is.
LEMMA AnswerStays ==
  ASSUME TypeOK, Answered, msgs # <<>>, Head(msgs).ev \notin {"GRANTED", "DENIED"},
         msgs' = Tail(msgs), fwReq' = fwReq
  PROVE  Answered'
<1>1. /\ Head(msgs) # Msg("GRANTED")
      /\ Head(msgs) # Msg("DENIED")
  BY DEF Msg
<1>2. /\ InSeq(Msg("GRANTED"), msgs) => InSeq(Msg("GRANTED"), Tail(msgs))
      /\ InSeq(Msg("DENIED"), msgs) => InSeq(Msg("DENIED"), Tail(msgs))
  BY <1>1, InTail DEF TypeOK
<1> QED
  BY <1>2 DEF Answered, Msg

\* A request with an active subscriber is one the framework will answer.
LEMMA RequestIsAnswered ==
  ASSUME TypeOK, hasActiveSubscribers(mSubscribers'),
         sendRsrcRequest("REQUEST", mSubscribers')
  PROVE  Answered'
<1>1. fwReq' = Append(fwReq, "REQUEST")
  BY DEF sendRsrcRequest
<1>2. InSeq("REQUEST", Append(fwReq, "REQUEST"))
  BY InAppend DEF TypeOK
<1> QED
  BY <1>1, <1>2 DEF Answered

LEMMA SubscribeKeeps ==
  ASSUME TypeOK, MachineInv, NEW s \in Subs, subscribeRsrc(s),
         msgs # <<>>, Head(msgs).ev = "SUBSCRIBE", msgs' = Tail(msgs)
  PROVE  MachineInv'
<1>h. HandlerType
  BY DEF TypeOK, HandlerType, SubStates, ClientStates
<1>1. CASE SubscribeDenied(s)
  BY <1>1, AnswerStays
  DEF SubscribeDenied, MachineInv, ReleasedIsEmpty, PendingIsAnswered, Answered,
      hasSubscribers
<1>2. CASE ReleasedSubscribe(s)
  <2>1. mSubscribers[s] = "absent"
    BY <1>2 DEF ReleasedSubscribe, MachineInv, ReleasedIsEmpty, hasSubscribers
  <2>2. hasActiveSubscribers(mSubscribers')
    BY <1>2, <1>h, <2>1, AddSubscriberType DEF ReleasedSubscribe, hasActiveSubscribers
  <2>3. Answered'
    BY <1>2, <2>2, RequestIsAnswered DEF ReleasedSubscribe
  <2> QED
    BY <1>2, <2>3
    DEF ReleasedSubscribe, MachineInv, ReleasedIsEmpty, PendingIsAnswered, Answered
<1>3. CASE PendingSubscribe(s)
  BY <1>3, AnswerStays
  DEF PendingSubscribe, MachineInv, ReleasedIsEmpty, PendingIsAnswered, Answered
<1>4. CASE AcquiredSubscribe(s)
  BY <1>4 DEF AcquiredSubscribe, MachineInv, ReleasedIsEmpty, PendingIsAnswered
<1> QED
  BY <1>1, <1>2, <1>3, <1>4 DEF subscribeRsrc

LEMMA UnsubscribeKeeps ==
  ASSUME TypeOK, MachineInv, NEW s \in Subs, unsubscribeRsrc(s),
         msgs # <<>>, Head(msgs).ev = "UNSUBSCRIBE", msgs' = Tail(msgs)
  PROVE  MachineInv'
<1>1. CASE UNCHANGED <<mStatePtr, mSubscribers, fwReq>>
  BY <1>1, AnswerStays
  DEF MachineInv, ReleasedIsEmpty, PendingIsAnswered, Answered, hasSubscribers
<1>2. CASE HoldingUnsubscribe(s)
  <2>1. ReleasedIsEmpty'
    BY <1>2 DEF HoldingUnsubscribe, ReleasedIsEmpty
  <2>2. ASSUME mStatePtr' = "Pending" PROVE Answered'
    <3>1. mStatePtr = "Pending" /\ fwReq' = fwReq
      BY <1>2, <2>2 DEF HoldingUnsubscribe
    <3>2. Answered
      BY <3>1 DEF MachineInv, PendingIsAnswered, Answered
    <3> QED
      BY <3>1, <3>2, AnswerStays
  <2> QED
    BY <2>1, <2>2 DEF MachineInv, PendingIsAnswered, Answered
<1>3. CASE ReleasingUnsubscribe(s)
  BY <1>3 DEF ReleasingUnsubscribe, MachineInv, ReleasedIsEmpty, PendingIsAnswered
<1> QED
  BY <1>1, <1>2, <1>3
  DEF unsubscribeRsrc, UnsubscribeUnknown, ReleasedUnsubscribe

LEMMA EventKeeps ==
  ASSUME TypeOK, MachineInv, NEW e \in Events, onRsrcEvent(e),
         msgs # <<>>, Head(msgs).ev = e, msgs' = Tail(msgs)
  PROVE  MachineInv'
<1>1. CASE OnGranted
  BY <1>1 DEF OnGranted, MachineInv, ReleasedIsEmpty, PendingIsAnswered
<1>2. CASE ToReleased(e)
  <2>1. \A s \in Subs : mSubscribers'[s] = "absent"
    BY <1>2 DEF ToReleased, notifyAndDelete, hasSubscriber, TypeOK
  <2> QED
    BY <1>2, <2>1
    DEF ToReleased, MachineInv, ReleasedIsEmpty, PendingIsAnswered, hasSubscribers
<1>3. CASE OnReleaseDone(e)
  <2>1. \A s \in Subs : mSubscribers'[s] # "active" => mSubscribers'[s] = "absent"
    BY <1>3 DEF OnReleaseDone, notifyAndDelete, TypeOK
  <2>2. CASE hasActiveSubscribers(mSubscribers')
    <3>1. mStatePtr' = "Pending" /\ Answered'
      BY <1>3, <2>2, RequestIsAnswered DEF OnReleaseDone
    <3> QED
      BY <3>1 DEF MachineInv, ReleasedIsEmpty, PendingIsAnswered, Answered
  <2>3. CASE ~hasActiveSubscribers(mSubscribers')
    <3>1. mStatePtr' = "Released"
      BY <1>3, <2>3 DEF OnReleaseDone
    <3>2. ~hasSubscribers(mSubscribers')
      BY <2>1, <2>3 DEF hasSubscribers, hasActiveSubscribers
    <3> QED
      BY <3>1, <3>2 DEF MachineInv, ReleasedIsEmpty, PendingIsAnswered
  <2> QED
    BY <2>2, <2>3
<1>4. CASE Ignored(e)
  <2>1. ReleasedIsEmpty'
    BY <1>4 DEF Ignored, MachineInv, ReleasedIsEmpty, hasSubscribers
  <2>2. ASSUME mStatePtr' = "Pending" PROVE Answered'
    <3>1. mStatePtr = "Pending" /\ fwReq' = fwReq /\ e = "RELEASED"
      BY <1>4, <2>2 DEF Ignored
    <3>2. Answered
      BY <3>1 DEF MachineInv, PendingIsAnswered, Answered
    <3> QED
      BY <3>1, <3>2, AnswerStays
  <2> QED
    BY <2>1, <2>2 DEF MachineInv, PendingIsAnswered, Answered
<1> QED
  BY <1>1, <1>2, <1>3, <1>4 DEF onRsrcEvent

\* A step that adds a message and leaves the machine alone.
LEMMA SendKeeps ==
  ASSUME TypeOK, MachineInv, NEW m \in LocMsgs, sendMsg(m),
         UNCHANGED <<mStatePtr, mSubscribers, fwReq>>
  PROVE  MachineInv'
<1>1. \A x : InSeq(x, msgs) => InSeq(x, msgs')
  BY InAppend DEF sendMsg, TypeOK
<1> QED
  BY <1>1 DEF MachineInv, ReleasedIsEmpty, PendingIsAnswered, hasSubscribers, InSeq

(***************************************************************************)
(* In AgpsReleasedState the subscriber list is empty, and                  *)
(* AgpsPendingState is never entered or kept without an answer under way.  *)
(***************************************************************************)
THEOREM MachineCorrect == Spec => [](ReleasedIsEmpty /\ PendingIsAnswered)
<1>1. Init => MachineInv
  BY DEF Init, MachineInv, ReleasedIsEmpty, PendingIsAnswered, hasSubscribers
<1>2. TypeOK /\ MachineInv /\ [Next]_vars => MachineInv'
  <2> SUFFICES ASSUME TypeOK, MachineInv, [Next]_vars PROVE MachineInv'
    OBVIOUS
  <2>1. CASE UNCHANGED vars
    BY <2>1
    DEF vars, MachineInv, ReleasedIsEmpty, PendingIsAnswered, hasSubscribers, InSeq
  <2>2. CASE HalStep
    <3>0. msgs # <<>> /\ msgs' = Tail(msgs)
      BY <2>2 DEF HalStep
    <3>1. CASE Head(msgs).ev = "SUBSCRIBE" /\ subscribeRsrc(Head(msgs).id)
      BY <3>0, <3>1, HeadMsg, SubscribeKeeps
    <3>2. CASE Head(msgs).ev = "UNSUBSCRIBE" /\ unsubscribeRsrc(Head(msgs).id)
      BY <3>0, <3>2, HeadMsg, UnsubscribeKeeps
    <3>3. CASE Head(msgs).ev \in Events /\ onRsrcEvent(Head(msgs).ev)
      BY <3>0, <3>3, EventKeeps
    <3>4. CASE Head(msgs).ev = "ENGINE_UP" /\ dropAllSubscribers
      <4>1. ReleasedIsEmpty'
        BY <3>4 DEF dropAllSubscribers, ReleasedIsEmpty, hasSubscribers
      <4>2. mStatePtr' = "Pending" => Answered'
        BY <3>0, <3>4, AnswerStays
        DEF dropAllSubscribers, MachineInv, PendingIsAnswered, Answered
      <4> QED
        BY <4>1, <4>2 DEF MachineInv, PendingIsAnswered, Answered
    <3> QED
      BY <2>2, <3>1, <3>2, <3>3, <3>4 DEF HalStep
  <2>3. ASSUME NEW s \in Subs, ClientOpens(s) \/ ClientCloses(s) PROVE MachineInv'
    BY <2>3, MsgTypes, SendKeeps DEF ClientOpens, ClientCloses
  <2>4. CASE ModemRestarts \/ FwLoses
    BY <2>4, MsgTypes, SendKeeps DEF ModemRestarts, FwLoses, loc_eng_agps_closed, Events
  <2>5. CASE FwOpens
    <3>1. Answered'
      <4>1. msgs' = Append(msgs, Msg("GRANTED")) \/ msgs' = Append(msgs, Msg("DENIED"))
        BY <2>5 DEF FwOpens, loc_eng_agps_open, loc_eng_agps_open_failed, sendMsg
      <4>2. msgs \in Seq(LocMsgs) /\ Msg("GRANTED") \in LocMsgs /\ Msg("DENIED") \in LocMsgs
        BY MsgTypes DEF TypeOK, Events
      <4>3. InSeq(Msg("GRANTED"), msgs') \/ InSeq(Msg("DENIED"), msgs')
        <5>1. InSeq(Msg("GRANTED"), Append(msgs, Msg("GRANTED")))
          BY <4>2, InAppend
        <5>2. InSeq(Msg("DENIED"), Append(msgs, Msg("DENIED")))
          BY <4>2, InAppend
        <5> QED
          BY <4>1, <5>1, <5>2
      <4> QED
        BY <4>3 DEF Answered, Msg
    <3>2. UNCHANGED <<mStatePtr, mSubscribers>>
      BY <2>5 DEF FwOpens, loc_eng_agps_open, loc_eng_agps_open_failed
    <3> QED
      BY <3>1, <3>2
      DEF MachineInv, ReleasedIsEmpty, PendingIsAnswered, Answered, hasSubscribers
  <2>6. CASE FwCloses
    <3>1. InSeq("REQUEST", fwReq) => InSeq("REQUEST", fwReq')
      BY <2>6, InTail DEF FwCloses, loc_eng_agps_closed, TypeOK
    <3>2. msgs \in Seq(LocMsgs) /\ Msg("RELEASED") \in LocMsgs
      BY MsgTypes DEF TypeOK, Events
    <3>3. msgs' = Append(msgs, Msg("RELEASED")) /\ UNCHANGED <<mStatePtr, mSubscribers>>
      BY <2>6 DEF FwCloses, loc_eng_agps_closed, sendMsg
    <3>4. \A x : InSeq(x, msgs) => InSeq(x, msgs')
      BY <3>2, <3>3, InAppend
    <3> QED
      BY <3>1, <3>3, <3>4
      DEF MachineInv, ReleasedIsEmpty, PendingIsAnswered, hasSubscribers, InSeq
  <2> QED
    BY <2>1, <2>2, <2>3, <2>4, <2>5, <2>6 DEF Next
<1> QED
  BY <1>1, <1>2, TypeCorrect, PTL DEF Spec, MachineInv

-----------------------------------------------------------------------------
(***************************************************************************)
(* What an ATL client believes.  OpenMeansAcquired needs two more facts:   *)
(* an ATL subscriber is never inactive (waitForCloseComplete is false), so *)
(* that subscribing again makes it active, and between a modem restart and *)
(* ENGINE_UP every client is idle, so that dropAllSubscribers drops nobody *)
(* who counts on the connection.                                           *)
(***************************************************************************)
NoneInactive == \A s \in Subs : mSubscribers[s] # "inactive"
RestartSilences ==
  InSeq(Msg("ENGINE_UP"), msgs) => \A s \in Subs : client[s] = "idle"

AtlInv == NoneInactive /\ RestartSilences /\ OpenMeansAcquired

LEMMA NotifyAtl ==
  ASSUME Kind = "ATL", NEW c \in ClientStates, NEW e \in Told
  PROVE  /\ c = "idle" => notifyRsrcStatus(c, e) = "idle"
         /\ notifyRsrcStatus(c, e) = "open" =>
              e = "GRANTED" \/ (c = "open" /\ e = "DENIED")
BY DEF notifyRsrcStatus, ClientStates, Told, Events

\* Idle clients stay idle whatever they are told, and only GRANTED opens.
LEMMA NotifyAtlAll ==
  ASSUME Kind = "ATL", client \in [Subs -> ClientStates], NEW T, NEW e \in Told,
         notifySubscribers(T, e)
  PROVE  /\ \A s \in Subs : client[s] = "idle" => client'[s] = "idle"
         /\ \A s \in Subs \ T : client'[s] = client[s]
         /\ \A s \in T \cap Subs : client'[s] = "open" =>
               e = "GRANTED" \/ (client[s] = "open" /\ e = "DENIED")
<1>1. \A s \in Subs : client'[s] = IF s \in T THEN notifyRsrcStatus(client[s], e)
                                              ELSE client[s]
  BY DEF notifySubscribers
<1>2. \A s \in Subs : client[s] \in ClientStates
  OBVIOUS
<1> QED
  BY <1>1, <1>2, NotifyAtl

\* What every handler owes: idle clients stay idle, and the invariant's parts
\* about list and clients hold again.
Kept == /\ NoneInactive'
        /\ OpenMeansAcquired'
        /\ \A s \in Subs : client[s] = "idle" => client'[s] = "idle"

LEMMA SubscribeAtl ==
  ASSUME Kind = "ATL", TypeOK, AtlInv, NEW s \in Subs, subscribeRsrc(s)
  PROVE  Kept
<1>h. HandlerType
  BY DEF TypeOK, HandlerType, SubStates, ClientStates
<1>t. "DENIED" \in Told /\ "GRANTED" \in Told
  BY DEF Told, Events
<1>1. CASE SubscribeDenied(s)
  BY <1>1 DEF SubscribeDenied, mEnforceSingleSubscriber
<1>2. CASE ReleasedSubscribe(s) \/ PendingSubscribe(s)
  <2>1. mStatePtr # "Acquired" /\ UNCHANGED client /\ addSubscriber(s)
    BY <1>2 DEF ReleasedSubscribe, PendingSubscribe
  <2>2. NoneInactive'
    BY <1>h, <2>1, AddSubscriberType DEF AtlInv, NoneInactive, addSubscriber, HandlerType
  <2> QED
    BY <2>1, <2>2 DEF AtlInv, OpenMeansAcquired, Kept
<1>3. CASE AcquiredSubscribe(s)
  <2>1. /\ mStatePtr = "Acquired" /\ mStatePtr' = "Acquired"
        /\ addSubscriber(s) /\ notifySubscribers({s}, "GRANTED")
    BY <1>3 DEF AcquiredSubscribe
  <2>2. /\ mSubscribers'[s] = "active"
        /\ \A t \in Subs \ {s} : mSubscribers'[t] = mSubscribers[t]
    BY <1>h, <2>1 DEF AtlInv, NoneInactive, addSubscriber, HandlerType, SubStates
  <2>3. /\ \A t \in Subs : client[t] = "idle" => client'[t] = "idle"
        /\ \A t \in Subs \ {s} : client'[t] = client[t]
    BY <1>h, <1>t, <2>1, NotifyAtlAll DEF HandlerType
  <2> QED
    BY <2>1, <2>2, <2>3 DEF AtlInv, NoneInactive, OpenMeansAcquired, Kept
<1> QED
  BY <1>1, <1>2, <1>3 DEF subscribeRsrc

LEMMA UnsubscribeAtl ==
  ASSUME Kind = "ATL", TypeOK, AtlInv, NEW s \in Subs, unsubscribeRsrc(s)
  PROVE  Kept
<1>h. HandlerType
  BY DEF TypeOK, HandlerType, SubStates, ClientStates
<1>t. "UNSUBSCRIBE" \in Told
  BY DEF Told
<1>1. CASE UnsubscribeUnknown(s) \/ ReleasedUnsubscribe(s)
  <2>1. /\ UNCHANGED <<mStatePtr, mSubscribers>>
        /\ notifySubscribers({s}, "UNSUBSCRIBE")
    BY <1>1 DEF UnsubscribeUnknown, ReleasedUnsubscribe
  <2>2. /\ \A t \in Subs : client[t] = "idle" => client'[t] = "idle"
        /\ \A t \in Subs \ {s} : client'[t] = client[t]
        /\ client'[s] # "open"
    BY <1>h, <1>t, <2>1, NotifyAtlAll DEF HandlerType
  <2> QED
    BY <2>1, <2>2 DEF AtlInv, NoneInactive, OpenMeansAcquired, Kept
<1>2. CASE HoldingUnsubscribe(s) \/ ReleasingUnsubscribe(s)
  <2>1. PICK T \in SUBSET Subs : notifyAndDelete(T, "UNSUBSCRIBE")
    <3>1. notifyOneAndDelete(s, "UNSUBSCRIBE")
      BY <1>2 DEF HoldingUnsubscribe, ReleasingUnsubscribe, dropSubscriber,
                  waitForCloseComplete
    <3> QED
      BY <3>1 DEF notifyOneAndDelete
  <2>2. /\ \A t \in Subs : client[t] = "idle" => client'[t] = "idle"
        /\ \A t \in Subs \ T : client'[t] = client[t]
        /\ \A t \in T : client'[t] # "open"
    BY <1>h, <1>t, <2>1, NotifyAtlAll DEF HandlerType, notifyAndDelete
  <2>3. \A t \in Subs : mSubscribers'[t] = IF t \in T THEN "absent" ELSE mSubscribers[t]
    BY <2>1 DEF notifyAndDelete
  <2>4. ASSUME NEW t \in Subs, client'[t] = "open"
        PROVE  mStatePtr' = "Acquired" /\ mSubscribers'[t] = "active"
    <3>1. t \notin T /\ client[t] = "open"
      BY <2>2, <2>4
    <3>2. mStatePtr = "Acquired" /\ mSubscribers[t] = "active"
      BY <3>1 DEF AtlInv, OpenMeansAcquired
    <3>3. mSubscribers'[t] = "active"
      BY <2>3, <3>1, <3>2
    <3>4. hasSubscribers(mSubscribers') /\ hasActiveSubscribers(mSubscribers')
      BY <3>3 DEF hasSubscribers, hasActiveSubscribers
    <3> QED
      BY <1>2, <3>2, <3>3, <3>4 DEF HoldingUnsubscribe, ReleasingUnsubscribe
  <2> QED
    BY <2>2, <2>3, <2>4 DEF AtlInv, NoneInactive, OpenMeansAcquired, Kept
<1> QED
  BY <1>1, <1>2 DEF unsubscribeRsrc

LEMMA EventAtl ==
  ASSUME Kind = "ATL", TypeOK, AtlInv, NEW e \in Events, onRsrcEvent(e)
  PROVE  Kept
<1>h. HandlerType
  BY DEF TypeOK, HandlerType, SubStates, ClientStates
<1>t. "GRANTED" \in Told /\ e \in Told
  BY DEF Told, Events
<1>1. CASE OnGranted
  <2> DEFINE T == {s \in Subs : mSubscribers[s] = "active"}
  <2>1. /\ notifySubscribers(T, "GRANTED") /\ UNCHANGED mSubscribers
        /\ mStatePtr = "Pending" /\ mStatePtr' = "Acquired"
    BY <1>1 DEF OnGranted
  <2>2. /\ \A t \in Subs : client[t] = "idle" => client'[t] = "idle"
        /\ \A t \in Subs \ T : client'[t] = client[t]
    BY <1>h, <1>t, <2>1, NotifyAtlAll DEF HandlerType
  <2> QED
    BY <2>1, <2>2 DEF AtlInv, NoneInactive, OpenMeansAcquired, Kept
<1>2. CASE ToReleased(e) \/ OnReleaseDone(e)
  <2>1. PICK T \in SUBSET Subs :
          /\ notifyAndDelete(T, e)
          /\ mStatePtr = "Acquired" =>
               e = "RELEASED" /\ \A s \in Subs \ T : mSubscribers[s] = "absent"
    BY <1>2 DEF ToReleased, OnReleaseDone, hasSubscriber
  <2>2. /\ \A t \in Subs : client[t] = "idle" => client'[t] = "idle"
        /\ \A t \in Subs \ T : client'[t] = client[t]
        /\ \A t \in T : client'[t] = "open" =>
               e = "GRANTED" \/ (client[t] = "open" /\ e = "DENIED")
    BY <1>h, <1>t, <2>1, NotifyAtlAll DEF HandlerType, notifyAndDelete
  <2>3. \A t \in Subs : mSubscribers'[t] = IF t \in T THEN "absent" ELSE mSubscribers[t]
    BY <2>1 DEF notifyAndDelete
  <2>4. e # "GRANTED"
    BY <1>2 DEF ToReleased, OnReleaseDone
  <2>5. \A t \in Subs : client'[t] # "open"
    BY <2>1, <2>2, <2>4 DEF AtlInv, OpenMeansAcquired
  <2> QED
    BY <2>2, <2>3, <2>5 DEF AtlInv, NoneInactive, OpenMeansAcquired, Kept
<1>3. CASE Ignored(e)
  BY <1>3 DEF Ignored, AtlInv, NoneInactive, OpenMeansAcquired, Kept
<1> QED
  BY <1>1, <1>2, <1>3 DEF onRsrcEvent

\* A step that adds a message and does not touch the machine; the client it
\* may be about does not become open.
LEMMA SendAtl ==
  ASSUME TypeOK, AtlInv, NEW m \in LocMsgs, sendMsg(m),
         UNCHANGED <<mStatePtr, mSubscribers>>,
         \A s \in Subs : client'[s] = "open" => client[s] = "open",
         m = Msg("ENGINE_UP") => \A s \in Subs : client'[s] = "idle",
         InSeq(Msg("ENGINE_UP"), msgs) => \A s \in Subs : client'[s] = "idle"
  PROVE  AtlInv'
<1>1. InSeq(Msg("ENGINE_UP"), Append(msgs, m)) =>
        InSeq(Msg("ENGINE_UP"), msgs) \/ m = Msg("ENGINE_UP")
  BY InAppend DEF TypeOK
<1>2. RestartSilences'
  BY <1>1 DEF RestartSilences, sendMsg, Msg
<1> QED
  BY <1>2 DEF AtlInv, NoneInactive, OpenMeansAcquired

LEMMA AtlInvariant == ASSUME Kind = "ATL" PROVE Spec => []AtlInv
<1>1. Init => AtlInv
  BY DEF Init, AtlInv, NoneInactive, RestartSilences, OpenMeansAcquired
<1>2. TypeOK /\ AtlInv /\ [Next]_vars => AtlInv'
  <2> SUFFICES ASSUME TypeOK, AtlInv, [Next]_vars PROVE AtlInv'
    OBVIOUS
  <2>1. CASE UNCHANGED vars
    BY <2>1
    DEF vars, AtlInv, NoneInactive, RestartSilences, OpenMeansAcquired, InSeq, Msg
  <2>2. CASE HalStep
    <3>0. msgs # <<>> /\ msgs' = Tail(msgs) /\ msgs \in Seq(LocMsgs)
      BY <2>2 DEF HalStep, TypeOK
    <3>1. CASE Head(msgs).ev # "ENGINE_UP"
      <4>1. Kept
        BY <2>2, <3>0, <3>1, HeadMsg, SubscribeAtl, UnsubscribeAtl, EventAtl
        DEF HalStep
      <4>2. InSeq(Msg("ENGINE_UP"), Tail(msgs)) => InSeq(Msg("ENGINE_UP"), msgs)
        BY <3>0, InTail
      <4>3. RestartSilences'
        BY <3>0, <4>1, <4>2 DEF Kept, AtlInv, RestartSilences, Msg
      <4> QED
        BY <4>1, <4>3 DEF Kept, AtlInv
    <3>2. CASE Head(msgs).ev = "ENGINE_UP"
      <4>1. dropAllSubscribers
        BY <2>2, <3>2 DEF HalStep, Events
      <4>2. Head(msgs) = Msg("ENGINE_UP")
        BY <3>0, <3>2, HeadMsg DEF LocMsgs, Msg, Events
      <4>3. \A s \in Subs : client[s] = "idle"
        BY <3>0, <4>2, InTail DEF AtlInv, RestartSilences
      <4> QED
        BY <4>1, <4>3
        DEF dropAllSubscribers, AtlInv, NoneInactive, RestartSilences, OpenMeansAcquired
    <3> QED
      BY <3>1, <3>2
  <2>3. ASSUME NEW s \in Subs, ClientOpens(s) PROVE AtlInv'
    <3>1. /\ Sub(s) \in LocMsgs /\ Sub(s) # Msg("ENGINE_UP")
          /\ sendMsg(Sub(s)) /\ UNCHANGED <<mStatePtr, mSubscribers>>
          /\ ~InSeq(Msg("ENGINE_UP"), msgs)
          /\ client' = [client EXCEPT ![s] = "opening"]
      BY <2>3, MsgTypes DEF ClientOpens, Sub, Msg
    <3> QED
      BY <3>1, SendAtl DEF TypeOK
  <2>4. ASSUME NEW s \in Subs, ClientCloses(s) PROVE AtlInv'
    <3>1. /\ Unsub(s) \in LocMsgs /\ Unsub(s) # Msg("ENGINE_UP")
          /\ sendMsg(Unsub(s)) /\ UNCHANGED <<mStatePtr, mSubscribers>>
          /\ client[s] # "idle"
          /\ client' = [client EXCEPT ![s] = "closing"]
      BY <2>4, MsgTypes DEF ClientCloses, Unsub, Msg
    <3>2. ~InSeq(Msg("ENGINE_UP"), msgs)
      BY <3>1 DEF AtlInv, RestartSilences
    <3> QED
      BY <3>1, <3>2, SendAtl DEF TypeOK
  <2>5. CASE ModemRestarts
    BY <2>5, MsgTypes, SendAtl DEF ModemRestarts
  <2>6. ASSUME NEW e \in Events, sendMsg(Msg(e)),
               UNCHANGED <<mStatePtr, mSubscribers, client>>
        PROVE  AtlInv'
    <3>1. Msg(e) \in LocMsgs /\ Msg(e) # Msg("ENGINE_UP")
      BY <2>6, MsgTypes DEF Msg, Events
    <3> QED
      BY <2>6, <3>1, SendAtl DEF AtlInv, RestartSilences
  <2>7. CASE FwOpens \/ FwCloses \/ FwLoses
    <3>1. \E e \in Events : sendMsg(Msg(e))
      BY <2>7
        DEF FwOpens, loc_eng_agps_open, loc_eng_agps_open_failed, FwCloses, loc_eng_agps_closed,
            FwLoses, Events
    <3> QED
      BY <2>6, <2>7, <3>1
        DEF FwOpens, loc_eng_agps_open, loc_eng_agps_open_failed, FwCloses, loc_eng_agps_closed, FwLoses
  <2> QED
    BY <2>1, <2>2, <2>3, <2>4, <2>5, <2>7 DEF Next
<1> QED
  BY <1>1, <1>2, TypeCorrect, PTL DEF Spec

(***************************************************************************)
(* An ATL client that was told its connection is open is an active         *)
(* subscriber of a machine that has the connection.                        *)
(***************************************************************************)
THEOREM AtlClientView == ASSUME Kind = "ATL" PROVE Spec => []OpenMeansAcquired
BY AtlInvariant, PTL DEF AtlInv

-----------------------------------------------------------------------------
(* x stands before y in a sequence, and what Append and Tail do to that.   *)

Precedes(x, y, seq) == \E i, j \in 1..Len(seq) : i < j /\ seq[i] = x /\ seq[j] = y

LEMMA PrecedesIn ==
  ASSUME NEW S, NEW seq \in Seq(S), NEW x, NEW y, Precedes(x, y, seq)
  PROVE  InSeq(x, seq) /\ InSeq(y, seq)
BY DEF Precedes, InSeq

LEMMA PrecedesAppend ==
  ASSUME NEW S, NEW seq \in Seq(S), NEW e \in S, NEW x, NEW y
  PROVE  Precedes(x, y, Append(seq, e)) <=> Precedes(x, y, seq) \/ (InSeq(x, seq) /\ e = y)
<1>1. /\ Len(Append(seq, e)) = Len(seq) + 1
      /\ \A i \in 1..Len(seq) : Append(seq, e)[i] = seq[i]
      /\ Append(seq, e)[Len(seq) + 1] = e
      /\ Len(seq) \in Nat
  BY AppendProperties, LenProperties
<1>2. ASSUME Precedes(x, y, seq) PROVE Precedes(x, y, Append(seq, e))
  <2>1. PICK i, j \in 1..Len(seq) : i < j /\ seq[i] = x /\ seq[j] = y
    BY <1>2 DEF Precedes
  <2>2. /\ i \in 1..Len(Append(seq, e)) /\ j \in 1..Len(Append(seq, e))
        /\ Append(seq, e)[i] = x /\ Append(seq, e)[j] = y
    BY <1>1, <2>1
  <2> QED
    BY <2>1, <2>2 DEF Precedes
<1>3. ASSUME InSeq(x, seq), e = y PROVE Precedes(x, y, Append(seq, e))
  <2>1. PICK i \in 1..Len(seq) : seq[i] = x
    BY <1>3 DEF InSeq
  <2>2. /\ i \in 1..Len(Append(seq, e)) /\ Len(seq) + 1 \in 1..Len(Append(seq, e))
        /\ i < Len(seq) + 1 /\ Append(seq, e)[i] = x
    BY <1>1, <2>1
  <2> QED
    BY <1>1, <1>3, <2>2 DEF Precedes
<1>4. ASSUME Precedes(x, y, Append(seq, e)) PROVE Precedes(x, y, seq) \/ (InSeq(x, seq) /\ e = y)
  <2>1. PICK i, j \in 1..Len(Append(seq, e)) :
          i < j /\ Append(seq, e)[i] = x /\ Append(seq, e)[j] = y
    BY <1>4 DEF Precedes
  <2>2. i \in 1..Len(seq) /\ seq[i] = x
    BY <1>1, <2>1
  <2>3. CASE j = Len(seq) + 1
    BY <1>1, <2>1, <2>2, <2>3 DEF InSeq
  <2>4. CASE j # Len(seq) + 1
    <3>1. j \in 1..Len(seq) /\ seq[j] = y
      BY <1>1, <2>1, <2>4
    <3> QED
      BY <2>1, <2>2, <3>1 DEF Precedes
  <2> QED
    BY <2>3, <2>4
<1> QED
  BY <1>2, <1>3, <1>4

LEMMA PrecedesTail ==
  ASSUME NEW S, NEW seq \in Seq(S), seq # <<>>, NEW x, NEW y
  PROVE  Precedes(x, y, seq) <=> Precedes(x, y, Tail(seq)) \/ (Head(seq) = x /\ InSeq(y, Tail(seq)))
<1>1. /\ Len(Tail(seq)) = Len(seq) - 1
      /\ \A i \in 1..Len(Tail(seq)) : Tail(seq)[i] = seq[i + 1]
      /\ Len(seq) \in Nat \ {0}
      /\ Head(seq) = seq[1]
  BY HeadTailProperties, EmptySeq
<1>2. ASSUME Precedes(x, y, Tail(seq)) PROVE Precedes(x, y, seq)
  <2>1. PICK i, j \in 1..Len(Tail(seq)) : i < j /\ Tail(seq)[i] = x /\ Tail(seq)[j] = y
    BY <1>2 DEF Precedes
  <2>2. /\ i + 1 \in 1..Len(seq) /\ j + 1 \in 1..Len(seq) /\ i + 1 < j + 1
        /\ seq[i + 1] = x /\ seq[j + 1] = y
    BY <1>1, <2>1
  <2> QED
    BY <2>2 DEF Precedes
<1>3. ASSUME Head(seq) = x, InSeq(y, Tail(seq)) PROVE Precedes(x, y, seq)
  <2>1. PICK j \in 1..Len(Tail(seq)) : Tail(seq)[j] = y
    BY <1>3 DEF InSeq
  <2>2. /\ 1 \in 1..Len(seq) /\ j + 1 \in 1..Len(seq) /\ 1 < j + 1
        /\ seq[1] = x /\ seq[j + 1] = y
    BY <1>1, <1>3, <2>1
  <2> QED
    BY <2>2 DEF Precedes
<1>4. ASSUME Precedes(x, y, seq), ~(Head(seq) = x /\ InSeq(y, Tail(seq)))
      PROVE  Precedes(x, y, Tail(seq))
  <2>1. PICK i, j \in 1..Len(seq) : i < j /\ seq[i] = x /\ seq[j] = y
    BY <1>4 DEF Precedes
  <2>2. j - 1 \in 1..Len(Tail(seq)) /\ Tail(seq)[j - 1] = y
    BY <1>1, <2>1
  <2>3. i # 1
    BY <1>1, <1>4, <2>1, <2>2 DEF InSeq
  <2>4. i - 1 \in 1..Len(Tail(seq)) /\ Tail(seq)[i - 1] = x /\ i - 1 < j - 1
    BY <1>1, <2>1, <2>3
  <2> QED
    BY <2>2, <2>4 DEF Precedes
<1> QED
  BY <1>2, <1>3, <1>4

LEMMA MsgsDiffer ==
  /\ \A s, t \in Subs : Sub(s) # Unsub(t) /\ (s # t => Sub(s) # Sub(t) /\ Unsub(s) # Unsub(t))
  /\ \A s \in Subs, e \in Events \cup {"ENGINE_UP"} : Msg(e) # Sub(s) /\ Msg(e) # Unsub(s)
BY DEF Sub, Unsub, Msg, Events

\* Which message the HAL takes.
LEMMA HeadIs ==
  ASSUME TypeOK, msgs # <<>>
  PROVE  /\ Head(msgs).ev = "SUBSCRIBE" => Head(msgs).id \in Subs /\ Head(msgs) = Sub(Head(msgs).id)
         /\ Head(msgs).ev = "UNSUBSCRIBE" =>
              Head(msgs).id \in Subs /\ Head(msgs) = Unsub(Head(msgs).id)
         /\ Head(msgs).ev \in Events \cup {"ENGINE_UP"} => Head(msgs) = Msg(Head(msgs).ev)
BY HeadMsg DEF LocMsgs, Sub, Unsub, Msg, Events

-----------------------------------------------------------------------------
(***************************************************************************)
(* AgpsReleasingState is entered with a RELEASE to the framework, since no *)
(* active subscriber is left then, and left by its answer.                 *)
(***************************************************************************)
Released == \/ InSeq("RELEASE", fwReq)
            \/ InSeq(Msg("RELEASED"), msgs)
            \/ InSeq(Msg("DENIED"), msgs)

\* A message is taken that is no answer, or the framework is asked for more.
LEMMA ReleasedStays ==
  ASSUME TypeOK, Released, msgs # <<>>, Head(msgs).ev \notin {"RELEASED", "DENIED"},
         msgs' = Tail(msgs), fwReq' = fwReq \/ fwReq' = Append(fwReq, "REQUEST")
  PROVE  Released'
<1>1. Head(msgs) # Msg("RELEASED") /\ Head(msgs) # Msg("DENIED")
  BY DEF Msg
<1>2. /\ InSeq(Msg("RELEASED"), msgs) => InSeq(Msg("RELEASED"), Tail(msgs))
      /\ InSeq(Msg("DENIED"), msgs) => InSeq(Msg("DENIED"), Tail(msgs))
  BY <1>1, InTail DEF TypeOK
<1>3. InSeq("RELEASE", fwReq) => InSeq("RELEASE", Append(fwReq, "REQUEST"))
  BY InAppend DEF TypeOK
<1> QED
  BY <1>2, <1>3 DEF Released, Msg

\* A message is added.
LEMMA ReleasedSent ==
  ASSUME TypeOK, Released, NEW m \in LocMsgs, sendMsg(m), fwReq' = fwReq
  PROVE  Released'
BY InAppend DEF TypeOK, Released, sendMsg, Msg

THEOREM ReleasingAnswered == Spec => []ReleasingIsAnswered
<1>1. Init => ReleasingIsAnswered
  BY DEF Init, ReleasingIsAnswered
<1>2. TypeOK /\ ReleasingIsAnswered /\ [Next]_vars => ReleasingIsAnswered'
  <2> SUFFICES ASSUME TypeOK, ReleasingIsAnswered, [Next]_vars, mStatePtr' = "Releasing"
               PROVE  Released'
    BY DEF ReleasingIsAnswered, Released, Msg, InSeq
  <2>0. mStatePtr = "Releasing" => Released
    BY DEF ReleasingIsAnswered, Released
  <2>1. CASE UNCHANGED vars
    BY <2>0, <2>1 DEF vars, Released, InSeq, Msg
  <2>2. CASE HalStep
    <3>0. msgs # <<>> /\ msgs' = Tail(msgs)
      BY <2>2 DEF HalStep
    <3>1. ASSUME NEW s \in Subs, subscribeRsrc(s), Head(msgs).ev = "SUBSCRIBE" PROVE Released'
      <4>1. mStatePtr = "Releasing" /\ fwReq' = fwReq
        BY <3>1 DEF subscribeRsrc, SubscribeDenied, ReleasedSubscribe, PendingSubscribe,
                    AcquiredSubscribe
      <4> QED
        BY <2>0, <3>0, <3>1, <4>1, ReleasedStays
    <3>2. ASSUME NEW s \in Subs, unsubscribeRsrc(s), Head(msgs).ev = "UNSUBSCRIBE"
          PROVE  Released'
      <4>1. CASE mStatePtr = "Releasing"
        <5>1. fwReq' = fwReq
          BY <3>2, <4>1
          DEF unsubscribeRsrc, UnsubscribeUnknown, ReleasedUnsubscribe, HoldingUnsubscribe,
              ReleasingUnsubscribe
        <5> QED
          BY <2>0, <3>0, <3>2, <4>1, <5>1, ReleasedStays
      <4>2. CASE mStatePtr # "Releasing"
        <5>1. HoldingUnsubscribe(s)
          BY <3>2, <4>2
          DEF unsubscribeRsrc, UnsubscribeUnknown, ReleasedUnsubscribe, ReleasingUnsubscribe
        <5>2. ~hasActiveSubscribers(mSubscribers')
          BY <4>2, <5>1 DEF HoldingUnsubscribe
        <5>3. fwReq' = Append(fwReq, "RELEASE")
          <6>1. sendRsrcRequest("RELEASE", mSubscribers')
            BY <5>1, <5>2 DEF HoldingUnsubscribe
          <6> QED
            BY <5>2, <6>1 DEF sendRsrcRequest, hasActiveSubscribers
        <5>4. InSeq("RELEASE", Append(fwReq, "RELEASE"))
          BY InAppend DEF TypeOK
        <5> QED
          BY <5>3, <5>4 DEF Released
      <4> QED
        BY <4>1, <4>2
    <3>3. ASSUME Head(msgs).ev \in Events, onRsrcEvent(Head(msgs).ev) PROVE Released'
      <4>1. /\ mStatePtr = "Releasing" /\ fwReq' = fwReq
            /\ Head(msgs).ev \notin {"RELEASED", "DENIED"}
        BY <3>3 DEF onRsrcEvent, OnGranted, ToReleased, OnReleaseDone, Ignored, Events
      <4> QED
        BY <2>0, <3>0, <4>1, ReleasedStays
    <3>4. ASSUME Head(msgs).ev = "ENGINE_UP", dropAllSubscribers PROVE Released'
      BY <2>0, <3>0, <3>4, ReleasedStays DEF dropAllSubscribers
    <3> QED
      BY <2>2, <3>0, <3>1, <3>2, <3>3, <3>4, HeadMsg DEF HalStep
  <2>3. ASSUME NEW m \in LocMsgs, sendMsg(m), UNCHANGED <<mStatePtr, fwReq>> PROVE Released'
    BY <2>0, <2>3, ReleasedSent
  <2>4. ASSUME NEW s \in Subs, ClientOpens(s) \/ ClientCloses(s) PROVE Released'
    BY <2>3, <2>4, MsgTypes DEF ClientOpens, ClientCloses
  <2>5. CASE ModemRestarts \/ FwLoses
    BY <2>3, <2>5, MsgTypes DEF ModemRestarts, FwLoses, loc_eng_agps_closed, Events
  <2>6. CASE FwOpens \/ FwCloses
    <3>1. PICK e \in Events :
            /\ msgs' = Append(msgs, Msg(e)) /\ mStatePtr' = mStatePtr
            /\ fwReq # <<>> /\ fwReq' = Tail(fwReq)
            /\ Head(fwReq) = "RELEASE" => e = "RELEASED"
      BY <2>6 DEF FwOpens, FwCloses, loc_eng_agps_open, loc_eng_agps_open_failed,
                  loc_eng_agps_closed, sendMsg, Events
    <3>2. /\ InSeq("RELEASE", fwReq) => Head(fwReq) = "RELEASE" \/ InSeq("RELEASE", fwReq')
          /\ \A x : InSeq(x, msgs') <=> InSeq(x, msgs) \/ x = Msg(e)
      <4>1. msgs \in Seq(LocMsgs) /\ Msg(e) \in LocMsgs
            /\ fwReq \in Seq({"REQUEST", "RELEASE"})
        BY MsgTypes DEF TypeOK
      <4>2. ASSUME NEW x PROVE InSeq(x, msgs') <=> InSeq(x, msgs) \/ x = Msg(e)
        BY <3>1, <4>1, InAppend
      <4>3. InSeq("RELEASE", fwReq) => Head(fwReq) = "RELEASE" \/ InSeq("RELEASE", fwReq')
        BY <3>1, <4>1, InTail
      <4> QED
        BY <4>2, <4>3
    <3> QED
      BY <2>0, <3>1, <3>2 DEF Released, Msg
  <2> QED
    BY <2>1, <2>2, <2>4, <2>5, <2>6 DEF Next
<1> QED
  BY <1>1, <1>2, TypeCorrect, PTL DEF Spec

-----------------------------------------------------------------------------
(***************************************************************************)
(* What a BIT or WIFI client believes, what the list says of it and what   *)
(* of its messages is still queued belong together.  An answer to an       *)
(* earlier request may make it idle while its UNSUBSCRIBE is queued; the   *)
(* UNSUBSCRIBE then comes before the next SUBSCRIBE and finds nobody.      *)
(***************************************************************************)
View(s, c, u, p, seq) ==
  \/ c = "idle" /\ u = "absent" /\ ~InSeq(Sub(s), seq)
  \/ /\ c = "opening" /\ u = "absent"
     /\ InSeq(Sub(s), seq)
     /\ ~Precedes(Sub(s), Sub(s), seq) /\ ~Precedes(Sub(s), Unsub(s), seq)
  \/ /\ c = "opening" /\ u = "active" /\ p \in {"Pending", "Releasing"}
     /\ ~InSeq(Sub(s), seq) /\ ~InSeq(Unsub(s), seq)
  \/ /\ c = "open" /\ u = "active" /\ p = "Acquired"
     /\ ~InSeq(Sub(s), seq) /\ ~InSeq(Unsub(s), seq)
  \/ /\ c = "closing" /\ u = "absent"
     /\ ~Precedes(Sub(s), Sub(s), seq) /\ Precedes(Sub(s), Unsub(s), seq)
  \/ /\ c = "closing" /\ u = "active"
     /\ ~InSeq(Sub(s), seq) /\ InSeq(Unsub(s), seq)
  \/ /\ c = "closing" /\ u = "inactive" /\ p = "Releasing"
     /\ ~InSeq(Sub(s), seq)

\* Clients who are not on the list do not depend on the state of the machine.
LEMMA ViewAbsent ==
  ASSUME NEW s \in Subs, NEW c, NEW p, NEW r, NEW seq, View(s, c, "absent", p, seq)
  PROVE  View(s, c, "absent", r, seq)
BY DEF View

\* Somebody else's message is taken, or added.
LEMMA ViewTaken ==
  ASSUME NEW s \in Subs, NEW c, NEW u, NEW p, NEW seq \in Seq(LocMsgs), seq # <<>>,
         Head(seq) # Sub(s), Head(seq) # Unsub(s), View(s, c, u, p, seq)
  PROVE  View(s, c, u, p, Tail(seq))
<1>1. /\ InSeq(Sub(s), seq) <=> InSeq(Sub(s), Tail(seq))
      /\ InSeq(Unsub(s), seq) <=> InSeq(Unsub(s), Tail(seq))
      /\ Precedes(Sub(s), Sub(s), seq) <=> Precedes(Sub(s), Sub(s), Tail(seq))
      /\ Precedes(Sub(s), Unsub(s), seq) <=> Precedes(Sub(s), Unsub(s), Tail(seq))
  BY InTail, PrecedesTail
<1> QED
  BY <1>1 DEF View

LEMMA ViewSent ==
  ASSUME NEW s \in Subs, NEW c, NEW u, NEW p, NEW seq \in Seq(LocMsgs), NEW m \in LocMsgs,
         m # Sub(s), m # Unsub(s), View(s, c, u, p, seq)
  PROVE  View(s, c, u, p, Append(seq, m))
<1>1. /\ InSeq(Sub(s), seq) <=> InSeq(Sub(s), Append(seq, m))
      /\ InSeq(Unsub(s), seq) <=> InSeq(Unsub(s), Append(seq, m))
      /\ Precedes(Sub(s), Sub(s), seq) <=> Precedes(Sub(s), Sub(s), Append(seq, m))
      /\ Precedes(Sub(s), Unsub(s), seq) <=> Precedes(Sub(s), Unsub(s), Append(seq, m))
  BY InAppend, PrecedesAppend
<1> QED
  BY <1>1 DEF View

\* The client's own messages are taken.
LEMMA SubTaken ==
  ASSUME NEW s \in Subs, NEW c, NEW u, NEW p, NEW seq \in Seq(LocMsgs), seq # <<>>,
         Head(seq) = Sub(s), View(s, c, u, p, seq)
  PROVE  /\ u = "absent"
         /\ ~InSeq(Sub(s), Tail(seq))
         /\ \/ c = "opening" /\ ~InSeq(Unsub(s), Tail(seq))
            \/ c = "closing" /\ InSeq(Unsub(s), Tail(seq))
<1>1. /\ InSeq(Sub(s), seq)
      /\ Precedes(Sub(s), Sub(s), seq) <=>
           Precedes(Sub(s), Sub(s), Tail(seq)) \/ InSeq(Sub(s), Tail(seq))
      /\ Precedes(Sub(s), Unsub(s), seq) <=>
           Precedes(Sub(s), Unsub(s), Tail(seq)) \/ InSeq(Unsub(s), Tail(seq))
  BY InTail, PrecedesTail
<1>2. /\ Tail(seq) \in Seq(LocMsgs)
      /\ Precedes(Sub(s), Unsub(s), Tail(seq)) => InSeq(Unsub(s), Tail(seq))
  BY HeadTailProperties, PrecedesIn
<1> QED
  BY <1>1, <1>2 DEF View

LEMMA UnsubTaken ==
  ASSUME NEW s \in Subs, NEW c, NEW u, NEW p, NEW seq \in Seq(LocMsgs), seq # <<>>,
         Head(seq) = Unsub(s), View(s, c, u, p, seq)
  PROVE  \/ u = "absent" /\ View(s, c, u, p, Tail(seq))
         \/ c = "closing" /\ u = "active" /\ ~InSeq(Sub(s), Tail(seq))
         \/ c = "closing" /\ u = "inactive" /\ p = "Releasing" /\ ~InSeq(Sub(s), Tail(seq))
<1>1. /\ Unsub(s) # Sub(s)
      /\ InSeq(Unsub(s), seq)
      /\ InSeq(Sub(s), seq) <=> InSeq(Sub(s), Tail(seq))
      /\ Precedes(Sub(s), Sub(s), seq) <=> Precedes(Sub(s), Sub(s), Tail(seq))
      /\ Precedes(Sub(s), Unsub(s), seq) <=> Precedes(Sub(s), Unsub(s), Tail(seq))
  BY InTail, PrecedesTail, MsgsDiffer
<1> QED
  BY <1>1 DEF View

\* The client's own messages are added.
LEMMA SubSent ==
  ASSUME NEW s \in Subs, NEW u, NEW p, NEW seq \in Seq(LocMsgs), View(s, "idle", u, p, seq)
  PROVE  View(s, "opening", u, p, Append(seq, Sub(s)))
<1>1. u = "absent" /\ ~InSeq(Sub(s), seq)
  BY DEF View
<1>2. ~Precedes(Sub(s), Sub(s), seq) /\ ~Precedes(Sub(s), Unsub(s), seq)
  BY <1>1, PrecedesIn
<1>3. Sub(s) \in LocMsgs /\ Sub(s) # Unsub(s)
  BY MsgTypes, MsgsDiffer
<1>4. /\ InSeq(Sub(s), Append(seq, Sub(s)))
      /\ ~Precedes(Sub(s), Sub(s), Append(seq, Sub(s)))
      /\ ~Precedes(Sub(s), Unsub(s), Append(seq, Sub(s)))
  BY <1>1, <1>2, <1>3, InAppend, PrecedesAppend
<1> QED
  BY <1>1, <1>4 DEF View

LEMMA UnsubSent ==
  ASSUME NEW s \in Subs, NEW c \in {"opening", "open"}, NEW u, NEW p, NEW seq \in Seq(LocMsgs),
         View(s, c, u, p, seq)
  PROVE  View(s, "closing", u, p, Append(seq, Unsub(s)))
<1>1. Unsub(s) \in LocMsgs /\ Unsub(s) # Sub(s)
  BY MsgTypes, MsgsDiffer
<1>2. /\ InSeq(Unsub(s), Append(seq, Unsub(s)))
      /\ InSeq(Sub(s), Append(seq, Unsub(s))) <=> InSeq(Sub(s), seq)
      /\ Precedes(Sub(s), Sub(s), Append(seq, Unsub(s))) <=> Precedes(Sub(s), Sub(s), seq)
      /\ InSeq(Sub(s), seq) => Precedes(Sub(s), Unsub(s), Append(seq, Unsub(s)))
  BY <1>1, InAppend, PrecedesAppend
<1> QED
  BY <1>2 DEF View

OneOnList ==
  \A s, t \in Subs : hasSubscriber(mSubscribers, s) /\ hasSubscriber(mSubscribers, t) => s = t

\* WIFI has one subscriber at a time, BIT never an inactive one.
ListInv == IF Kind = "WIFI" THEN OneOnList ELSE NoneInactive

Views == \A s \in Subs : View(s, client[s], mSubscribers[s], mStatePtr, msgs)

ViewInv == Views /\ ListInv /\ ~InSeq(Msg("ENGINE_UP"), msgs)

\* What a daemon or a WIFI client makes of what it is told.
LEMMA NotifyDaemon ==
  ASSUME Kind \in {"BIT", "WIFI"}
  PROVE  /\ notifyRsrcStatus("opening", "GRANTED") = "open"
         /\ notifyRsrcStatus("closing", "GRANTED") = "closing"
         /\ \A e \in {"DENIED", "RELEASED"} : notifyRsrcStatus("closing", e) = "idle"
         /\ notifyRsrcStatus("opening", "DENIED") = "idle"
         /\ notifyRsrcStatus("open", "RELEASED") = "idle"
         /\ Kind = "BIT" => notifyRsrcStatus("closing", "UNSUBSCRIBE") = "idle"
BY DEF notifyRsrcStatus

\* A client that is not concerned by a step of the HAL.
LEMMA Unconcerned ==
  ASSUME TypeOK, Views, NEW t \in Subs, msgs # <<>>, msgs' = Tail(msgs),
         Head(msgs) # Sub(t), Head(msgs) # Unsub(t),
         client'[t] = client[t], mSubscribers'[t] = mSubscribers[t],
         mStatePtr' = mStatePtr \/ mSubscribers[t] = "absent"
  PROVE  View(t, client'[t], mSubscribers'[t], mStatePtr', msgs')
<1>1. View(t, client[t], mSubscribers[t], mStatePtr, Tail(msgs))
  BY ViewTaken DEF TypeOK, Views
<1> QED
  BY <1>1, ViewAbsent

LEMMA SubscribeView ==
  ASSUME Kind \in {"BIT", "WIFI"}, TypeOK, ReleasedIsEmpty, Views, ListInv,
         NEW s \in Subs, subscribeRsrc(s),
         msgs # <<>>, Head(msgs) = Sub(s), msgs' = Tail(msgs)
  PROVE  Views' /\ ListInv'
<1>1. /\ mSubscribers[s] = "absent"
      /\ ~InSeq(Sub(s), msgs')
      /\ \/ client[s] = "opening" /\ ~InSeq(Unsub(s), msgs')
         \/ client[s] = "closing" /\ InSeq(Unsub(s), msgs')
  BY SubTaken DEF TypeOK, Views
<1>2. CASE SubscribeDenied(s)
  <2>1. /\ client'[s] = "idle" /\ \A t \in Subs \ {s} : client'[t] = client[t]
        /\ mSubscribers' = mSubscribers /\ mStatePtr' = mStatePtr
    BY <1>1, <1>2, NotifyDaemon DEF SubscribeDenied, notifySubscribers
  <2>2. View(s, client'[s], mSubscribers'[s], mStatePtr', msgs')
    BY <1>1, <2>1 DEF View
  <2>3. ASSUME NEW t \in Subs, t # s
        PROVE  View(t, client'[t], mSubscribers'[t], mStatePtr', msgs')
    BY <2>1, <2>3, Unconcerned, MsgsDiffer
  <2> QED
    BY <2>1, <2>2, <2>3 DEF Views, ListInv, OneOnList, NoneInactive, hasSubscriber
<1>3. CASE ~SubscribeDenied(s)
  <2>1. /\ mSubscribers'[s] = "active"
        /\ \A t \in Subs \ {s} : mSubscribers'[t] = mSubscribers[t]
        /\ \A t \in Subs \ {s} : client'[t] = client[t]
        /\ \/ /\ mStatePtr = "Released" /\ mStatePtr' = "Pending" /\ client'[s] = client[s]
           \/ /\ mStatePtr \in {"Pending", "Releasing"} /\ mStatePtr' = mStatePtr
              /\ client'[s] = client[s]
           \/ /\ mStatePtr = "Acquired" /\ mStatePtr' = mStatePtr
              /\ client'[s] = notifyRsrcStatus(client[s], "GRANTED")
        /\ Kind = "WIFI" => \A t \in Subs : mSubscribers[t] = "absent"
    <3>1. /\ addSubscriber(s)
          /\ ~(mEnforceSingleSubscriber /\ hasSubscribers(mSubscribers))
          /\ ReleasedSubscribe(s) \/ PendingSubscribe(s) \/ AcquiredSubscribe(s)
      BY <1>3 DEF subscribeRsrc, ReleasedSubscribe, PendingSubscribe, AcquiredSubscribe
    <3>2. mSubscribers'[s] = "active" /\ \A t \in Subs \ {s} : mSubscribers'[t] = mSubscribers[t]
      BY <1>1, <3>1 DEF addSubscriber, TypeOK
    <3> QED
      BY <3>1, <3>2
      DEF ReleasedSubscribe, PendingSubscribe, AcquiredSubscribe, notifySubscribers,
          mEnforceSingleSubscriber, hasSubscribers
  <2>2. View(s, client'[s], mSubscribers'[s], mStatePtr', msgs')
    BY <1>1, <2>1, NotifyDaemon DEF View
  <2>3. ASSUME NEW t \in Subs, t # s
        PROVE  View(t, client'[t], mSubscribers'[t], mStatePtr', msgs')
    <3>1. mStatePtr = "Released" => mSubscribers[t] = "absent"
      BY DEF ReleasedIsEmpty, hasSubscribers
    <3> QED
      BY <2>1, <2>3, <3>1, Unconcerned, MsgsDiffer
  <2>4. ListInv'
    BY <2>1 DEF ListInv, OneOnList, NoneInactive, hasSubscriber
  <2> QED
    BY <2>2, <2>3, <2>4 DEF Views
<1> QED
  BY <1>2, <1>3

LEMMA UnsubscribeView ==
  ASSUME Kind \in {"BIT", "WIFI"}, Kind = "BIT" => ~FreedMatch,
         TypeOK, ReleasedIsEmpty, Views, ListInv, NEW s \in Subs, unsubscribeRsrc(s),
         msgs # <<>>, Head(msgs) = Unsub(s), msgs' = Tail(msgs)
  PROVE  Views' /\ ListInv'
<1>1. \/ /\ mSubscribers[s] = "absent"
         /\ View(s, client[s], mSubscribers[s], mStatePtr, msgs')
      \/ client[s] = "closing" /\ mSubscribers[s] = "active" /\ ~InSeq(Sub(s), msgs')
      \/ /\ client[s] = "closing" /\ mSubscribers[s] = "inactive" /\ mStatePtr = "Releasing"
         /\ ~InSeq(Sub(s), msgs')
  BY UnsubTaken DEF TypeOK, Views
<1>2. CASE mSubscribers[s] = "absent"
  <2>1. client' = client /\ mSubscribers' = mSubscribers /\ mStatePtr' = mStatePtr
    BY <1>2 DEF unsubscribeRsrc, UnsubscribeUnknown, hasSubscriber
  <2>2. View(s, client'[s], mSubscribers'[s], mStatePtr', msgs')
    BY <1>1, <1>2, <2>1
  <2>3. ASSUME NEW t \in Subs, t # s
        PROVE  View(t, client'[t], mSubscribers'[t], mStatePtr', msgs')
    BY <2>1, <2>3, Unconcerned, MsgsDiffer
  <2> QED
    BY <2>1, <2>2, <2>3 DEF Views, ListInv, OneOnList, NoneInactive, hasSubscriber
<1>3. CASE mSubscribers[s] # "absent"
  <2>1. /\ client[s] = "closing" /\ ~InSeq(Sub(s), msgs')
        /\ dropSubscriber(s)
        /\ HoldingUnsubscribe(s) \/ ReleasingUnsubscribe(s)
    <3>1. mStatePtr # "Released"
      BY <1>3 DEF ReleasedIsEmpty, hasSubscribers
    <3> QED
      BY <1>1, <1>3, <3>1
      DEF unsubscribeRsrc, UnsubscribeUnknown, ReleasedUnsubscribe, HoldingUnsubscribe,
          ReleasingUnsubscribe, hasSubscriber
  <2>2. CASE Kind = "BIT"
    <3>1. /\ client'[s] = "idle" /\ mSubscribers'[s] = "absent"
          /\ \A t \in Subs \ {s} :
               client'[t] = client[t] /\ mSubscribers'[t] = mSubscribers[t]
      <4>1. notifyOneAndDelete(s, "UNSUBSCRIBE")
        BY <2>1, <2>2 DEF dropSubscriber, waitForCloseComplete
      <4>2. notifyAndDelete({s}, "UNSUBSCRIBE")
        BY <2>2, <4>1 DEF notifyOneAndDelete
      <4> QED
        BY <2>1, <2>2, <4>2, NotifyDaemon DEF notifyAndDelete, notifySubscribers
    <3>2. View(s, client'[s], mSubscribers'[s], mStatePtr', msgs')
      BY <2>1, <3>1 DEF View
    <3>3. ASSUME NEW t \in Subs, t # s
          PROVE  View(t, client'[t], mSubscribers'[t], mStatePtr', msgs')
      <4>1. mSubscribers[t] \in {"absent", "active"}
        BY <2>2 DEF ListInv, NoneInactive, TypeOK
      <4>2. mSubscribers[t] = "active" =>
              hasSubscribers(mSubscribers') /\ hasActiveSubscribers(mSubscribers')
        BY <3>1, <3>3 DEF hasSubscribers, hasActiveSubscribers
      <4>3. mStatePtr' = mStatePtr \/ mSubscribers[t] = "absent"
        BY <2>1, <4>1, <4>2 DEF HoldingUnsubscribe, ReleasingUnsubscribe
      <4> QED
        BY <3>1, <3>3, <4>3, Unconcerned, MsgsDiffer
    <3>4. ListInv'
      BY <2>2, <3>1 DEF ListInv, NoneInactive
    <3> QED
      BY <3>2, <3>3, <3>4 DEF Views
  <2>3. CASE Kind = "WIFI"
    <3>1. /\ client' = client /\ mSubscribers'[s] = "inactive"
          /\ \A t \in Subs \ {s} : mSubscribers'[t] = mSubscribers[t]
      BY <2>1, <2>3 DEF dropSubscriber, waitForCloseComplete, TypeOK
    <3>2. \A t \in Subs \ {s} : mSubscribers[t] = "absent"
      BY <1>3, <2>3 DEF ListInv, OneOnList, hasSubscriber
    <3>3. mStatePtr' = "Releasing"
      <4>1. hasSubscribers(mSubscribers') /\ ~hasActiveSubscribers(mSubscribers')
        BY <3>1, <3>2 DEF hasSubscribers, hasActiveSubscribers
      <4> QED
        BY <2>1, <4>1 DEF HoldingUnsubscribe, ReleasingUnsubscribe
    <3>4. View(s, client'[s], mSubscribers'[s], mStatePtr', msgs')
      BY <2>1, <3>1, <3>3 DEF View
    <3>5. ASSUME NEW t \in Subs, t # s
          PROVE  View(t, client'[t], mSubscribers'[t], mStatePtr', msgs')
      BY <3>1, <3>2, <3>5, Unconcerned, MsgsDiffer
    <3>6. ListInv'
      BY <2>3, <3>1, <3>2 DEF ListInv, OneOnList, hasSubscriber
    <3> QED
      BY <3>4, <3>5, <3>6 DEF Views
  <2> QED
    BY <2>2, <2>3
<1> QED
  BY <1>2, <1>3

LEMMA EventView ==
  ASSUME Kind \in {"BIT", "WIFI"}, TypeOK, Views, ListInv, NEW e \in Events, onRsrcEvent(e),
         msgs # <<>>, Head(msgs) = Msg(e), msgs' = Tail(msgs)
  PROVE  Views' /\ ListInv'
<1>1. \A t \in Subs : View(t, client[t], mSubscribers[t], mStatePtr, msgs')
  BY ViewTaken, MsgsDiffer DEF TypeOK, Views
<1>2. \A t \in Subs : mSubscribers[t] \in {"absent", "active", "inactive"}
  BY DEF TypeOK
<1>3. ASSUME NEW t \in Subs PROVE View(t, client'[t], mSubscribers'[t], mStatePtr', msgs')
  <2>1. CASE OnGranted
    <3>1. /\ mStatePtr = "Pending" /\ mStatePtr' = "Acquired"
          /\ mSubscribers'[t] = mSubscribers[t]
          /\ client'[t] = IF mSubscribers[t] = "active"
                          THEN notifyRsrcStatus(client[t], "GRANTED") ELSE client[t]
      BY <2>1 DEF OnGranted, notifySubscribers
    <3> QED
      BY <1>1, <3>1, NotifyDaemon DEF View
  <2>2. CASE ToReleased(e)
    <3>1. /\ \/ mStatePtr = "Pending" /\ e = "DENIED"
             \/ mStatePtr = "Acquired" /\ e = "RELEASED"
          /\ mSubscribers'[t] = "absent"
          /\ client'[t] = IF mSubscribers[t] # "absent"
                          THEN notifyRsrcStatus(client[t], e) ELSE client[t]
      BY <1>2, <2>2 DEF ToReleased, notifyAndDelete, notifySubscribers, hasSubscriber
    <3> QED
      BY <1>1, <3>1, NotifyDaemon DEF View
  <2>3. CASE OnReleaseDone(e)
    <3>1. /\ mStatePtr = "Releasing" /\ e \in {"DENIED", "RELEASED"}
          /\ mSubscribers'[t] = IF mSubscribers[t] = "inactive" THEN "absent" ELSE mSubscribers[t]
          /\ client'[t] = IF mSubscribers[t] = "inactive"
                          THEN notifyRsrcStatus(client[t], e) ELSE client[t]
          /\ mSubscribers'[t] = "active" => mStatePtr' = "Pending"
      BY <2>3 DEF OnReleaseDone, notifyAndDelete, notifySubscribers, hasActiveSubscribers
    <3> QED
      BY <1>1, <3>1, NotifyDaemon DEF View
  <2>4. CASE Ignored(e)
    BY <1>1, <2>4 DEF Ignored
  <2> QED
    BY <2>1, <2>2, <2>3, <2>4 DEF onRsrcEvent
<1>4. \A t \in Subs : mSubscribers'[t] = mSubscribers[t] \/ mSubscribers'[t] = "absent"
  BY DEF onRsrcEvent, OnGranted, ToReleased, OnReleaseDone, Ignored, notifyAndDelete
<1>5. ListInv'
  BY <1>4 DEF ListInv, OneOnList, NoneInactive, hasSubscriber
<1> QED
  BY <1>3, <1>5 DEF Views

(***************************************************************************)
(* For BIT without a restart of the modem, and for WIFI.  With FreedMatch  *)
(* the UNSUBSCRIBE of one daemon could take another off the list that is   *)
(* not told anything.                                                      *)
(***************************************************************************)
THEOREM DaemonViews ==
  ASSUME Kind \in {"BIT", "WIFI"}, Kind = "BIT" => ~FreedMatch /\ MaxRestarts = 0
  PROVE  Spec => []ViewInv
<1>1. Init => ViewInv
  BY DEF Init, ViewInv, Views, View, ListInv, OneOnList, NoneInactive, hasSubscriber, InSeq
<1>2. TypeOK /\ ReleasedIsEmpty /\ ViewInv /\ [Next]_vars => ViewInv'
  <2> SUFFICES ASSUME TypeOK, ReleasedIsEmpty, ViewInv, [Next]_vars PROVE ViewInv'
    OBVIOUS
  <2>0. Views /\ ListInv /\ ~InSeq(Msg("ENGINE_UP"), msgs) /\ msgs \in Seq(LocMsgs)
    BY DEF ViewInv, TypeOK
  <2>1. CASE UNCHANGED vars
    BY <2>0, <2>1
    DEF vars, ViewInv, Views, ListInv, OneOnList, NoneInactive, hasSubscriber, Msg
  <2>2. CASE HalStep
    <3>0. msgs # <<>> /\ msgs' = Tail(msgs)
      BY <2>2 DEF HalStep
    <3>1. ~InSeq(Msg("ENGINE_UP"), msgs') /\ Head(msgs) # Msg("ENGINE_UP")
      BY <2>0, <3>0, InTail
    <3>2. CASE Head(msgs).ev = "SUBSCRIBE" /\ subscribeRsrc(Head(msgs).id)
      BY <2>0, <3>0, <3>1, <3>2, HeadIs, SubscribeView DEF ViewInv, Msg
    <3>3. CASE Head(msgs).ev = "UNSUBSCRIBE" /\ unsubscribeRsrc(Head(msgs).id)
      BY <2>0, <3>0, <3>1, <3>3, HeadIs, UnsubscribeView DEF ViewInv, Msg
    <3>4. CASE Head(msgs).ev \in Events /\ onRsrcEvent(Head(msgs).ev)
      BY <2>0, <3>0, <3>1, <3>4, HeadIs, EventView DEF ViewInv, Msg
    <3>5. Head(msgs).ev # "ENGINE_UP"
      BY <3>0, <3>1, HeadIs
    <3> QED
      BY <2>2, <3>2, <3>3, <3>4, <3>5 DEF HalStep
  <2>3. ASSUME NEW m \in LocMsgs, sendMsg(m), m # Msg("ENGINE_UP"),
               UNCHANGED <<mStatePtr, mSubscribers>>,
               NEW S \in SUBSET Subs,
               \A t \in Subs \ S : /\ client'[t] = client[t] /\ m # Sub(t) /\ m # Unsub(t),
               \A s \in S : View(s, client'[s], mSubscribers[s], mStatePtr, Append(msgs, m))
        PROVE  ViewInv'
    <3>1. msgs' = Append(msgs, m)
      BY <2>3 DEF sendMsg
    <3>2. ASSUME NEW t \in Subs PROVE View(t, client'[t], mSubscribers'[t], mStatePtr', msgs')
      <4>1. CASE t \in S
        BY <2>3, <3>1, <4>1
      <4>2. CASE t \notin S
        BY <2>0, <2>3, <3>1, <4>2, ViewSent DEF Views
      <4> QED
        BY <4>1, <4>2
    <3>3. ~InSeq(Msg("ENGINE_UP"), msgs')
      BY <2>0, <2>3, <3>1, InAppend
    <3>4. ListInv'
      BY <2>0, <2>3 DEF ListInv, OneOnList, NoneInactive, hasSubscriber
    <3> QED
      BY <3>2, <3>3, <3>4 DEF ViewInv, Views, Msg
  <2>4. ASSUME NEW s \in Subs, ClientOpens(s) PROVE ViewInv'
    <3>1. /\ client[s] = "idle" /\ client'[s] = "opening"
          /\ \A t \in Subs \ {s} : client'[t] = client[t]
          /\ sendMsg(Sub(s)) /\ UNCHANGED <<mStatePtr, mSubscribers>>
      BY <2>4 DEF ClientOpens, TypeOK
    <3>2. View(s, client'[s], mSubscribers[s], mStatePtr, Append(msgs, Sub(s)))
      BY <2>0, <3>1, SubSent DEF Views
    <3>3. /\ Sub(s) \in LocMsgs /\ Sub(s) # Msg("ENGINE_UP")
          /\ \A t \in Subs \ {s} : Sub(s) # Sub(t) /\ Sub(s) # Unsub(t)
      BY MsgTypes, MsgsDiffer
    <3> QED
      BY <2>3, <3>1, <3>2, <3>3
  <2>5. ASSUME NEW s \in Subs, ClientCloses(s) PROVE ViewInv'
    <3>1. /\ client[s] \in {"opening", "open"} /\ client'[s] = "closing"
          /\ \A t \in Subs \ {s} : client'[t] = client[t]
          /\ sendMsg(Unsub(s)) /\ UNCHANGED <<mStatePtr, mSubscribers>>
      BY <2>5 DEF ClientCloses, TypeOK
    <3>2. View(s, client'[s], mSubscribers[s], mStatePtr, Append(msgs, Unsub(s)))
      BY <2>0, <3>1, UnsubSent DEF Views
    <3>3. /\ Unsub(s) \in LocMsgs /\ Unsub(s) # Msg("ENGINE_UP")
          /\ \A t \in Subs \ {s} : Unsub(s) # Sub(t) /\ Unsub(s) # Unsub(t)
      BY MsgTypes, MsgsDiffer
    <3> QED
      BY <2>3, <3>1, <3>2, <3>3
  <2>6. CASE ModemRestarts
    BY <2>6 DEF ModemRestarts, TypeOK
  <2>7. CASE FwOpens \/ FwCloses \/ FwLoses
    <3>1. PICK e \in Events :
            sendMsg(Msg(e)) /\ UNCHANGED <<mStatePtr, mSubscribers, client>>
      BY <2>7 DEF FwOpens, loc_eng_agps_open, loc_eng_agps_open_failed, FwCloses,
                  loc_eng_agps_closed, FwLoses, Events
    <3>2. /\ Msg(e) \in LocMsgs /\ Msg(e) # Msg("ENGINE_UP")
          /\ \A t \in Subs : Msg(e) # Sub(t) /\ Msg(e) # Unsub(t)
      BY MsgTypes, MsgsDiffer DEF Msg, Events
    <3>3. /\ {} \in SUBSET Subs
          /\ \A t \in Subs \ {} :
               client'[t] = client[t] /\ Msg(e) # Sub(t) /\ Msg(e) # Unsub(t)
          /\ \A s \in {} : View(s, client'[s], mSubscribers[s], mStatePtr, Append(msgs, Msg(e)))
      BY <3>1, <3>2
    <3> QED
      BY <2>3, <3>1, <3>2, <3>3, Zenon
  <2> QED
    BY <2>1, <2>2, <2>4, <2>5, <2>6, <2>7 DEF Next
<1> QED
  BY <1>1, <1>2, TypeCorrect, MachineCorrect, PTL DEF Spec

-----------------------------------------------------------------------------
(***************************************************************************)
(* An ATL client may have several messages queued: a restart of the modem  *)
(* makes it idle whatever it sent.  While it waits for its connection, no  *)
(* UNSUBSCRIBE of its past comes behind its last SUBSCRIBE.                *)
(***************************************************************************)
Followed(s, seq) ==
  \A i \in 1..Len(seq) : seq[i] = Unsub(s) => \E j \in 1..Len(seq) : i < j /\ seq[j] = Sub(s)

AtlView(s, c, u, p, seq) ==
  /\ c = "opening" => /\ Followed(s, seq)
                      /\ InSeq(Sub(s), seq) \/ (u = "active" /\ p \in {"Pending", "Releasing"})
  /\ c = "closing" => InSeq(Unsub(s), seq)

AtlViews == \A s \in Subs : AtlView(s, client[s], mSubscribers[s], mStatePtr, msgs)

LEMMA FollowedAppend ==
  ASSUME NEW s \in Subs, NEW seq \in Seq(LocMsgs), NEW m \in LocMsgs,
         m = Sub(s) \/ (m # Unsub(s) /\ Followed(s, seq))
  PROVE  Followed(s, Append(seq, m))
<1>1. /\ Len(Append(seq, m)) = Len(seq) + 1
      /\ \A i \in 1..Len(seq) : Append(seq, m)[i] = seq[i]
      /\ Append(seq, m)[Len(seq) + 1] = m
      /\ Len(seq) \in Nat
  BY AppendProperties, LenProperties
<1> SUFFICES ASSUME NEW i \in 1..Len(Append(seq, m)), Append(seq, m)[i] = Unsub(s)
             PROVE  \E j \in 1..Len(Append(seq, m)) : i < j /\ Append(seq, m)[j] = Sub(s)
  BY DEF Followed
<1>2. i \in 1..Len(seq) /\ seq[i] = Unsub(s)
  BY <1>1, MsgsDiffer
<1>3. CASE m = Sub(s)
  <2>1. Len(seq) + 1 \in 1..Len(Append(seq, m)) /\ i < Len(seq) + 1
    BY <1>1, <1>2
  <2> QED
    BY <1>1, <1>3, <2>1
<1>4. CASE Followed(s, seq)
  <2>1. PICK j \in 1..Len(seq) : i < j /\ seq[j] = Sub(s)
    BY <1>2, <1>4 DEF Followed
  <2>2. j \in 1..Len(Append(seq, m)) /\ Append(seq, m)[j] = Sub(s)
    BY <1>1, <2>1
  <2> QED
    BY <2>1, <2>2
<1> QED
  BY <1>3, <1>4

LEMMA FollowedTail ==
  ASSUME NEW s \in Subs, NEW seq \in Seq(LocMsgs), seq # <<>>, Followed(s, seq)
  PROVE  /\ Followed(s, Tail(seq))
         /\ Head(seq) = Unsub(s) => InSeq(Sub(s), Tail(seq))
<1>1. /\ Len(Tail(seq)) = Len(seq) - 1
      /\ \A i \in 1..Len(Tail(seq)) : Tail(seq)[i] = seq[i + 1]
      /\ Len(seq) \in Nat \ {0}
      /\ Head(seq) = seq[1]
  BY HeadTailProperties, EmptySeq
<1>2. ASSUME NEW i \in 1..Len(Tail(seq)), Tail(seq)[i] = Unsub(s)
      PROVE  \E j \in 1..Len(Tail(seq)) : i < j /\ Tail(seq)[j] = Sub(s)
  <2>1. i + 1 \in 1..Len(seq) /\ seq[i + 1] = Unsub(s)
    BY <1>1, <1>2
  <2>2. PICK j \in 1..Len(seq) : i + 1 < j /\ seq[j] = Sub(s)
    BY <2>1 DEF Followed
  <2>3. j - 1 \in 1..Len(Tail(seq)) /\ Tail(seq)[j - 1] = Sub(s) /\ i < j - 1
    BY <1>1, <2>2
  <2> QED
    BY <2>3
<1>3. ASSUME Head(seq) = Unsub(s) PROVE InSeq(Sub(s), Tail(seq))
  <2>1. 1 \in 1..Len(seq) /\ seq[1] = Unsub(s)
    BY <1>1, <1>3
  <2>2. PICK j \in 1..Len(seq) : 1 < j /\ seq[j] = Sub(s)
    BY <2>1 DEF Followed
  <2>3. j - 1 \in 1..Len(Tail(seq)) /\ Tail(seq)[j - 1] = Sub(s)
    BY <1>1, <2>2
  <2> QED
    BY <2>3 DEF InSeq
<1> QED
  BY <1>2, <1>3 DEF Followed

\* A message that is not the client's is taken, or added.
LEMMA AtlViewTaken ==
  ASSUME NEW s \in Subs, NEW c, NEW u, NEW p, NEW seq \in Seq(LocMsgs), seq # <<>>,
         Head(seq) # Sub(s), Head(seq) # Unsub(s), AtlView(s, c, u, p, seq)
  PROVE  AtlView(s, c, u, p, Tail(seq))
<1>1. /\ InSeq(Sub(s), seq) => InSeq(Sub(s), Tail(seq))
      /\ InSeq(Unsub(s), seq) => InSeq(Unsub(s), Tail(seq))
      /\ Followed(s, seq) => Followed(s, Tail(seq))
  BY InTail, FollowedTail
<1> QED
  BY <1>1 DEF AtlView

LEMMA AtlViewSent ==
  ASSUME NEW s \in Subs, NEW c, NEW u, NEW p, NEW seq \in Seq(LocMsgs), NEW m \in LocMsgs,
         m # Unsub(s), AtlView(s, c, u, p, seq)
  PROVE  AtlView(s, c, u, p, Append(seq, m))
<1>1. /\ InSeq(Sub(s), seq) => InSeq(Sub(s), Append(seq, m))
      /\ InSeq(Unsub(s), seq) => InSeq(Unsub(s), Append(seq, m))
      /\ Followed(s, seq) => Followed(s, Append(seq, m))
  BY InAppend, FollowedAppend
<1> QED
  BY <1>1 DEF AtlView

LEMMA UnconcernedAtl ==
  ASSUME TypeOK, AtlViews, NEW t \in Subs, msgs # <<>>, msgs' = Tail(msgs),
         Head(msgs) # Sub(t), Head(msgs) # Unsub(t),
         client'[t] = client[t], mSubscribers'[t] = mSubscribers[t],
         mStatePtr' = mStatePtr \/ mSubscribers[t] # "active"
           \/ mStatePtr \notin {"Pending", "Releasing"}
  PROVE  AtlView(t, client'[t], mSubscribers'[t], mStatePtr', msgs')
<1>1. AtlView(t, client[t], mSubscribers[t], mStatePtr, Tail(msgs))
  BY AtlViewTaken DEF TypeOK, AtlViews
<1> QED
  BY <1>1 DEF AtlView

LEMMA SubscribeAtlViews ==
  ASSUME Kind = "ATL", TypeOK, NoneInactive, AtlViews, NEW s \in Subs, subscribeRsrc(s),
         msgs # <<>>, Head(msgs) = Sub(s), msgs' = Tail(msgs)
  PROVE  AtlViews'
<1>1. /\ client[s] = "opening" => Followed(s, msgs')
      /\ client[s] = "closing" => InSeq(Unsub(s), msgs')
  <2>1. msgs \in Seq(LocMsgs) /\ AtlView(s, client[s], mSubscribers[s], mStatePtr, msgs)
    BY DEF TypeOK, AtlViews
  <2>2. Followed(s, msgs) => Followed(s, Tail(msgs))
    BY <2>1, FollowedTail
  <2>3. InSeq(Unsub(s), msgs) => InSeq(Unsub(s), Tail(msgs))
    BY <2>1, InTail, MsgsDiffer
  <2> QED
    BY <2>1, <2>2, <2>3 DEF AtlView
<1>2. /\ mSubscribers'[s] = "active"
      /\ \A t \in Subs \ {s} : mSubscribers'[t] = mSubscribers[t] /\ client'[t] = client[t]
      /\ \/ /\ mStatePtr = "Released" /\ mStatePtr' = "Pending" /\ client'[s] = client[s]
         \/ /\ mStatePtr \in {"Pending", "Releasing"} /\ mStatePtr' = mStatePtr
            /\ client'[s] = client[s]
         \/ /\ mStatePtr = "Acquired" /\ mStatePtr' = mStatePtr
            /\ client'[s] = notifyRsrcStatus(client[s], "GRANTED")
  <2>1. /\ addSubscriber(s)
        /\ ReleasedSubscribe(s) \/ PendingSubscribe(s) \/ AcquiredSubscribe(s)
    BY DEF subscribeRsrc, SubscribeDenied, mEnforceSingleSubscriber, ReleasedSubscribe,
           PendingSubscribe, AcquiredSubscribe
  <2>2. mSubscribers'[s] = "active" /\ \A t \in Subs \ {s} : mSubscribers'[t] = mSubscribers[t]
    BY <2>1 DEF addSubscriber, TypeOK, NoneInactive
  <2> QED
    BY <2>1, <2>2
    DEF ReleasedSubscribe, PendingSubscribe, AcquiredSubscribe, notifySubscribers
<1>3. AtlView(s, client'[s], mSubscribers'[s], mStatePtr', msgs')
  <2>1. client[s] \in ClientStates
    BY DEF TypeOK, ClientStates
  <2>2. /\ notifyRsrcStatus(client[s], "GRANTED") # "opening"
        /\ notifyRsrcStatus(client[s], "GRANTED") = "closing" => client[s] = "closing"
    BY <2>1 DEF notifyRsrcStatus, ClientStates
  <2> QED
    BY <1>1, <1>2, <2>2 DEF AtlView
<1>4. ASSUME NEW t \in Subs, t # s
      PROVE  AtlView(t, client'[t], mSubscribers'[t], mStatePtr', msgs')
  BY <1>2, <1>4, UnconcernedAtl, MsgsDiffer
<1> QED
  BY <1>3, <1>4 DEF AtlViews

LEMMA UnsubscribeAtlViews ==
  ASSUME Kind = "ATL", ~FreedMatch, TypeOK, NoneInactive, AtlViews,
         NEW s \in Subs, unsubscribeRsrc(s),
         msgs # <<>>, Head(msgs) = Unsub(s), msgs' = Tail(msgs)
  PROVE  AtlViews'
<1>1. client[s] = "opening" => Followed(s, msgs') /\ InSeq(Sub(s), msgs')
  BY FollowedTail DEF TypeOK, AtlViews, AtlView
<1>2. /\ client'[s] = notifyRsrcStatus(client[s], "UNSUBSCRIBE")
      /\ \A t \in Subs \ {s} : /\ mSubscribers'[t] = mSubscribers[t]
                               /\ client'[t] = client[t]
                               /\ mStatePtr' = mStatePtr \/ mSubscribers[t] # "active"
  <2>1. CASE UnsubscribeUnknown(s) \/ ReleasedUnsubscribe(s)
    BY <2>1 DEF UnsubscribeUnknown, ReleasedUnsubscribe, notifySubscribers
  <2>2. CASE HoldingUnsubscribe(s) \/ ReleasingUnsubscribe(s)
    <3>1. notifyOneAndDelete(s, "UNSUBSCRIBE")
      BY <2>2 DEF HoldingUnsubscribe, ReleasingUnsubscribe, dropSubscriber, waitForCloseComplete
    <3>2. notifyAndDelete({s}, "UNSUBSCRIBE")
      BY <3>1 DEF notifyOneAndDelete
    <3>3. /\ client'[s] = notifyRsrcStatus(client[s], "UNSUBSCRIBE")
          /\ \A t \in Subs \ {s} : mSubscribers'[t] = mSubscribers[t] /\ client'[t] = client[t]
      BY <3>2 DEF notifyAndDelete, notifySubscribers
    <3>4. ASSUME NEW t \in Subs \ {s}, mSubscribers[t] = "active" PROVE mStatePtr' = mStatePtr
      <4>1. hasSubscribers(mSubscribers') /\ hasActiveSubscribers(mSubscribers')
        BY <3>3, <3>4 DEF hasSubscribers, hasActiveSubscribers
      <4> QED
        BY <2>2, <4>1 DEF HoldingUnsubscribe, ReleasingUnsubscribe
    <3> QED
      BY <3>3, <3>4
  <2> QED
    BY <2>1, <2>2 DEF unsubscribeRsrc
<1>3. AtlView(s, client'[s], mSubscribers'[s], mStatePtr', msgs')
  <2>1. client[s] \in ClientStates
    BY DEF TypeOK, ClientStates
  <2>2. /\ notifyRsrcStatus(client[s], "UNSUBSCRIBE") # "closing"
        /\ notifyRsrcStatus(client[s], "UNSUBSCRIBE") = "opening" => client[s] = "opening"
    BY <2>1 DEF notifyRsrcStatus, ClientStates
  <2> QED
    BY <1>1, <1>2, <2>2 DEF AtlView
<1>4. ASSUME NEW t \in Subs, t # s
      PROVE  AtlView(t, client'[t], mSubscribers'[t], mStatePtr', msgs')
  BY <1>2, <1>4, UnconcernedAtl, MsgsDiffer
<1> QED
  BY <1>3, <1>4 DEF AtlViews

LEMMA EventAtlViews ==
  ASSUME Kind = "ATL", TypeOK, NoneInactive, AtlViews, NEW e \in Events, onRsrcEvent(e),
         msgs # <<>>, Head(msgs) = Msg(e), msgs' = Tail(msgs)
  PROVE  AtlViews'
<1> SUFFICES ASSUME NEW t \in Subs
             PROVE  AtlView(t, client'[t], mSubscribers'[t], mStatePtr', msgs')
  BY DEF AtlViews
<1>1. AtlView(t, client[t], mSubscribers[t], mStatePtr, msgs')
  BY AtlViewTaken, MsgsDiffer DEF TypeOK, AtlViews
<1>2. mSubscribers[t] \in {"absent", "active"} /\ client[t] \in ClientStates
  BY DEF TypeOK, NoneInactive, ClientStates
<1>3. CASE OnGranted
  <2>1. /\ mStatePtr = "Pending" /\ mSubscribers'[t] = mSubscribers[t]
        /\ client'[t] = IF mSubscribers[t] = "active"
                        THEN notifyRsrcStatus(client[t], "GRANTED") ELSE client[t]
    BY <1>3 DEF OnGranted, notifySubscribers
  <2>2. /\ notifyRsrcStatus(client[t], "GRANTED") # "opening"
        /\ notifyRsrcStatus(client[t], "GRANTED") = "closing" => client[t] = "closing"
    BY <1>2 DEF notifyRsrcStatus, ClientStates
  <2> QED
    BY <1>1, <1>2, <2>1, <2>2 DEF AtlView
<1>4. CASE ToReleased(e)
  <2>1. /\ \/ mStatePtr = "Pending" /\ e = "DENIED"
           \/ mStatePtr = "Acquired" /\ e = "RELEASED"
        /\ client'[t] = IF mSubscribers[t] = "active"
                        THEN notifyRsrcStatus(client[t], e) ELSE client[t]
    BY <1>2, <1>4 DEF ToReleased, notifyAndDelete, notifySubscribers, hasSubscriber
  <2>2. /\ notifyRsrcStatus(client[t], e) = "opening" => client[t] = "opening" /\ e # "DENIED"
        /\ notifyRsrcStatus(client[t], e) = "closing" => client[t] = "closing"
    BY <1>2, <2>1 DEF notifyRsrcStatus, ClientStates
  <2> QED
    BY <1>1, <1>2, <2>1, <2>2 DEF AtlView
<1>5. CASE OnReleaseDone(e)
  <2>1. /\ mSubscribers'[t] = mSubscribers[t] /\ client'[t] = client[t]
        /\ mSubscribers'[t] = "active" => mStatePtr' = "Pending"
    BY <1>2, <1>5 DEF OnReleaseDone, notifyAndDelete, notifySubscribers, hasActiveSubscribers
  <2> QED
    BY <1>1, <2>1 DEF AtlView
<1>6. CASE Ignored(e)
  BY <1>1, <1>6 DEF Ignored
<1> QED
  BY <1>3, <1>4, <1>5, <1>6 DEF onRsrcEvent

THEOREM AtlClientViews == ASSUME Kind = "ATL", ~FreedMatch PROVE Spec => []AtlViews
<1>1. Init => AtlViews
  BY DEF Init, AtlViews, AtlView
<1>2. TypeOK /\ AtlInv /\ AtlViews /\ [Next]_vars => AtlViews'
  <2> SUFFICES ASSUME TypeOK, AtlInv, AtlViews, [Next]_vars PROVE AtlViews'
    OBVIOUS
  <2>0. msgs \in Seq(LocMsgs) /\ NoneInactive
    BY DEF TypeOK, AtlInv
  <2>1. CASE UNCHANGED vars
    BY <2>1 DEF vars, AtlViews
  <2>2. CASE HalStep
    <3>0. msgs # <<>> /\ msgs' = Tail(msgs)
      BY <2>2 DEF HalStep
    <3>1. CASE Head(msgs).ev = "SUBSCRIBE" /\ subscribeRsrc(Head(msgs).id)
      BY <2>0, <3>0, <3>1, HeadIs, SubscribeAtlViews
    <3>2. CASE Head(msgs).ev = "UNSUBSCRIBE" /\ unsubscribeRsrc(Head(msgs).id)
      BY <2>0, <3>0, <3>2, HeadIs, UnsubscribeAtlViews
    <3>3. CASE Head(msgs).ev \in Events /\ onRsrcEvent(Head(msgs).ev)
      BY <2>0, <3>0, <3>3, HeadIs, EventAtlViews
    <3>4. CASE Head(msgs).ev = "ENGINE_UP" /\ dropAllSubscribers
      <4>1. \A s \in Subs : client[s] = "idle"
        BY <2>0, <3>0, <3>4, HeadIs, InTail DEF AtlInv, RestartSilences
      <4>2. client' = client
        BY <3>4 DEF dropAllSubscribers
      <4> QED
        BY <4>1, <4>2 DEF AtlViews, AtlView
    <3> QED
      BY <2>2, <3>1, <3>2, <3>3, <3>4 DEF HalStep
  <2>3. ASSUME NEW s \in Subs, ClientOpens(s) PROVE AtlViews'
    <3>1. /\ client'[s] = "opening" /\ \A t \in Subs \ {s} : client'[t] = client[t]
          /\ msgs' = Append(msgs, Sub(s)) /\ UNCHANGED <<mStatePtr, mSubscribers>>
      BY <2>3 DEF ClientOpens, sendMsg, TypeOK
    <3>2. Sub(s) \in LocMsgs /\ \A t \in Subs : Sub(s) # Unsub(t)
      BY MsgTypes, MsgsDiffer
    <3>3. AtlView(s, "opening", mSubscribers[s], mStatePtr, Append(msgs, Sub(s)))
      BY <2>0, <3>2, InAppend, FollowedAppend DEF AtlView
    <3>4. ASSUME NEW t \in Subs
          PROVE  AtlView(t, client[t], mSubscribers[t], mStatePtr, Append(msgs, Sub(s)))
      BY <2>0, <3>2, AtlViewSent DEF AtlViews
    <3> QED
      BY <3>1, <3>3, <3>4 DEF AtlViews
  <2>4. ASSUME NEW s \in Subs, ClientCloses(s) PROVE AtlViews'
    <3>1. /\ client'[s] = "closing" /\ \A t \in Subs \ {s} : client'[t] = client[t]
          /\ msgs' = Append(msgs, Unsub(s)) /\ UNCHANGED <<mStatePtr, mSubscribers>>
      BY <2>4 DEF ClientCloses, sendMsg, TypeOK
    <3>2. Unsub(s) \in LocMsgs /\ \A t \in Subs \ {s} : Unsub(s) # Unsub(t)
      BY MsgTypes, MsgsDiffer
    <3>3. AtlView(s, "closing", mSubscribers[s], mStatePtr, Append(msgs, Unsub(s)))
      BY <2>0, <3>2, InAppend DEF AtlView
    <3>4. ASSUME NEW t \in Subs \ {s}
          PROVE  AtlView(t, client[t], mSubscribers[t], mStatePtr, Append(msgs, Unsub(s)))
      BY <2>0, <3>2, AtlViewSent DEF AtlViews
    <3> QED
      BY <3>1, <3>3, <3>4 DEF AtlViews
  <2>5. CASE ModemRestarts
    <3>1. \A s \in Subs : client'[s] = "idle"
      BY <2>5 DEF ModemRestarts
    <3> QED
      BY <3>1 DEF AtlViews, AtlView
  <2>6. CASE FwOpens \/ FwCloses \/ FwLoses
    <3>1. PICK e \in Events :
            /\ msgs' = Append(msgs, Msg(e)) /\ UNCHANGED <<mStatePtr, mSubscribers, client>>
      BY <2>6 DEF FwOpens, loc_eng_agps_open, loc_eng_agps_open_failed, FwCloses,
                  loc_eng_agps_closed, FwLoses, sendMsg, Events
    <3>2. Msg(e) \in LocMsgs /\ \A t \in Subs : Msg(e) # Unsub(t)
      BY MsgTypes, MsgsDiffer
    <3>3. ASSUME NEW t \in Subs
          PROVE  AtlView(t, client[t], mSubscribers[t], mStatePtr, Append(msgs, Msg(e)))
      BY <2>0, <3>2, AtlViewSent DEF AtlViews
    <3> QED
      BY <3>1, <3>3 DEF AtlViews
  <2> QED
    BY <2>1, <2>2, <2>3, <2>4, <2>5, <2>6 DEF Next
<1> QED
  BY <1>1, <1>2, TypeCorrect, AtlInvariant, PTL DEF Spec

-----------------------------------------------------------------------------
\* OpenMeansAcquired for the daemons and WIFI (AtlClientView has it for ATL).
THEOREM DaemonClientView ==
  ASSUME Kind \in {"BIT", "WIFI"}, Kind = "BIT" => ~FreedMatch /\ MaxRestarts = 0
  PROVE  Spec => []OpenMeansAcquired
<1>1. ViewInv => OpenMeansAcquired
  BY DEF ViewInv, Views, View, OpenMeansAcquired
<1>2. Spec => []ViewInv
  BY DaemonViews
<1> QED
  BY <1>1, <1>2, PTL

(***************************************************************************)
(* No client that waits for its connection or for its release is           *)
(* forgotten, and AgpsReleasingState is answered: with the list searched   *)
(* as meant (FreedMatch), for ATL through restarts of the modem, for BIT   *)
(* without them.                                                           *)
(***************************************************************************)
THEOREM NobodyForgotten ==
  ASSUME Kind = "WIFI" \/ ~FreedMatch, Kind = "BIT" => MaxRestarts = 0
  PROVE  Spec => []NoClientForgotten
<1>1. TypeOK /\ ViewInv => OpeningIsServed /\ ClosingIsServed
  <2> SUFFICES ASSUME TypeOK, ViewInv, NEW s \in Subs
               PROVE  /\ client[s] = "opening" =>
                           \/ InSeq(Sub(s), msgs)
                           \/ mSubscribers[s] = "active" /\ mStatePtr \in {"Pending", "Releasing"}
                      /\ client[s] = "closing" =>
                           \/ InSeq(Unsub(s), msgs)
                           \/ mSubscribers[s] = "inactive" /\ mStatePtr = "Releasing"
    BY DEF OpeningIsServed, ClosingIsServed
  <2>1. Precedes(Sub(s), Unsub(s), msgs) => InSeq(Unsub(s), msgs)
    BY PrecedesIn DEF TypeOK
  <2> QED
    BY <2>1 DEF ViewInv, Views, View
<1>2. AtlViews => OpeningIsServed /\ ClosingIsServed
  BY DEF AtlViews, AtlView, OpeningIsServed, ClosingIsServed
<1>3. CASE Kind = "ATL"
  <2>1. Spec => []AtlViews
    BY <1>3, AtlClientViews
  <2> QED
    BY <1>2, <2>1, ReleasingAnswered, PTL DEF NoClientForgotten
<1>4. CASE Kind \in {"BIT", "WIFI"}
  <2>1. Spec => []ViewInv
    BY <1>4, DaemonViews
  <2> QED
    BY <1>1, <2>1, TypeCorrect, ReleasingAnswered, PTL DEF NoClientForgotten
<1> QED
  BY <1>3, <1>4, AgpsAssumption

-----------------------------------------------------------------------------
(***************************************************************************)
(* The machine of the emergency SUPL data calls (DSStateMachine).          *)
(***************************************************************************)
DSEntries == [id : DSClients, inactive : BOOLEAN]

DSTypes ==
  /\ dsState \in {"Released", "Pending", "Acquired", "Releasing"}
  /\ dsSubscribers \in Seq(DSEntries)
  /\ dsMsgs \in Seq(DS!LocMsgs)
  /\ dsi \in Seq({"START", "STOP"})
  /\ dsClient \in [DSClients -> ClientStates]

LEMMA LocMsgTypes ==
  /\ \A s \in DSClients : \A ev \in {"SUPL_ES", "REQUEST_ATL", "RELEASE_ATL"} :
       [ev |-> ev, id |-> s] \in DS!LocMsgs
  /\ \A ev \in {"OPENED", "CLOSED"} : [ev |-> ev] \in DS!LocMsgs
  /\ \A m \in DS!LocMsgs : m.ev \in {"SUPL_ES", "REQUEST_ATL", "RELEASE_ATL"}
                             => m.id \in DSClients
<1> QED
  BY DEF DS!LocMsgs

-----------------------------------------------------------------------------
(* The list.                                                               *)

OnAs(s, subs, b) == \E i \in 1..Len(subs) : subs[i].id = s /\ subs[i].inactive = b

LEMMA EntryTypes == \A e \in DSEntries : e.id \in DSClients /\ e.inactive \in BOOLEAN
BY DEF DSEntries

LEMMA IsASequence ==
  ASSUME NEW S, NEW n \in Nat, NEW f, f = [i \in 1..n |-> f[i]], \A i \in 1..n : f[i] \in S
  PROVE  f \in Seq(S) /\ Len(f) = n
<1>1. f \in [1..n -> S]
  BY Zenon
<1> QED
  BY <1>1, SeqDef, LenProperties

LEMMA ThoseAre ==
  ASSUME NEW subs \in Seq(DSEntries), NEW b \in BOOLEAN
  PROVE  /\ DS!Those(subs, b) \in Seq(DSEntries)
         /\ \A i \in 1..Len(DS!Those(subs, b)) : DS!Those(subs, b)[i].inactive = b
         /\ \A s : s \in DS!IDs(DS!Those(subs, b)) <=> OnAs(s, subs, b)
         /\ \A s : OnAs(s, DS!Those(subs, b), b) <=> OnAs(s, subs, b)
<1> DEFINE A == [id : DSClients, inactive : {b}]
           F == CHOOSE f : f = [i \in 0..Len(subs) |->
                      IF i = 0 THEN <<>>
                      ELSE IF subs[i] \in A THEN Append(f[i - 1], subs[i]) ELSE f[i - 1]]
           r == DS!Those(subs, b)
<1>1. r = F[Len(subs)]
  BY Zenon DEF DS!Those
<1>2. IsSelection(F[Len(subs)], subs, A)
  BY SelectionIs
<1>3. IsSelection(r, subs, A)
  BY <1>1, <1>2
<1>4. /\ r \in Seq(DSEntries)
      /\ \A x : (\E i \in 1..Len(r) : r[i] = x) <=> x \in A /\ \E i \in 1..Len(subs) : subs[i] = x
  <2> HIDE DEF r, A
  <2> QED
    BY <1>3, SelectionElements
<1>5. \A e \in DSEntries : e \in A <=> e.inactive = b
  BY DEF DSEntries
<1> HIDE DEF r, A
<1>6. /\ \A i \in 1..Len(r) : r[i] \in A /\ \E j \in 1..Len(subs) : subs[j] = r[i]
      /\ \A j \in 1..Len(subs) : subs[j] \in A => \E i \in 1..Len(r) : r[i] = subs[j]
  BY <1>4
<1>7. \A i \in 1..Len(subs) : subs[i] \in DSEntries
  OBVIOUS
<1>8. \A i \in 1..Len(r) : r[i] \in DSEntries /\ r[i].inactive = b
  BY <1>4, <1>5, <1>6
<1>9. \A s : (\E i \in 1..Len(r) : r[i].id = s) <=> OnAs(s, subs, b)
  BY <1>5, <1>6, <1>7 DEF OnAs
<1>10. \A s : s \in DS!IDs(r) <=> \E i \in 1..Len(r) : r[i].id = s
  BY <1>4 DEF DS!IDs
<1>11. \A s : OnAs(s, r, b) <=> \E i \in 1..Len(r) : r[i].id = s
  BY <1>8 DEF OnAs
<1> QED
  BY <1>4, <1>8, <1>9, <1>10, <1>11 DEF r

LEMMA ListIs ==
  ASSUME NEW subs \in Seq(DSEntries)
  PROVE  /\ \A s : DS!On(subs, s) <=> OnAs(s, subs, TRUE) \/ OnAs(s, subs, FALSE)
         /\ \A s : s \in DS!IDs(subs) <=> OnAs(s, subs, TRUE) \/ OnAs(s, subs, FALSE)
         /\ \A s : s \in DS!IDs(DS!Active(subs)) <=> OnAs(s, subs, FALSE)
         /\ \A s : s \in DS!IDs(DS!Inactive(subs)) <=> OnAs(s, subs, TRUE)
         /\ DS!Active(subs) \in Seq(DSEntries)
         /\ DS!Active(subs) = <<>> => \A s : ~OnAs(s, subs, FALSE)
         /\ DS!FirstActive(subs) \in Seq(DSEntries)
<1>1. \A i \in 1..Len(subs) : subs[i].inactive \in BOOLEAN
  BY EntryTypes, \A i \in 1..Len(subs) : subs[i] \in DSEntries
<1>2. \A s : (\E i \in 1..Len(subs) : subs[i].id = s) <=> OnAs(s, subs, TRUE) \/ OnAs(s, subs, FALSE)
  BY <1>1, Zenon DEF OnAs
<1>3. DOMAIN subs = 1..Len(subs)
  OBVIOUS
<1>4. \A s : DS!On(subs, s) <=> OnAs(s, subs, TRUE) \/ OnAs(s, subs, FALSE)
  BY <1>2, <1>3 DEF DS!On
<1>5. \A s : s \in DS!IDs(subs) <=> OnAs(s, subs, TRUE) \/ OnAs(s, subs, FALSE)
  BY <1>2, <1>3 DEF DS!IDs
<1>6. /\ DS!Active(subs) \in Seq(DSEntries)
      /\ \A s : s \in DS!IDs(DS!Active(subs)) <=> OnAs(s, subs, FALSE)
  BY ThoseAre DEF DS!Active
<1>7. \A s : s \in DS!IDs(DS!Inactive(subs)) <=> OnAs(s, subs, TRUE)
  BY ThoseAre DEF DS!Inactive
<1>8. ASSUME DS!Active(subs) = <<>> PROVE \A s : ~OnAs(s, subs, FALSE)
  <2>1. DS!IDs(<<>>) = {}
    BY DEF DS!IDs
  <2> QED
    BY <1>6, <1>8, <2>1
<1>9. DS!FirstActive(subs) \in Seq(DSEntries)
  BY <1>6 DEF DS!FirstActive
<1> QED
  BY <1>4, <1>5, <1>6, <1>7, <1>8, <1>9

LEMMA AddedToList ==
  ASSUME DSTypes, NEW s \in DSClients
  PROVE  /\ DS!addSubscriber(s) \in Seq(DSEntries)
         /\ OnAs(s, DS!addSubscriber(s), TRUE) \/ OnAs(s, DS!addSubscriber(s), FALSE)
         /\ \A t, b : OnAs(t, dsSubscribers, b) => OnAs(t, DS!addSubscriber(s), b)
<1> DEFINE e == [id |-> s, inactive |-> FALSE]
           new == <<e>> \o dsSubscribers
<1>1. dsSubscribers \in Seq(DSEntries) /\ e \in DSEntries
  BY DEF DSTypes, DSEntries
<1>2. CASE DS!On(dsSubscribers, s)
  BY <1>1, <1>2, ListIs DEF DS!addSubscriber
<1>3. CASE ~DS!On(dsSubscribers, s)
  <2>1. DS!addSubscriber(s) = new
    BY <1>3 DEF DS!addSubscriber
  <2>2. /\ new \in Seq(DSEntries) /\ Len(new) = Len(dsSubscribers) + 1 /\ Len(dsSubscribers) \in Nat
        /\ new[1] = e /\ \A i \in 1..Len(dsSubscribers) : new[i + 1] = dsSubscribers[i]
    BY <1>1
  <2>3. e.id = s /\ e.inactive = FALSE
    OBVIOUS
  <2> HIDE DEF new, e
  <2>4. OnAs(s, new, FALSE)
    BY <2>2, <2>3 DEF OnAs
  <2>5. ASSUME NEW t, NEW b, OnAs(t, dsSubscribers, b) PROVE OnAs(t, new, b)
    <3>1. PICK i \in 1..Len(dsSubscribers) : dsSubscribers[i].id = t /\ dsSubscribers[i].inactive = b
      BY <2>5 DEF OnAs
    <3>2. i + 1 \in 1..Len(new) /\ new[i + 1].id = t /\ new[i + 1].inactive = b
      BY <2>2, <3>1
    <3> QED
      BY <3>2 DEF OnAs
  <2> QED
    BY <2>1, <2>2, <2>4, <2>5
<1> QED
  BY <1>2, <1>3

\* unsubscribeRsrc's list.
SetInactive(subs, s) ==
  [i \in DOMAIN subs |-> IF subs[i].id = s THEN [subs[i] EXCEPT !.inactive = TRUE] ELSE subs[i]]

LEMMA SetInactiveIs ==
  ASSUME NEW subs \in Seq(DSEntries), NEW s
  PROVE  /\ SetInactive(subs, s) \in Seq(DSEntries)
         /\ \A t : OnAs(t, subs, TRUE) => OnAs(t, SetInactive(subs, s), TRUE)
         /\ \A t : OnAs(t, subs, FALSE) => \/ OnAs(t, SetInactive(subs, s), TRUE)
                                           \/ OnAs(t, SetInactive(subs, s), FALSE)
<1> DEFINE new == SetInactive(subs, s)
<1>1. DOMAIN subs = 1..Len(subs) /\ Len(subs) \in Nat
  OBVIOUS
<1>2. \A i \in 1..Len(subs) : subs[i] \in DSEntries
  OBVIOUS
<1>3. \A e \in DSEntries : /\ [e EXCEPT !.inactive = TRUE] \in DSEntries
                           /\ [e EXCEPT !.inactive = TRUE].id = e.id
                           /\ [e EXCEPT !.inactive = TRUE].inactive = TRUE
  BY DEF DSEntries
<1>4. new = [i \in 1..Len(subs) |-> IF subs[i].id = s THEN [subs[i] EXCEPT !.inactive = TRUE]
                                    ELSE subs[i]]
  BY <1>1 DEF SetInactive
<1>5. \A i \in 1..Len(subs) : /\ new[i] \in DSEntries /\ new[i].id = subs[i].id
                              /\ new[i].inactive = TRUE \/ new[i].inactive = subs[i].inactive
  BY <1>2, <1>3, <1>4
<1>6. new \in Seq(DSEntries) /\ Len(new) = Len(subs)
  <2>1. new = [i \in 1..Len(subs) |-> new[i]]
    BY <1>4, Zenon
  <2> HIDE DEF new
  <2> QED
    BY <1>1, <1>5, <2>1, IsASequence
<1> HIDE DEF new
<1>7. ASSUME NEW t, OnAs(t, subs, TRUE) PROVE OnAs(t, new, TRUE)
  BY <1>5, <1>6, <1>7 DEF OnAs
<1>8. ASSUME NEW t, OnAs(t, subs, FALSE) PROVE OnAs(t, new, TRUE) \/ OnAs(t, new, FALSE)
  BY <1>5, <1>6, <1>8 DEF OnAs
<1> QED
  BY <1>6, <1>7, <1>8 DEF new

LEMMA StatusIs ==
  ASSUME NEW c \in [DSClients -> ClientStates], NEW S
  PROVE  /\ DS!Opened(c, S) \in [DSClients -> ClientStates]
         /\ DS!Closed(c, S) \in [DSClients -> ClientStates]
         /\ \A s \in DSClients :
              /\ DS!Opened(c, S)[s] = IF s \in S /\ c[s] = "opening" THEN "open" ELSE c[s]
              /\ DS!Closed(c, S)[s] = IF s \in S /\ c[s] \in {"open", "closing"} THEN "idle" ELSE c[s]
BY DEF DS!Opened, DS!Closed, ClientStates

\* Answering some clients takes nobody into closing, and opens only those or the
\* ones that were open.
LEMMA OpenedMoves ==
  ASSUME NEW c \in [DSClients -> ClientStates], NEW S, NEW s \in DSClients
  PROVE  /\ DS!Opened(c, S)[s] = "closing" => c[s] = "closing"
         /\ DS!Opened(c, S)[s] = "open" => s \in S \/ c[s] = "open"
<1>1. DS!Opened(c, S)[s] = IF s \in S /\ c[s] = "opening" THEN "open" ELSE c[s]
  BY StatusIs
<1> QED
  BY <1>1

LEMMA RequestsAreQueued ==
  ASSUME NEW subs \in Seq(DSEntries)
  PROVE  /\ DS!requestATL(subs) \in Seq(DS!LocMsgs)
         /\ \A i \in 1..Len(DS!requestATL(subs)) : DS!requestATL(subs)[i].ev = "REQUEST_ATL"
<1> DEFINE r == DS!requestATL(subs)
<1>1. r = [i \in 1..Len(subs) |-> [ev |-> "REQUEST_ATL", id |-> subs[i].id]]
  BY DEF DS!requestATL
<1>2. \A i \in 1..Len(subs) : subs[i].id \in DSClients
  BY EntryTypes, \A i \in 1..Len(subs) : subs[i] \in DSEntries
<1>3. \A i \in 1..Len(subs) : r[i] \in DS!LocMsgs /\ r[i].ev = "REQUEST_ATL"
  <2> SUFFICES ASSUME NEW i \in 1..Len(subs)
               PROVE  r[i] \in DS!LocMsgs /\ r[i].ev = "REQUEST_ATL"
    OBVIOUS
  <2>1. r[i] = [ev |-> "REQUEST_ATL", id |-> subs[i].id]
    BY <1>1
  <2>2. [ev |-> "REQUEST_ATL", id |-> subs[i].id] \in DS!LocMsgs
    BY <1>2 DEF DS!LocMsgs
  <2> QED
    BY <2>1, <2>2
<1>4. r \in Seq(DS!LocMsgs) /\ Len(r) = Len(subs)
  BY <1>1, <1>3, IsASequence
<1> QED
  BY <1>3, <1>4

-----------------------------------------------------------------------------
(* The queue.                                                              *)

Comes(ev, seq) == \E i \in 1..Len(seq) : seq[i].ev = ev

\* After every answer that the call is up comes that it is not.
LossComes(seq) ==
  \A i \in 1..Len(seq) : seq[i].ev = "OPENED" => \E j \in (i + 1)..Len(seq) : seq[j].ev = "CLOSED"

LEMMA FromQueue ==
  ASSUME NEW S, NEW seq \in Seq(S), seq # <<>>
  PROVE  /\ Tail(seq) \in Seq(S) /\ Head(seq) \in S
         /\ \A ev : Comes(ev, seq) => Head(seq).ev = ev \/ Comes(ev, Tail(seq))
         /\ LossComes(seq) => /\ LossComes(Tail(seq))
                              /\ Head(seq).ev = "OPENED" => Comes("CLOSED", Tail(seq))
<1>1. /\ Tail(seq) \in Seq(S) /\ Head(seq) \in S /\ Head(seq) = seq[1]
      /\ Len(seq) \in Nat \ {0} /\ Len(Tail(seq)) = Len(seq) - 1
      /\ \A i \in 1..Len(Tail(seq)) : Tail(seq)[i] = seq[i + 1]
  OBVIOUS
<1>2. ASSUME NEW i \in 1..Len(seq), i # 1
      PROVE  i - 1 \in 1..Len(Tail(seq)) /\ Tail(seq)[i - 1] = seq[i]
  BY <1>1, <1>2
<1>3. ASSUME NEW ev, Comes(ev, seq) PROVE Head(seq).ev = ev \/ Comes(ev, Tail(seq))
  BY <1>1, <1>2, <1>3 DEF Comes
<1>4. ASSUME LossComes(seq) PROVE LossComes(Tail(seq))
  <2> SUFFICES ASSUME NEW i \in 1..Len(Tail(seq)), Tail(seq)[i].ev = "OPENED"
               PROVE  \E j \in (i + 1)..Len(Tail(seq)) : Tail(seq)[j].ev = "CLOSED"
    BY DEF LossComes
  <2>1. i + 1 \in 1..Len(seq) /\ seq[i + 1].ev = "OPENED"
    BY <1>1
  <2>2. PICK j \in (i + 1 + 1)..Len(seq) : seq[j].ev = "CLOSED"
    BY <1>4, <2>1 DEF LossComes
  <2>3. j - 1 \in (i + 1)..Len(Tail(seq)) /\ Tail(seq)[j - 1] = seq[j]
    BY <1>1, <2>2
  <2> QED
    BY <2>2, <2>3
<1>5. ASSUME LossComes(seq), Head(seq).ev = "OPENED" PROVE Comes("CLOSED", Tail(seq))
  <2>1. PICK j \in 2..Len(seq) : seq[j].ev = "CLOSED"
    BY <1>1, <1>5 DEF LossComes
  <2>2. j - 1 \in 1..Len(Tail(seq)) /\ Tail(seq)[j - 1] = seq[j]
    BY <1>1, <2>1
  <2> QED
    BY <2>1, <2>2 DEF Comes
<1> QED
  BY <1>1, <1>3, <1>4, <1>5

LEMMA ToQueue ==
  ASSUME NEW S, NEW seq \in Seq(S), NEW new \in Seq(S)
  PROVE  /\ seq \o new \in Seq(S)
         /\ \A ev : Comes(ev, seq) \/ Comes(ev, new) => Comes(ev, seq \o new)
         /\ \A x : InSeq(x, seq) \/ InSeq(x, new) => InSeq(x, seq \o new)
         /\ LossComes(seq) /\ ~Comes("OPENED", new) => LossComes(seq \o new)
         /\ ~Comes("OPENED", new) /\ Comes("CLOSED", new) => LossComes(seq \o new)
<1> DEFINE q == seq \o new
           n == Len(seq)
<1>1. /\ q \in Seq(S) /\ n \in Nat /\ Len(new) \in Nat /\ Len(q) = n + Len(new)
      /\ \A i \in 1..n : q[i] = seq[i]
      /\ \A i \in 1..Len(new) : q[n + i] = new[i]
      /\ \A i \in 1..Len(q) : i <= n \/ (i - n \in 1..Len(new) /\ q[i] = new[i - n])
  OBVIOUS
<1> HIDE DEF q
<1>2. ASSUME NEW i \in 1..n PROVE i \in 1..Len(q)
  BY <1>1, <1>2
<1>3. ASSUME NEW i \in 1..Len(new) PROVE n + i \in 1..Len(q)
  BY <1>1, <1>3
<1>4. \A ev : Comes(ev, seq) \/ Comes(ev, new) => Comes(ev, q)
  BY <1>1, <1>2, <1>3 DEF Comes
<1>5. \A x : InSeq(x, seq) \/ InSeq(x, new) => InSeq(x, q)
  BY <1>1, <1>2, <1>3 DEF InSeq
<1>6. ASSUME ~Comes("OPENED", new), NEW i \in 1..Len(q), q[i].ev = "OPENED"
      PROVE  i \in 1..n /\ seq[i].ev = "OPENED"
  BY <1>1, <1>6 DEF Comes
<1>7. ASSUME LossComes(seq), ~Comes("OPENED", new) PROVE LossComes(q)
  <2> SUFFICES ASSUME NEW i \in 1..Len(q), q[i].ev = "OPENED"
               PROVE  \E j \in (i + 1)..Len(q) : q[j].ev = "CLOSED"
    BY DEF LossComes
  <2>1. PICK j \in (i + 1)..n : seq[j].ev = "CLOSED"
    BY <1>6, <1>7 DEF LossComes
  <2>2. j \in (i + 1)..Len(q) /\ q[j] = seq[j]
    BY <1>1, <2>1
  <2> QED
    BY <2>1, <2>2
<1>8. ASSUME ~Comes("OPENED", new), Comes("CLOSED", new) PROVE LossComes(q)
  <2> SUFFICES ASSUME NEW i \in 1..Len(q), q[i].ev = "OPENED"
               PROVE  \E j \in (i + 1)..Len(q) : q[j].ev = "CLOSED"
    BY DEF LossComes
  <2>1. PICK j \in 1..Len(new) : new[j].ev = "CLOSED"
    BY <1>8 DEF Comes
  <2>2. n + j \in (i + 1)..Len(q) /\ q[n + j] = new[j]
    BY <1>1, <1>6, <1>8, <2>1
  <2> QED
    BY <2>1, <2>2
<1> QED
  BY <1>1, <1>4, <1>5, <1>7, <1>8 DEF q

-----------------------------------------------------------------------------
(* The invariant, and what taking a message from the queue does to it.     *)

ReleaseOf(s) == [ev |-> "RELEASE_ATL", id |-> s]

DSWaits ==
  /\ dsState = "Pending" => InSeq("START", dsi) \/ Comes("OPENED", dsMsgs) \/ Comes("CLOSED", dsMsgs)
                            \/ unstarted
  /\ dsState = "Releasing" => InSeq("STOP", dsi) \/ Comes("CLOSED", dsMsgs)

\* An open client is on the list of a machine that knows of a data call.
DSHolds ==
  \A s \in DSClients : dsClient[s] = "open" /\ s \notin atl =>
    \/ dsState \in {"Acquired", "Releasing"} /\ OnAs(s, dsSubscribers, TRUE)
    \/ dsState = "Acquired" /\ OnAs(s, dsSubscribers, FALSE)

DSUp == /\ up \/ LossComes(dsMsgs)
        /\ dsState = "Acquired" => up \/ Comes("CLOSED", dsMsgs)

DSCloses == \A s \in DSClients : dsClient[s] = "closing" => InSeq(ReleaseOf(s), dsMsgs)

DSInv == DSTypes /\ DSWaits /\ DSHolds /\ DSUp /\ DSCloses

QueueMoves ==
  \E new \in Seq(DS!LocMsgs) : /\ dsMsgs' = Tail(dsMsgs) \o new
                               /\ \A i \in 1..Len(new) : new[i].ev = "REQUEST_ATL"

\* What the state is after a message of kind ev.
StateMoves(ev) ==
  /\ dsState' = "Pending" => \/ InSeq("START", dsi') \/ unstarted'
                             \/ /\ dsState = "Pending" /\ UNCHANGED <<dsi, unstarted>>
                                /\ ev \notin {"OPENED", "CLOSED"}
  /\ dsState' = "Releasing" => \/ InSeq("STOP", dsi')
                               \/ dsState = "Releasing" /\ UNCHANGED dsi /\ ev # "CLOSED"
  /\ dsState' = "Acquired" => \/ dsState = "Acquired" /\ ev # "CLOSED"
                              \/ ev = "OPENED"

ClosingStays ==
  \A s \in DSClients : dsClient'[s] = "closing" => dsClient[s] = "closing" /\ Head(dsMsgs) # ReleaseOf(s)

Handled == DSTypes' /\ QueueMoves /\ StateMoves(Head(dsMsgs).ev) /\ DSHolds' /\ ClosingStays

LEMMA QueueMovesBy ==
  ASSUME DSTypes, dsMsgs # <<>>, NEW subs \in Seq(DSEntries),
         dsMsgs' = Tail(dsMsgs) \/ dsMsgs' = Tail(dsMsgs) \o DS!requestATL(subs)
  PROVE  QueueMoves /\ dsMsgs' \in Seq(DS!LocMsgs)
<1>1. Tail(dsMsgs) \in Seq(DS!LocMsgs) /\ <<>> \in Seq(DS!LocMsgs)
  BY DEF DSTypes
<1>2. CASE dsMsgs' = Tail(dsMsgs)
  <2>1. Tail(dsMsgs) = Tail(dsMsgs) \o <<>>
    BY <1>1
  <2>2. \A i \in 1..Len(<<>>) : <<>>[i].ev = "REQUEST_ATL"
    OBVIOUS
  <2> QED
    BY <1>1, <1>2, <2>1, <2>2, Zenon DEF QueueMoves
<1>3. CASE dsMsgs' = Tail(dsMsgs) \o DS!requestATL(subs)
  <2>1. dsMsgs' \in Seq(DS!LocMsgs)
    BY <1>1, <1>3, RequestsAreQueued, ToQueue
  <2> QED
    BY <1>3, <2>1, RequestsAreQueued, Zenon DEF QueueMoves
<1> QED
  BY <1>2, <1>3

\* sendRsrcRequest for the list there is then.
LEMMA StartIs ==
  ASSUME DSTypes, dsMsgs # <<>>, dsSubscribers' \in Seq(DSEntries),
         DS!StartAccepted \/ DS!StartRefused(dsSubscribers')
  PROVE  /\ QueueMoves /\ dsMsgs' \in Seq(DS!LocMsgs) /\ dsi' \in Seq({"START", "STOP"})
         /\ DS!StartAccepted => InSeq("START", dsi')
<1>1. dsi \in Seq({"START", "STOP"}) /\ dsSubscribers \in Seq(DSEntries)
  BY DEF DSTypes
<1>2. CASE DS!StartAccepted
  <2>1. dsi' = Append(dsi, "START") /\ dsMsgs' = Tail(dsMsgs)
    BY <1>2 DEF DS!StartAccepted
  <2>2. dsi' \in Seq({"START", "STOP"}) /\ InSeq("START", dsi')
    BY <1>1, <2>1, InAppend
  <2> QED
    BY <1>1, <2>1, <2>2, QueueMovesBy
<1>3. CASE DS!StartRefused(dsSubscribers')
  <2>1. /\ dsi' = dsi
        /\ \/ dsMsgs' = Tail(dsMsgs)
           \/ dsMsgs' = Tail(dsMsgs) \o DS!requestATL(DS!FirstActive(dsSubscribers'))
    BY <1>3 DEF DS!StartRefused, DS!StartBusy, DS!StartUnrecognized, DS!StartDenied
  <2>2. DS!FirstActive(dsSubscribers') \in Seq(DSEntries)
    BY ListIs
  <2>3. QueueMoves /\ dsMsgs' \in Seq(DS!LocMsgs)
    BY <2>1, <2>2, QueueMovesBy
  <2>4. ~DS!StartAccepted
    <3>1. Append(dsi, "START") # dsi
      BY <1>1
    <3> QED
      BY <2>1, <3>1 DEF DS!StartAccepted
  <2> QED
    BY <1>1, <2>1, <2>3, <2>4
<1> QED
  BY <1>2, <1>3

LEMMA SubscribeHandled ==
  ASSUME DSTypes, DSHolds, dsMsgs # <<>>, DS!LocEngRequestSuplEs
  PROVE  Handled
<1> DEFINE s == Head(dsMsgs).id
<1>1. Head(dsMsgs).ev = "SUPL_ES" /\ DS!subscribeRsrc(s) /\ atl' = atl
  BY DEF DS!LocEngRequestSuplEs
<1>2. s \in DSClients
  <2>1. Head(dsMsgs) \in DS!LocMsgs
    BY DEF DSTypes
  <2> QED
    BY <1>1, <2>1, LocMsgTypes
<1>3. ClosingStays
  <2>1. dsClient' = dsClient \/ dsClient' = DS!Opened(dsClient, {s})
    BY <1>1 DEF DS!subscribeRsrc, DS!SubscribeReleased, DS!SubscribeWaiting, DS!SubscribeAcquired
  <2>2. \A c : Head(dsMsgs) # ReleaseOf(c)
    BY <1>1 DEF ReleaseOf
  <2>3. \A c \in DSClients : dsClient'[c] = "closing" => dsClient[c] = "closing"
    <3>1. dsClient \in [DSClients -> ClientStates]
      BY DEF DSTypes
    <3>2. \A c \in DSClients : DS!Opened(dsClient, {s})[c] = "closing" => dsClient[c] = "closing"
      BY <3>1, OpenedMoves
    <3> QED
      BY <2>1, <3>2
  <2> QED
    BY <2>2, <2>3 DEF ClosingStays
<1>4. dsSubscribers' = DS!addSubscriber(s)
  BY <1>1 DEF DS!subscribeRsrc, DS!SubscribeReleased, DS!SubscribeWaiting, DS!SubscribeAcquired
<1>5. /\ dsSubscribers' \in Seq(DSEntries)
      /\ OnAs(s, dsSubscribers', TRUE) \/ OnAs(s, dsSubscribers', FALSE)
      /\ \A t, b : OnAs(t, dsSubscribers, b) => OnAs(t, dsSubscribers', b)
  BY <1>2, <1>4, AddedToList, Zenon
<1> HIDE DEF s
<1>6. CASE DS!SubscribeReleased(s)
  <2>1. /\ dsState = "Released" /\ UNCHANGED <<dsClient, unstarted>>
        /\ \/ DS!StartAccepted /\ dsState' = "Pending"
           \/ DS!StartRefused(dsSubscribers') /\ dsState' = "Released"
    BY <1>6 DEF DS!SubscribeReleased
  <2>2. /\ QueueMoves /\ dsMsgs' \in Seq(DS!LocMsgs) /\ dsi' \in Seq({"START", "STOP"})
        /\ DS!StartAccepted => InSeq("START", dsi')
    BY <1>5, <2>1, StartIs
  <2>3. DSTypes'
    BY <1>5, <2>1, <2>2 DEF DSTypes
  <2>4. StateMoves(Head(dsMsgs).ev)
    BY <2>1, <2>2 DEF StateMoves
  <2>5. DSHolds'
    BY <1>1, <2>1 DEF DSHolds
  <2> QED
    BY <1>3, <2>2, <2>3, <2>4, <2>5 DEF Handled
<1>7. CASE DS!SubscribeWaiting(s)
  <2>1. /\ dsState \in {"Pending", "Releasing"} /\ dsMsgs' = Tail(dsMsgs)
        /\ UNCHANGED <<dsState, dsClient, dsi, unstarted>>
    BY <1>7 DEF DS!SubscribeWaiting
  <2>2. QueueMoves /\ dsMsgs' \in Seq(DS!LocMsgs)
    BY <1>5, <2>1, QueueMovesBy
  <2>3. DSTypes'
    BY <1>5, <2>1, <2>2 DEF DSTypes
  <2>4. StateMoves(Head(dsMsgs).ev)
    BY <1>1, <2>1 DEF StateMoves
  <2>5. DSHolds'
    BY <1>1, <1>5, <2>1 DEF DSHolds
  <2> QED
    BY <1>3, <2>2, <2>3, <2>4, <2>5 DEF Handled
<1>8. CASE DS!SubscribeAcquired(s)
  <2>1. /\ dsState = "Acquired" /\ dsMsgs' = Tail(dsMsgs)
        /\ dsClient' = DS!Opened(dsClient, {s})
        /\ UNCHANGED <<dsState, dsi, unstarted>>
    BY <1>8 DEF DS!SubscribeAcquired
  <2>2. QueueMoves /\ dsMsgs' \in Seq(DS!LocMsgs)
    BY <1>5, <2>1, QueueMovesBy
  <2>3. /\ dsClient' \in [DSClients -> ClientStates]
        /\ \A c \in DSClients : dsClient'[c] = "open" => c = s \/ dsClient[c] = "open"
    <3>1. dsClient \in [DSClients -> ClientStates]
      BY DEF DSTypes
    <3>2. /\ DS!Opened(dsClient, {s}) \in [DSClients -> ClientStates]
          /\ \A c \in DSClients : DS!Opened(dsClient, {s})[c] = "open" => c = s \/ dsClient[c] = "open"
      BY <3>1, StatusIs, OpenedMoves
    <3> QED
      BY <2>1, <3>2
  <2>4. DSTypes'
    BY <1>5, <2>1, <2>2, <2>3 DEF DSTypes
  <2>5. StateMoves(Head(dsMsgs).ev)
    BY <1>1, <2>1 DEF StateMoves
  <2>6. DSHolds'
    <3> SUFFICES ASSUME NEW c \in DSClients, dsClient'[c] = "open", c \notin atl
                 PROVE  OnAs(c, dsSubscribers', TRUE) \/ OnAs(c, dsSubscribers', FALSE)
      BY <1>1, <2>1 DEF DSHolds
    <3>1. CASE c = s
      BY <1>5, <3>1
    <3>2. CASE dsClient[c] = "open"
      BY <1>5, <3>2 DEF DSHolds
    <3> QED
      BY <2>3, <3>1, <3>2
  <2> QED
    BY <1>3, <2>2, <2>4, <2>5, <2>6 DEF Handled
<1> QED
  BY <1>1, <1>6, <1>7, <1>8 DEF DS!subscribeRsrc

LEMMA ReleaseHandled ==
  ASSUME DSTypes, DSHolds, dsMsgs # <<>>, DS!LocEngReleaseATL
  PROVE  Handled
<1> DEFINE s == Head(dsMsgs).id
<1>1. /\ Head(dsMsgs).ev = "RELEASE_ATL"
      /\ IF s \notin atl /\ DS!On(dsSubscribers, s)
         THEN DS!unsubscribeRsrc(s) /\ UNCHANGED atl
         ELSE /\ atl' = atl \ {s} /\ dsClient' = DS!Closed(dsClient, {s}) /\ dsMsgs' = Tail(dsMsgs)
              /\ UNCHANGED <<dsState, dsSubscribers, mRetries, timers, dsi, unstarted>>
  BY DEF DS!LocEngReleaseATL
<1>2. /\ dsMsgs' = Tail(dsMsgs) /\ dsClient' = DS!Closed(dsClient, {s}) /\ UNCHANGED unstarted
      /\ \A c \in DSClients : c # s => (c \in atl <=> c \in atl')
  BY <1>1 DEF DS!unsubscribeRsrc
<1>3. dsSubscribers \in Seq(DSEntries) /\ dsi \in Seq({"START", "STOP"})
  BY DEF DSTypes
<1>4. QueueMoves /\ dsMsgs' \in Seq(DS!LocMsgs)
  BY <1>2, <1>3, QueueMovesBy
<1> HIDE DEF s
<1>5. /\ dsClient' \in [DSClients -> ClientStates]
      /\ \A c \in DSClients : dsClient'[c] \in {"open", "closing"} => c # s /\ dsClient[c] = dsClient'[c]
  <2>1. dsClient \in [DSClients -> ClientStates]
    BY DEF DSTypes
  <2>2. /\ DS!Closed(dsClient, {s}) \in [DSClients -> ClientStates]
        /\ \A c \in DSClients : DS!Closed(dsClient, {s})[c] =
                                  IF c \in {s} /\ dsClient[c] \in {"open", "closing"}
                                  THEN "idle" ELSE dsClient[c]
    BY <2>1, StatusIs
  <2> QED
    BY <1>2, <2>2
<1>6. ClosingStays
  <2>1. \A c : Head(dsMsgs) = ReleaseOf(c) => c = s
    BY DEF ReleaseOf, s
  <2> QED
    BY <1>5, <2>1 DEF ClosingStays
<1>7. CASE ~(s \notin atl /\ DS!On(dsSubscribers, s))
  <2>1. UNCHANGED <<dsState, dsSubscribers, dsi, unstarted>>
    BY <1>1, <1>7
  <2>2. DSTypes'
    BY <1>4, <1>5, <2>1 DEF DSTypes
  <2>3. StateMoves(Head(dsMsgs).ev)
    BY <1>1, <2>1 DEF StateMoves
  <2>4. DSHolds'
    BY <1>2, <1>5, <2>1 DEF DSHolds
  <2> QED
    BY <1>4, <1>6, <2>2, <2>3, <2>4 DEF Handled
<1>8. CASE s \notin atl /\ DS!On(dsSubscribers, s)
  <2>1. /\ dsSubscribers' = IF dsState = "Released" THEN dsSubscribers
                            ELSE SetInactive(dsSubscribers, s)
        /\ IF dsState \in {"Pending", "Acquired"} /\ DS!Active(dsSubscribers') = <<>>
           THEN dsState' = "Releasing" /\ dsi' = Append(dsi, "STOP")
           ELSE UNCHANGED <<dsState, dsi>>
    BY <1>1, <1>8 DEF DS!unsubscribeRsrc, SetInactive
  <2>2. /\ dsSubscribers' \in Seq(DSEntries)
        /\ \A t : OnAs(t, dsSubscribers, TRUE) => OnAs(t, dsSubscribers', TRUE)
        /\ \A t : OnAs(t, dsSubscribers, FALSE) => \/ OnAs(t, dsSubscribers', TRUE)
                                                   \/ OnAs(t, dsSubscribers', FALSE)
    BY <1>3, <2>1, SetInactiveIs
  <2>3. CASE dsState \in {"Pending", "Acquired"} /\ DS!Active(dsSubscribers') = <<>>
    <3>1. dsState' = "Releasing" /\ dsi' = Append(dsi, "STOP")
      BY <2>1, <2>3
    <3>2. dsi' \in Seq({"START", "STOP"}) /\ InSeq("STOP", dsi')
      BY <1>3, <3>1, InAppend
    <3>3. \A t : ~OnAs(t, dsSubscribers', FALSE)
      BY <2>2, <2>3, ListIs
    <3>4. DSTypes'
      BY <1>4, <1>5, <2>2, <3>1, <3>2 DEF DSTypes
    <3>5. StateMoves(Head(dsMsgs).ev)
      BY <3>1, <3>2 DEF StateMoves
    <3>6. DSHolds'
      BY <1>2, <1>5, <2>2, <2>3, <3>1, <3>3 DEF DSHolds
    <3> QED
      BY <1>4, <1>6, <3>4, <3>5, <3>6 DEF Handled
  <2>4. CASE ~(dsState \in {"Pending", "Acquired"} /\ DS!Active(dsSubscribers') = <<>>)
    <3>1. UNCHANGED <<dsState, dsi>>
      BY <2>1, <2>4
    <3>2. DSTypes'
      BY <1>3, <1>4, <1>5, <2>2, <3>1 DEF DSTypes
    <3>3. StateMoves(Head(dsMsgs).ev)
      BY <1>1, <1>2, <3>1 DEF StateMoves
    <3>4. DSHolds'
      BY <1>2, <1>5, <2>2, <3>1 DEF DSHolds
    <3> QED
      BY <1>4, <1>6, <3>2, <3>3, <3>4 DEF Handled
  <2> QED
    BY <2>3, <2>4
<1> QED
  BY <1>7, <1>8

LEMMA RequestHandled ==
  ASSUME DSTypes, DSHolds, dsMsgs # <<>>, DS!LocEngRequestATL
  PROVE  Handled
<1> DEFINE s == Head(dsMsgs).id
<1>1. /\ Head(dsMsgs).ev = "REQUEST_ATL" /\ atl' = atl \cup {s} /\ dsMsgs' = Tail(dsMsgs)
      /\ dsClient' = DS!Opened(dsClient, {s})
      /\ UNCHANGED <<dsState, dsSubscribers, dsi, unstarted>>
  BY DEF DS!LocEngRequestATL
<1>2. QueueMoves /\ dsMsgs' \in Seq(DS!LocMsgs)
  BY <1>1, QueueMovesBy DEF DSTypes
<1>3. /\ dsClient' \in [DSClients -> ClientStates]
      /\ \A c \in DSClients : /\ dsClient'[c] = "open" => c = s \/ dsClient[c] = "open"
                              /\ dsClient'[c] = "closing" => dsClient[c] = "closing"
  <2>1. dsClient \in [DSClients -> ClientStates]
    BY DEF DSTypes
  <2>2. /\ DS!Opened(dsClient, {s}) \in [DSClients -> ClientStates]
        /\ \A c \in DSClients :
             /\ DS!Opened(dsClient, {s})[c] = "open" => c = s \/ dsClient[c] = "open"
             /\ DS!Opened(dsClient, {s})[c] = "closing" => dsClient[c] = "closing"
    BY <2>1, StatusIs, OpenedMoves
  <2> QED
    BY <1>1, <2>2
<1>4. ClosingStays
  <2>1. \A c : Head(dsMsgs) # ReleaseOf(c)
    BY <1>1 DEF ReleaseOf
  <2> QED
    BY <1>3, <2>1 DEF ClosingStays
<1> HIDE DEF s
<1>5. DSTypes'
  BY <1>1, <1>2, <1>3 DEF DSTypes
<1>6. StateMoves(Head(dsMsgs).ev)
  BY <1>1 DEF StateMoves
<1>7. DSHolds'
  BY <1>1, <1>3 DEF DSHolds
<1> QED
  BY <1>2, <1>4, <1>5, <1>6, <1>7 DEF Handled

LEMMA OpenedHandled ==
  ASSUME DSTypes, DSHolds, dsMsgs # <<>>, Head(dsMsgs).ev = "OPENED", DS!OnOpened, atl' = atl
  PROVE  Handled
<1>1. /\ dsMsgs' = Tail(dsMsgs) /\ UNCHANGED <<dsSubscribers, dsi, unstarted>>
      /\ IF dsState = "Pending"
         THEN /\ dsState' = "Acquired"
              /\ dsClient' = DS!Opened(dsClient, DS!IDs(DS!Active(dsSubscribers)))
         ELSE UNCHANGED <<dsState, dsClient>>
  BY DEF DS!OnOpened
<1>2. QueueMoves /\ dsMsgs' \in Seq(DS!LocMsgs)
  BY <1>1, QueueMovesBy DEF DSTypes
<1>3. \A c \in DSClients : c \in DS!IDs(DS!Active(dsSubscribers)) <=> OnAs(c, dsSubscribers, FALSE)
  BY ListIs DEF DSTypes
<1>4. /\ dsClient' \in [DSClients -> ClientStates]
      /\ \A c \in DSClients : dsClient'[c] = "closing" => dsClient[c] = "closing"
      /\ \A c \in DSClients : dsClient'[c] = "open" =>
           dsClient[c] = "open" \/ (dsState = "Pending" /\ OnAs(c, dsSubscribers, FALSE))
  <2> DEFINE S == DS!IDs(DS!Active(dsSubscribers))
  <2>1. dsClient \in [DSClients -> ClientStates]
    BY DEF DSTypes
  <2>2. /\ DS!Opened(dsClient, S) \in [DSClients -> ClientStates]
        /\ \A c \in DSClients : DS!Opened(dsClient, S)[c] =
                                  IF c \in S /\ dsClient[c] = "opening" THEN "open" ELSE dsClient[c]
    BY <2>1, StatusIs
  <2> HIDE DEF S
  <2>3. \/ dsClient' = dsClient
        \/ dsState = "Pending" /\ dsClient' = DS!Opened(dsClient, S)
    BY <1>1 DEF S
  <2>4. \A c \in DSClients : c \in S => OnAs(c, dsSubscribers, FALSE)
    BY <1>3 DEF S
  <2> QED
    BY ONLY <2>1, <2>2, <2>3, <2>4
<1>5. ClosingStays
  <2>1. \A c : Head(dsMsgs) # ReleaseOf(c)
    BY DEF ReleaseOf
  <2> QED
    BY <1>4, <2>1 DEF ClosingStays
<1>6. DSTypes'
  BY <1>1, <1>2, <1>4 DEF DSTypes
<1>7. StateMoves(Head(dsMsgs).ev)
  BY <1>1 DEF StateMoves
<1>8. DSHolds'
  BY <1>1, <1>4 DEF DSHolds
<1> QED
  BY <1>2, <1>5, <1>6, <1>7, <1>8 DEF Handled

LEMMA ClosedHandled ==
  ASSUME DSTypes, DSHolds, dsMsgs # <<>>, Head(dsMsgs).ev = "CLOSED", DS!OnClosed, atl' = atl
  PROVE  Handled
<1>1. dsSubscribers \in Seq(DSEntries) /\ dsClient \in [DSClients -> ClientStates]
      /\ <<>> \in Seq(DSEntries)
  BY DEF DSTypes
<1>2. \A c : Head(dsMsgs) # ReleaseOf(c)
  BY DEF ReleaseOf
<1>3. CASE DS!PendingClosed
  <2>1. /\ dsState = "Pending" /\ dsState' = "Released" /\ dsSubscribers' = <<>>
        /\ dsMsgs' = Tail(dsMsgs) \o DS!requestATL(dsSubscribers)
        /\ UNCHANGED <<dsi, dsClient, unstarted>>
    BY <1>3 DEF DS!PendingClosed
  <2>2. QueueMoves /\ dsMsgs' \in Seq(DS!LocMsgs)
    BY <1>1, <2>1, QueueMovesBy
  <2>3. DSTypes'
    BY <1>1, <2>1, <2>2 DEF DSTypes
  <2>4. StateMoves(Head(dsMsgs).ev) /\ ClosingStays
    BY <1>2, <2>1 DEF StateMoves, ClosingStays
  <2>5. DSHolds'
    BY <2>1 DEF DSHolds
  <2> QED
    BY <2>2, <2>3, <2>4, <2>5 DEF Handled
<1>4. CASE DS!AcquiredClosed
  <2>1. /\ dsState = "Acquired" /\ dsState' = "Released" /\ dsSubscribers' = <<>>
        /\ dsClient' = DS!Closed(dsClient, DS!IDs(dsSubscribers))
        /\ dsMsgs' = Tail(dsMsgs) /\ UNCHANGED <<dsi, unstarted>>
    BY <1>4 DEF DS!AcquiredClosed
  <2>2. QueueMoves /\ dsMsgs' \in Seq(DS!LocMsgs)
    BY <1>1, <2>1, QueueMovesBy
  <2>3. /\ dsClient' \in [DSClients -> ClientStates]
        /\ \A c \in DSClients : dsClient'[c] = "closing" => dsClient[c] = "closing"
        /\ \A c \in DSClients : dsClient'[c] = "open" =>
             /\ dsClient[c] = "open"
             /\ ~OnAs(c, dsSubscribers, TRUE) /\ ~OnAs(c, dsSubscribers, FALSE)
    <3> DEFINE S == DS!IDs(dsSubscribers)
    <3>1. /\ DS!Closed(dsClient, S) \in [DSClients -> ClientStates]
          /\ \A c \in DSClients : DS!Closed(dsClient, S)[c] =
               IF c \in S /\ dsClient[c] \in {"open", "closing"} THEN "idle" ELSE dsClient[c]
      BY <1>1, StatusIs
    <3>2. \A c \in DSClients : OnAs(c, dsSubscribers, TRUE) \/ OnAs(c, dsSubscribers, FALSE) => c \in S
      BY <1>1, ListIs
    <3>3. dsClient' = DS!Closed(dsClient, S)
      BY <2>1
    <3> HIDE DEF S
    <3> QED
      BY ONLY <3>1, <3>2, <3>3
  <2>4. DSTypes'
    BY <1>1, <2>1, <2>2, <2>3 DEF DSTypes
  <2>5. StateMoves(Head(dsMsgs).ev) /\ ClosingStays
    BY <1>2, <2>1, <2>3 DEF StateMoves, ClosingStays
  <2>6. DSHolds'
    BY <2>1, <2>3 DEF DSHolds
  <2> QED
    BY <2>2, <2>4, <2>5, <2>6 DEF Handled
<1>5. CASE DS!ReleasingClosed
  <2>1. /\ dsState = "Releasing" /\ dsSubscribers' = DS!Active(dsSubscribers)
        /\ dsClient' = DS!Closed(dsClient, DS!IDs(DS!Inactive(dsSubscribers)))
        /\ IF dsSubscribers' = <<>>
           THEN /\ dsState' = "Released" /\ dsMsgs' = Tail(dsMsgs)
                /\ UNCHANGED <<dsi, unstarted>>
           ELSE /\ dsState' = "Pending"
                /\ \/ DS!StartAccepted /\ UNCHANGED unstarted
                   \/ DS!StartRefused(dsSubscribers') /\ unstarted' = TRUE
    BY <1>5 DEF DS!ReleasingClosed
  <2>2. dsSubscribers' \in Seq(DSEntries)
    BY <1>1, <2>1, ListIs
  <2>3. /\ dsClient' \in [DSClients -> ClientStates]
        /\ \A c \in DSClients : dsClient'[c] = "closing" => dsClient[c] = "closing"
        /\ \A c \in DSClients : dsClient'[c] = "open" =>
             dsClient[c] = "open" /\ ~OnAs(c, dsSubscribers, TRUE)
    <3> DEFINE S == DS!IDs(DS!Inactive(dsSubscribers))
    <3>1. /\ DS!Closed(dsClient, S) \in [DSClients -> ClientStates]
          /\ \A c \in DSClients : DS!Closed(dsClient, S)[c] =
               IF c \in S /\ dsClient[c] \in {"open", "closing"} THEN "idle" ELSE dsClient[c]
      BY <1>1, StatusIs
    <3>2. \A c \in DSClients : OnAs(c, dsSubscribers, TRUE) => c \in S
      BY <1>1, ListIs
    <3>3. dsClient' = DS!Closed(dsClient, S)
      BY <2>1
    <3> HIDE DEF S
    <3> QED
      BY ONLY <3>1, <3>2, <3>3
  <2>4. DSHolds'
    BY <2>1, <2>3 DEF DSHolds
  <2>5. ClosingStays
    BY <1>2, <2>3 DEF ClosingStays
  <2>6. CASE dsSubscribers' = <<>>
    <3>1. dsState' = "Released" /\ dsMsgs' = Tail(dsMsgs) /\ UNCHANGED <<dsi, unstarted>>
      BY <2>1, <2>6
    <3>2. QueueMoves /\ dsMsgs' \in Seq(DS!LocMsgs)
      BY <1>1, <3>1, QueueMovesBy
    <3>3. DSTypes'
      BY <2>2, <2>3, <3>1, <3>2 DEF DSTypes
    <3>4. StateMoves(Head(dsMsgs).ev)
      BY <3>1 DEF StateMoves
    <3> QED
      BY <2>4, <2>5, <3>2, <3>3, <3>4 DEF Handled
  <2>7. CASE dsSubscribers' # <<>>
    <3>1. /\ dsState' = "Pending"
          /\ \/ DS!StartAccepted /\ UNCHANGED unstarted
             \/ DS!StartRefused(dsSubscribers') /\ unstarted' = TRUE
      BY <2>1, <2>7
    <3>2. /\ QueueMoves /\ dsMsgs' \in Seq(DS!LocMsgs) /\ dsi' \in Seq({"START", "STOP"})
          /\ DS!StartAccepted => InSeq("START", dsi')
      BY <2>2, <3>1, StartIs
    <3>3. DSTypes'
      BY <2>2, <2>3, <3>1, <3>2 DEF DSTypes
    <3>4. StateMoves(Head(dsMsgs).ev)
      BY <3>1, <3>2 DEF StateMoves
    <3> QED
      BY <2>4, <2>5, <3>2, <3>3, <3>4 DEF Handled
  <2> QED
    BY <2>6, <2>7
<1>6. CASE DS!ReleasedClosed
  <2>1. /\ dsState = "Released" /\ dsMsgs' = Tail(dsMsgs)
        /\ UNCHANGED <<dsState, dsSubscribers, dsi, dsClient, unstarted>>
    BY <1>6 DEF DS!ReleasedClosed
  <2>2. QueueMoves /\ dsMsgs' \in Seq(DS!LocMsgs)
    BY <1>1, <2>1, QueueMovesBy
  <2>3. DSTypes'
    BY <2>1, <2>2 DEF DSTypes
  <2>4. StateMoves(Head(dsMsgs).ev) /\ ClosingStays
    BY <1>2, <2>1 DEF StateMoves, ClosingStays
  <2>5. DSHolds'
    BY <2>1 DEF DSHolds
  <2> QED
    BY <2>2, <2>3, <2>4, <2>5 DEF Handled
<1> QED
  BY <1>3, <1>4, <1>5, <1>6 DEF DS!OnClosed

LEMMA HalStepKeepsDS ==
  ASSUME DSInv, DS!HalStep
  PROVE  DSInv'
<1>1. /\ dsMsgs # <<>> /\ UNCHANGED up
      /\ \/ DS!LocEngRequestSuplEs \/ DS!LocEngReleaseATL \/ DS!LocEngRequestATL
         \/ (Head(dsMsgs).ev = "OPENED" /\ DS!OnOpened /\ UNCHANGED atl)
         \/ (Head(dsMsgs).ev = "CLOSED" /\ DS!OnClosed /\ UNCHANGED atl)
  BY DEF DS!HalStep
<1>2. DSTypes /\ DSWaits /\ DSHolds /\ DSUp /\ DSCloses
  BY DEF DSInv
<1>3. DSTypes' /\ QueueMoves /\ StateMoves(Head(dsMsgs).ev) /\ DSHolds' /\ ClosingStays
  BY <1>1, <1>2, SubscribeHandled, ReleaseHandled, RequestHandled, OpenedHandled, ClosedHandled
     DEF Handled
<1>4. PICK new \in Seq(DS!LocMsgs) : /\ dsMsgs' = Tail(dsMsgs) \o new
                                     /\ \A i \in 1..Len(new) : new[i].ev = "REQUEST_ATL"
  BY <1>3 DEF QueueMoves
<1> DEFINE h == Head(dsMsgs)
           t == Tail(dsMsgs)
<1>5. /\ t \in Seq(DS!LocMsgs)
      /\ \A ev : Comes(ev, dsMsgs) => h.ev = ev \/ Comes(ev, t)
      /\ LossComes(dsMsgs) => LossComes(t) /\ (h.ev = "OPENED" => Comes("CLOSED", t))
      /\ \A x : InSeq(x, dsMsgs) => x = h \/ InSeq(x, t)
  BY <1>1, <1>2, FromQueue, InTail DEF DSTypes
<1>6. ~Comes("OPENED", new)
  BY <1>4 DEF Comes
<1>7. /\ \A ev : Comes(ev, t) => Comes(ev, dsMsgs')
      /\ \A x : InSeq(x, t) => InSeq(x, dsMsgs')
      /\ LossComes(t) => LossComes(dsMsgs')
  BY <1>4, <1>5, <1>6, ToQueue
<1> HIDE DEF h, t
<1>8. DSWaits'
  <2>1. dsState' = "Pending" => \/ InSeq("START", dsi') \/ Comes("OPENED", dsMsgs')
                                \/ Comes("CLOSED", dsMsgs') \/ unstarted'
    BY <1>2, <1>3, <1>5, <1>7 DEF DSWaits, StateMoves, h
  <2>2. dsState' = "Releasing" => InSeq("STOP", dsi') \/ Comes("CLOSED", dsMsgs')
    BY <1>2, <1>3, <1>5, <1>7 DEF DSWaits, StateMoves, h
  <2> QED
    BY <2>1, <2>2 DEF DSWaits, InSeq, Comes
<1>9. DSUp'
  <2>1. up' \/ LossComes(dsMsgs')
    BY <1>1, <1>2, <1>5, <1>7 DEF DSUp
  <2>2. dsState' = "Acquired" => up' \/ Comes("CLOSED", dsMsgs')
    BY <1>1, <1>2, <1>3, <1>5, <1>7 DEF DSUp, StateMoves, h
  <2> QED
    BY <2>1, <2>2 DEF DSUp, LossComes, Comes
<1>10. DSCloses'
  <2>1. ASSUME NEW s \in DSClients, dsClient'[s] = "closing" PROVE InSeq(ReleaseOf(s), dsMsgs')
    BY <1>2, <1>3, <1>5, <1>7, <2>1 DEF DSCloses, ClosingStays, h
  <2> QED
    BY <2>1 DEF DSCloses, InSeq, ReleaseOf
<1> QED
  BY <1>3, <1>8, <1>9, <1>10 DEF DSInv

\* A message at the end of the queue.
LEMMA MoreQueued ==
  ASSUME NEW new \in Seq(DS!LocMsgs), dsMsgs \in Seq(DS!LocMsgs), dsMsgs' = dsMsgs \o new
  PROVE  /\ dsMsgs' \in Seq(DS!LocMsgs)
         /\ \A ev : Comes(ev, dsMsgs) \/ Comes(ev, new) => Comes(ev, dsMsgs')
         /\ \A x : InSeq(x, dsMsgs) \/ InSeq(x, new) => InSeq(x, dsMsgs')
         /\ LossComes(dsMsgs) /\ ~Comes("OPENED", new) => LossComes(dsMsgs')
         /\ ~Comes("OPENED", new) /\ Comes("CLOSED", new) => LossComes(dsMsgs')
BY ToQueue

LEMMA OneQueued ==
  ASSUME NEW m \in DS!LocMsgs, dsMsgs \in Seq(DS!LocMsgs), dsMsgs' = Append(dsMsgs, m)
  PROVE  /\ dsMsgs' \in Seq(DS!LocMsgs)
         /\ \A ev : Comes(ev, dsMsgs) \/ m.ev = ev => Comes(ev, dsMsgs')
         /\ \A x : InSeq(x, dsMsgs) \/ x = m => InSeq(x, dsMsgs')
         /\ LossComes(dsMsgs) /\ m.ev # "OPENED" => LossComes(dsMsgs')
         /\ m.ev = "CLOSED" => LossComes(dsMsgs')
<1>1. <<m>> \in Seq(DS!LocMsgs) /\ Len(<<m>>) = 1 /\ <<m>>[1] = m
  OBVIOUS
<1>2. dsMsgs' = dsMsgs \o <<m>>
  OBVIOUS
<1>3. \A ev : Comes(ev, <<m>>) <=> m.ev = ev
  BY <1>1 DEF Comes
<1>4. \A x : InSeq(x, <<m>>) <=> x = m
  BY <1>1 DEF InSeq
<1>5. /\ dsMsgs' \in Seq(DS!LocMsgs)
      /\ \A ev : Comes(ev, dsMsgs) \/ Comes(ev, <<m>>) => Comes(ev, dsMsgs')
      /\ \A x : InSeq(x, dsMsgs) \/ InSeq(x, <<m>>) => InSeq(x, dsMsgs')
      /\ LossComes(dsMsgs) /\ ~Comes("OPENED", <<m>>) => LossComes(dsMsgs')
      /\ ~Comes("OPENED", <<m>>) /\ Comes("CLOSED", <<m>>) => LossComes(dsMsgs')
  BY <1>1, <1>2, MoreQueued
<1>6. Comes("OPENED", <<m>>) <=> m.ev = "OPENED"
  BY <1>3
<1>7. Comes("CLOSED", <<m>>) <=> m.ev = "CLOSED"
  BY <1>3
<1> QED
  BY ONLY <1>3, <1>4, <1>5, <1>6, <1>7

\* What the queue has when it only grows.
QueueGrows ==
  /\ dsMsgs' \in Seq(DS!LocMsgs)
  /\ \A ev : Comes(ev, dsMsgs) => Comes(ev, dsMsgs')
  /\ \A x : InSeq(x, dsMsgs) => InSeq(x, dsMsgs')

\* Only the queue grows, or a client asks.
LEMMA StaysDS ==
  ASSUME DSInv, QueueGrows, LossComes(dsMsgs) => LossComes(dsMsgs'),
         UNCHANGED <<dsState, dsSubscribers, dsi, up, atl, unstarted>>,
         dsClient' \in [DSClients -> ClientStates],
         \A c \in DSClients : /\ dsClient'[c] = "open" => dsClient[c] = "open"
                              /\ dsClient'[c] = "closing" => \/ dsClient[c] = "closing"
                                                             \/ InSeq(ReleaseOf(c), dsMsgs')
  PROVE  DSInv'
<1>1. DSTypes /\ DSWaits /\ DSHolds /\ DSUp /\ DSCloses
  BY DEF DSInv
<1>2. DSTypes'
  BY <1>1 DEF DSTypes, QueueGrows
<1>3. DSWaits'
  <2>1. dsState = "Pending" => \/ InSeq("START", dsi) \/ Comes("OPENED", dsMsgs')
                               \/ Comes("CLOSED", dsMsgs') \/ unstarted
    BY <1>1 DEF DSWaits, QueueGrows
  <2>2. dsState = "Releasing" => InSeq("STOP", dsi) \/ Comes("CLOSED", dsMsgs')
    BY <1>1 DEF DSWaits, QueueGrows
  <2> QED
    BY <2>1, <2>2 DEF DSWaits, InSeq, Comes
<1>4. DSHolds'
  BY <1>1 DEF DSHolds
<1>5. DSUp'
  <2>1. up \/ LossComes(dsMsgs')
    BY <1>1 DEF DSUp
  <2>2. dsState = "Acquired" => up \/ Comes("CLOSED", dsMsgs')
    BY <1>1 DEF DSUp, QueueGrows
  <2> QED
    BY <2>1, <2>2 DEF DSUp, LossComes, Comes
<1>6. DSCloses'
  <2>1. ASSUME NEW c \in DSClients, dsClient'[c] = "closing" PROVE InSeq(ReleaseOf(c), dsMsgs')
    BY <1>1, <2>1 DEF DSCloses, QueueGrows
  <2> QED
    BY <2>1 DEF DSCloses, InSeq, ReleaseOf
<1> QED
  BY <1>2, <1>3, <1>4, <1>5, <1>6 DEF DSInv

LEMMA CallbackKeepsDS ==
  ASSUME DSInv, DS!retryCallback
  PROVE  DSInv'
<1> DEFINE F == DS!FirstActive(dsSubscribers)
           new == [i \in DOMAIN F |-> [ev |-> "SUPL_ES", id |-> F[i].id]]
<1>1. /\ dsMsgs' = dsMsgs \o new
      /\ UNCHANGED <<dsState, dsSubscribers, dsi, up, dsClient, atl, unstarted>>
  BY DEF DS!retryCallback
<1>2. F \in Seq(DSEntries)
  BY ListIs DEF DSInv, DSTypes
<1> HIDE DEF F
<1>3. new = [i \in 1..Len(F) |-> [ev |-> "SUPL_ES", id |-> F[i].id]]
  BY <1>2
<1>4. \A i \in 1..Len(F) : F[i].id \in DSClients
  BY <1>2, EntryTypes, \A i \in 1..Len(F) : F[i] \in DSEntries
<1>5. ASSUME NEW i \in 1..Len(F) PROVE new[i] \in DS!LocMsgs /\ new[i].ev = "SUPL_ES"
  <2>1. new[i] = [ev |-> "SUPL_ES", id |-> F[i].id]
    BY <1>3
  <2>2. [ev |-> "SUPL_ES", id |-> F[i].id] \in DS!LocMsgs
    BY <1>4 DEF DS!LocMsgs
  <2> QED
    BY <2>1, <2>2
<1>6. new \in Seq(DS!LocMsgs) /\ Len(new) = Len(F)
  BY <1>2, <1>3, <1>5, IsASequence, Len(F) \in Nat
<1>7. ~Comes("OPENED", new)
  BY <1>5, <1>6 DEF Comes
<1> HIDE DEF new
<1>8. /\ dsMsgs' \in Seq(DS!LocMsgs)
      /\ \A ev : Comes(ev, dsMsgs) => Comes(ev, dsMsgs')
      /\ \A x : InSeq(x, dsMsgs) => InSeq(x, dsMsgs')
      /\ LossComes(dsMsgs) => LossComes(dsMsgs')
  BY <1>1, <1>6, <1>7, MoreQueued DEF DSInv, DSTypes
<1>9. QueueGrows
  BY <1>8 DEF QueueGrows
<1>10. dsClient \in [DSClients -> ClientStates]
  BY DEF DSInv, DSTypes
<1> QED
  BY <1>1, <1>8, <1>9, <1>10, StaysDS

LEMMA ClientKeepsDS ==
  ASSUME DSInv, NEW s \in DSClients, DS!ClientOpens(s) \/ DS!ClientCloses(s)
  PROVE  DSInv'
<1>1. /\ UNCHANGED <<dsState, dsSubscribers, dsi, up, atl, unstarted>>
      /\ \/ /\ dsClient' = [dsClient EXCEPT ![s] = "opening"]
            /\ dsMsgs' = Append(dsMsgs, [ev |-> "SUPL_ES", id |-> s])
         \/ /\ dsClient' = [dsClient EXCEPT ![s] = "closing"]
            /\ dsMsgs' = Append(dsMsgs, ReleaseOf(s))
  BY DEF DS!ClientOpens, DS!ClientCloses, ReleaseOf
<1>2. dsClient \in [DSClients -> ClientStates] /\ dsMsgs \in Seq(DS!LocMsgs)
  BY DEF DSInv, DSTypes
<1>3. CASE /\ dsClient' = [dsClient EXCEPT ![s] = "opening"]
           /\ dsMsgs' = Append(dsMsgs, [ev |-> "SUPL_ES", id |-> s])
  <2> DEFINE m == [ev |-> "SUPL_ES", id |-> s]
  <2>1. m \in DS!LocMsgs /\ m.ev = "SUPL_ES"
    BY DEF DS!LocMsgs
  <2>2. /\ dsClient' \in [DSClients -> ClientStates]
        /\ \A c \in DSClients : dsClient'[c] \in {"open", "closing"} => dsClient'[c] = dsClient[c]
    BY <1>2, <1>3 DEF ClientStates
  <2>3. dsMsgs' = Append(dsMsgs, m)
    BY <1>3
  <2> HIDE DEF m
  <2>4. QueueGrows /\ (LossComes(dsMsgs) => LossComes(dsMsgs'))
    BY <1>2, <2>1, <2>3, OneQueued DEF QueueGrows
  <2> QED
    BY <1>1, <2>2, <2>4, StaysDS
<1>4. CASE /\ dsClient' = [dsClient EXCEPT ![s] = "closing"]
           /\ dsMsgs' = Append(dsMsgs, ReleaseOf(s))
  <2>1. ReleaseOf(s) \in DS!LocMsgs /\ ReleaseOf(s).ev = "RELEASE_ATL"
    BY DEF DS!LocMsgs, ReleaseOf
  <2>2. /\ dsClient' \in [DSClients -> ClientStates]
        /\ \A c \in DSClients : dsClient'[c] \in {"open", "closing"} =>
                                  \/ c = s /\ dsClient'[c] = "closing"
                                  \/ dsClient'[c] = dsClient[c]
    BY <1>2, <1>4 DEF ClientStates
  <2>3. /\ QueueGrows /\ (LossComes(dsMsgs) => LossComes(dsMsgs'))
        /\ InSeq(ReleaseOf(s), dsMsgs')
    BY <1>2, <1>4, <2>1, OneQueued DEF QueueGrows
  <2> QED
    BY <1>1, <2>2, <2>3, StaysDS
<1> QED
  BY <1>1, <1>3, <1>4

LEMMA DsAnswersKeepsDS ==
  ASSUME DSInv, DS!DsAnswers \/ DS!DsLoses
  PROVE  DSInv'
<1> DEFINE m == [ev |-> IF up' THEN "OPENED" ELSE "CLOSED"]
<1>1. DSTypes /\ DSWaits /\ DSHolds /\ DSUp /\ DSCloses
  BY DEF DSInv
<1>2. /\ UNCHANGED <<dsState, dsSubscribers, dsClient, atl, unstarted>>
      /\ dsMsgs' = Append(dsMsgs, m)
      /\ \/ /\ dsi # <<>> /\ dsi' = Tail(dsi)
            /\ Head(dsi) # "START" => ~up'
         \/ dsi' = dsi /\ ~up'
  BY DEF DS!DsAnswers, DS!DsLoses
<1>3. /\ m \in DS!LocMsgs
      /\ up' => m.ev = "OPENED"
      /\ ~up' => m.ev = "CLOSED"
  BY DEF DS!LocMsgs
<1> HIDE DEF m
<1>4. QueueGrows /\ Comes(m.ev, dsMsgs') /\ (m.ev = "CLOSED" => LossComes(dsMsgs'))
  BY <1>1, <1>2, <1>3, OneQueued DEF QueueGrows, DSTypes
<1>5. /\ dsi \in Seq({"START", "STOP"}) /\ dsi' \in Seq({"START", "STOP"})
      /\ InSeq("START", dsi) => InSeq("START", dsi') \/ Comes("OPENED", dsMsgs')
                                \/ Comes("CLOSED", dsMsgs')
      /\ InSeq("STOP", dsi) => InSeq("STOP", dsi') \/ Comes("CLOSED", dsMsgs')
  <2>1. dsi \in Seq({"START", "STOP"})
    BY <1>1 DEF DSTypes
  <2>2. CASE dsi' = dsi
    BY <2>1, <2>2
  <2>3. CASE dsi # <<>> /\ dsi' = Tail(dsi) /\ (Head(dsi) # "START" => ~up')
    <3>1. dsi' \in Seq({"START", "STOP"})
      BY <2>1, <2>3
    <3>2. /\ InSeq("START", dsi) => "START" = Head(dsi) \/ InSeq("START", dsi')
          /\ InSeq("STOP", dsi) => "STOP" = Head(dsi) \/ InSeq("STOP", dsi')
      BY <2>1, <2>3, InTail
    <3>3. Comes("OPENED", dsMsgs') \/ Comes("CLOSED", dsMsgs')
      BY <1>3, <1>4
    <3>4. "STOP" = Head(dsi) => Comes("CLOSED", dsMsgs')
      BY <1>3, <1>4, <2>3
    <3> QED
      BY <2>1, <3>1, <3>2, <3>3, <3>4
  <2> QED
    BY <1>2, <2>2, <2>3
<1>6. DSTypes'
  BY <1>1, <1>2, <1>4, <1>5 DEF DSTypes, QueueGrows
<1>7. DSWaits'
  <2>1. dsState = "Pending" => \/ InSeq("START", dsi') \/ Comes("OPENED", dsMsgs')
                               \/ Comes("CLOSED", dsMsgs') \/ unstarted
    BY <1>1, <1>4, <1>5 DEF DSWaits, QueueGrows
  <2>2. dsState = "Releasing" => InSeq("STOP", dsi') \/ Comes("CLOSED", dsMsgs')
    BY <1>1, <1>4, <1>5 DEF DSWaits, QueueGrows
  <2> QED
    BY <1>2, <2>1, <2>2 DEF DSWaits, InSeq, Comes
<1>8. DSHolds'
  BY <1>1, <1>2 DEF DSHolds
<1>9. DSUp'
  <2>1. up' \/ LossComes(dsMsgs')
    BY <1>3, <1>4
  <2>2. dsState = "Acquired" => up' \/ Comes("CLOSED", dsMsgs')
    BY <1>3, <1>4
  <2> QED
    BY <1>2, <2>1, <2>2 DEF DSUp, LossComes, Comes
<1>10. DSCloses'
  <2>1. ASSUME NEW c \in DSClients, dsClient[c] = "closing" PROVE InSeq(ReleaseOf(c), dsMsgs')
    BY <1>1, <1>4, <2>1 DEF DSCloses, QueueGrows
  <2> QED
    BY <1>2, <2>1 DEF DSCloses, InSeq, ReleaseOf
<1> QED
  BY <1>6, <1>7, <1>8, <1>9, <1>10 DEF DSInv

LEMMA DSStep == DSInv /\ [DS!Next]_(DS!vars) => DSInv'
<1> SUFFICES ASSUME DSInv, [DS!Next]_(DS!vars)
             PROVE  DSInv'
  OBVIOUS
<1>1. CASE UNCHANGED DS!vars
  BY <1>1 DEF DSInv, DSTypes, DSWaits, DSHolds, DSUp, DSCloses, InSeq, Comes, LossComes, OnAs,
              ReleaseOf, DS!vars
<1>2. CASE DS!HalStep
  BY <1>2, HalStepKeepsDS
<1>3. CASE DS!retryCallback
  BY <1>3, CallbackKeepsDS
<1>4. CASE DS!DsAnswers \/ DS!DsLoses
  BY <1>4, DsAnswersKeepsDS
<1>5. CASE \E s \in DSClients : DS!ClientOpens(s) \/ DS!ClientCloses(s)
  BY <1>5, ClientKeepsDS
<1> QED
  BY <1>1, <1>2, <1>3, <1>4, <1>5 DEF DS!Next

(***************************************************************************)
(* The emergency SUPL machine waits only for an answer that is to come, a  *)
(* client believes that it has a data call only while one of the machines  *)
(* knows of it and the call is up or its end is queued, and a client that  *)
(* closes has its release queued (DSStateMachine, AgpsState).              *)
(***************************************************************************)
THEOREM DataCallsAreHeld ==
  DS!Spec => [](DS!WaitingIsAnswered /\ DS!OpenIsHeld /\ DS!ClosingIsAnswered)
<1>1. DS!Init => DSInv
  <2> SUFFICES ASSUME DS!Init
               PROVE  DSInv
    OBVIOUS
  <2>1. /\ dsState = "Released" /\ dsSubscribers = <<>> /\ dsMsgs = <<>> /\ dsi = <<>>
        /\ dsClient = [s \in DSClients |-> "idle"]
    BY DEF DS!Init
  <2>2. DSTypes
    BY <2>1 DEF DSTypes, ClientStates
  <2>3. DSWaits /\ DSHolds /\ DSCloses
    BY <2>1 DEF DSWaits, DSHolds, DSCloses
  <2>4. LossComes(<<>>)
    BY DEF LossComes
  <2> QED
    BY <2>1, <2>2, <2>3, <2>4 DEF DSInv, DSUp
<1>2. DSInv /\ [DS!Next]_(DS!vars) => DSInv'
  BY DSStep
<1>3. DSInv => DS!WaitingIsAnswered /\ DS!OpenIsHeld /\ DS!ClosingIsAnswered
  <2> SUFFICES ASSUME DSInv
               PROVE  DS!WaitingIsAnswered /\ DS!OpenIsHeld /\ DS!ClosingIsAnswered
    OBVIOUS
  <2>1. DSTypes /\ DSWaits /\ DSHolds /\ DSUp /\ DSCloses
    BY DEF DSInv
  <2>2. \A ev : Comes(ev, dsMsgs) => DS!Queued(ev)
    BY <2>1 DEF DSTypes, Comes, DS!Queued
  <2>3. \A x : InSeq(x, dsi) => x \in DS!ToSet(dsi)
    BY <2>1 DEF DSTypes, InSeq, DS!ToSet
  <2>4. DS!WaitingIsAnswered
    BY <2>1, <2>2, <2>3 DEF DSWaits, DS!WaitingIsAnswered
  <2>5. \A s : OnAs(s, dsSubscribers, TRUE) \/ OnAs(s, dsSubscribers, FALSE)
                 => DS!On(dsSubscribers, s)
    BY <2>1, ListIs DEF DSTypes
  <2>6. DS!OpenIsHeld
    BY <2>1, <2>2, <2>5 DEF DSHolds, DSUp, DS!OpenIsHeld
  <2>7. DS!ClosingIsAnswered
    <3>1. DOMAIN dsMsgs = 1..Len(dsMsgs)
      BY <2>1 DEF DSTypes
    <3> QED
      BY <2>1, <3>1 DEF DSCloses, InSeq, ReleaseOf, DS!ClosingIsAnswered
  <2> QED
    BY <2>4, <2>6, <2>7
<1> QED
  BY <1>1, <1>2, <1>3, PTL DEF DS!Spec

=============================================================================
