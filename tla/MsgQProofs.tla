----------------------------- MODULE MsgQProofs -----------------------------
(***************************************************************************)
(* Proofs about MsgQ, for any set of messages and any finite set of        *)
(* receivers.                                                              *)
(***************************************************************************)
EXTENDS MsgQ, FiniteSetTheorems, SequenceTheorems, TLAPS

\* What msg_q_rcv takes out of the list is a message, and a list is left.
LEMMA RemoveType ==
  ASSUME TypeOK, NEW r \in Receivers, linked_list_remove(r)
  PROVE  /\ msg_list' \in Seq(Msgs)
         /\ rv' \in [Receivers -> {"NONE", "SUCCESS", "UNAVAILABLE_RESOURCE"}]
         /\ msg_obj' \in [Receivers -> Msgs \cup {NoMsg}]
<1>1. CASE msg_list = <<>>
  BY <1>1 DEF TypeOK, linked_list_remove
<1>2. CASE msg_list # <<>>
  <2>1. Head(msg_list) \in Msgs /\ Tail(msg_list) \in Seq(Msgs)
    BY <1>2, HeadTailProperties DEF TypeOK
  <2> QED
    BY <1>2, <2>1 DEF TypeOK, linked_list_remove
<1> QED
  BY <1>1, <1>2

\* An empty list is a list of messages.
LEMMA InitType == Init => TypeOK
<1> SUFFICES ASSUME Init PROVE TypeOK
  OBVIOUS
<1>1. msg_list \in Seq(Msgs)
  BY EmptySeq DEF Init
<1>2. unblocked \in BOOLEAN
  BY DEF Init
<1>3. /\ rpc \in [Receivers -> {"idle", "waiting", "woken"}]
      /\ rv \in [Receivers -> {"NONE", "SUCCESS", "UNAVAILABLE_RESOURCE"}]
      /\ msg_obj \in [Receivers -> Msgs \cup {NoMsg}]
  BY DEF Init
<1> QED
  BY <1>1, <1>2, <1>3 DEF TypeOK

\* The type invariant holds of every behaviour of msg_q.c.
THEOREM TypeCorrect == Spec => []TypeOK
<1>1. Init => TypeOK
  BY InitType
<1>2. TypeOK /\ [Next]_vars => TypeOK'
  <2> SUFFICES ASSUME TypeOK, [Next]_vars PROVE TypeOK'
    OBVIOUS
  <2> USE DEF TypeOK
  <2>1. CASE UNCHANGED vars
    BY <2>1 DEF vars
  <2>2. ASSUME NEW m \in Msgs, msg_q_snd(m) PROVE TypeOK'
    BY <2>2 DEF msg_q_snd, linked_list_add, pthread_cond_signal, Waiting
  <2>3. ASSUME NEW r \in Receivers, msg_q_rcv(r) PROVE TypeOK'
    BY <2>3, RemoveType DEF msg_q_rcv
  <2>4. ASSUME NEW r \in Receivers, msg_q_rcv_resume(r) PROVE TypeOK'
    BY <2>4, RemoveType DEF msg_q_rcv_resume
  <2>5. ASSUME NEW r \in Receivers, SpuriousWakeup(r) PROVE TypeOK'
    BY <2>5 DEF SpuriousWakeup
  <2>6. ASSUME NEW r \in Receivers, DeleteMsg(r) PROVE TypeOK'
    BY <2>6 DEF DeleteMsg
  <2>7. CASE msg_q_flush
    BY <2>7 DEF msg_q_flush, linked_list_flush
  <2>8. CASE msg_q_unblock
    BY <2>8 DEF msg_q_unblock, pthread_cond_broadcast
  <2> QED
    BY <2>1, <2>2, <2>3, <2>4, <2>5, <2>6, <2>7, <2>8 DEF Next
<1> QED
  BY <1>1, <1>2, PTL DEF Spec

-----------------------------------------------------------------------------
(***************************************************************************)
(* The sets Waiting and Woken are finite, and moving one receiver changes  *)
(* the number of woken ones by one.                                        *)
(***************************************************************************)
LEMMA WokenFinite == IsFiniteSet(Woken) /\ Cardinality(Woken) \in Nat
<1>1. Woken \subseteq Receivers
  BY DEF Woken
<1> QED
  BY <1>1, FS_Subset, FS_CardinalityType, MsgQAssumption

LEMMA WakeOne ==
  ASSUME TypeOK, NEW w \in Waiting, rpc' = [rpc EXCEPT ![w] = "woken"]
  PROVE  Cardinality(Woken') = Cardinality(Woken) + 1
<1>1. Woken' = Woken \cup {w} /\ w \notin Woken
  BY DEF TypeOK, Waiting, Woken
<1> QED
  BY <1>1, WokenFinite, FS_AddElement

LEMMA LeaveWoken ==
  ASSUME TypeOK, NEW r \in Woken, NEW pc \in {"idle", "waiting"},
         rpc' = [rpc EXCEPT ![r] = pc]
  PROVE  Cardinality(Woken') = Cardinality(Woken) - 1
<1>1. Woken' = Woken \ {r}
  BY DEF TypeOK, Woken
<1> QED
  BY <1>1, WokenFinite, FS_RemoveElement

(***************************************************************************)
(* NoLostWakeup and NobodySleepsAfterUnblock hold together: the first is   *)
(* about an open queue, and the second keeps it vacuous afterwards.        *)
(***************************************************************************)
WakeupInv == TypeOK /\ NoLostWakeup /\ NobodySleepsAfterUnblock

\* One pthread_cond_signal per msg_q_snd never strands a queued message.
THEOREM WakeupCorrect == Spec => [](NoLostWakeup /\ NobodySleepsAfterUnblock)
<1>1. Init => WakeupInv
  <2>1. Init => Waiting = {}
    BY DEF Init, Waiting
  <2> QED
    BY <2>1, InitType DEF WakeupInv, NoLostWakeup, NobodySleepsAfterUnblock
<1>2. WakeupInv /\ TypeOK' /\ [Next]_vars => WakeupInv'
  <2> SUFFICES ASSUME WakeupInv, TypeOK', [Next]_vars
               PROVE  NoLostWakeup' /\ NobodySleepsAfterUnblock'
    BY DEF WakeupInv
  <2>0. TypeOK /\ NoLostWakeup /\ NobodySleepsAfterUnblock
    BY DEF WakeupInv
  <2>n. /\ Cardinality(Woken) \in Nat
        /\ Len(msg_list) \in Nat
        /\ Len(msg_list') \in Nat
    BY <2>0, WokenFinite DEF TypeOK
  <2>1. CASE UNCHANGED vars
    BY <2>0, <2>1 DEF vars, NoLostWakeup, NobodySleepsAfterUnblock, Waiting, Woken
  <2>2. ASSUME NEW m \in Msgs, msg_q_snd(m)
        PROVE  NoLostWakeup' /\ NobodySleepsAfterUnblock'
    <3>1. Len(msg_list') = Len(msg_list) + 1 /\ ~unblocked /\ ~unblocked'
      BY <2>0, <2>2 DEF msg_q_snd, linked_list_add, TypeOK
    <3>2. CASE Waiting = {} /\ UNCHANGED rpc
      <4>1. Waiting' = {}
        BY <3>2 DEF Waiting
      <4> QED
        BY <3>1, <4>1 DEF NoLostWakeup, NobodySleepsAfterUnblock
    <3>3. ASSUME NEW w \in Waiting, rpc' = [rpc EXCEPT ![w] = "woken"]
          PROVE  NoLostWakeup' /\ NobodySleepsAfterUnblock'
      <4>1. Cardinality(Woken') = Cardinality(Woken) + 1
        BY <2>0, <3>3, WakeOne
      <4>2. Len(msg_list) <= Cardinality(Woken)
        BY <2>0, <3>3 DEF NoLostWakeup
      <4> QED
        BY <2>n, <3>1, <4>1, <4>2 DEF NoLostWakeup, NobodySleepsAfterUnblock
    <3> QED
      BY <2>2, <3>2, <3>3 DEF msg_q_snd, pthread_cond_signal
  <2>3. ASSUME NEW r \in Receivers, msg_q_rcv(r)
        PROVE  NoLostWakeup' /\ NobodySleepsAfterUnblock'
    <3>1. Woken' = Woken
      BY <2>0, <2>3 DEF msg_q_rcv, Woken, TypeOK
    <3>2. CASE msg_list = <<>> /\ ~unblocked /\ UNCHANGED <<msg_list, unblocked>>
      BY <3>1, <3>2, <2>n DEF NoLostWakeup, NobodySleepsAfterUnblock
    <3>3. CASE UNCHANGED rpc /\ Len(msg_list') <= Len(msg_list) /\ UNCHANGED unblocked
      <4>1. Waiting' = Waiting
        BY <3>3 DEF Waiting
      <4> QED
        BY <2>0, <2>n, <3>1, <3>3, <4>1 DEF NoLostWakeup, NobodySleepsAfterUnblock
    <3> QED
      BY <2>0, <2>3, <2>n, <3>2, <3>3 DEF msg_q_rcv, linked_list_remove, TypeOK
  <2>4. ASSUME NEW r \in Receivers, msg_q_rcv_resume(r)
        PROVE  NoLostWakeup' /\ NobodySleepsAfterUnblock'
    <3>1. r \in Woken
      BY <2>4 DEF msg_q_rcv_resume, Woken
    <3>2. CASE /\ msg_list = <<>> /\ ~unblocked
               /\ rpc' = [rpc EXCEPT ![r] = "waiting"]
               /\ UNCHANGED <<msg_list, unblocked>>
      <4>1. Cardinality(Woken') \in Nat
        BY <2>0, <3>1, <3>2, LeaveWoken, WokenFinite, FS_RemoveElement, FS_CardinalityType
        DEF Woken, TypeOK
      <4> QED
        BY <3>2, <4>1 DEF NoLostWakeup, NobodySleepsAfterUnblock
    <3>3. CASE /\ linked_list_remove(r)
               /\ rpc' = [rpc EXCEPT ![r] = "idle"]
               /\ UNCHANGED unblocked
      <4>1. Cardinality(Woken') = Cardinality(Woken) - 1
        BY <2>0, <3>1, <3>3, LeaveWoken
      <4>2. Waiting' = Waiting
        BY <2>0, <3>1, <3>3 DEF Waiting, Woken, TypeOK
      <4>3. CASE msg_list # <<>>
        <5>1. Len(msg_list') = Len(msg_list) - 1
          BY <2>0, <3>3, <4>3 DEF linked_list_remove, TypeOK
        <5> QED
          BY <2>0, <2>n, <4>1, <4>2, <5>1, <3>3
          DEF NoLostWakeup, NobodySleepsAfterUnblock
      <4>4. CASE unblocked
        BY <2>0, <4>2, <3>3, <4>4 DEF NoLostWakeup, NobodySleepsAfterUnblock
      <4> QED
        BY <2>4, <3>3, <4>3, <4>4 DEF msg_q_rcv_resume, TypeOK
    <3> QED
      BY <2>4, <3>2, <3>3 DEF msg_q_rcv_resume
  <2>5. ASSUME NEW r \in Receivers, SpuriousWakeup(r)
        PROVE  NoLostWakeup' /\ NobodySleepsAfterUnblock'
    <3>1. r \in Waiting /\ rpc' = [rpc EXCEPT ![r] = "woken"]
      BY <2>5 DEF SpuriousWakeup, Waiting
    <3>2. Cardinality(Woken') = Cardinality(Woken) + 1
      BY <2>0, <3>1, WakeOne
    <3>3. ~unblocked /\ Len(msg_list) <= Cardinality(Woken)
      BY <2>0, <3>1 DEF NobodySleepsAfterUnblock, NoLostWakeup
    <3> QED
      BY <2>5, <2>n, <3>2, <3>3
      DEF SpuriousWakeup, NoLostWakeup, NobodySleepsAfterUnblock
  <2>6. ASSUME NEW r \in Receivers, DeleteMsg(r)
        PROVE  NoLostWakeup' /\ NobodySleepsAfterUnblock'
    BY <2>0, <2>6 DEF DeleteMsg, NoLostWakeup, NobodySleepsAfterUnblock, Waiting, Woken
  <2>7. CASE msg_q_flush
    <3>1. Waiting' = Waiting /\ Woken' = Woken /\ Len(msg_list') = 0
      BY <2>7 DEF msg_q_flush, linked_list_flush, Waiting, Woken
    <3> QED
      BY <2>0, <2>n, <2>7, <3>1
      DEF msg_q_flush, linked_list_flush, NoLostWakeup, NobodySleepsAfterUnblock
  <2>8. CASE msg_q_unblock
    <3>1. Waiting' = {}
      BY <2>0, <2>8 DEF msg_q_unblock, pthread_cond_broadcast, Waiting, TypeOK
    <3> QED
      BY <3>1 DEF NoLostWakeup, NobodySleepsAfterUnblock
  <2> QED
    BY <2>1, <2>2, <2>3, <2>4, <2>5, <2>6, <2>7, <2>8 DEF Next
<1> QED
  BY <1>1, <1>2, TypeCorrect, PTL DEF Spec, WakeupInv

-----------------------------------------------------------------------------
\* A receiver inside msg_q_rcv has no message in its hands: it deleted the
\* last one before it called.
SleepersHoldNothing == \A r \in Receivers : rpc[r] # "idle" => msg_obj[r] = NoMsg

RcvInv == TypeOK /\ SleepersHoldNothing /\ FailsOnlyWhenUnblocked

LEMMA RcvInvariant == Spec => []RcvInv
<1>1. Init => RcvInv
  <2>1. Init => SleepersHoldNothing /\ FailsOnlyWhenUnblocked
    BY DEF Init, SleepersHoldNothing, FailsOnlyWhenUnblocked
  <2> QED
    BY <2>1, InitType DEF RcvInv
<1>2. RcvInv /\ TypeOK' /\ [Next]_vars => RcvInv'
  <2> SUFFICES ASSUME RcvInv, TypeOK', [Next]_vars
               PROVE  SleepersHoldNothing' /\ FailsOnlyWhenUnblocked'
    BY DEF RcvInv
  <2> USE DEF RcvInv, TypeOK, SleepersHoldNothing, FailsOnlyWhenUnblocked
  <2>1. CASE UNCHANGED vars
    BY <2>1 DEF vars
  <2>2. ASSUME NEW m \in Msgs, msg_q_snd(m)
        PROVE  SleepersHoldNothing' /\ FailsOnlyWhenUnblocked'
    BY <2>2 DEF msg_q_snd, pthread_cond_signal, Waiting
  <2>3. ASSUME NEW r \in Receivers, msg_q_rcv(r)
        PROVE  SleepersHoldNothing' /\ FailsOnlyWhenUnblocked'
    BY <2>3 DEF msg_q_rcv, linked_list_remove
  <2>4. ASSUME NEW r \in Receivers, msg_q_rcv_resume(r)
        PROVE  SleepersHoldNothing' /\ FailsOnlyWhenUnblocked'
    BY <2>4 DEF msg_q_rcv_resume, linked_list_remove
  <2>5. ASSUME NEW r \in Receivers, SpuriousWakeup(r)
        PROVE  SleepersHoldNothing' /\ FailsOnlyWhenUnblocked'
    BY <2>5 DEF SpuriousWakeup
  <2>6. ASSUME NEW r \in Receivers, DeleteMsg(r)
        PROVE  SleepersHoldNothing' /\ FailsOnlyWhenUnblocked'
    BY <2>6 DEF DeleteMsg
  <2>7. CASE msg_q_flush
    BY <2>7 DEF msg_q_flush, linked_list_flush
  <2>8. CASE msg_q_unblock
    BY <2>8 DEF msg_q_unblock, pthread_cond_broadcast
  <2> QED
    BY <2>1, <2>2, <2>3, <2>4, <2>5, <2>6, <2>7, <2>8 DEF Next
<1> QED
  BY <1>1, <1>2, TypeCorrect, PTL DEF Spec, RcvInv

\* msg_q_rcv fails only on an unblocked queue, so a MsgTask thread never ends
\* because another receiver or msg_q_flush emptied the list under it.
THEOREM FailureMeansUnblocked == Spec => []FailsOnlyWhenUnblocked
  BY RcvInvariant, PTL DEF RcvInv

\* msg_q.c with its mutex and condition variable implements the closable FIFO
\* that msg_q.h promises.
THEOREM ImplementsFifo == Spec => FifoSpec
<1>1. Init => Fifo!Init
  BY DEF Init, Fifo!Init
<1>2. RcvInv /\ [Next]_vars => [Fifo!Next]_(Fifo!vars)
  <2> SUFFICES ASSUME RcvInv, [Next]_vars PROVE [Fifo!Next]_(Fifo!vars)
    OBVIOUS
  <2> USE DEF Fifo!Next, Fifo!vars
  <2>1. CASE UNCHANGED vars
    BY <2>1 DEF vars
  <2>2. ASSUME NEW m \in Msgs, msg_q_snd(m) PROVE Fifo!Accept(m)
    BY <2>2 DEF msg_q_snd, linked_list_add, Fifo!Accept
  <2>3. ASSUME NEW r \in Receivers, linked_list_remove(r), msg_obj[r] = NoMsg,
               UNCHANGED unblocked
        PROVE  Fifo!Deliver(r) \/ UNCHANGED Fifo!vars
    BY <2>3 DEF linked_list_remove, Fifo!Deliver
  <2>4. ASSUME NEW r \in Receivers, msg_q_rcv(r)
        PROVE  Fifo!Deliver(r) \/ UNCHANGED Fifo!vars
    BY <2>3, <2>4 DEF msg_q_rcv
  <2>5. ASSUME NEW r \in Receivers, msg_q_rcv_resume(r)
        PROVE  Fifo!Deliver(r) \/ UNCHANGED Fifo!vars
    <3>1. msg_obj[r] = NoMsg
      BY <2>5 DEF msg_q_rcv_resume, RcvInv, SleepersHoldNothing
    <3> QED
      BY <2>3, <2>5, <3>1 DEF msg_q_rcv_resume
  <2>6. ASSUME NEW r \in Receivers, SpuriousWakeup(r) PROVE UNCHANGED Fifo!vars
    BY <2>6 DEF SpuriousWakeup
  <2>7. ASSUME NEW r \in Receivers, DeleteMsg(r) PROVE Fifo!Finish(r)
    BY <2>7 DEF DeleteMsg, Fifo!Finish
  <2>8. CASE msg_q_flush
    BY <2>8 DEF msg_q_flush, linked_list_flush, Fifo!Flush
  <2>9. CASE msg_q_unblock
    BY <2>9 DEF msg_q_unblock, Fifo!Close
  <2> QED
    BY <2>1, <2>2, <2>4, <2>5, <2>6, <2>7, <2>8, <2>9 DEF Next
<1> QED
  BY <1>1, <1>2, RcvInvariant, PTL DEF Spec, FifoSpec, Fifo!Spec
=============================================================================
