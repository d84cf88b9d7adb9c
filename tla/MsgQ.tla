-------------------------------- MODULE MsgQ --------------------------------
(***************************************************************************)
(* The inter-thread message queue of the location HAL: gps/utils/msg_q.c   *)
(* on top of gps/utils/linked_list.c.                                      *)
(*                                                                         *)
(* Every operation runs between pthread_mutex_lock and _unlock of          *)
(* list_mutex, so it is one step, with one exception: msg_q_rcv gives the  *)
(* mutex up inside pthread_cond_wait and goes on when it has been signalled *)
(* and owns the mutex again.  A receiver is therefore "waiting" (asleep in *)
(* pthread_cond_wait), "woken" (signalled, mutex not yet reacquired) or    *)
(* "idle" (outside msg_q_rcv).  POSIX lets pthread_cond_wait return        *)
(* without a signal, and the model does too.                               *)
(*                                                                         *)
(* msg_list is kept oldest first: linked_list_add inserts at p_head and    *)
(* linked_list_remove takes from p_tail, which are the two ends of the     *)
(* sequence.                                                               *)
(***************************************************************************)
EXTENDS Naturals, Sequences, FiniteSets

CONSTANTS Msgs,       \* message objects
          Receivers,  \* threads calling msg_q_rcv
          NoMsg

ASSUME MsgQAssumption == NoMsg \notin Msgs /\ IsFiniteSet(Receivers)

VARIABLES msg_list,   \* msg_q.msg_list, oldest first
          unblocked,  \* msg_q.unblocked
          rpc,        \* where each receiver is in msg_q_rcv
          rv,         \* what its last msg_q_rcv returned
          msg_obj     \* the message it got and has not deleted yet

vars == <<msg_list, unblocked, rpc, rv, msg_obj>>

QueuedMsgs == {msg_list[i] : i \in 1..Len(msg_list)}
HeldMsgs == {msg_obj[r] : r \in Receivers} \ {NoMsg}
Waiting == {r \in Receivers : rpc[r] = "waiting"}
Woken == {r \in Receivers : rpc[r] = "woken"}

TypeOK == /\ msg_list \in Seq(Msgs)
          /\ unblocked \in BOOLEAN
          /\ rpc \in [Receivers -> {"idle", "waiting", "woken"}]
          /\ rv \in [Receivers -> {"NONE", "SUCCESS", "UNAVAILABLE_RESOURCE"}]
          /\ msg_obj \in [Receivers -> Msgs \cup {NoMsg}]

\* msg_q_init
Init == /\ msg_list = <<>>
        /\ unblocked = FALSE
        /\ rpc = [r \in Receivers |-> "idle"]
        /\ rv = [r \in Receivers |-> "NONE"]
        /\ msg_obj = [r \in Receivers |-> NoMsg]

-----------------------------------------------------------------------------
\* A change to msg_q_snd that would look like an optimisation: signal only
\* when the list was empty before.
signal_when_it_was_empty ==
  \/ Waiting = {} /\ UNCHANGED rpc
  \/ msg_list # <<>> /\ UNCHANGED rpc
  \/ /\ msg_list = <<>>
     /\ \E w \in Waiting : rpc' = [rpc EXCEPT ![w] = "woken"]

\* msg_q_snd without the signal.
signal_forgotten == UNCHANGED rpc

(***************************************************************************)
(* pthread_cond_signal wakes one thread asleep on list_cond, if there is   *)
(* one; pthread_cond_broadcast wakes all of them.                          *)
(***************************************************************************)
pthread_cond_signal ==
  \/ Waiting = {} /\ UNCHANGED rpc
  \/ \E w \in Waiting : rpc' = [rpc EXCEPT ![w] = "woken"]

pthread_cond_broadcast ==
  rpc' = [r \in Receivers |-> IF rpc[r] = "waiting" THEN "woken" ELSE rpc[r]]

\* A mistake in linked_list_add: the new element goes to the end that
\* linked_list_remove takes from.
linked_list_add_at_tail(m) == msg_list' = <<m>> \o msg_list

linked_list_add(m) == msg_list' = Append(msg_list, m)

(***************************************************************************)
(* linked_list_remove(p_list, &msg_obj), the last act of msg_q_rcv: the    *)
(* oldest element, or UNAVAILABLE_RESOURCE from an empty list.             *)
(***************************************************************************)
linked_list_remove(r) ==
  IF msg_list = <<>>
  THEN /\ rv' = [rv EXCEPT ![r] = "UNAVAILABLE_RESOURCE"]
       /\ UNCHANGED <<msg_list, msg_obj>>
  ELSE /\ rv' = [rv EXCEPT ![r] = "SUCCESS"]
       /\ msg_obj' = [msg_obj EXCEPT ![r] = Head(msg_list)]
       /\ msg_list' = Tail(msg_list)

-----------------------------------------------------------------------------
\* msg_q_snd: a message object is the sender's until it is queued, so it is
\* neither queued nor being worked on already.  On an unblocked queue
\* msg_q_snd returns without doing anything.
msg_q_snd(m) ==
  /\ m \notin QueuedMsgs \cup HeldMsgs
  /\ ~unblocked
  /\ linked_list_add(m)
  /\ pthread_cond_signal
  /\ UNCHANGED <<unblocked, rv, msg_obj>>

\* msg_q_rcv up to the first pthread_cond_wait, or to its return.
msg_q_rcv(r) ==
  /\ rpc[r] = "idle"
  /\ msg_obj[r] = NoMsg
  /\ \/ /\ unblocked
        /\ rv' = [rv EXCEPT ![r] = "UNAVAILABLE_RESOURCE"]
        /\ UNCHANGED <<msg_list, msg_obj, rpc>>
     \/ /\ ~unblocked
        /\ msg_list = <<>>
        /\ rpc' = [rpc EXCEPT ![r] = "waiting"]
        /\ UNCHANGED <<msg_list, msg_obj, rv>>
     \/ /\ ~unblocked
        /\ msg_list # <<>>
        /\ linked_list_remove(r)
        /\ UNCHANGED rpc
  /\ UNCHANGED unblocked

\* msg_q_rcv with "if" instead of "while" around pthread_cond_wait.
msg_q_rcv_resume_without_loop(r) ==
  /\ rpc[r] = "woken"
  /\ linked_list_remove(r)
  /\ rpc' = [rpc EXCEPT ![r] = "idle"]
  /\ UNCHANGED unblocked

\* msg_q_rcv after pthread_cond_wait: the loop condition again.
msg_q_rcv_resume(r) ==
  /\ rpc[r] = "woken"
  /\ \/ /\ msg_list = <<>> /\ ~unblocked
        /\ rpc' = [rpc EXCEPT ![r] = "waiting"]
        /\ UNCHANGED <<msg_list, msg_obj, rv>>
     \/ /\ msg_list # <<>> \/ unblocked
        /\ linked_list_remove(r)
        /\ rpc' = [rpc EXCEPT ![r] = "idle"]
  /\ UNCHANGED unblocked

\* pthread_cond_wait returns without having been signalled.
SpuriousWakeup(r) ==
  /\ rpc[r] = "waiting"
  /\ rpc' = [rpc EXCEPT ![r] = "woken"]
  /\ UNCHANGED <<msg_list, unblocked, rv, msg_obj>>

\* The receiver has processed its message and deletes it (MsgTask::run).
DeleteMsg(r) ==
  /\ msg_obj[r] # NoMsg
  /\ msg_obj' = [msg_obj EXCEPT ![r] = NoMsg]
  /\ UNCHANGED <<msg_list, unblocked, rpc, rv>>

\* Every element is deallocated.
linked_list_flush == msg_list' = <<>>

msg_q_flush ==
  /\ linked_list_flush
  /\ UNCHANGED <<unblocked, rpc, rv, msg_obj>>

\* msg_q_unblock that signals one waiter instead of all of them.
msg_q_unblock_one ==
  /\ ~unblocked
  /\ unblocked' = TRUE
  /\ pthread_cond_signal
  /\ UNCHANGED <<msg_list, rv, msg_obj>>

\* msg_q_unblock
msg_q_unblock ==
  /\ ~unblocked
  /\ unblocked' = TRUE
  /\ pthread_cond_broadcast
  /\ UNCHANGED <<msg_list, rv, msg_obj>>

Next == \/ \E m \in Msgs : msg_q_snd(m)
        \/ \E r \in Receivers : \/ msg_q_rcv(r)
                                \/ msg_q_rcv_resume(r)
                                \/ SpuriousWakeup(r)
                                \/ DeleteMsg(r)
        \/ msg_q_flush
        \/ msg_q_unblock

Spec == Init /\ [][Next]_vars

(***************************************************************************)
(* A receiver thread keeps calling msg_q_rcv, a woken one gets the mutex   *)
(* (it is never held across a blocking call) and a message's handler       *)
(* returns.  Nothing is assumed of senders, flush and unblock.             *)
(***************************************************************************)
Fairness == \A r \in Receivers : /\ WF_vars(msg_q_rcv(r))
                                 /\ WF_vars(msg_q_rcv_resume(r))
                                 /\ WF_vars(DeleteMsg(r))

FairSpec == Spec /\ Fairness

-----------------------------------------------------------------------------
(***************************************************************************)
(* No wakeup is lost: as long as some receiver is asleep there are at      *)
(* least as many receivers already woken as there are messages queued, so  *)
(* pthread_cond_signal, one per msg_q_snd, is enough however many          *)
(* receivers share the queue.                                              *)
(***************************************************************************)
NoLostWakeup == Waiting # {} => Len(msg_list) <= Cardinality(Woken)

(***************************************************************************)
(* After msg_q_unblock nobody is asleep in pthread_cond_wait, and nobody   *)
(* falls asleep again ("All waiters will wake up", msg_q.h).               *)
(***************************************************************************)
NobodySleepsAfterUnblock == unblocked => Waiting = {}

(***************************************************************************)
(* msg_q_rcv returns UNAVAILABLE_RESOURCE only from a queue that has been  *)
(* unblocked: a MsgTask thread, which ends on that value, does not end     *)
(* because another receiver or a flush emptied the list under it.          *)
(***************************************************************************)
FailsOnlyWhenUnblocked ==
  \A r \in Receivers : rv[r] = "UNAVAILABLE_RESOURCE" => unblocked

\* The queue is a closable FIFO.
Fifo == INSTANCE ClosableFifo WITH queue <- msg_list, closed <- unblocked,
                                   held <- msg_obj
FifoSpec == Fifo!Spec

(***************************************************************************)
(* Nobody and nothing is stuck.  A queued message does not stay queued in  *)
(* an open queue: it is delivered, flushed, or the queue is unblocked; and *)
(* once msg_q_unblock was called every receiver gets out of msg_q_rcv.     *)
(***************************************************************************)
NobodyIsStuck ==
  /\ \A m \in Msgs : m \in QueuedMsgs ~> (m \notin QueuedMsgs \/ unblocked)
  /\ unblocked ~> \A r \in Receivers : rv[r] = "UNAVAILABLE_RESOURCE"
=============================================================================
