---------------------------- MODULE MsgTaskProofs ----------------------------
(***************************************************************************)
(* What LocThread promises by itself: the references to a delegate are     *)
(* counted right, it is never used after it is deleted, is deleted in the  *)
(* end, and the thread is joined before stop() goes on.  Then, that it     *)
(* holds when a MsgTask uses the thread, and what MsgTask::destroy and     *)
(* MsgTask::run promise with it.                                           *)
(***************************************************************************)
EXTENDS MsgTask, TLAPS

(***************************************************************************)
(* The two threads' positions decide the rest: who can be where at the     *)
(* same time, and what that says of the delegate and of mJoinable.  The    *)
(* facts about "idle" and "none" are what a thread that does not exist     *)
(* yet needs; the one about "joining" carries the join across destroy().   *)
(***************************************************************************)
ThreadPositions ==
  /\ opc = "idle" => wpc = "none" /\ delegate = "none" /\ started = "pending"
  /\ opc = "check" => started = "pending"
  /\ opc \in {"owning", "stopping", "joining"} => started = "true" /\ wpc # "none"
  /\ opc \in {"check", "owning", "stopping"} /\ wpc # "none" => mJoinable = joinable
  /\ opc = "check" /\ wpc = "none" => ~mRunnable
  /\ opc = "done" /\ wpc \in {"none", "done"} => delegate # "none"
  /\ delegate = "none" => opc = "idle"
  /\ delegate = "deleted" => ~Thread!OwnerHolds /\ ~Thread!WorkerHolds
                             /\ opc = "done" /\ wpc \in {"none", "done"}

ThreadInv ==
  /\ Thread!TypeOK
  /\ Thread!RefCountIsHolders
  /\ Thread!NoUseAfterFree
  /\ Thread!DelegateNotLeaked
  /\ Thread!JoinedMeansFinished
  /\ ThreadPositions

\* The invariant holds before start().
LEMMA InitThreadInv == Thread!Init => ThreadInv
<1> SUFFICES ASSUME Thread!Init PROVE ThreadInv
  OBVIOUS
<1>1. Thread!TypeOK
  <2>1. mRefCount \in 0..2
    BY DEF Thread!Init
  <2> QED
    BY <2>1, Zenon DEF Thread!Init, Thread!TypeOK, Thread!OwnerAt, Thread!WorkerAt
<1>2. ~Thread!OwnerHolds /\ ~Thread!WorkerHolds
  BY DEF Thread!Init, Thread!OwnerHolds, Thread!WorkerHolds
<1>3. Thread!RefCountIsHolders
  BY <1>2 DEF Thread!Init, Thread!RefCountIsHolders
<1>4. Thread!NoUseAfterFree /\ Thread!DelegateNotLeaked /\ Thread!JoinedMeansFinished
  BY <1>2 DEF Thread!Init, Thread!NoUseAfterFree, Thread!DelegateNotLeaked,
     Thread!JoinedMeansFinished
<1>5. ThreadPositions
  BY <1>2 DEF Thread!Init, ThreadPositions
<1> QED
  BY <1>1, <1>3, <1>4, <1>5 DEF ThreadInv

\* Every step of either thread preserves it.
LEMMA NextThreadInv == ThreadInv /\ [Thread!Next]_(Thread!vars) => ThreadInv'
<1> SUFFICES ASSUME ThreadInv, [Thread!Next]_(Thread!vars) PROVE ThreadInv'
  OBVIOUS
<1> USE DEF ThreadInv, Thread!TypeOK, Thread!RefCountIsHolders,
   Thread!NoUseAfterFree, Thread!DelegateNotLeaked, Thread!JoinedMeansFinished,
   ThreadPositions, Thread!OwnerHolds, Thread!WorkerHolds, Thread!OwnerAt,
   Thread!WorkerAt, Thread!shared, Thread!client
<1>1. CASE Thread!ThreadCreated
  BY <1>1 DEF Thread!ThreadCreated
<1>2. CASE Thread!ThreadNotCreated
  <2>1. Thread!TypeOK'
    <3>1. mRefCount' \in 0..2
      BY <1>2 DEF Thread!ThreadNotCreated
    <3> QED
      BY <1>2, <3>1, Zenon DEF Thread!ThreadNotCreated
  <2>2. Thread!RefCountIsHolders' /\ Thread!NoUseAfterFree' /\ Thread!DelegateNotLeaked'
    BY <1>2 DEF Thread!ThreadNotCreated
  <2>3. Thread!JoinedMeansFinished' /\ ThreadPositions'
    BY <1>2 DEF Thread!ThreadNotCreated
  <2> QED
    BY <2>1, <2>2, <2>3
<1>3. CASE Thread!CheckRunning
  BY <1>3 DEF Thread!CheckRunning
<1>4. CASE Thread!stop
  BY <1>4 DEF Thread!stop
<1>5. CASE Thread!bye
  BY <1>5 DEF Thread!bye
<1>6. CASE Thread!TestJoinable
  BY <1>6 DEF Thread!TestJoinable
<1>7. CASE Thread!Join
  BY <1>7 DEF Thread!Join
<1>8. CASE Thread!OwnerDestroy
  BY <1>8 DEF Thread!OwnerDestroy, Thread!destroy, Thread!callDelete
<1>9. CASE Thread!WorkerDestroy
  BY <1>9 DEF Thread!WorkerDestroy, Thread!destroy, Thread!callDelete
<1>10. CASE Thread!Delete
  BY <1>10 DEF Thread!Delete
<1>11. CASE Thread!ReadRunnable
  BY <1>11 DEF Thread!ReadRunnable
<1>12. CASE Thread!Prerun \/ Thread!LoopTest \/ Thread!Run \/ Thread!Postrun
  BY <1>12 DEF Thread!Prerun, Thread!LoopTest, Thread!Run, Thread!Postrun
<1>13. CASE Thread!ClearRunnable
  BY <1>13 DEF Thread!ClearRunnable
<1>14. CASE Thread!DeleteRunnable
  BY <1>14 DEF Thread!DeleteRunnable
<1>15. CASE UNCHANGED Thread!vars
  BY <1>15 DEF Thread!vars
<1> QED
  BY <1>1, <1>2, <1>3, <1>4, <1>5, <1>6, <1>7, <1>8, <1>9, <1>10, <1>11,
     <1>12, <1>13, <1>14, <1>15 DEF Thread!Next, Thread!Owner, Thread!threadMain

\* The inductive invariant of LocThread.
LEMMA ThreadAlone == Thread!Spec => []ThreadInv
<1>1. Thread!Init => ThreadInv
  BY InitThreadInv
<1>2. ThreadInv /\ [Thread!Next]_(Thread!vars) => ThreadInv'
  BY NextThreadInv
<1> QED
  BY <1>1, <1>2, PTL DEF Thread!Spec

(***************************************************************************)
(* LocThreadDelegate's mRefCount counts the threads that still hold the    *)
(* delegate, so that no thread uses it after "delete this".                *)
(***************************************************************************)
THEOREM DelegateSafe == Thread!Spec => [](Thread!RefCountIsHolders /\ Thread!NoUseAfterFree)
<1>1. ThreadInv => Thread!RefCountIsHolders /\ Thread!NoUseAfterFree
  BY DEF ThreadInv
<1> QED
  BY <1>1, ThreadAlone, PTL

(***************************************************************************)
(* The delegate is deleted once LocThread and threadMain are through.      *)
(***************************************************************************)
THEOREM DelegateFreed == Thread!Spec => []Thread!DelegateNotLeaked
<1>1. ThreadInv => Thread!DelegateNotLeaked
  BY DEF ThreadInv
<1> QED
  BY <1>1, ThreadAlone, PTL

(***************************************************************************)
(* stop() of a joinable thread goes on only when threadMain has returned.  *)
(***************************************************************************)
THEOREM StopJoins == Thread!Spec => []Thread!JoinedMeansFinished
<1>1. ThreadInv => Thread!JoinedMeansFinished
  BY DEF ThreadInv
<1> QED
  BY <1>1, ThreadAlone, PTL

-----------------------------------------------------------------------------
(***************************************************************************)
(* A step of a MsgTask is a step of its LocThread, leaves it alone, or is  *)
(* the "delete this" of a task that has no thread.                         *)
(***************************************************************************)
LEMMA StepOfThread == [Next]_vars => [Thread!Next]_(Thread!vars) \/ DeleteThis
<1> SUFFICES ASSUME [Next]_vars, ~DeleteThis PROVE [Thread!Next]_(Thread!vars)
  OBVIOUS
<1> USE DEF Thread!Next, Thread!Owner, Thread!threadMain, Thread!vars,
   Thread!client, Thread!shared
<1>1. CASE Construct
  BY <1>1 DEF Construct, Thread!ThreadCreated, Thread!ThreadNotCreated,
     Thread!CheckRunning
<1>2. CASE Abandon
  BY <1>2 DEF Abandon, Thread!OwnerDestroy, Thread!destroy, Thread!callDelete,
     Thread!Delete
<1>3. CASE Unblock \/ TestThread \/ TakeThread
  BY <1>3 DEF Unblock, TestThread, TakeThread, thread, shared
<1>4. CASE DeleteThread
  BY <1>4 DEF DeleteThread, Thread!bye, Thread!TestJoinable, Thread!Join,
     Thread!OwnerDestroy, Thread!destroy, Thread!callDelete, Thread!Delete
<1>5. CASE Wait \/ Receive
  BY <1>5 DEF Wait, Receive, thread, shared
<1>6. CASE Proc
  BY <1>6 DEF Proc, Thread!Run
<1>7. CASE ReceiveFails
  BY <1>7 DEF ReceiveFails, Thread!Run
<1>8. CASE ThreadStep
  BY <1>8 DEF ThreadStep, Thread!ReadRunnable, Thread!Prerun, Thread!LoopTest,
     Thread!Postrun, Thread!ClearRunnable, Thread!DeleteRunnable,
     Thread!WorkerDestroy, Thread!destroy, Thread!callDelete, Thread!Delete
<1>9. ASSUME NEW m \in Msgs, sendMsg(m) PROVE [Thread!Next]_(Thread!vars)
  BY <1>9 DEF sendMsg, thread, shared
<1>10. CASE UNCHANGED vars
  BY <1>10 DEF vars, thread, shared
<1> QED
  BY <1>1, <1>2, <1>3, <1>4, <1>5, <1>6, <1>7, <1>8, <1>9, <1>10
     DEF Next, destroy, threadMain

\* The invariant of LocThread is an invariant of the MsgTask.
LEMMA ThreadInvariant == Spec => []ThreadInv
<1>1. Init => ThreadInv
  BY InitThreadInv DEF Init, Thread!Init
<1>2. ThreadInv /\ [Next]_vars => ThreadInv'
  <2> SUFFICES ASSUME ThreadInv, [Next]_vars PROVE ThreadInv'
    OBVIOUS
  <2>1. CASE [Thread!Next]_(Thread!vars)
    BY <2>1, NextThreadInv
  <2>2. CASE DeleteThis
    <3>1. UNCHANGED <<opc, joinable, wpc, shared, started>> /\ runnable' = "deleted"
      BY <2>2 DEF DeleteThis
    <3>2. Thread!OwnerHolds' = Thread!OwnerHolds /\ Thread!WorkerHolds' = Thread!WorkerHolds
      BY <3>1 DEF shared, Thread!OwnerHolds, Thread!WorkerHolds, Thread!WorkerAt
    <3>3. Thread!TypeOK'
      BY <3>1, ZenonT(60) DEF shared, ThreadInv, Thread!TypeOK,
         Thread!OwnerAt, Thread!WorkerAt
    <3>4. Thread!RefCountIsHolders' /\ Thread!NoUseAfterFree'
      BY <3>1, <3>2 DEF shared, ThreadInv, Thread!RefCountIsHolders,
         Thread!NoUseAfterFree
    <3>5. Thread!DelegateNotLeaked' /\ Thread!JoinedMeansFinished'
      BY <3>1 DEF shared, ThreadInv, Thread!DelegateNotLeaked,
         Thread!JoinedMeansFinished
    <3>6. ThreadPositions'
      BY <3>1, <3>2 DEF shared, ThreadInv, ThreadPositions
    <3> QED
      BY <3>3, <3>4, <3>5, <3>6 DEF ThreadInv
  <2> QED
    BY <2>1, <2>2, StepOfThread
<1> QED
  BY <1>1, <1>2, PTL DEF Spec

(***************************************************************************)
(* The delegate that MsgTask::destroy and the spawned thread share is not  *)
(* used after "delete this" in LocThreadDelegate::destroy, it is deleted   *)
(* when both are through, and destroy() of a joinable task gives it up     *)
(* only when threadMain has returned.                                      *)
(***************************************************************************)
THEOREM TaskDelegateSafe == Spec => []DelegateIsSafe
<1>1. ThreadInv => Thread!NoUseAfterFree
  BY DEF ThreadInv, Thread!NoUseAfterFree, Thread!OwnerHolds,
     Thread!WorkerHolds, Thread!WorkerAt
<1>2. ThreadInv => Thread!DelegateNotLeaked
  BY DEF ThreadInv, Thread!DelegateNotLeaked
<1>3. ThreadInv => Thread!JoinedMeansFinished
  BY DEF ThreadInv, Thread!JoinedMeansFinished
<1>4. ThreadInv => DelegateIsSafe
  BY <1>1, <1>2, <1>3 DEF DelegateIsSafe
<1> QED
  BY <1>4, ThreadInvariant, PTL

-----------------------------------------------------------------------------
(***************************************************************************)
(* What ties the queue to the thread: a message is handled in run() only,  *)
(* the thread leaves its loop and the task is deleted only after destroy() *)
(* has unblocked the queue, and destroy() knows whether there is a thread. *)
(***************************************************************************)
TaskInv ==
  /\ msg # NoMsg => wpc = "run"
  /\ unblocked = (dpc # "using")
  /\ ~unblocked => /\ wpc \in {"none", "start", "prerun", "loop", "run"}
                   /\ wpc # "none" => mRunnable
                   /\ runnable = "live"
  /\ wpc \in {"start", "prerun", "loop", "run", "postrun", "clear", "delete"}
       => runnable = "live"
  /\ started = "false" => wpc = "none"
  /\ dpc \in {"take", "delete thread"} => started = "true"
  /\ opc \in {"releasing", "deleting", "done"} => started # "pending"
  /\ dpc = "delete this" => started # "true"
  /\ dpc # "using" => started = "true" \/ opc = "done"
  /\ dpc = "done" => opc = "done"
  /\ DeletedTaskHasNoMsgs

\* Every step of the task preserves it, given the invariant of the thread.
LEMMA NextTaskInv == ThreadInv /\ TaskInv /\ [Next]_vars => TaskInv'
<1> SUFFICES ASSUME ThreadInv, TaskInv, [Next]_vars PROVE TaskInv'
  OBVIOUS
<1>a. ThreadPositions /\ started \in {"pending", "true", "false"}
  BY DEF ThreadInv, Thread!TypeOK
<1> USE DEF TaskInv, DeletedTaskHasNoMsgs, ThreadPositions, Thread!client,
            Thread!shared, shared, thread, queue
<1>1. CASE Construct
  BY <1>a, <1>1 DEF Construct, Thread!ThreadCreated, Thread!ThreadNotCreated,
     Thread!CheckRunning
<1>2. CASE Abandon
  BY <1>a, <1>2 DEF Abandon, Thread!OwnerDestroy, Thread!destroy, Thread!callDelete,
     Thread!Delete
<1>3. CASE Unblock \/ TestThread \/ TakeThread
  BY <1>a, <1>3 DEF Unblock, TestThread, TakeThread, Outcomes
<1>4. CASE DeleteThread
  BY <1>a, <1>4 DEF DeleteThread, Thread!bye, Thread!TestJoinable, Thread!Join,
     Thread!OwnerDestroy, Thread!destroy, Thread!callDelete, Thread!Delete
<1>5. CASE DeleteThis
  BY <1>a, <1>5 DEF DeleteThis, TaskDeleted
<1>6. CASE Wait \/ Receive
  BY <1>a, <1>6 DEF Wait, Receive
<1>7. CASE Proc
  BY <1>a, <1>7 DEF Proc, msg_q_snd, Thread!Run
<1>8. CASE ReceiveFails
  BY <1>a, <1>8 DEF ReceiveFails, Thread!Run
<1>9. CASE ThreadStep
  BY <1>a, <1>9 DEF ThreadStep, TaskDeleted, Thread!ReadRunnable, Thread!Prerun,
     Thread!LoopTest, Thread!Postrun, Thread!ClearRunnable,
     Thread!DeleteRunnable, Thread!WorkerDestroy, Thread!destroy,
     Thread!callDelete, Thread!Delete
<1>10. ASSUME NEW m \in Msgs, sendMsg(m) PROVE TaskInv'
  BY <1>a, <1>10 DEF sendMsg, msg_q_snd
<1>11. CASE UNCHANGED vars
  BY <1>a, <1>11 DEF vars
<1> QED
  BY <1>1, <1>2, <1>3, <1>4, <1>5, <1>6, <1>7, <1>8, <1>9, <1>10, <1>11
     DEF Next, destroy, threadMain

\* The two invariants together.
LEMMA TaskInvariant == Spec => [](ThreadInv /\ TaskInv)
<1>1. Init => TaskInv
  BY DEF Init, Thread!Init, TaskInv, DeletedTaskHasNoMsgs
<1> QED
  BY <1>1, ThreadInvariant, NextTaskInv, PTL DEF Spec

(***************************************************************************)
(* When MsgTask::destroy of a joinable task has returned no handler runs.  *)
(***************************************************************************)
THEOREM DestroyQuiets == Spec => []QuietAfterDestroy
<1>1. ThreadInv /\ TaskInv => QuietAfterDestroy
  BY DEF ThreadInv, Thread!TypeOK, Thread!JoinedMeansFinished, TaskInv,
     QuietAfterDestroy
<1> QED
  BY <1>1, TaskInvariant, PTL

(***************************************************************************)
(* ~MsgTask leaves no LocMsg behind, and none is queued afterwards.        *)
(***************************************************************************)
THEOREM NothingLeftBehind == Spec => []DeletedTaskHasNoMsgs
<1>1. TaskInv => DeletedTaskHasNoMsgs
  BY DEF TaskInv
<1> QED
  BY <1>1, TaskInvariant, PTL

-----------------------------------------------------------------------------
\* The number of messages run() has received: those handled, h, and the current, m.
Received(h, m) == Len(h) + IF m = NoMsg THEN 0 ELSE 1

(***************************************************************************)
(* The accepted messages are, in order, those handled, the one in hand and *)
(* those queued, until ~MsgTask throws the last away.                      *)
(***************************************************************************)
OrderInv ==
  /\ mQ \in Seq(Msgs) /\ accepted \in Seq(Msgs) /\ handled \in Seq(Msgs)
  /\ msg \in Msgs \cup {NoMsg}
  /\ runnable \in {"live", "deleted"}
  /\ Received(handled, msg) <= Len(accepted)
  /\ \A i \in 1..Len(handled) : handled[i] = accepted[i]
  /\ msg # NoMsg => accepted[Received(handled, msg)] = msg
  /\ runnable = "live" =>
       /\ Len(accepted) = Received(handled, msg) + Len(mQ)
       /\ \A i \in 1..Len(mQ) : mQ[i] = accepted[Received(handled, msg) + i]

\* What appending does, for every index.
LEMMA AppendedSeq ==
  ASSUME NEW S, NEW s \in Seq(S), NEW x \in S
  PROVE  /\ Append(s, x) \in Seq(S)
         /\ Len(s) \in Nat /\ Len(Append(s, x)) = Len(s) + 1
         /\ \A i \in 1..Len(s) : Append(s, x)[i] = s[i]
         /\ Append(s, x)[Len(s) + 1] = x
OBVIOUS

\* A message that msg_q_snd takes or turns away leaves the order as it is.
LEMMA SndOrder ==
  ASSUME OrderInv, TaskInv, NEW m \in Msgs, msg_q_snd(m), UNCHANGED <<msg, handled, runnable>>
  PROVE  OrderInv'
<1>1. Received(handled', msg') = Received(handled, msg) /\ Received(handled, msg) \in Nat
  BY DEF OrderInv, Received
<1>2. CASE unblocked
  BY <1>1, <1>2 DEF OrderInv, msg_q_snd
<1>3. CASE ~unblocked
  <2>1. runnable = "live"
    BY <1>3 DEF TaskInv
  <2>2. /\ mQ' \in Seq(Msgs) /\ Len(mQ') = Len(mQ) + 1
        /\ accepted' \in Seq(Msgs) /\ Len(accepted') = Len(accepted) + 1
        /\ \A i \in 1..Len(mQ) : mQ'[i] = mQ[i]
        /\ \A i \in 1..Len(accepted) : accepted'[i] = accepted[i]
        /\ mQ'[Len(mQ) + 1] = m /\ accepted'[Len(accepted) + 1] = m
        /\ Len(mQ) \in Nat /\ Len(accepted) \in Nat
    BY <1>3, AppendedSeq DEF OrderInv, msg_q_snd
  <2>3. ASSUME NEW i \in 1..Len(mQ') PROVE mQ'[i] = accepted'[Received(handled', msg') + i]
    <3>1. CASE i = Len(mQ) + 1
      BY <1>1, <2>1, <2>2, <3>1 DEF OrderInv
    <3>2. CASE i \in 1..Len(mQ)
      BY <1>1, <2>1, <2>2, <3>2 DEF OrderInv
    <3> QED
      BY <2>2, <3>1, <3>2
  <2>4. \A i \in 1..Len(handled') : handled'[i] = accepted'[i]
    BY <1>1, <2>1, <2>2 DEF OrderInv, Received
  <2>5. msg' # NoMsg => accepted'[Received(handled', msg')] = msg'
    BY <1>1, <2>1, <2>2 DEF OrderInv, Received
  <2>6. /\ Received(handled', msg') <= Len(accepted')
        /\ Len(accepted') = Received(handled', msg') + Len(mQ')
    BY <1>1, <2>1, <2>2 DEF OrderInv
  <2>7. /\ mQ' \in Seq(Msgs) /\ accepted' \in Seq(Msgs) /\ handled' \in Seq(Msgs)
        /\ msg' \in Msgs \cup {NoMsg} /\ runnable' \in {"live", "deleted"}
    BY <2>2 DEF OrderInv
  <2> QED
    BY <1>1, <2>3, <2>4, <2>5, <2>6, <2>7, Zenon DEF OrderInv
<1> QED
  BY <1>2, <1>3

LEMMA NextOrderInv == ThreadInv /\ TaskInv /\ OrderInv /\ [Next]_vars => OrderInv'
<1> SUFFICES ASSUME ThreadInv, TaskInv, OrderInv, [Next]_vars PROVE OrderInv'
  OBVIOUS
<1> USE MsgTaskAssumption DEF queue
<1>q. ASSUME UNCHANGED <<mQ, msg, accepted, handled>>, runnable' \in {runnable, "deleted"} PROVE OrderInv'
  BY <1>q DEF OrderInv, Received
<1>1. CASE Construct
  BY <1>1, <1>q DEF Construct, Thread!ThreadCreated, Thread!ThreadNotCreated,
     Thread!CheckRunning, Thread!client
<1>2. CASE Abandon
  BY <1>2, <1>q DEF Abandon, Thread!OwnerDestroy, Thread!destroy, Thread!callDelete,
     Thread!Delete, Thread!client
<1>3. CASE Unblock \/ TestThread \/ TakeThread
  BY <1>3 DEF Unblock, TestThread, TakeThread, thread, queue, OrderInv, Received
<1>4. CASE DeleteThread
  BY <1>4, <1>q DEF DeleteThread, Thread!bye, Thread!TestJoinable,
     Thread!Join, Thread!OwnerDestroy, Thread!destroy, Thread!callDelete,
     Thread!Delete, Thread!client
<1>t. ASSUME TaskDeleted, runnable' = "deleted" PROVE OrderInv'
  BY <1>t DEF TaskDeleted, OrderInv, Received
<1>5. CASE DeleteThis
  BY <1>5, <1>t DEF DeleteThis
<1>w. CASE Wait
  BY <1>w DEF Wait, thread, OrderInv, Received
<1>6. CASE Receive
  <2> USE <1>6 DEF Receive
  <2>1. runnable = "live"
    BY DEF TaskInv, OrderInv
  <2>2. runnable' = runnable
    BY DEF thread
  <2>3. /\ msg' \in Msgs /\ msg' # NoMsg /\ mQ' \in Seq(Msgs)
        /\ Received(handled', msg') = Received(handled, msg) + 1
        /\ Len(mQ') = Len(mQ) - 1
        /\ \A i \in 1..Len(mQ') : mQ'[i] = mQ[i + 1]
        /\ msg' = mQ[1]
    BY DEF OrderInv, Received
  <2>4. Received(handled, msg) \in Nat
    BY DEF OrderInv, Received
  <2>5. ASSUME NEW i \in 1..Len(mQ') PROVE mQ'[i] = accepted'[Received(handled', msg') + i]
    BY <2>1, <2>3, <2>4 DEF OrderInv
  <2>6. msg' = accepted'[Received(handled', msg')]
    BY <2>1, <2>3, <2>4 DEF OrderInv
  <2>7. /\ Len(accepted') = Received(handled', msg') + Len(mQ')
        /\ Received(handled', msg') <= Len(accepted')
    BY <2>1, <2>3, <2>4 DEF OrderInv
  <2> QED
    BY <2>2, <2>3, <2>5, <2>6, <2>7 DEF OrderInv
<1>7. CASE Proc
  <2> USE <1>7 DEF Proc
  <2>1. runnable' = runnable
    BY DEF Thread!Run, Thread!client
  <2>2. /\ Received(handled', msg') = Received(handled, msg)
        /\ handled' \in Seq(Msgs) /\ Len(handled') = Len(handled) + 1
        /\ \A i \in 1..Len(handled) : handled'[i] = handled[i]
        /\ handled'[Received(handled, msg)] = accepted[Received(handled, msg)]
        /\ Received(handled, msg) = Len(handled')
    BY DEF OrderInv, Received
  <2>3. Received(handled, msg) \in Nat
    BY DEF OrderInv, Received
  <2>4. CASE UNCHANGED <<mQ, accepted>>
    BY <2>1, <2>2, <2>3, <2>4 DEF OrderInv
  <2>5. ASSUME NEW m \in Unsent, msg_q_snd(m) PROVE OrderInv'
    <3>1. CASE unblocked
      BY <2>4, <2>5, <3>1 DEF msg_q_snd
    <3>2. CASE ~unblocked
      <4>1. runnable = "live" /\ m \in Msgs
        BY <3>2 DEF TaskInv, Unsent
      <4>2. /\ mQ' \in Seq(Msgs) /\ Len(mQ') = Len(mQ) + 1
            /\ accepted' \in Seq(Msgs) /\ Len(accepted') = Len(accepted) + 1
            /\ \A i \in 1..Len(mQ) : mQ'[i] = mQ[i]
            /\ \A i \in 1..Len(accepted) : accepted'[i] = accepted[i]
            /\ mQ'[Len(mQ) + 1] = m /\ accepted'[Len(accepted) + 1] = m
            /\ Len(mQ) \in Nat /\ Len(accepted) \in Nat
        BY <2>5, <3>2, <4>1, AppendedSeq DEF OrderInv, msg_q_snd
      <4>3. ASSUME NEW i \in 1..Len(mQ') PROVE mQ'[i] = accepted'[Received(handled', msg') + i]
        <5>1. CASE i = Len(mQ) + 1
          BY <2>2, <2>3, <4>1, <4>2, <5>1 DEF OrderInv
        <5>2. CASE i \in 1..Len(mQ)
          <6>1. mQ'[i] = accepted[Received(handled, msg) + i]
            BY <4>1, <4>2, <5>2 DEF OrderInv
          <6>2. Received(handled, msg) + i \in 1..Len(accepted)
            BY <2>3, <4>1, <4>2, <5>2 DEF OrderInv
          <6> QED
            BY <2>2, <4>2, <6>1, <6>2
        <5>3. i \in 1..(Len(mQ) + 1)
          BY <4>2
        <5> QED
          BY <4>2, <5>1, <5>2, <5>3
      <4>4. \A i \in 1..Len(handled') : handled'[i] = accepted'[i]
        BY <2>2, <2>3, <4>1, <4>2 DEF OrderInv
      <4>5. /\ Received(handled', msg') <= Len(accepted')
            /\ Len(accepted') = Received(handled', msg') + Len(mQ')
        <5>1. /\ Len(accepted) = Received(handled, msg) + Len(mQ)
              /\ Received(handled', msg') = Received(handled, msg)
          BY <2>2, <4>1 DEF OrderInv
        <5> QED
          BY ONLY <2>3, <4>2, <5>1
      <4>6. /\ mQ' \in Seq(Msgs) /\ accepted' \in Seq(Msgs) /\ handled' \in Seq(Msgs)
            /\ msg' \in Msgs \cup {NoMsg} /\ runnable' \in {"live", "deleted"}
        BY <2>1, <2>2, <4>2 DEF OrderInv
      <4> QED
        BY <2>2, <4>3, <4>4, <4>5, <4>6, Zenon DEF OrderInv
    <3> QED
      BY <3>1, <3>2
  <2> QED
    BY <2>4, <2>5
<1>8. CASE ReceiveFails
  BY <1>8, <1>q DEF ReceiveFails, Thread!Run, Thread!client
<1>9. CASE ThreadStep
  <2>1. CASE Thread!DeleteRunnable /\ TaskDeleted
    BY <2>1, <1>t DEF Thread!DeleteRunnable
  <2>2. CASE UNCHANGED queue
    BY <1>9, <2>2, <1>q DEF ThreadStep, Thread!ReadRunnable, Thread!Prerun,
       Thread!LoopTest, Thread!Postrun, Thread!ClearRunnable,
       Thread!DeleteRunnable, Thread!WorkerDestroy, Thread!destroy,
       Thread!callDelete, Thread!Delete, Thread!client
  <2> QED
    BY <1>9, <2>1, <2>2 DEF ThreadStep
<1>10. ASSUME NEW m \in Msgs, sendMsg(m) PROVE OrderInv'
  BY <1>10, SndOrder DEF sendMsg, thread
<1>11. CASE UNCHANGED vars
  BY <1>11, <1>q DEF vars, thread
<1> QED
  BY <1>1, <1>2, <1>3, <1>4, <1>5, <1>w, <1>6, <1>7, <1>8, <1>9, <1>10, <1>11
     DEF Next, destroy, threadMain

(***************************************************************************)
(* MsgTask::run handles the messages that sendMsg put into the queue in    *)
(* their order, none twice and none skipped, whatever handlers send, and   *)
(* across destroy() and the deletion of the task.                          *)
(***************************************************************************)
THEOREM OrderKept == Spec => []HandledInOrder
<1>1. Init => OrderInv
  BY DEF Init, Thread!Init, OrderInv, Received
<1>2. OrderInv => HandledInOrder
  BY DEF OrderInv, Received, HandledInOrder, IsPrefix
<1> QED
  BY <1>1, <1>2, TaskInvariant, NextOrderInv, PTL DEF Spec
=============================================================================
