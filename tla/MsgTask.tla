------------------------------- MODULE MsgTask -------------------------------
(***************************************************************************)
(* gps/utils/MsgTask.cpp: a LocRunnable that takes LocMsg objects from its *)
(* message queue and runs their proc() in the thread of a LocThread, from  *)
(* the constructor to destroy().                                           *)
(*                                                                         *)
(* The thread is module LocThread, with Run replaced by MsgTask::run.  The *)
(* queue is the closable FIFO that module MsgQ is shown to implement.  The *)
(* runnable that threadMain deletes is the MsgTask itself, so every access *)
(* of destroy() to a member is a step of its own.                          *)
(***************************************************************************)
EXTENDS Naturals, Sequences, SequencesExt

CONSTANTS Msgs,    \* LocMsg objects
          NoMsg

ASSUME MsgTaskAssumption == NoMsg \notin Msgs

VARIABLES opc, joinable, wpc, delegate, mRunnable, mJoinable, mRefCount,
          runnable, started,
          mQ,         \* queued messages, oldest first
          unblocked,  \* the queue is unblocked
          waiting,    \* run() waits in msg_q_rcv, having found the queue empty
          msg,        \* the message run() is handling
          accepted,   \* messages msg_q_snd took, in order
          handled,    \* messages whose proc() was run, in order
          dpc         \* where the client is: "using" the task, in destroy(), or
                      \* "undefined", misled by the memory of a deleted task

Thread == INSTANCE LocThread

shared == <<delegate, mRunnable, mJoinable, mRefCount>>
thread == <<opc, joinable, wpc, shared, runnable, started>>
queue == <<mQ, unblocked, waiting, msg, accepted, handled>>
vars == <<thread, queue, dpc>>

TypeOK == /\ Thread!TypeOK
          /\ mQ \in Seq(Msgs) /\ accepted \in Seq(Msgs) /\ handled \in Seq(Msgs)
          /\ unblocked \in BOOLEAN /\ waiting \in BOOLEAN
          /\ msg \in Msgs \cup {NoMsg}
          /\ dpc \in {"using", "test", "take", "delete thread", "delete this",
                      "done", "undefined"}

Init == /\ Thread!Init
        /\ mQ = <<>> /\ unblocked = FALSE /\ waiting = FALSE
        /\ msg = NoMsg
        /\ accepted = <<>> /\ handled = <<>>
        /\ dpc = "using"

-----------------------------------------------------------------------------
\* msg_q_snd on behalf of sendMsg, which ignores what it returns: from an
\* unblocked queue the message comes back, and nobody deletes it.
msg_q_snd(m) ==
  /\ mQ' = IF unblocked THEN mQ ELSE Append(mQ, m)
  /\ accepted' = IF unblocked THEN accepted ELSE Append(accepted, m)

Unsent == Msgs \ (ToSet(accepted) \cup {msg})

\* The constructor: LocThread::start, to the end.
Construct ==
  /\ dpc = "using"
  /\ Thread!ThreadCreated \/ Thread!ThreadNotCreated \/ Thread!CheckRunning
  /\ UNCHANGED <<queue, dpc>>

\* The constructor when create() gives the delegate back: mThread = NULL.
Abandon ==
  /\ started = "false"
  /\ Thread!OwnerDestroy \/ (opc = "deleting" /\ Thread!Delete)
  /\ UNCHANGED <<queue, dpc>>

sendMsg(m) ==
  /\ dpc = "using" /\ started # "pending"
  /\ m \in Unsent
  /\ msg_q_snd(m)
  /\ UNCHANGED <<thread, unblocked, waiting, msg, handled, dpc>>

-----------------------------------------------------------------------------
(* run(), in the spawned thread.                                           *)

\* msg_q_rcv finds an open queue empty.
Wait ==
  /\ wpc = "run" /\ msg = NoMsg /\ ~waiting
  /\ ~unblocked /\ mQ = <<>>
  /\ waiting' = TRUE
  /\ UNCHANGED <<thread, mQ, unblocked, msg, accepted, handled, dpc>>

\* run() that takes the newest message.
ReceiveNewest ==
  /\ wpc = "run" /\ msg = NoMsg
  /\ mQ # <<>> /\ (unblocked => waiting)
  /\ msg' = Last(mQ) /\ mQ' = Front(mQ)
  /\ waiting' = FALSE
  /\ UNCHANGED <<thread, unblocked, accepted, handled, dpc>>

\* msg_q_rcv gives the oldest message: also from an unblocked queue to a thread
\* that waits, for only the entry to msg_q_rcv looks at that alone.
Receive ==
  /\ wpc = "run" /\ msg = NoMsg
  /\ mQ # <<>> /\ (unblocked => waiting)
  /\ msg' = Head(mQ) /\ mQ' = Tail(mQ)
  /\ waiting' = FALSE
  /\ UNCHANGED <<thread, unblocked, accepted, handled, dpc>>

\* msg->proc(), which may itself send a message, delete msg, return true.
Proc ==
  /\ wpc = "run" /\ msg # NoMsg
  /\ handled' = Append(handled, msg)
  /\ msg' = NoMsg
  /\ \/ \E m \in Unsent : msg_q_snd(m)
     \/ UNCHANGED <<mQ, accepted>>
  /\ Thread!Run /\ wpc' = "loop"
  /\ UNCHANGED <<unblocked, waiting, dpc>>

\* msg_q_rcv fails, for the queue is unblocked, and empty if the thread waited
\* in it: return false.
ReceiveFails ==
  /\ wpc = "run" /\ msg = NoMsg
  /\ unblocked /\ (waiting => mQ = <<>>)
  /\ waiting' = FALSE
  /\ Thread!Run /\ wpc' = "postrun"
  /\ UNCHANGED <<mQ, unblocked, msg, accepted, handled, dpc>>

\* ~MsgTask without msg_q_flush.
TaskDeletedUnflushed == UNCHANGED queue

\* ~MsgTask: msg_q_flush and msg_q_destroy.
TaskDeleted == mQ' = <<>> /\ UNCHANGED <<unblocked, waiting, msg, accepted, handled>>

\* Everything else in threadMain.
ThreadStep ==
  /\ \/ /\ \/ Thread!ReadRunnable \/ Thread!Prerun \/ Thread!LoopTest
           \/ Thread!Postrun \/ Thread!ClearRunnable \/ Thread!WorkerDestroy
           \/ wpc = "deleting" /\ Thread!Delete
        /\ UNCHANGED queue
     \/ Thread!DeleteRunnable /\ TaskDeleted
  /\ UNCHANGED dpc

-----------------------------------------------------------------------------
(* destroy(), in the client.                                               *)

\* destroy() without msg_q_unblock.
UnblockForgotten ==
  /\ dpc = "using"
  /\ started = "true" \/ opc = "done"
  /\ dpc' = "test"
  /\ UNCHANGED <<thread, queue>>

\* msg_q_unblock(mQ)
Unblock ==
  /\ dpc = "using"
  /\ started = "true" \/ opc = "done"
  /\ unblocked' = TRUE
  /\ dpc' = "test"
  /\ UNCHANGED <<thread, mQ, waiting, msg, accepted, handled>>

\* What may become of destroy() at a member: of a task that the thread has
\* deleted it reads anything, what was there before among it.
Outcomes(next) == IF runnable = "deleted" THEN {next, "undefined"} ELSE {next}

\* if (mThread)
TestThread ==
  /\ dpc = "test"
  /\ dpc' \in Outcomes(IF started = "true" THEN "take" ELSE "delete this")
  /\ UNCHANGED <<thread, queue>>

\* thread = mThread; mThread = NULL
TakeThread ==
  /\ dpc = "take"
  /\ dpc' \in Outcomes("delete thread")
  /\ UNCHANGED <<thread, queue>>

\* delete thread: ~LocThread, which touches the MsgTask no more.
DeleteThread ==
  /\ dpc = "delete thread"
  /\ \/ Thread!bye \/ Thread!TestJoinable \/ Thread!Join \/ Thread!OwnerDestroy
     \/ opc = "deleting" /\ Thread!Delete
  /\ dpc' = IF opc' = "done" THEN "done" ELSE dpc
  /\ UNCHANGED queue

\* delete this, for a task that never had a thread.
DeleteThis ==
  /\ dpc = "delete this"
  /\ runnable' = "deleted"
  /\ TaskDeleted
  /\ dpc' = "done"
  /\ UNCHANGED <<opc, joinable, wpc, shared, started>>

destroy == Unblock \/ TestThread \/ TakeThread \/ DeleteThread \/ DeleteThis

threadMain == Wait \/ Receive \/ Proc \/ ReceiveFails \/ ThreadStep

Next == \/ Construct \/ Abandon \/ destroy \/ threadMain
        \/ \E m \in Msgs : sendMsg(m)

Spec == Init /\ [][Next]_vars

(***************************************************************************)
(* The spawned thread is scheduled and a client that is in destroy() goes  *)
(* on.  A message's proc() returns.                                        *)
(***************************************************************************)
FairSpec == /\ Spec
            /\ WF_vars(threadMain)
            /\ WF_vars(TestThread) /\ WF_vars(TakeThread)
            /\ WF_vars(DeleteThread) /\ WF_vars(DeleteThis)

-----------------------------------------------------------------------------
(***************************************************************************)
(* Messages are handled in the order in which they were accepted, none     *)
(* twice and none left out in between, also those a handler sends.         *)
(***************************************************************************)
HandledInOrder == IsPrefix(handled, accepted)

(***************************************************************************)
(* When destroy() of a joinable task has returned no handler is running    *)
(* and none will: what the handlers use may be taken down.                 *)
(***************************************************************************)
QuietAfterDestroy ==
  dpc = "done" /\ joinable => wpc \in {"none", "done"} /\ msg = NoMsg

(***************************************************************************)
(* No LocMsg waits in the queue of a deleted task: ~MsgTask flushes it,    *)
(* and nothing is put into it afterwards.                                  *)
(***************************************************************************)
DeletedTaskHasNoMsgs == runnable = "deleted" => mQ = <<>> /\ msg = NoMsg

(***************************************************************************)
(* destroy() returns, unless the thread deletes the task before destroy()  *)
(* has read mThread, and what it then reads misleads it.                   *)
(***************************************************************************)
DestroyReturns == dpc # "using" ~> dpc \in {"done", "undefined"}

(***************************************************************************)
(* In the composition as in LocThread alone: neither destroy() nor the     *)
(* spawned thread touches a deleted LocThreadDelegate, the delegate is     *)
(* deleted when both are through, and past the join of a joinable thread   *)
(* its threadMain has ended.                                               *)
(***************************************************************************)
DelegateIsSafe == /\ Thread!NoUseAfterFree
                  /\ Thread!DelegateNotLeaked
                  /\ Thread!JoinedMeansFinished
=============================================================================
