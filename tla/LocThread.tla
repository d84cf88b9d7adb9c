------------------------------ MODULE LocThread ------------------------------
(***************************************************************************)
(* gps/utils/LocThread.cpp: a LocThread, the LocThreadDelegate it shares   *)
(* with the thread it spawned, and the LocRunnable that thread runs.       *)
(*                                                                         *)
(* Two threads, the owner of the LocThread and the spawned one, run over   *)
(* the fields of one delegate.  Only mRefCount is guarded by mMutex; every *)
(* other access to a field is a step of its own.  The delegate is deleted  *)
(* by whoever releases it last.                                            *)
(*                                                                         *)
(* The owner is "idle" before start(), in "check" when the constructor has *)
(* returned and create() looks at isRunning(), "owning" when start() has   *)
(* returned true, "stopping" and "joining" inside stop(), "releasing" and  *)
(* "deleting" inside destroy(), and "done" when it has no delegate.        *)
(***************************************************************************)
EXTENDS Naturals, FiniteSets

VARIABLES opc,         \* where the owner is
          joinable,    \* the argument of start()
          wpc,         \* where the spawned thread is in threadMain
          delegate,    \* the delegate: "none", "live" or "deleted"
          mRunnable,   \* mRunnable is not NULL
          mJoinable,
          mRefCount,
          runnable,    \* the client's LocRunnable: "live" or "deleted"
          started      \* what start() returned: "pending", "true" or "false"

shared == <<delegate, mRunnable, mJoinable, mRefCount>>
client == <<joinable, runnable, started>>
vars == <<opc, wpc, shared, client>>

OwnerAt == {"idle", "check", "owning", "stopping", "joining", "releasing",
            "deleting", "done"}
WorkerAt == {"none", "start", "prerun", "loop", "run", "postrun", "clear",
             "delete", "releasing", "deleting", "done"}

TypeOK == /\ opc \in OwnerAt
          /\ joinable \in BOOLEAN
          /\ wpc \in WorkerAt
          /\ delegate \in {"none", "live", "deleted"}
          /\ mRunnable \in BOOLEAN
          /\ mJoinable \in BOOLEAN
          /\ mRefCount \in 0..2
          /\ runnable \in {"live", "deleted"}
          /\ started \in {"pending", "true", "false"}

Init == /\ opc = "idle"
        /\ joinable \in BOOLEAN
        /\ wpc = "none"
        /\ delegate = "none"
        /\ mRunnable = FALSE
        /\ mJoinable = FALSE
        /\ mRefCount = 0
        /\ runnable = "live"
        /\ started = "pending"

-----------------------------------------------------------------------------
(* The owner.                                                              *)

(***************************************************************************)
(* The constructor when pthread_create succeeds.  The fields are set       *)
(* before the thread exists, which may run before the constructor returns. *)
(***************************************************************************)
ThreadCreated ==
  /\ opc = "idle"
  /\ opc' = "check"
  /\ wpc' = "start"
  /\ delegate' = "live"
  /\ mRunnable' = TRUE /\ mJoinable' = joinable /\ mRefCount' = 2
  /\ UNCHANGED client

\* The constructor when pthread_create fails.
ThreadNotCreated ==
  /\ opc = "idle"
  /\ opc' = "check"
  /\ delegate' = "live"
  /\ mRunnable' = FALSE /\ mJoinable' = FALSE /\ mRefCount' = 1
  /\ UNCHANGED <<wpc, client>>

\* create() after the constructor, and start() behind it.
CheckRunning ==
  /\ opc = "check"
  /\ opc' = IF mRunnable THEN "owning" ELSE "releasing"
  /\ started' = IF mRunnable THEN "true" ELSE "false"
  /\ UNCHANGED <<wpc, shared, joinable, runnable>>

\* stop(), up to the test of mJoinable.
stop ==
  /\ opc = "owning"
  /\ opc' = "stopping"
  /\ mRunnable' = FALSE
  /\ UNCHANGED <<wpc, delegate, mJoinable, mRefCount, client>>

\* bye(), from ~LocThread: stop() if joinable, else destroy().
bye ==
  /\ opc = "owning"
  /\ IF mJoinable THEN opc' = "stopping" /\ mRunnable' = FALSE
                  ELSE opc' = "releasing" /\ UNCHANGED mRunnable
  /\ UNCHANGED <<wpc, delegate, mJoinable, mRefCount, client>>

\* stop() for a joinable thread, without pthread_join.
TestJoinableNoJoin ==
  /\ opc = "stopping"
  /\ opc' = "releasing"
  /\ mJoinable' = FALSE
  /\ UNCHANGED <<wpc, delegate, mRunnable, mRefCount, client>>

\* The second half of stop().
TestJoinable ==
  /\ opc = "stopping"
  /\ opc' = IF mJoinable THEN "joining" ELSE "releasing"
  /\ mJoinable' = FALSE
  /\ UNCHANGED <<wpc, delegate, mRunnable, mRefCount, client>>

\* pthread_join returns when threadMain has.
Join ==
  /\ opc = "joining"
  /\ wpc = "done"
  /\ opc' = "releasing"
  /\ UNCHANGED <<wpc, shared, client>>

-----------------------------------------------------------------------------
\* --mRefCount in place of mRefCount--.
callDeletePreDecrement == mRefCount = 2

\* 0 == mRefCount-- as the test.
callDeleteOffByOne == mRefCount = 0

(***************************************************************************)
(* destroy(): the count goes down under mMutex, and whoever found it at 1  *)
(* deletes the delegate afterwards.                                        *)
(***************************************************************************)
callDelete == mRefCount = 1

destroy == mRefCount' = IF mRefCount > 0 THEN mRefCount - 1 ELSE 0

OwnerDestroy ==
  /\ opc = "releasing"
  /\ destroy
  /\ opc' = IF callDelete THEN "deleting" ELSE "done"
  /\ UNCHANGED <<wpc, delegate, mRunnable, mJoinable, client>>

WorkerDestroy ==
  /\ wpc = "releasing"
  /\ destroy
  /\ wpc' = IF callDelete THEN "deleting" ELSE "done"
  /\ UNCHANGED <<opc, delegate, mRunnable, mJoinable, client>>

\* delete this
Delete ==
  /\ \/ opc = "deleting" /\ opc' = "done" /\ UNCHANGED wpc
     \/ wpc = "deleting" /\ wpc' = "done" /\ UNCHANGED opc
  /\ delegate' = "deleted"
  /\ UNCHANGED <<mRunnable, mJoinable, mRefCount, client>>

-----------------------------------------------------------------------------
(* threadMain, in the spawned thread.                                      *)

\* The local copy of mRunnable: NULL skips everything but destroy().
ReadRunnable ==
  /\ wpc = "start"
  /\ wpc' = IF mRunnable THEN "prerun" ELSE "releasing"
  /\ UNCHANGED <<opc, shared, client>>

\* if (isRunning()) prerun()
Prerun ==
  /\ wpc = "prerun"
  /\ wpc' = "loop"
  /\ UNCHANGED <<opc, shared, client>>

\* while (isRunning() && ...
LoopTest ==
  /\ wpc = "loop"
  /\ wpc' = IF mRunnable THEN "run" ELSE "postrun"
  /\ UNCHANGED <<opc, shared, client>>

\* ... run()), the client's code, which may return either way.
Run ==
  /\ wpc = "run"
  /\ wpc' \in {"loop", "postrun"}
  /\ UNCHANGED <<opc, shared, client>>

\* if (isRunning()) postrun()
Postrun ==
  /\ wpc = "postrun"
  /\ wpc' = "clear"
  /\ UNCHANGED <<opc, shared, client>>

\* locThread->mRunnable = NULL
ClearRunnable ==
  /\ wpc = "clear"
  /\ wpc' = "delete"
  /\ mRunnable' = FALSE
  /\ UNCHANGED <<opc, delegate, mJoinable, mRefCount, client>>

\* delete runnable
DeleteRunnable ==
  /\ wpc = "delete"
  /\ wpc' = "releasing"
  /\ runnable' = "deleted"
  /\ UNCHANGED <<opc, shared, joinable, started>>

Owner == \/ ThreadCreated \/ ThreadNotCreated \/ CheckRunning
         \/ stop \/ bye \/ TestJoinable \/ Join \/ OwnerDestroy

threadMain == \/ ReadRunnable \/ Prerun \/ LoopTest \/ Run \/ Postrun
              \/ ClearRunnable \/ DeleteRunnable \/ WorkerDestroy

Next == Owner \/ threadMain \/ Delete

Spec == Init /\ [][Next]_vars

-----------------------------------------------------------------------------
\* Those that still have to call destroy(), or are about to delete.
OwnerHolds == opc \in {"check", "owning", "stopping", "joining", "releasing"}
WorkerHolds == wpc \in WorkerAt \ {"none", "deleting", "done"}

(***************************************************************************)
(* mRefCount is the number of threads that have not released the delegate, *)
(* whatever the outcome of pthread_create and however early the spawned    *)
(* thread is through.                                                      *)
(***************************************************************************)
RefCountIsHolders ==
  mRefCount = (IF OwnerHolds THEN 1 ELSE 0) + (IF WorkerHolds THEN 1 ELSE 0)

(***************************************************************************)
(* No thread touches a deleted delegate, and only one ever deletes it:     *)
(* destroy() of the other has returned when one of them is at "delete      *)
(* this".                                                                  *)
(***************************************************************************)
NoUseAfterFree ==
  /\ OwnerHolds \/ WorkerHolds => delegate = "live"
  /\ "deleting" \in {opc, wpc} =>
       delegate = "live" /\ ~OwnerHolds /\ ~WorkerHolds
  /\ ~(opc = "deleting" /\ wpc = "deleting")

(***************************************************************************)
(* When both threads are through with it the delegate has been deleted.    *)
(***************************************************************************)
DelegateNotLeaked ==
  opc = "done" /\ wpc \in {"none", "done"} => delegate = "deleted"

(***************************************************************************)
(* After stop() or the destructor of a joinable LocThread whose start()    *)
(* returned true the spawned thread has left threadMain: run() is not      *)
(* executing and will not be called again.                                 *)
(***************************************************************************)
JoinedMeansFinished ==
  joinable /\ started = "true" /\ opc \in {"releasing", "deleting", "done"}
    => wpc = "done"

=============================================================================
