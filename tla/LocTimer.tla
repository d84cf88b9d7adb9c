------------------------------ MODULE LocTimer ------------------------------
(***************************************************************************)
(* The timer service, gps/utils/LocTimer.cpp: LocTimer objects of client   *)
(* threads, their LocTimerDelegate, one LocTimerContainer with its heap    *)
(* and its timerfd, the MsgTask thread that owns the heap and the polling  *)
(* thread that waits for the timerfd.                                      *)
(*                                                                         *)
(* LocTimer::start and stop are one step each (LocSharedLock).  On the     *)
(* MsgTask thread every system call and every unlocked access to a         *)
(* client's object is a step; so is every system call of the polling       *)
(* thread.  The heap is what module LocHeap provides: a set with a top     *)
(* that nothing in it outranks.                                            *)
(*                                                                         *)
(* Time is counted in ticks, TicksPerSec of them to the second: the kernel *)
(* compares ticks, ranks() compares seconds.                               *)
(***************************************************************************)
EXTENDS Naturals, Sequences

CONSTANTS Clients,      \* LocTimer objects
          MaxStarts,    \* bound: delegates created, over all clients
          MaxTime,      \* bound: the last tick
          TicksPerSec,
          None          \* NULL

Delegates == 1..MaxStarts

ASSUME LocTimerAssumption ==
  /\ MaxStarts \in Nat /\ MaxTime \in Nat \ {0} /\ TicksPerSec \in Nat \ {0}
  /\ None \notin Clients /\ None \notin Delegates

VARIABLES now,       \* CLOCK_BOOTTIME
          alive,     \* clients that have not been deleted
          mTimer,    \* each client's running delegate
          mClient,   \* each delegate's client, None once it is stopped
          mFutureTime,
          life,      \* of each delegate: "unborn", "live" or "deleted"
          msgs,      \* the queue of mMsgTask
          heap,      \* the delegates in the container
          top,       \* its peek()
          mDevFd,    \* the time the timerfd is armed for, 0 if disarmed
          polled,    \* the timerfd is in the epoll set
          mpc,       \* where the MsgTask thread is
          timer,     \* the delegate it has popped
          client,    \* the client pointer that expire() keeps on its stack
          timerOfNow,
          ppc        \* where the polling thread is

clientVars == <<alive, mTimer, mClient, mFutureTime, life>>
taskVars == <<heap, top, timer, client, timerOfNow>>
vars == <<now, clientVars, msgs, taskVars, mDevFd, polled, mpc, ppc>>

Push(d) == [op |-> "push", d |-> d]
Remove(d) == [op |-> "remove", d |-> d]
Expire == [op |-> "expire"]

TypeOK ==
  /\ now \in 1..MaxTime
  /\ alive \subseteq Clients
  /\ mTimer \in [Clients -> Delegates \cup {None}]
  /\ mClient \in [Delegates -> Clients \cup {None}]
  /\ mFutureTime \in [Delegates -> 0..MaxTime]
  /\ life \in [Delegates -> {"unborn", "live", "deleted"}]
  /\ msgs \in Seq([op : {"push", "remove"}, d : Delegates] \cup {Expire})
  /\ heap \subseteq Delegates
  /\ top \in Delegates \cup {None}
  /\ mDevFd \in 0..MaxTime
  /\ polled \in BOOLEAN
  /\ mpc \in {"idle", "settime", "expire", "stop", "pop", "crashed"}
  /\ timer \in Delegates \cup {None}
  /\ timer # None <=> mpc \in {"expire", "stop"}
  /\ client \in Clients \cup {None}
  /\ timerOfNow \in 0..MaxTime
  /\ ppc \in {"wait", "settime", "removePoll", "send"}

Init ==
  /\ now = 1
  /\ alive = Clients
  /\ mTimer = [c \in Clients |-> None]
  /\ mClient = [d \in Delegates |-> None]
  /\ mFutureTime = [d \in Delegates |-> 0]
  /\ life = [d \in Delegates |-> "unborn"]
  /\ msgs = <<>>
  /\ heap = {} /\ top = None
  /\ mDevFd = 0 /\ polled = FALSE
  /\ mpc = "idle" /\ timer = None /\ client = None /\ timerOfNow = 0
  /\ ppc = "wait"

-----------------------------------------------------------------------------
(* LocTimerDelegate::ranks and the heap.                                   *)

sec(t) == t \div TicksPerSec

outRanks(d, e) == sec(mFutureTime[d]) < sec(mFutureTime[e])

\* t may be on top of the heap h.
IsTop(t, h) == IF h = {} THEN t = None
               ELSE t \in h /\ \A e \in h : ~outRanks(e, t)

\* pop() of a heap that is not empty.
pop ==
  /\ timer' = top
  /\ heap' = heap \ {top}
  /\ \E t \in Delegates \cup {None} : IsTop(t, heap') /\ top' = t

(***************************************************************************)
(* updateSoonestTime, to the system call that changes the epoll set;       *)
(* timerfd_settime follows in SetTime.                                     *)
(***************************************************************************)
\* updateSoonestTime comparing the wrong way round.
updateSoonestTimeInverted(priorTop, curTop) ==
  IF /\ curTop # priorTop
     /\ curTop = None \/ priorTop = None \/ outRanks(priorTop, curTop)
  THEN polled' = (curTop # None) /\ mpc' = "settime"
  ELSE UNCHANGED polled /\ mpc' = "idle"

updateSoonestTime(priorTop, curTop) ==
  IF /\ curTop # priorTop
     /\ curTop = None \/ priorTop = None \/ outRanks(curTop, priorTop)
  THEN polled' = (curTop # None) /\ mpc' = "settime"
  ELSE UNCHANGED polled /\ mpc' = "idle"

-----------------------------------------------------------------------------
(* LocTimer, in client threads.                                            *)

\* The constructor of d, of client c for time t, which add()s itself.
LocTimerDelegate(d, c, t) ==
  /\ life[d] = "unborn"
  /\ life' = [life EXCEPT ![d] = "live"]
  /\ mClient' = [mClient EXCEPT ![d] = c]
  /\ mFutureTime' = [mFutureTime EXCEPT ![d] = t]
  /\ msgs' = Append(msgs, Push(d))

start(c) ==
  /\ c \in alive
  /\ mTimer[c] = None
  /\ \E d \in Delegates, t \in now..MaxTime :
       /\ \A e \in Delegates : e < d => life[e] # "unborn"
       /\ LocTimerDelegate(d, c, t)
       /\ mTimer' = [mTimer EXCEPT ![c] = d]
  /\ UNCHANGED <<now, alive, taskVars, mDevFd, polled, mpc, ppc>>

\* A running delegate has a container, so it is removed from there.
destroyLocked(d) ==
  /\ mClient' = [mClient EXCEPT ![d] = None]
  /\ msgs' = Append(msgs, Remove(d))

\* stop() that leaves mTimer set, so that it is stopped again.
stopKeepingTimer(c) ==
  /\ destroyLocked(mTimer[c])
  /\ UNCHANGED mTimer

\* LocTimer::stop with a running delegate.
stop(c) ==
  /\ destroyLocked(mTimer[c])
  /\ mTimer' = [mTimer EXCEPT ![c] = None]

ClientStops(c) ==
  /\ c \in alive
  /\ mTimer[c] # None
  /\ stop(c)
  /\ UNCHANGED <<now, alive, mFutureTime, life, taskVars, mDevFd, polled, mpc, ppc>>

\* LocTimer::~LocTimer, and the memory is gone.
ClientDeleted(c) ==
  /\ c \in alive
  /\ alive' = alive \ {c}
  /\ IF mTimer[c] # None THEN stop(c) ELSE UNCHANGED <<mClient, mTimer, msgs>>
  /\ UNCHANGED <<now, mFutureTime, life, taskVars, mDevFd, polled, mpc, ppc>>

-----------------------------------------------------------------------------
(* The MsgTask thread: one message after the other.                        *)

Takes(m) == mpc = "idle" /\ msgs # <<>> /\ Head(msgs) = m /\ msgs' = Tail(msgs)

\* MsgTimerPush that forgets a timer that is not the soonest.
MsgTimerPushTopOnly(d) ==
  /\ Takes(Push(d))
  /\ top' = IF top = None \/ outRanks(d, top) THEN d ELSE top
  /\ heap' = heap \cup {top'}
  /\ updateSoonestTime(top, top')
  /\ UNCHANGED <<now, clientVars, timer, client, timerOfNow, mDevFd, ppc>>

\* The delegate goes into the heap and may become the soonest.
MsgTimerPush(d) ==
  /\ Takes(Push(d))
  /\ heap' = heap \cup {d}
  /\ top' = IF top = None \/ outRanks(d, top) THEN d ELSE top
  /\ updateSoonestTime(top, top')
  /\ UNCHANGED <<now, clientVars, timer, client, timerOfNow, mDevFd, ppc>>

\* MsgTimerRemove deletes the delegate, whether or not it was in the heap.
MsgTimerRemove(d) ==
  /\ Takes(Remove(d))
  /\ heap' = heap \ {d}
  /\ IF top = d THEN \E t \in Delegates \cup {None} : IsTop(t, heap') /\ top' = t
                ELSE UNCHANGED top
  /\ IF top = (IF d \in heap THEN d ELSE None)
     THEN updateSoonestTime(None, top')
     ELSE UNCHANGED <<polled, mpc>>
  /\ life' = [life EXCEPT ![d] = "deleted"]
  /\ mFutureTime' = [mFutureTime EXCEPT ![d] = 0]
  /\ UNCHANGED <<now, alive, mTimer, mClient, timer, client,
                 timerOfNow, mDevFd, ppc>>

\* timerfd_settime at the end of updateSoonestTime.
SetTime ==
  /\ mpc = "settime"
  /\ mpc' = "idle"
  /\ mDevFd' = IF top = None THEN 0 ELSE mFutureTime[top]
  /\ UNCHANGED <<now, clientVars, msgs, taskVars, polled, ppc>>

\* MsgTimerExpire begins: the first pop() takes the top whatever its time.
MsgTimerExpire ==
  /\ Takes(Expire)
  /\ \/ top = None /\ mpc' = "idle" /\ UNCHANGED <<heap, top, timer, timerOfNow>>
     \/ top # None /\ pop /\ timerOfNow' = now /\ mpc' = "expire"
  /\ UNCHANGED <<now, clientVars, client, mDevFd, polled, ppc>>

\* expire() reads mClient, without the lock.
ReadClient ==
  /\ mpc = "expire"
  /\ client' = mClient[timer]
  /\ mpc' = "stop"
  /\ UNCHANGED <<now, clientVars, msgs, heap, top, timer, timerOfNow, mDevFd,
                 polled, ppc>>

(***************************************************************************)
(* expire() calls client->stop() and, if that stopped something, the       *)
(* callback.                                                               *)
(***************************************************************************)
StopAndCallBack ==
  /\ mpc = "stop"
  /\ client \in alive \cup {None}
  /\ mpc' = "pop" /\ timer' = None /\ client' = None
  /\ IF client # None /\ mTimer[client] # None
     THEN stop(client)
     ELSE UNCHANGED <<mClient, mTimer, msgs>>
  /\ UNCHANGED <<now, alive, mFutureTime, life, heap, top, timerOfNow, mDevFd,
                 polled, ppc>>

(***************************************************************************)
(* The same call when the client was deleted after its pointer was read:   *)
(* the freed object says that no timer is running, or its lock is no       *)
(* longer a lock and the process crashes.                                  *)
(***************************************************************************)
StopDeadClient ==
  /\ mpc = "stop"
  /\ client \notin alive \cup {None}
  /\ mpc' \in {"pop", "crashed"} /\ timer' = None /\ client' = None
  /\ UNCHANGED <<now, clientVars, msgs, heap, top, timerOfNow, mDevFd, polled, ppc>>

\* popIfOutRanks: the top is not later than now, to the second.
Due == IF top = None THEN FALSE ELSE sec(mFutureTime[top]) <= sec(timerOfNow)

\* MsgTimerExpire that leaves the timerfd as the polling thread left it.
PopNextOnly ==
  /\ mpc = "pop"
  /\ \/ /\ Due
        /\ pop /\ mpc' = "expire" /\ UNCHANGED <<polled, timerOfNow>>
     \/ /\ ~Due
        /\ timerOfNow' = 0
        /\ mpc' = "idle" /\ UNCHANGED <<heap, top, timer, polled>>
  /\ UNCHANGED <<now, clientVars, msgs, client, mDevFd, ppc>>

\* The next one that is due, or the end of MsgTimerExpire.
PopNext ==
  /\ mpc = "pop"
  /\ \/ /\ Due
        /\ pop /\ mpc' = "expire" /\ UNCHANGED <<polled, timerOfNow>>
     \/ /\ ~Due
        /\ timerOfNow' = 0
        /\ updateSoonestTime(None, top) /\ UNCHANGED <<heap, top, timer>>
  /\ UNCHANGED <<now, clientVars, msgs, client, mDevFd, ppc>>

MsgTaskStep ==
  \/ \E d \in Delegates : MsgTimerPush(d) \/ MsgTimerRemove(d)
  \/ SetTime \/ MsgTimerExpire \/ ReadClient \/ StopAndCallBack
  \/ StopDeadClient \/ PopNext

-----------------------------------------------------------------------------
(* The polling thread: LocTimerPollTask::run and the container's expire(). *)

\* epoll_wait returns: the timerfd is in the set and has expired.
epoll_wait ==
  /\ ppc = "wait"
  /\ polled /\ mDevFd # 0 /\ mDevFd <= now
  /\ ppc' = "settime"
  /\ UNCHANGED <<now, clientVars, msgs, taskVars, mDevFd, polled, mpc>>

Disarm ==
  /\ ppc = "settime"
  /\ mDevFd' = 0
  /\ ppc' = "removePoll"
  /\ UNCHANGED <<now, clientVars, msgs, taskVars, polled, mpc>>

removePoll ==
  /\ ppc = "removePoll"
  /\ polled' = FALSE
  /\ ppc' = "send"
  /\ UNCHANGED <<now, clientVars, msgs, taskVars, mDevFd, mpc>>

SendExpire ==
  /\ ppc = "send"
  /\ msgs' = Append(msgs, Expire)
  /\ ppc' = "wait"
  /\ UNCHANGED <<now, clientVars, taskVars, mDevFd, polled, mpc>>

PollStep == epoll_wait \/ Disarm \/ removePoll \/ SendExpire

Tick ==
  /\ now < MaxTime
  /\ now' = now + 1
  /\ UNCHANGED <<clientVars, msgs, taskVars, mDevFd, polled, mpc, ppc>>

ClientStep == \E c \in Clients : start(c) \/ ClientStops(c) \/ ClientDeleted(c)

Running == mpc # "crashed"

Next == Running /\ (ClientStep \/ MsgTaskStep \/ PollStep \/ Tick)

Spec == Init /\ [][Next]_vars

(***************************************************************************)
(* Time passes and both threads of the service are scheduled; a callback   *)
(* returns.  Clients owe nothing.                                          *)
(***************************************************************************)
FairSpec == Spec /\ WF_vars(Running /\ MsgTaskStep)
                 /\ WF_vars(Running /\ PollStep) /\ WF_vars(Running /\ Tick)

-----------------------------------------------------------------------------
InMsgs(m) == \E i \in 1..Len(msgs) : msgs[i] = m

(***************************************************************************)
(* A running timer is never mislaid between the three threads: its push is *)
(* queued, it is in the heap, or the MsgTask thread is expiring it.  And   *)
(* "all timers are deleted here, and only here": what the heap, a running  *)
(* client, the queue and the MsgTask thread point to is a live delegate,   *)
(* and a delegate is queued for removal once.                              *)
(***************************************************************************)
TimersAreKept ==
  /\ \A c \in Clients : mTimer[c] # None =>
       /\ life[mTimer[c]] = "live"
       /\ \/ InMsgs(Push(mTimer[c]))
          \/ mTimer[c] \in heap
          \/ timer = mTimer[c] /\ (mpc = "expire" \/ (mpc = "stop" /\ client = c))
  /\ \A d \in heap : life[d] = "live"
  /\ \A i \in 1..Len(msgs) : msgs[i] # Expire => life[msgs[i].d] = "live"
  /\ mpc = "expire" => life[timer] = "live"
  /\ \A i, j \in 1..Len(msgs) : msgs[i] = msgs[j] /\ msgs[i] # Expire => i = j

(***************************************************************************)
(* The kernel is never left without the soonest timer: with both threads   *)
(* at rest and a timer in the heap, the timerfd is polled and armed for    *)
(* the top, however the updates of the two threads interleaved.            *)
(***************************************************************************)
SoonestIsArmed ==
  msgs = <<>> /\ mpc = "idle" /\ ppc = "wait" /\ heap # {} =>
    polled /\ top \in heap /\ mDevFd = mFutureTime[top]

(***************************************************************************)
(* MsgTimerExpire says it will "pop everything in the heap that outRanks   *)
(* now, i.e. has time older than now and then call expire() on that timer":*)
(* no running timer is expired in a second before the one it was set for.  *)
(***************************************************************************)
NoEarlyExpire ==
  mpc = "expire" /\ mClient[timer] # None =>
    sec(mFutureTime[timer]) <= sec(timerOfNow)

(***************************************************************************)
(* A started timer fires or is stopped, unless the process crashes.        *)
(***************************************************************************)
EveryTimerEnds ==
  \A c \in Clients, d \in Delegates :
    mTimer[c] = d ~> mTimer[c] # d \/ ~Running
=============================================================================
