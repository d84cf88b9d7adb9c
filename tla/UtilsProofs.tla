---------------------------- MODULE UtilsProofs -----------------------------
(***************************************************************************)
(* Theorems about the timer service and its heap, which UtilsMC puts       *)
(* together: LocTimer, for any set of clients, any length of a second and  *)
(* whatever the bounds are, and that LocHeap implements PriorityQueue, for *)
(* any finite set of objects, any ranks and any history of calls.          *)
(***************************************************************************)
EXTENDS UtilsMC, FiniteSetTheorems, Induction, TLAPS

TimerMsgs == [op : {"push", "remove"}, d : Delegates] \cup {Expire}

In(m, s) == \E i \in 1..Len(s) : s[i] = m

\* A delegate is queued once for each.
Distinct(s) == \A i, j \in 1..Len(s) : s[i] = s[j] /\ s[i] # Expire => i = j

\* A delegate is removed after it was pushed.
PushFirst(s) ==
  \A i, j \in 1..Len(s) : s[j].op = "push" /\ s[i] = Remove(s[j].d) => j < i

-----------------------------------------------------------------------------
(* The inductive invariant.                                                *)

TopIsSoonest == IsTop(top, heap)

\* A running timer, the delegate it has and where the delegate is.
RunningIsKept ==
  \A c \in Clients : mTimer[c] # None =>
    /\ c \in alive
    /\ mClient[mTimer[c]] = c
    /\ life[mTimer[c]] = "live"
    /\ ~In(Remove(mTimer[c]), msgs)
    /\ \/ In(Push(mTimer[c]), msgs)
       \/ mTimer[c] \in heap
       \/ timer = mTimer[c] /\ (mpc = "expire" \/ (mpc = "stop" /\ client = c))

\* What points to a delegate points to a live one.
PointersAreLive ==
  /\ \A d \in heap : life[d] = "live"
  /\ \A d \in Delegates : In(Push(d), msgs) \/ In(Remove(d), msgs) => life[d] = "live"
  /\ mpc = "expire" => life[timer] = "live"

QueueInOrder == Distinct(msgs) /\ PushFirst(msgs)

\* The timerfd is set, is about to be set, or an expiry is on its way.
Armed ==
  heap # {} =>
    /\ mpc = "idle" => \/ ppc # "wait" \/ In(Expire, msgs)
                       \/ polled /\ mDevFd = mFutureTime[top]
    /\ mpc = "settime" => ppc # "wait" \/ In(Expire, msgs) \/ polled

TimerInv == /\ TypeOK /\ TopIsSoonest /\ RunningIsKept /\ PointersAreLive
            /\ QueueInOrder /\ Armed

-----------------------------------------------------------------------------
(* The queue.                                                              *)

LEMMA MsgKinds ==
  /\ \A d \in Delegates : Push(d) \in TimerMsgs /\ Remove(d) \in TimerMsgs
  /\ Expire \in TimerMsgs
  /\ \A m \in TimerMsgs : \/ m = Expire
                          \/ m.d \in Delegates /\ (m = Push(m.d) \/ m = Remove(m.d))
  /\ \A d, e : /\ Push(d) # Remove(e) /\ Push(d) # Expire /\ Remove(d) # Expire
               /\ Push(d) = Push(e) => d = e
               /\ Remove(d) = Remove(e) => d = e
               /\ Push(d).op = "push" /\ Push(d).d = d
               /\ Remove(d).op = "remove" /\ Remove(d).d = d
  /\ Expire.op = "expire"
BY DEF TimerMsgs, Push, Remove, Expire

LEMMA TailSeq ==
  ASSUME NEW S, NEW s \in Seq(S), s # <<>>
  PROVE  /\ Tail(s) \in Seq(S) /\ Head(s) \in S
         /\ Len(s) \in Nat /\ Len(s) > 0 /\ Len(Tail(s)) = Len(s) - 1
         /\ \A i \in 1..Len(Tail(s)) : Tail(s)[i] = s[i + 1]
         /\ Head(s) = s[1]
OBVIOUS

LEMMA AppendSeq ==
  ASSUME NEW S, NEW s \in Seq(S), NEW x \in S
  PROVE  /\ Append(s, x) \in Seq(S)
         /\ Len(s) \in Nat /\ Len(Append(s, x)) = Len(s) + 1
         /\ \A i \in 1..Len(s) : Append(s, x)[i] = s[i]
         /\ Append(s, x)[Len(s) + 1] = x
OBVIOUS

\* Taking the oldest message.
LEMMA TailQueue ==
  ASSUME NEW s \in Seq(TimerMsgs), s # <<>>
  PROVE  /\ Tail(s) \in Seq(TimerMsgs)
         /\ \A m : In(m, s) <=> m = Head(s) \/ In(m, Tail(s))
         /\ Distinct(s) => /\ Distinct(Tail(s))
                           /\ Head(s) # Expire => ~In(Head(s), Tail(s))
         /\ PushFirst(s) =>
              /\ PushFirst(Tail(s))
              /\ \A d \in Delegates : Head(s) = Remove(d) => ~In(Push(d), Tail(s))
<1> USE TailSeq
<1>1. ASSUME NEW m, In(m, s), m # Head(s) PROVE In(m, Tail(s))
  <2>1. PICK i \in 1..Len(s) : s[i] = m
    BY <1>1 DEF In
  <2>2. i - 1 \in 1..Len(Tail(s)) /\ Tail(s)[i - 1] = s[i]
    BY <1>1, <2>1
  <2> QED
    BY <2>1, <2>2 DEF In
<1>2. ASSUME NEW m, In(m, Tail(s)) PROVE In(m, s)
  <2>1. PICK i \in 1..Len(Tail(s)) : Tail(s)[i] = m
    BY <1>2 DEF In
  <2>2. i + 1 \in 1..Len(s) /\ s[i + 1] = m
    BY <2>1
  <2> QED
    BY <2>2 DEF In
<1>3. In(Head(s), s)
  BY DEF In
<1>4. ASSUME Distinct(s) PROVE Distinct(Tail(s))
  <2> SUFFICES ASSUME NEW i \in 1..Len(Tail(s)), NEW j \in 1..Len(Tail(s)),
                      Tail(s)[i] = Tail(s)[j], Tail(s)[i] # Expire
               PROVE  i = j
    BY DEF Distinct
  <2>1. i + 1 \in 1..Len(s) /\ j + 1 \in 1..Len(s)
    OBVIOUS
  <2>2. i + 1 = j + 1
    BY <1>4, <2>1 DEF Distinct
  <2> QED
    BY <2>2
<1>5. ASSUME Distinct(s), Head(s) # Expire, In(Head(s), Tail(s)) PROVE FALSE
  <2>1. PICK i \in 1..Len(Tail(s)) : Tail(s)[i] = Head(s)
    BY <1>5 DEF In
  <2>2. i + 1 \in 1..Len(s) /\ 1 \in 1..Len(s) /\ s[i + 1] = s[1]
    BY <2>1
  <2>3. i + 1 = 1
    BY <1>5, <2>2 DEF Distinct
  <2> QED
    BY <2>3
<1>6. ASSUME PushFirst(s) PROVE PushFirst(Tail(s))
  <2> SUFFICES ASSUME NEW i \in 1..Len(Tail(s)), NEW j \in 1..Len(Tail(s)),
                      Tail(s)[j].op = "push", Tail(s)[i] = Remove(Tail(s)[j].d)
               PROVE  j < i
    BY DEF PushFirst
  <2>1. i + 1 \in 1..Len(s) /\ j + 1 \in 1..Len(s)
    OBVIOUS
  <2>2. j + 1 < i + 1
    BY <1>6, <2>1 DEF PushFirst
  <2> QED
    BY <2>2
<1>7. ASSUME PushFirst(s), NEW d \in Delegates, Head(s) = Remove(d), In(Push(d), Tail(s))
      PROVE  FALSE
  <2>1. PICK i \in 1..Len(Tail(s)) : Tail(s)[i] = Push(d)
    BY <1>7 DEF In
  <2>2. i + 1 \in 1..Len(s) /\ 1 \in 1..Len(s) /\ s[i + 1] = Push(d) /\ s[1] = Remove(d)
    BY <1>7, <2>1
  <2>3. i + 1 < 1
    BY <1>7, <2>2, MsgKinds DEF PushFirst
  <2> QED
    BY <2>3
<1> QED
  BY <1>1, <1>2, <1>3, <1>4, <1>5, <1>6, <1>7

\* Adding a message at the end.
LEMMA AppendQueue ==
  ASSUME NEW s \in Seq(TimerMsgs), NEW m \in TimerMsgs
  PROVE  /\ Append(s, m) \in Seq(TimerMsgs)
         /\ \A x : In(x, Append(s, m)) <=> In(x, s) \/ x = m
         /\ Distinct(s) /\ (m # Expire => ~In(m, s)) => Distinct(Append(s, m))
         /\ PushFirst(s) /\ (\A d : m = Push(d) => ~In(Remove(d), s))
              => PushFirst(Append(s, m))
<1> USE AppendSeq
<1>1. ASSUME NEW x, In(x, Append(s, m)), x # m PROVE In(x, s)
  <2>1. PICK i \in 1..(Len(s) + 1) : Append(s, m)[i] = x
    BY <1>1 DEF In
  <2> QED
    BY <1>1, <2>1 DEF In
<1>2. ASSUME NEW x, In(x, s) PROVE In(x, Append(s, m))
  <2>1. PICK i \in 1..Len(s) : s[i] = x
    BY <1>2 DEF In
  <2>2. i \in 1..Len(Append(s, m)) /\ Append(s, m)[i] = x
    BY <2>1
  <2> QED
    BY <2>2 DEF In
<1>3. In(m, Append(s, m))
  BY DEF In
<1>4. ASSUME Distinct(s), m # Expire => ~In(m, s) PROVE Distinct(Append(s, m))
  <2> SUFFICES ASSUME NEW i \in 1..Len(Append(s, m)), NEW j \in 1..Len(Append(s, m)),
                      Append(s, m)[i] = Append(s, m)[j], Append(s, m)[i] # Expire
               PROVE  i = j
    BY DEF Distinct
  <2>1. CASE i \in 1..Len(s) /\ j \in 1..Len(s)
    BY <1>4, <2>1 DEF Distinct
  <2>2. CASE i \in 1..Len(s) /\ j = Len(s) + 1
    BY <1>4, <2>2 DEF In
  <2>3. CASE i = Len(s) + 1 /\ j \in 1..Len(s)
    BY <1>4, <2>3 DEF In
  <2> QED
    BY <2>1, <2>2, <2>3
<1>5. ASSUME PushFirst(s), \A d : m = Push(d) => ~In(Remove(d), s) PROVE PushFirst(Append(s, m))
  <2> SUFFICES ASSUME NEW i \in 1..Len(Append(s, m)), NEW j \in 1..Len(Append(s, m)),
                      Append(s, m)[j].op = "push", Append(s, m)[i] = Remove(Append(s, m)[j].d)
               PROVE  j < i
    BY DEF PushFirst
  <2>1. CASE i \in 1..Len(s) /\ j \in 1..Len(s)
    BY <1>5, <2>1 DEF PushFirst
  <2>2. CASE j \in 1..Len(s) /\ i = Len(s) + 1
    BY <2>2
  <2>3. CASE j = Len(s) + 1
    <3>1. m = Push(m.d) /\ Append(s, m)[i] = Remove(m.d)
      BY <2>3, MsgKinds
    <3>2. i # Len(s) + 1
      BY <3>1, MsgKinds
    <3>3. In(Remove(m.d), s)
      BY <3>1, <3>2 DEF In
    <3> QED
      BY <1>5, <3>1, <3>3
  <2> QED
    BY <2>1, <2>2, <2>3
<1> QED
  BY <1>1, <1>2, <1>3, <1>4, <1>5

-----------------------------------------------------------------------------
(* Types.                                                                  *)

LEMMA NoneIsNot == None \notin Clients /\ None \notin Delegates /\ 0 \in 0..MaxTime
BY LocTimerAssumption

\* What stop() does to the client, its delegate and the queue.
LEMMA StopType ==
  ASSUME TypeOK, NEW c \in Clients, mTimer[c] # None, stop(c)
  PROVE  /\ mTimer' \in [Clients -> Delegates \cup {None}]
         /\ mClient' \in [Delegates -> Clients \cup {None}]
         /\ msgs' = Append(msgs, Remove(mTimer[c]))
         /\ mTimer[c] \in Delegates
BY DEF TypeOK, stop, destroyLocked

LEMMA QueueType == TypeOK /\ [Next]_vars => msgs' \in Seq(TimerMsgs)
<1> SUFFICES ASSUME TypeOK, [Next]_vars PROVE msgs' \in Seq(TimerMsgs)
  OBVIOUS
<1>1. msgs \in Seq(TimerMsgs) /\ \A c \in Clients : mTimer[c] # None => mTimer[c] \in Delegates
  BY DEF TypeOK, TimerMsgs
<1>2. alive \subseteq Clients /\ client \in Clients \cup {None}
  BY DEF TypeOK
<1>3. \/ msgs' = msgs
      \/ msgs # <<>> /\ msgs' = Tail(msgs)
      \/ \E d \in Delegates : msgs' = Append(msgs, Push(d))
      \/ \E c \in Clients : mTimer[c] # None /\ msgs' = Append(msgs, Remove(mTimer[c]))
      \/ msgs' = Append(msgs, Expire)
  BY <1>2 DEF Next, ClientStep, MsgTaskStep, PollStep, Tick, start, ClientStops, ClientDeleted,
     stop, destroyLocked, LocTimerDelegate, MsgTimerPush, MsgTimerRemove, SetTime,
     MsgTimerExpire, ReadClient, StopAndCallBack,
     StopDeadClient, PopNext, Takes, epoll_wait, Disarm, removePoll, SendExpire, vars
<1>4. \/ msgs' = msgs \/ (msgs # <<>> /\ msgs' = Tail(msgs))
      \/ \E m \in TimerMsgs : msgs' = Append(msgs, m)
  BY <1>1, <1>3, MsgKinds
<1> QED
  BY <1>1, <1>4, TailQueue, AppendQueue

\* What pop() leaves behind.
LEMMA PopType ==
  ASSUME TypeOK, TopIsSoonest, top # None, pop
  PROVE  /\ timer' = top /\ timer' \in heap /\ timer' # None
         /\ heap' = heap \ {top}
         /\ top' \in Delegates \cup {None} /\ IsTop(top', heap')
BY DEF TypeOK, TopIsSoonest, pop, IsTop

LEMMA TypeStep == TypeOK /\ TopIsSoonest /\ [Next]_vars => TypeOK'
<1> SUFFICES ASSUME TypeOK, TopIsSoonest, [Next]_vars PROVE TypeOK'
  OBVIOUS
<1>q. msgs' \in Seq(TimerMsgs)
  BY QueueType
<1> USE NoneIsNot DEF TypeOK, clientVars, taskVars, TimerMsgs
<1>1. ASSUME NEW c \in Clients, start(c) PROVE TypeOK'
  <2>1. PICK d \in Delegates, t \in now..MaxTime :
          /\ life' = [life EXCEPT ![d] = "live"]
          /\ mClient' = [mClient EXCEPT ![d] = c]
          /\ mFutureTime' = [mFutureTime EXCEPT ![d] = t]
          /\ mTimer' = [mTimer EXCEPT ![c] = d]
    BY <1>1 DEF start, LocTimerDelegate
  <2>2. t \in 0..MaxTime
    BY LocTimerAssumption
  <2> QED
    BY <1>q, <1>1, <2>1, <2>2 DEF start, LocTimerDelegate
<1>2. ASSUME NEW c \in Clients, ClientStops(c) PROVE TypeOK'
  BY <1>q, <1>2, StopType DEF ClientStops
<1>3. ASSUME NEW c \in Clients, ClientDeleted(c) PROVE TypeOK'
  BY <1>q, <1>3, StopType DEF ClientDeleted
<1>4. ASSUME NEW d \in Delegates, MsgTimerPush(d) PROVE TypeOK'
  BY <1>q, <1>4 DEF MsgTimerPush, updateSoonestTime, Takes
<1>5. ASSUME NEW d \in Delegates, MsgTimerRemove(d) PROVE TypeOK'
  BY <1>q, <1>5 DEF MsgTimerRemove, updateSoonestTime, Takes
<1>6. CASE SetTime
  BY <1>q, <1>6 DEF SetTime
<1>7. CASE MsgTimerExpire
  BY <1>q, <1>7, PopType DEF MsgTimerExpire, Takes
<1>8. CASE ReadClient
  BY <1>q, <1>8 DEF ReadClient
<1>9. CASE StopAndCallBack
  BY <1>q, <1>9, StopType DEF StopAndCallBack
<1>10. CASE StopDeadClient
  BY <1>q, <1>10 DEF StopDeadClient
<1>11. CASE PopNext
  BY <1>q, <1>11, PopType DEF PopNext, Due, updateSoonestTime
<1>12. CASE PollStep
  BY <1>q, <1>12 DEF PollStep, epoll_wait, Disarm, removePoll, SendExpire
<1>13. CASE Tick
  BY <1>q, <1>13, LocTimerAssumption DEF Tick
<1>14. CASE UNCHANGED vars
  BY <1>q, <1>14 DEF vars
<1> QED
  BY <1>1, <1>2, <1>3, <1>4, <1>5, <1>6, <1>7, <1>8, <1>9, <1>10, <1>11, <1>12, <1>13, <1>14
     DEF Next, ClientStep, MsgTaskStep

-----------------------------------------------------------------------------
(* The invariant.                                                          *)

\* Seconds are numbers, so that the soonest one stays on top.
LEMMA SecType == \A t \in Nat : sec(t) \in Nat
BY LocTimerAssumption DEF sec

\* A message is taken.
LEMMA TakesFacts ==
  ASSUME TypeOK, QueueInOrder, NEW m, Takes(m)
  PROVE  /\ QueueInOrder'
         /\ \A x : In(x, msgs) <=> x = m \/ In(x, msgs')
         /\ m # Expire => ~In(m, msgs')
         /\ \A d \in Delegates : m = Remove(d) => ~In(Push(d), msgs')
BY TailQueue DEF Takes, QueueInOrder, TypeOK, TimerMsgs

\* stop() of a running client.
LEMMA StopFacts ==
  ASSUME TimerInv, NEW c \in Clients, mTimer[c] # None, stop(c)
  PROVE  /\ mTimer[c] \in Delegates /\ life[mTimer[c]] = "live"
         /\ QueueInOrder'
         /\ \A x : In(x, msgs') <=> In(x, msgs) \/ x = Remove(mTimer[c])
         /\ \A b \in Clients : b # c => mTimer'[b] = mTimer[b] /\ mTimer[b] # mTimer[c]
         /\ mTimer'[c] = None
         /\ \A d \in Delegates : d # mTimer[c] => mClient'[d] = mClient[d]
<1>1. /\ TypeOK /\ RunningIsKept /\ QueueInOrder
      /\ mTimer[c] \in Delegates /\ ~In(Remove(mTimer[c]), msgs) /\ life[mTimer[c]] = "live"
  BY DEF TimerInv, TypeOK, RunningIsKept
<1>2. /\ mTimer' = [mTimer EXCEPT ![c] = None]
      /\ mClient' = [mClient EXCEPT ![mTimer[c]] = None]
      /\ msgs' = Append(msgs, Remove(mTimer[c]))
  BY DEF stop, destroyLocked
<1>3. /\ QueueInOrder'
      /\ \A x : In(x, msgs') <=> In(x, msgs) \/ x = Remove(mTimer[c])
  BY <1>1, <1>2, AppendQueue, MsgKinds DEF QueueInOrder, TypeOK, TimerMsgs
<1>4. \A b \in Clients : b # c => mTimer[b] # mTimer[c]
  BY <1>1 DEF RunningIsKept
<1> QED
  BY <1>1, <1>2, <1>3, <1>4 DEF TypeOK

\* What a client's stop leaves true of the other clients and of the pointers.
LEMMA StopKeeps ==
  ASSUME TimerInv, NEW c \in Clients, mTimer[c] # None, stop(c),
         UNCHANGED <<life, mFutureTime, heap, top, mDevFd, polled, ppc>>,
         alive' \in {alive, alive \ {c}},
         \/ UNCHANGED <<timer, client, mpc>>
         \/ mpc = "stop" /\ client = c /\ mpc' = "pop"
  PROVE  (TopIsSoonest /\ RunningIsKept /\ PointersAreLive /\ QueueInOrder /\ Armed)'
<1>1. /\ TypeOK /\ TopIsSoonest /\ RunningIsKept /\ PointersAreLive /\ Armed
  BY DEF TimerInv
<1>2. QueueInOrder' /\ TopIsSoonest'
  BY <1>1, StopFacts DEF TopIsSoonest, IsTop, outRanks
<1>3. RunningIsKept'
  BY <1>1, StopFacts, MsgKinds DEF RunningIsKept, TypeOK
<1>4. PointersAreLive'
  BY <1>1, StopFacts, MsgKinds DEF PointersAreLive
<1>5. Armed'
  BY <1>1, StopFacts, MsgKinds DEF Armed
<1> QED
  BY <1>2, <1>3, <1>4, <1>5

\* What a step keeps by leaving alone.
LEMMA Frame ==
  /\ TopIsSoonest /\ UNCHANGED <<mFutureTime, heap, top>> => TopIsSoonest'
  /\ QueueInOrder /\ UNCHANGED msgs => QueueInOrder'
  /\ PointersAreLive /\ UNCHANGED <<heap, life, msgs>>
       /\ (mpc' = "expire" => mpc = "expire" /\ timer' = timer) => PointersAreLive'
<1>1. TopIsSoonest /\ UNCHANGED <<mFutureTime, heap, top>> => TopIsSoonest'
  BY DEF TopIsSoonest, IsTop, outRanks
<1>2. QueueInOrder /\ UNCHANGED msgs => QueueInOrder'
  BY DEF QueueInOrder
<1>3. PointersAreLive /\ UNCHANGED <<heap, life, msgs>>
       /\ (mpc' = "expire" => mpc = "expire" /\ timer' = timer) => PointersAreLive'
  BY DEF PointersAreLive
<1> QED
  BY <1>1, <1>2, <1>3

LEMMA TimerStep == TimerInv /\ [Next]_vars => TimerInv'
<1> DEFINE Goal == (TopIsSoonest /\ RunningIsKept /\ PointersAreLive /\ QueueInOrder /\ Armed)'
<1> SUFFICES ASSUME TimerInv, [Next]_vars PROVE Goal
  BY TypeStep DEF TimerInv
<1>type. TypeOK /\ TypeOK'
  BY TypeStep DEF TimerInv
<1>inv. TopIsSoonest /\ RunningIsKept /\ PointersAreLive /\ QueueInOrder /\ Armed
  BY DEF TimerInv
<1> USE NoneIsNot DEF clientVars, taskVars
<1>0. ASSUME UNCHANGED <<clientVars, msgs, heap, top, timer, client, mpc>>, Armed' PROVE Goal
  <2>1. RunningIsKept'
    BY <1>0, <1>inv DEF RunningIsKept
  <2> QED
    BY <1>0, <1>inv, <2>1, Frame
<1>1. ASSUME NEW c \in Clients, start(c) PROVE Goal
  <2>1. PICK d \in Delegates, t \in now..MaxTime :
          /\ life[d] = "unborn"
          /\ life' = [life EXCEPT ![d] = "live"]
          /\ mClient' = [mClient EXCEPT ![d] = c]
          /\ mFutureTime' = [mFutureTime EXCEPT ![d] = t]
          /\ mTimer' = [mTimer EXCEPT ![c] = d]
          /\ msgs' = Append(msgs, Push(d))
    BY <1>1 DEF start, LocTimerDelegate
  <2>2. c \in alive /\ mTimer[c] = None
        /\ UNCHANGED <<alive, heap, top, timer, client, mDevFd, polled, mpc, ppc>>
    BY <1>1 DEF start, LocTimerDelegate
  <2>3. /\ ~In(Push(d), msgs) /\ ~In(Remove(d), msgs) /\ d \notin heap
        /\ \A b \in Clients : mTimer[b] # d
        /\ mpc = "expire" => timer # d
    BY <1>inv, <2>1, LocTimerAssumption DEF PointersAreLive, RunningIsKept
  <2>4. /\ QueueInOrder'
        /\ \A x : In(x, msgs') <=> In(x, msgs) \/ x = Push(d)
    <3>1. msgs \in Seq(TimerMsgs) /\ Push(d) \in TimerMsgs /\ Push(d) # Expire
      BY <1>type, MsgKinds DEF TypeOK, TimerMsgs
    <3>2. \A e : Push(d) = Push(e) => ~In(Remove(e), msgs)
      BY <2>3, MsgKinds
    <3> QED
      BY <1>inv, <2>1, <2>3, <3>1, <3>2, AppendQueue DEF QueueInOrder
  <2>5. \A e \in heap : mFutureTime'[e] = mFutureTime[e]
    BY <1>type, <2>1, <2>3 DEF TypeOK
  <2>6. TopIsSoonest'
    BY <1>inv, <2>2, <2>5 DEF TopIsSoonest, IsTop, outRanks
  <2>7. RunningIsKept'
    BY <1>type, <1>inv, <2>1, <2>2, <2>3, <2>4, MsgKinds DEF RunningIsKept, TypeOK
  <2>8. PointersAreLive'
    BY <1>type, <1>inv, <2>1, <2>2, <2>3, <2>4, MsgKinds DEF PointersAreLive, TypeOK
  <2>9. Armed'
    BY <1>inv, <2>2, <2>4, <2>5 DEF Armed, TopIsSoonest, IsTop
  <2> QED
    BY <2>4, <2>6, <2>7, <2>8, <2>9
<1>2. ASSUME NEW c \in Clients, ClientStops(c) PROVE Goal
  BY <1>2, StopKeeps DEF ClientStops
<1>3. ASSUME NEW c \in Clients, ClientDeleted(c) PROVE Goal
  <2>1. CASE mTimer[c] # None
    BY <1>3, <2>1, StopKeeps DEF ClientDeleted
  <2>2. CASE mTimer[c] = None
    <3>1. /\ UNCHANGED <<msgs, mTimer, mClient, life, mFutureTime, heap, top, timer, client, mpc,
                         mDevFd, polled, ppc>>
          /\ alive' = alive \ {c}
      BY <1>3, <2>2 DEF ClientDeleted
    <3> QED
      BY <1>inv, <2>2, <3>1
         DEF TopIsSoonest, IsTop, outRanks, RunningIsKept, PointersAreLive, QueueInOrder, Armed
  <2> QED
    BY <2>1, <2>2
<1>4. ASSUME NEW d \in Delegates, MsgTimerPush(d) PROVE Goal
  <2>1. /\ QueueInOrder'
        /\ \A x : In(x, msgs) <=> x = Push(d) \/ In(x, msgs')
        /\ mpc = "idle"
    BY <1>4, <1>type, <1>inv, TakesFacts DEF MsgTimerPush, Takes
  <2>2. /\ heap' = heap \cup {d}
        /\ top' = IF top = None \/ outRanks(d, top) THEN d ELSE top
        /\ updateSoonestTime(top, top')
        /\ UNCHANGED <<mTimer, mClient, life, mFutureTime, alive, timer, client, mDevFd, ppc>>
    BY <1>4 DEF MsgTimerPush
  <2>3. life[d] = "live"
    BY <1>inv, <2>1 DEF PointersAreLive
  <2>4. \A e \in Delegates : mFutureTime[e] \in Nat
    BY <1>type DEF TypeOK
  <2>5. TopIsSoonest'
    <3>1. \A a, b, e \in Delegates : ~outRanks(e, b) /\ outRanks(a, b) => ~outRanks(e, a)
      BY <2>4, SecType DEF outRanks
    <3>2. ~outRanks(d, d)
      BY <2>4, SecType DEF outRanks
    <3>3. \A a, b : outRanks(a, b)' <=> outRanks(a, b)
      BY <2>2 DEF outRanks
    <3>4. heap \subseteq Delegates
      BY <1>type DEF TypeOK
    <3> QED
      BY <1>inv, <2>2, <3>1, <3>2, <3>3, <3>4 DEF TopIsSoonest, IsTop
  <2>6. RunningIsKept'
    BY <1>inv, <2>1, <2>2, MsgKinds DEF RunningIsKept, updateSoonestTime
  <2>7. PointersAreLive'
    BY <1>inv, <2>1, <2>2, <2>3 DEF PointersAreLive, updateSoonestTime
  <2>8. Armed'
    BY <1>inv, <2>1, <2>2, MsgKinds DEF Armed, TopIsSoonest, IsTop, updateSoonestTime
  <2> QED
    BY <2>1, <2>5, <2>6, <2>7, <2>8
<1>5. ASSUME NEW d \in Delegates, MsgTimerRemove(d) PROVE Goal
  <2>1. /\ QueueInOrder'
        /\ \A x : In(x, msgs) <=> x = Remove(d) \/ In(x, msgs')
        /\ ~In(Remove(d), msgs') /\ ~In(Push(d), msgs')
        /\ mpc = "idle"
    BY <1>5, <1>type, <1>inv, TakesFacts, MsgKinds DEF MsgTimerRemove, Takes
  <2>2. /\ heap' = heap \ {d}
        /\ IF top = d THEN IsTop(top', heap') ELSE top' = top
        /\ IF top = (IF d \in heap THEN d ELSE None)
           THEN updateSoonestTime(None, top') ELSE UNCHANGED <<polled, mpc>>
        /\ life' = [life EXCEPT ![d] = "deleted"]
        /\ mFutureTime' = [mFutureTime EXCEPT ![d] = 0]
        /\ UNCHANGED <<mTimer, mClient, alive, timer, client, mDevFd, ppc>>
    BY <1>5 DEF MsgTimerRemove
  <2>3. \A e \in heap' : mFutureTime'[e] = mFutureTime[e]
    BY <1>type, <2>2 DEF TypeOK
  <2>4. TopIsSoonest'
    <3>1. IsTop(top', heap')
      BY <1>inv, <2>2 DEF TopIsSoonest, IsTop
    <3> QED
      BY <2>3, <3>1 DEF TopIsSoonest, IsTop, outRanks
  <2>5. \A c \in Clients : mTimer[c] # d
    BY <1>inv, <2>1, LocTimerAssumption DEF RunningIsKept
  <2>6. RunningIsKept'
    BY <1>inv, <1>type, <2>1, <2>2, <2>5, MsgKinds DEF RunningIsKept, updateSoonestTime, TypeOK
  <2>7. PointersAreLive'
    BY <1>inv, <1>type, <2>1, <2>2 DEF PointersAreLive, updateSoonestTime, TypeOK
  <2>8. Armed'
    <3>1. \A x : x = Expire => (In(x, msgs') <=> In(x, msgs))
      BY <2>1, MsgKinds
    <3>2. CASE top = (IF d \in heap THEN d ELSE None)
      <4>1. updateSoonestTime(None, top')
        BY <2>2, <3>2
      <4>2. heap' # {} => top' # None
        BY <1>type, <2>4 DEF TopIsSoonest, IsTop, TypeOK
      <4> QED
        BY <4>1, <4>2 DEF Armed, updateSoonestTime
    <3>3. CASE top # (IF d \in heap THEN d ELSE None)
      <4>1. heap' # {} => heap # {} /\ top' = top /\ top \in heap'
        BY <1>inv, <1>type, <2>2, <3>3 DEF TopIsSoonest, IsTop, TypeOK
      <4>2. UNCHANGED <<polled, mpc, mDevFd, ppc>> /\ mpc = "idle"
        BY <2>1, <2>2, <3>3
      <4> QED
        BY <1>inv, <2>3, <3>1, <4>1, <4>2 DEF Armed
    <3> QED
      BY <3>2, <3>3
  <2> QED
    BY <2>1, <2>4, <2>6, <2>7, <2>8
<1>6. CASE SetTime
  <2>1. /\ mpc = "settime" /\ mpc' = "idle"
        /\ mDevFd' = IF top = None THEN 0 ELSE mFutureTime[top]
        /\ UNCHANGED <<alive, mTimer, mClient, mFutureTime, life, msgs, heap, top, timer, client,
                       polled, ppc>>
    BY <1>6 DEF SetTime
  <2>2. Armed'
    BY <1>inv, <1>type, <2>1 DEF Armed, TopIsSoonest, IsTop, TypeOK
  <2>3. RunningIsKept'
    BY <1>inv, <2>1 DEF RunningIsKept
  <2> QED
    BY <1>inv, <2>1, <2>2, <2>3, Frame
<1>7. ASSUME top # None, pop, mpc' = "expire", timer = None, UNCHANGED <<clientVars, client>>,
             QueueInOrder', \A x : x # Expire => (In(x, msgs') <=> In(x, msgs))
      PROVE  Goal
  <2>1. /\ timer' = top /\ heap' = heap \ {top} /\ top \in heap
        /\ IsTop(top', heap')
    BY <1>7, <1>type, <1>inv, PopType
  <2>2. TopIsSoonest'
    BY <1>7, <2>1 DEF TopIsSoonest, IsTop, outRanks
  <2>3. RunningIsKept'
    BY <1>7, <1>type, <1>inv, <2>1, MsgKinds DEF RunningIsKept, TypeOK
  <2>4. PointersAreLive'
    BY <1>7, <1>inv, <2>1, MsgKinds DEF PointersAreLive
  <2>5. Armed'
    BY <1>7 DEF Armed
  <2> QED
    BY <1>7, <2>2, <2>3, <2>4, <2>5
<1>8. CASE MsgTimerExpire
  <2>1. /\ QueueInOrder' /\ mpc = "idle" /\ UNCHANGED <<clientVars, client, mDevFd, polled, ppc>>
        /\ \A x : x # Expire => (In(x, msgs') <=> In(x, msgs))
    BY <1>8, <1>type, <1>inv, TakesFacts DEF MsgTimerExpire, Takes
  <2>2. timer = None
    BY <1>type, <2>1 DEF TypeOK
  <2>3. CASE top # None /\ pop /\ mpc' = "expire"
    BY ONLY <1>7, <2>1, <2>2, <2>3 DEF clientVars
  <2>4. CASE top = None /\ mpc' = "idle" /\ UNCHANGED <<heap, top, timer>>
    <3>1. heap' = {}
      BY <1>inv, <1>type, <2>4 DEF TopIsSoonest, IsTop, TypeOK
    <3>2. \A d \in Delegates : /\ In(Push(d), msgs') <=> In(Push(d), msgs)
                               /\ In(Remove(d), msgs') <=> In(Remove(d), msgs)
      BY <2>1, MsgKinds
    <3>3. RunningIsKept'
      BY <1>inv, <1>type, <2>1, <2>4, <3>2 DEF RunningIsKept, TypeOK
    <3>4. PointersAreLive'
      BY <1>inv, <2>1, <2>4, <3>1, <3>2 DEF PointersAreLive
    <3>5. TopIsSoonest'
      BY <1>inv, <2>1, <2>4, Frame
    <3>6. Armed'
      BY <3>1 DEF Armed
    <3> QED
      BY <2>1, <3>3, <3>4, <3>5, <3>6
  <2> QED
    BY <1>8, <2>3, <2>4 DEF MsgTimerExpire
<1>9. CASE ReadClient
  <2>1. /\ mpc = "expire" /\ client' = mClient[timer] /\ mpc' = "stop"
        /\ UNCHANGED <<alive, mTimer, mClient, mFutureTime, life, msgs, heap, top, timer>>
    BY <1>9 DEF ReadClient
  <2>2. RunningIsKept'
    BY <1>inv, <2>1 DEF RunningIsKept
  <2>3. Armed'
    BY <2>1 DEF Armed
  <2> QED
    BY <1>inv, <2>1, <2>2, <2>3, Frame
<1>10. CASE StopAndCallBack
  <2>1. /\ mpc = "stop" /\ mpc' = "pop"
        /\ UNCHANGED <<alive, mFutureTime, life, heap, top, mDevFd, polled, ppc>>
    BY <1>10 DEF StopAndCallBack
  <2>2. CASE client # None /\ mTimer[client] # None
    <3>1. client \in Clients /\ stop(client)
      BY <1>10, <1>type, <2>2 DEF StopAndCallBack, TypeOK
    <3>2. alive' \in {alive, alive \ {client}}
      BY <2>1
    <3>3. TimerInv
      BY <1>type, <1>inv DEF TimerInv
    <3> QED
      BY ONLY <2>1, <2>2, <3>1, <3>2, <3>3, StopKeeps
  <2>3. CASE ~(client # None /\ mTimer[client] # None)
    <3>1. UNCHANGED <<mClient, mTimer, msgs>>
      BY <1>10, <2>3 DEF StopAndCallBack
    <3>2. RunningIsKept'
      BY <1>inv, <1>type, <2>1, <2>3, <3>1 DEF RunningIsKept, TypeOK
    <3>3. Armed'
      BY <2>1 DEF Armed
    <3> QED
      BY <1>inv, <2>1, <3>1, <3>2, <3>3, Frame
  <2> QED
    BY <2>2, <2>3
<1>11. CASE StopDeadClient
  <2>1. /\ mpc = "stop" /\ client \notin alive /\ mpc' \in {"pop", "crashed"}
        /\ UNCHANGED <<alive, mTimer, mClient, mFutureTime, life, msgs, heap, top>>
    BY <1>11 DEF StopDeadClient
  <2>2. RunningIsKept'
    BY <1>inv, <2>1 DEF RunningIsKept
  <2>3. Armed'
    BY <2>1 DEF Armed
  <2> QED
    BY <1>inv, <2>1, <2>2, <2>3, Frame
<1>12. CASE PopNext
  <2>1. /\ mpc = "pop" /\ timer = None
        /\ UNCHANGED <<clientVars, msgs, client, mDevFd, ppc>>
    BY <1>12, <1>type DEF PopNext, TypeOK
  <2>2. CASE Due /\ pop /\ mpc' = "expire"
    <3>1. top # None
      BY <2>2 DEF Due
    <3> QED
      BY <1>7, <1>inv, <2>1, <2>2, <3>1, Frame
  <2>3. CASE updateSoonestTime(None, top) /\ UNCHANGED <<heap, top, timer>>
    <3>1. mpc' \in {"idle", "settime"}
      BY <2>3 DEF updateSoonestTime
    <3>2. heap # {} => top # None
      BY <1>inv, <1>type DEF TopIsSoonest, IsTop, TypeOK
    <3>3. Armed'
      BY <2>3, <3>2 DEF Armed, updateSoonestTime
    <3>4. RunningIsKept'
      BY <1>inv, <2>1, <2>3 DEF RunningIsKept
    <3> QED
      BY <1>inv, <2>1, <2>3, <3>1, <3>3, <3>4, Frame
  <2> QED
    BY <1>12, <2>2, <2>3 DEF PopNext
<1>13. CASE epoll_wait \/ Disarm \/ removePoll
  <2>1. UNCHANGED <<clientVars, msgs, heap, top, timer, client, mpc>>
    BY <1>13 DEF epoll_wait, Disarm, removePoll
  <2>2. ppc' # "wait"
    BY <1>13 DEF epoll_wait, Disarm, removePoll
  <2>3. Armed'
    BY <2>2 DEF Armed
  <2> QED
    BY ONLY <1>0, <2>1, <2>3
<1>14. CASE SendExpire
  <2>1. /\ QueueInOrder' /\ \A x : In(x, msgs') <=> In(x, msgs) \/ x = Expire
    BY <1>14, <1>type, <1>inv, AppendQueue, MsgKinds
       DEF SendExpire, QueueInOrder, TypeOK, TimerMsgs
  <2>2. UNCHANGED <<alive, mTimer, mClient, mFutureTime, life, heap, top, timer, client, mpc>>
    BY <1>14 DEF SendExpire
  <2>3. \A d \in Delegates : /\ In(Push(d), msgs') <=> In(Push(d), msgs)
                             /\ In(Remove(d), msgs') <=> In(Remove(d), msgs)
    BY <2>1, MsgKinds
  <2>4. RunningIsKept'
    BY <1>inv, <1>type, <2>2, <2>3 DEF RunningIsKept, TypeOK
  <2>5. PointersAreLive'
    BY <1>inv, <1>type, <2>2, <2>3 DEF PointersAreLive, TypeOK
  <2>6. Armed'
    BY <2>1 DEF Armed
  <2> QED
    BY <1>inv, <2>1, <2>2, <2>4, <2>5, <2>6, Frame
<1>15. CASE Tick \/ UNCHANGED vars
  <2>1. UNCHANGED <<clientVars, msgs, heap, top, timer, client, mpc>>
    BY <1>15 DEF Tick, vars
  <2>2. UNCHANGED <<mFutureTime, msgs, heap, top, mpc, ppc, polled, mDevFd>>
    BY <1>15 DEF Tick, vars
  <2>3. Armed'
    BY <1>inv, <2>2 DEF Armed
  <2> QED
    BY ONLY <1>0, <2>1, <2>3
<1> QED
  BY <1>type, <1>1, <1>2, <1>3, <1>4, <1>5, <1>6, <1>8, <1>9, <1>10, <1>11, <1>12, <1>13, <1>14,
     <1>15 DEF Next, ClientStep, MsgTaskStep, PollStep

LEMMA TimerInvariant == Spec => []TimerInv
<1>1. Init => TimerInv
  <2> SUFFICES ASSUME Init PROVE TimerInv
    OBVIOUS
  <2>1. TypeOK
    <3>1. now \in 1..MaxTime
      BY LocTimerAssumption DEF Init
    <3>2. /\ mTimer \in [Clients -> Delegates \cup {None}]
          /\ mClient \in [Delegates -> Clients \cup {None}]
          /\ mFutureTime \in [Delegates -> 0..MaxTime]
          /\ life \in [Delegates -> {"unborn", "live", "deleted"}]
      BY NoneIsNot DEF Init
    <3>3. msgs \in Seq([op : {"push", "remove"}, d : Delegates] \cup {Expire})
      BY DEF Init
    <3> QED
      BY <3>1, <3>2, <3>3, NoneIsNot DEF Init, TypeOK
  <2>2. TopIsSoonest /\ RunningIsKept /\ Armed
    BY DEF Init, TopIsSoonest, IsTop, RunningIsKept, Armed
  <2>3. PointersAreLive /\ QueueInOrder
    BY DEF Init, PointersAreLive, In, QueueInOrder, Distinct, PushFirst
  <2> QED
    BY <2>1, <2>2, <2>3 DEF TimerInv
<1> QED
  BY <1>1, TimerStep, PTL DEF Spec

-----------------------------------------------------------------------------
(***************************************************************************)
(* Every state of the timer service is of its types; of LocTimer::start    *)
(* and stop, the two threads and the clock.                                *)
(***************************************************************************)
THEOREM TimerTypes == Spec => []TypeOK
<1>1. TimerInv => TypeOK
  BY DEF TimerInv
<1> QED
  BY <1>1, TimerInvariant, PTL

(***************************************************************************)
(* No running timer is mislaid between the client, the MsgTask thread and  *)
(* its heap, and nothing points to a delegate that MsgTimerRemove deleted. *)
(***************************************************************************)
THEOREM TimersKept == Spec => []TimersAreKept
<1>1. TimerInv => TimersAreKept
  <2> SUFFICES ASSUME TimerInv PROVE TimersAreKept
    OBVIOUS
  <2>1. TypeOK /\ RunningIsKept /\ PointersAreLive /\ QueueInOrder
    BY DEF TimerInv
  <2>2. \A c \in Clients : mTimer[c] # None =>
          /\ life[mTimer[c]] = "live"
          /\ \/ InMsgs(Push(mTimer[c]))
             \/ mTimer[c] \in heap
             \/ timer = mTimer[c] /\ (mpc = "expire" \/ (mpc = "stop" /\ client = c))
    BY <2>1 DEF RunningIsKept, In, InMsgs
  <2>3. ASSUME NEW i \in 1..Len(msgs), msgs[i] # Expire
        PROVE  life[msgs[i].d] = "live"
    <3>1. msgs[i] \in TimerMsgs
      BY <2>1 DEF TypeOK, TimerMsgs
    <3>2. In(msgs[i], msgs)
      BY DEF In
    <3> QED
      BY <2>1, <2>3, <3>1, <3>2, MsgKinds DEF PointersAreLive
  <2>4. /\ \A d \in heap : life[d] = "live"
        /\ mpc = "expire" => life[timer] = "live"
    BY <2>1 DEF PointersAreLive
  <2>5. \A i, j \in 1..Len(msgs) : msgs[i] = msgs[j] /\ msgs[i] # Expire => i = j
    BY <2>1 DEF QueueInOrder, Distinct
  <2> QED
    BY <2>2, <2>3, <2>4, <2>5 DEF TimersAreKept
<1> QED
  BY <1>1, TimerInvariant, PTL

(***************************************************************************)
(* updateSoonestTime on the MsgTask thread and expire() on the polling     *)
(* thread leave the timerfd polled and armed for the soonest timer, in     *)
(* whatever order their system calls come.                                 *)
(***************************************************************************)
THEOREM TopIsArmed == Spec => []SoonestIsArmed
<1>1. TimerInv => SoonestIsArmed
  <2> SUFFICES ASSUME TimerInv, msgs = <<>>, mpc = "idle", ppc = "wait", heap # {}
               PROVE  polled /\ top \in heap /\ mDevFd = mFutureTime[top]
    BY DEF SoonestIsArmed
  <2>1. ~In(Expire, msgs)
    BY DEF In
  <2> QED
    BY <2>1 DEF TimerInv, Armed, TopIsSoonest, IsTop
<1> QED
  BY <1>1, TimerInvariant, PTL

-----------------------------------------------------------------------------
(* The heap.                                                               *)

Levels == Heap!Cardinality(Items)
Nodes(S) == [mData : Items, mSize : Int, mLeft : S, mRight : S]

-----------------------------------------------------------------------------
(* Induction on numbers and on trees.                                      *)

\* The operators of the library that LocHeap uses.
LEMMA SameInHeap == Levels = Cardinality(Items) /\ (Heap!IsFiniteSet(Items) <=> IsFiniteSet(Items))
<1>1. Heap!Cardinality(Items) = Cardinality(Items)
  BY DEF Heap!Cardinality, Cardinality
<1>2. Heap!IsFiniteSet(Items) <=> IsFiniteSet(Items)
  BY DEF Heap!IsFiniteSet, IsFiniteSet
<1> QED
  BY <1>1, <1>2 DEF Levels

LevelsAre(g, k) ==
  g = [n \in 0..k |-> g[n]]
  /\ \A n \in 0..k : g[n] = IF n = 0 THEN {Null} ELSE {Null} \cup Nodes(g[n - 1])

\* TreesOf is what its definition says.
LEMMA TreesOfIs ==
  ASSUME Levels \in Nat
  PROVE  LevelsAre(Heap!TreesOf, Levels)
<1> DEFINE T == {k \in Nat : \E g : LevelsAre(g, k)}
<1>1. 0 \in T
  <2> DEFINE g == [n \in 0..0 |-> {Null}]
  <2>1. g = [n \in 0..0 |-> g[n]]
    OBVIOUS
  <2>2. \A n \in 0..0 : n = 0 /\ g[n] = {Null}
    OBVIOUS
  <2> HIDE DEF g
  <2>3. LevelsAre(g, 0)
    BY <2>1, <2>2, Zenon DEF LevelsAre
  <2>4. \E h : LevelsAre(h, 0)
    BY <2>3
  <2> QED
    BY <2>4, Zenon
<1>2. ASSUME NEW k \in T PROVE k + 1 \in T
  <2>1. k \in Nat
    OBVIOUS
  <2>2. PICK g : LevelsAre(g, k)
    BY Zenon
  <2> HIDE DEF T
  <2> DEFINE h == [n \in 0..(k + 1) |-> IF n <= k THEN g[n] ELSE {Null} \cup Nodes(g[k])]
  <2>3. h = [n \in 0..(k + 1) |-> h[n]]
    OBVIOUS
  <2>4. \A n \in 0..k : g[n] = IF n = 0 THEN {Null} ELSE {Null} \cup Nodes(g[n - 1])
    BY <2>2, Zenon DEF LevelsAre
  <2>5. ASSUME NEW n \in 0..(k + 1)
        PROVE  h[n] = IF n = 0 THEN {Null} ELSE {Null} \cup Nodes(h[n - 1])
    <3>1. CASE n \in 0..k
      <4>1. h[n] = g[n] /\ (n # 0 => h[n - 1] = g[n - 1])
        BY <2>1, <3>1
      <4> HIDE DEF h
      <4> QED
        BY <2>4, <3>1, <4>1, Zenon
    <3>2. CASE n \notin 0..k
      <4>1. n = k + 1 /\ n # 0 /\ n - 1 = k /\ ~(n <= k)
        BY <2>1, <3>2
      <4>2. h[n] = {Null} \cup Nodes(g[k])
        BY <4>1, Zenon
      <4>3. h[k] = g[k]
        BY <2>1
      <4> HIDE DEF h
      <4> QED
        BY <4>1, <4>2, <4>3, Zenon
    <3> QED
      BY <3>1, <3>2
  <2> HIDE DEF h
  <2>6. LevelsAre(h, k + 1)
    BY <2>3, <2>5, Zenon DEF LevelsAre
  <2>7. k + 1 \in Nat /\ \E x : LevelsAre(x, k + 1)
    BY <2>1, <2>6
  <2> QED
    BY <2>7, Zenon DEF T
<1>3. T = Nat
  <2>1. T \in SUBSET Nat
    OBVIOUS
  <2> HIDE DEF T
  <2> QED
    BY <1>1, <1>2, <2>1, SetInduction
<1>4. PICK g : LevelsAre(g, Levels)
  BY <1>3, Zenon
<1> DEFINE up(f) == [n \in 0..Levels |-> IF n = 0 THEN {Null} ELSE {Null} \cup Nodes(f[n - 1])]
<1>5. g = up(g)
  BY <1>4, Zenon DEF LevelsAre
<1>6. Heap!TreesOf = CHOOSE f : f = up(f)
  BY Zenon DEF Heap!TreesOf, Levels, Nodes
<1>7. Heap!TreesOf = up(Heap!TreesOf)
  <2> HIDE DEF up
  <2> QED
    BY <1>5, <1>6, Zenon
<1> HIDE DEF T
<1>8. Heap!TreesOf = [n \in 0..Levels |-> Heap!TreesOf[n]]
  BY <1>7
<1>9. ASSUME NEW n \in 0..Levels
      PROVE  Heap!TreesOf[n] = IF n = 0 THEN {Null} ELSE {Null} \cup Nodes(Heap!TreesOf[n - 1])
  BY <1>7
<1> QED
  BY <1>8, <1>9, Zenon DEF LevelsAre

\* A tree has at most as many levels as one of more levels may have.
LEMMA Growing ==
  ASSUME Levels \in Nat
  PROVE  \A n \in 0..Levels : \A m \in 0..n : Heap!TreesOf[m] \subseteq Heap!TreesOf[n]
<1>1. \A n \in 0..Levels : Heap!TreesOf[n] =
           IF n = 0 THEN {Null} ELSE {Null} \cup Nodes(Heap!TreesOf[n - 1])
  BY TreesOfIs, Zenon DEF LevelsAre
<1> DEFINE T == {n \in 0..Levels : n < Levels => Heap!TreesOf[n] \subseteq Heap!TreesOf[n + 1]}
           U == {n \in 0..Levels : \A m \in 0..n : Heap!TreesOf[m] \subseteq Heap!TreesOf[n]}
<1>2. \A n \in 0..Levels : n < Levels => Heap!TreesOf[n + 1] = {Null} \cup Nodes(Heap!TreesOf[n])
  <2>1. ASSUME NEW n \in 0..Levels, n < Levels
        PROVE Heap!TreesOf[n + 1] = {Null} \cup Nodes(Heap!TreesOf[n])
    <3>1. n + 1 \in 0..Levels /\ n + 1 # 0 /\ (n + 1) - 1 = n
      BY <2>1
    <3> QED
      BY <1>1, <3>1, Zenon
  <2> QED
    BY <2>1
<1>3. 0..Levels \subseteq T
  <2>1. 0 \in T
    <3>1. 0 \in 0..Levels
      OBVIOUS
    <3>2. Heap!TreesOf[0] = {Null}
      BY <1>1, <3>1, Zenon
    <3> QED
      BY <1>2, <3>1, <3>2
  <2>2. ASSUME NEW n \in 0..Levels, n < Levels, n \in T PROVE n + 1 \in T
    <3>1. n + 1 \in 0..Levels
      BY <2>2
    <3>2. Heap!TreesOf[n] \subseteq Heap!TreesOf[n + 1]
      BY <2>2
    <3>3. Nodes(Heap!TreesOf[n]) \subseteq Nodes(Heap!TreesOf[n + 1])
      BY <3>2 DEF Nodes
    <3>4. n + 1 < Levels => Heap!TreesOf[n + 1] \subseteq Heap!TreesOf[(n + 1) + 1]
      <4>1. Heap!TreesOf[n + 1] = {Null} \cup Nodes(Heap!TreesOf[n])
        BY <1>2, <2>2, Zenon
      <4>2. n + 1 < Levels => Heap!TreesOf[(n + 1) + 1] = {Null} \cup Nodes(Heap!TreesOf[n + 1])
        BY <1>2, <3>1, Zenon
      <4> QED
        BY <3>3, <4>1, <4>2, Zenon
    <3> QED
      BY <3>1, <3>4, Zenon
  <2> HIDE DEF T
  <2> QED
    BY <2>1, <2>2, BoundedInduction
<1>4. 0..Levels \subseteq U
  <2>1. 0 \in U
    OBVIOUS
  <2>2. ASSUME NEW n \in 0..Levels, n < Levels, n \in U PROVE n + 1 \in U
    <3>1. n + 1 \in 0..Levels
      BY <2>2
    <3>2. Heap!TreesOf[n] \subseteq Heap!TreesOf[n + 1]
      BY <1>3, <2>2
    <3>3. \A m \in 0..n : Heap!TreesOf[m] \subseteq Heap!TreesOf[n]
      BY <2>2
    <3>4. ASSUME NEW m \in 0..(n + 1) PROVE Heap!TreesOf[m] \subseteq Heap!TreesOf[n + 1]
      <4>1. m = n + 1 \/ m \in 0..n
        OBVIOUS
      <4> QED
        BY <3>2, <3>3, <4>1, Zenon
    <3> QED
      BY <3>1, <3>4, Zenon
  <2> HIDE DEF U
  <2> QED
    BY <2>1, <2>2, BoundedInduction
<1> QED
  BY <1>4, Zenon

\* What there is to say about the trees of n levels.
LEMMA TreeFacts ==
  ASSUME Heap!HeapAssumption
  PROVE  /\ Levels \in Nat
         /\ Heap!TreesOf[0] = {Null} /\ \A n \in 0..Levels : Null \in Heap!TreesOf[n]
         /\ \A n \in 0..Levels : Heap!TreesOf[n] \subseteq Heap!Trees
         /\ \A n \in 0..Levels : n < Levels
               => Heap!TreesOf[n + 1] = {Null} \cup Nodes(Heap!TreesOf[n])
         /\ Null \notin Nodes(Heap!Trees)
<1>1. Levels \in Nat
  BY SameInHeap, FS_CardinalityType DEF Heap!HeapAssumption
<1>2. \A n \in 0..Levels : Heap!TreesOf[n] =
           IF n = 0 THEN {Null} ELSE {Null} \cup Nodes(Heap!TreesOf[n - 1])
  BY <1>1, TreesOfIs, Zenon DEF LevelsAre
<1>3. Heap!TreesOf[0] = {Null} /\ \A n \in 0..Levels : Null \in Heap!TreesOf[n]
  <2>1. 0 \in 0..Levels
    BY <1>1
  <2> QED
    BY <1>2, <2>1, Zenon
<1>4. ASSUME NEW n \in 0..Levels PROVE Heap!TreesOf[n] \subseteq Heap!Trees
  <2>1. Levels \in 0..Levels
    BY <1>1
  <2> QED
    BY <1>1, <2>1, Growing DEF Heap!Trees, Levels
<1>5. ASSUME NEW n \in 0..Levels, n < Levels
      PROVE Heap!TreesOf[n + 1] = {Null} \cup Nodes(Heap!TreesOf[n])
  <2>1. n + 1 \in 0..Levels /\ n + 1 # 0 /\ (n + 1) - 1 = n
    BY <1>1, <1>5
  <2> QED
    BY <1>2, <2>1, Zenon
<1>6. Null \notin Nodes(Heap!Trees)
  BY DEF Heap!HeapAssumption, Nodes
<1> QED
  BY <1>1, <1>3, <1>4, <1>5, <1>6

\* The parts of a node.
LEMMA Parts ==
  ASSUME Heap!HeapAssumption, NEW n \in 0..Levels, NEW t \in Heap!TreesOf[n], t # Null
  PROVE  /\ n - 1 \in 0..Levels /\ n > 0
         /\ t.mLeft \in Heap!TreesOf[n - 1] /\ t.mRight \in Heap!TreesOf[n - 1]
         /\ t.mData \in Items /\ t.mSize \in Int
         /\ t = [mData |-> t.mData, mSize |-> t.mSize, mLeft |-> t.mLeft, mRight |-> t.mRight]
<1>1. n > 0 /\ n - 1 \in 0..Levels /\ n - 1 < Levels /\ (n - 1) + 1 = n
  <2>1. n # 0
    BY TreeFacts
  <2> QED
    BY <2>1, TreeFacts
<1>2. t \in Nodes(Heap!TreesOf[n - 1])
  <2>1. Heap!TreesOf[(n - 1) + 1] = {Null} \cup Nodes(Heap!TreesOf[n - 1])
    BY <1>1, TreeFacts, Zenon
  <2>2. t \in Heap!TreesOf[(n - 1) + 1]
    BY <1>1, Zenon
  <2> QED
    BY <2>1, <2>2, Zenon
<1> QED
  BY <1>1, <1>2 DEF Nodes

LEMMA TreeParts ==
  ASSUME Heap!HeapAssumption, NEW t \in Heap!Trees, t # Null
  PROVE  /\ t.mLeft \in Heap!Trees /\ t.mRight \in Heap!Trees
         /\ t.mData \in Items /\ t.mSize \in Int
         /\ t = [mData |-> t.mData, mSize |-> t.mSize, mLeft |-> t.mLeft, mRight |-> t.mRight]
<1>1. Levels \in 0..Levels /\ t \in Heap!TreesOf[Levels]
  BY TreeFacts DEF Heap!Trees, Levels
<1>2. /\ Levels - 1 \in 0..Levels
      /\ t.mLeft \in Heap!TreesOf[Levels - 1] /\ t.mRight \in Heap!TreesOf[Levels - 1]
      /\ t.mData \in Items /\ t.mSize \in Int
      /\ t = [mData |-> t.mData, mSize |-> t.mSize, mLeft |-> t.mLeft, mRight |-> t.mRight]
  BY <1>1, Parts
<1>3. Heap!TreesOf[Levels - 1] \subseteq Heap!Trees
  BY <1>2, TreeFacts, Zenon
<1> QED
  BY <1>2, <1>3

\* Induction on the structure of a tree.
LEMMA TreeInduction ==
  ASSUME Heap!HeapAssumption, NEW P, Null \in P,
         \A t \in Heap!Trees : t # Null /\ t.mLeft \in P /\ t.mRight \in P => t \in P
  PROVE  Heap!Trees \subseteq P
<1> DEFINE T == {n \in 0..Levels : Heap!TreesOf[n] \subseteq P}
<1>1. 0 \in T
  BY TreeFacts
<1>2. ASSUME NEW n \in 0..Levels, n < Levels, n \in T PROVE n + 1 \in T
  <2>1. n + 1 \in 0..Levels /\ (n + 1) - 1 = n
    BY <1>2, TreeFacts
  <2>2. ASSUME NEW t \in Heap!TreesOf[n + 1] PROVE t \in P
    <3>1. CASE t = Null
      BY <3>1
    <3>2. CASE t # Null
      <4>1. t.mLeft \in Heap!TreesOf[n] /\ t.mRight \in Heap!TreesOf[n]
        <5>1. t.mLeft \in Heap!TreesOf[(n + 1) - 1] /\ t.mRight \in Heap!TreesOf[(n + 1) - 1]
          BY <2>1, <3>2, Parts
        <5> QED
          BY <2>1, <5>1
      <4>2. t \in Heap!Trees
        BY <2>1, TreeFacts
      <4>3. t.mLeft \in P /\ t.mRight \in P
        BY <1>2, <4>1
      <4> QED
        BY <3>2, <4>2, <4>3
    <3> QED
      BY <3>1, <3>2
  <2> QED
    BY <2>1, <2>2
<1>3. 0..Levels \subseteq T
  <2>1. Levels \in Nat
    BY TreeFacts
  <2> HIDE DEF T
  <2> QED
    BY <1>1, <1>2, <2>1, BoundedInduction
<1>4. Levels \in T
  BY <1>3, TreeFacts
<1> QED
  BY <1>4 DEF Heap!Trees, Levels

-----------------------------------------------------------------------------
(* The recursive functions are what their definitions say: each takes its  *)
(* value on NULL, and on a node one that follows from those on the two     *)
(* subtrees.                                                               *)

OnNull(fcn) == IF fcn = "subtrees" THEN {}
               ELSE IF fcn = "push" THEN [d \in Items |-> Heap!Node(d)]
               ELSE Null

SubtreesOn(t, l, r) == {t} \cup l \cup r

PushOn(t, l, r) ==
  [d \in Items |->
     IF Heap!goesLeft(t)
     THEN [t EXCEPT !.mData = Heap!higher(d, @), !.mSize = @ + 1,
                    !.mLeft = l[Heap!lower(d, t.mData)]]
     ELSE [t EXCEPT !.mData = Heap!higher(d, @), !.mSize = @ + 1,
                    !.mRight = r[Heap!lower(d, t.mData)]]]

PopOn(t, l, r) ==
  IF t.mLeft = Null /\ t.mRight = Null THEN Null
  ELSE IF Heap!takesLeft(t)
       THEN [t EXCEPT !.mData = t.mLeft.mData, !.mSize = @ - 1, !.mLeft = l]
       ELSE [t EXCEPT !.mData = t.mRight.mData, !.mSize = @ - 1, !.mRight = r]

RemoveOn(d, t, l, r) ==
  IF t.mData = d THEN Heap!popNode[t]
  ELSE IF ~Heap!mayHold(t, d) THEN t
  ELSE IF l # t.mLeft THEN [t EXCEPT !.mLeft = l, !.mSize = @ - 1]
  ELSE IF r # t.mRight THEN [t EXCEPT !.mRight = r, !.mSize = @ - 1]
  ELSE t

OnNode(fcn, d, t, l, r) == IF fcn = "subtrees" THEN SubtreesOn(t, l, r)
                           ELSE IF fcn = "push" THEN PushOn(t, l, r)
                           ELSE IF fcn = "pop" THEN PopOn(t, l, r)
                           ELSE RemoveOn(d, t, l, r)

Recurs(f, S, fcn, d) ==
  f = [t \in S |-> f[t]]
  /\ \A t \in S : f[t] = IF t = Null THEN OnNull(fcn)
                        ELSE OnNode(fcn, d, t, f[t.mLeft], f[t.mRight])

LEMMA TreeRecursion ==
  ASSUME Heap!HeapAssumption, NEW fcn, NEW d
  PROVE  \E f : Recurs(f, Heap!Trees, fcn, d)
<1> DEFINE T == {n \in 0..Levels : \E f : Recurs(f, Heap!TreesOf[n], fcn, d)}
<1>1. 0 \in T
  <2> DEFINE f == [t \in Heap!TreesOf[0] |-> OnNull(fcn)]
  <2>1. f = [t \in Heap!TreesOf[0] |-> f[t]]
    OBVIOUS
  <2>2. \A t \in Heap!TreesOf[0] : t = Null /\ f[t] = OnNull(fcn)
    BY TreeFacts
  <2> HIDE DEF f
  <2>3. Recurs(f, Heap!TreesOf[0], fcn, d)
    BY <2>1, <2>2, Zenon DEF Recurs
  <2>4. 0 \in 0..Levels
    BY TreeFacts
  <2> QED
    BY <2>3, <2>4
<1>2. ASSUME NEW n \in 0..Levels, n < Levels, n \in T PROVE n + 1 \in T
  <2>1. n + 1 \in 0..Levels /\ (n + 1) - 1 = n /\ n \in 0..(n + 1)
    BY <1>2, TreeFacts
  <2>2. PICK f : Recurs(f, Heap!TreesOf[n], fcn, d)
    BY <1>2, Zenon
  <2> HIDE DEF T
  <2> DEFINE g == [t \in Heap!TreesOf[n + 1] |->
                     IF t = Null THEN OnNull(fcn)
                     ELSE OnNode(fcn, d, t, f[t.mLeft], f[t.mRight])]
  <2>3. g = [t \in Heap!TreesOf[n + 1] |-> g[t]]
    OBVIOUS
  <2>4. \A t \in Heap!TreesOf[n + 1] : g[t] = IF t = Null THEN OnNull(fcn)
                                        ELSE OnNode(fcn, d, t, f[t.mLeft], f[t.mRight])
    BY Zenon
  <2>5. \A t \in Heap!TreesOf[n] : f[t] = IF t = Null THEN OnNull(fcn)
                                    ELSE OnNode(fcn, d, t, f[t.mLeft], f[t.mRight])
    BY <2>2, Zenon DEF Recurs
  <2> HIDE DEF g
  <2>6. \A t \in Heap!TreesOf[n] : g[t] = f[t]
    <3>1. Heap!TreesOf[n] \subseteq Heap!TreesOf[n + 1]
      BY <2>1, TreeFacts, Growing, Zenon
    <3> QED
      BY <2>4, <2>5, <3>1, Zenon
  <2>7. ASSUME NEW t \in Heap!TreesOf[n + 1]
        PROVE  g[t] = IF t = Null THEN OnNull(fcn)
                      ELSE OnNode(fcn, d, t, g[t.mLeft], g[t.mRight])
    <3>1. CASE t = Null
      BY <2>4, <3>1, Zenon
    <3>2. CASE t # Null
      <4>1. t.mLeft \in Heap!TreesOf[n] /\ t.mRight \in Heap!TreesOf[n]
        <5>1. t.mLeft \in Heap!TreesOf[(n + 1) - 1] /\ t.mRight \in Heap!TreesOf[(n + 1) - 1]
          BY <2>1, <3>2, Parts
        <5> QED
          BY <2>1, <5>1
      <4>2. g[t.mLeft] = f[t.mLeft] /\ g[t.mRight] = f[t.mRight]
        BY <2>6, <4>1, Zenon
      <4> QED
        BY <2>4, <3>2, <4>2, Zenon
    <3> QED
      BY <3>1, <3>2
  <2>8. Recurs(g, Heap!TreesOf[n + 1], fcn, d)
    BY <2>3, <2>7, Zenon DEF Recurs
  <2> QED
    BY <2>1, <2>8, Zenon DEF T
<1>3. 0..Levels \subseteq T
  <2>1. Levels \in Nat
    BY TreeFacts
  <2> HIDE DEF T
  <2> QED
    BY <1>1, <1>2, <2>1, BoundedInduction
<1>4. Levels \in T
  BY <1>3, TreeFacts
<1> QED
  BY <1>4, Zenon DEF Heap!Trees, Levels

LEMMA SubtreesIs ==
  ASSUME Heap!HeapAssumption
  PROVE  /\ Heap!Subtrees[Null] = {}
         /\ \A t \in Heap!Trees : t # Null
               => Heap!Subtrees[t] = {t} \cup Heap!Subtrees[t.mLeft] \cup Heap!Subtrees[t.mRight]
<1> DEFINE body(f) ==
             [t \in Heap!Trees |->
                IF t = Null THEN {} ELSE {t} \cup f[t.mLeft] \cup f[t.mRight]]
<1>1. PICK f : Recurs(f, Heap!Trees, "subtrees", Null)
  BY TreeRecursion, Zenon
<1>2. f = [t \in Heap!Trees |-> f[t]]
  BY <1>1, Zenon DEF Recurs
<1>3. \A t \in Heap!Trees : f[t] = IF t = Null THEN {} ELSE {t} \cup f[t.mLeft] \cup f[t.mRight]
  BY <1>1, Zenon DEF Recurs, OnNull, OnNode, SubtreesOn
<1>4. f = body(f)
  BY <1>2, <1>3, Zenon
<1>5. Heap!Subtrees = CHOOSE g : g = body(g)
  BY Zenon DEF Heap!Subtrees
<1>6. Heap!Subtrees = body(Heap!Subtrees)
  <2> HIDE DEF body
  <2> QED
    BY <1>4, <1>5, Zenon
<1>7. \A t \in Heap!Trees : Heap!Subtrees[t] =
           IF t = Null THEN {} ELSE {t} \cup Heap!Subtrees[t.mLeft] \cup Heap!Subtrees[t.mRight]
  BY <1>6
<1>8. Null \in Heap!Trees
  BY TreeFacts DEF Heap!Trees, Levels
<1> QED
  BY <1>7, <1>8, Zenon

LEMMA PushIs ==
  ASSUME Heap!HeapAssumption
  PROVE  /\ \A d \in Items : Heap!pushNode[Null][d] = Heap!Node(d)
         /\ \A t \in Heap!Trees : t # Null
               => Heap!pushNode[t] = PushOn(t, Heap!pushNode[t.mLeft], Heap!pushNode[t.mRight])
<1> DEFINE body(f) ==
             [t \in Heap!Trees |->
                [d \in Items |->
                   IF t = Null THEN Heap!Node(d)
                   ELSE IF Heap!goesLeft(t)
                        THEN [t EXCEPT !.mData = Heap!higher(d, @), !.mSize = @ + 1,
                                       !.mLeft = f[@][Heap!lower(d, t.mData)]]
                        ELSE [t EXCEPT !.mData = Heap!higher(d, @), !.mSize = @ + 1,
                                       !.mRight = f[@][Heap!lower(d, t.mData)]]]]
<1>1. PICK f : Recurs(f, Heap!Trees, "push", Null)
  BY TreeRecursion, Zenon
<1>2. f = [t \in Heap!Trees |-> f[t]]
  BY <1>1, Zenon DEF Recurs
<1>3. \A t \in Heap!Trees : f[t] =
           IF t = Null THEN OnNull("push") ELSE PushOn(t, f[t.mLeft], f[t.mRight])
  BY <1>1, Zenon DEF Recurs, OnNode
<1>4. ASSUME NEW t \in Heap!Trees, NEW g
      PROVE  body(g)[t] = IF t = Null THEN OnNull("push") ELSE PushOn(t, g[t.mLeft], g[t.mRight])
  <2>1. CASE t = Null
    BY <2>1, Zenon DEF OnNull
  <2>2. CASE t # Null
    BY <2>2, Zenon DEF PushOn
  <2> QED
    BY <2>1, <2>2
<1>5. f = body(f)
  <2>1. body(f) = [t \in Heap!Trees |-> body(f)[t]]
    OBVIOUS
  <2>2. \A t \in Heap!Trees : body(f)[t] = f[t]
    <3> HIDE DEF body
    <3> QED
      BY <1>3, <1>4, Zenon
  <2> HIDE DEF body
  <2> QED
    BY <1>2, <2>1, <2>2, Zenon
<1>6. Heap!pushNode = CHOOSE g : g = body(g)
  BY Zenon DEF Heap!pushNode
<1>7. Heap!pushNode = body(Heap!pushNode)
  <2> HIDE DEF body
  <2> QED
    BY <1>5, <1>6, Zenon
<1>8. Null \in Heap!Trees
  BY TreeFacts DEF Heap!Trees, Levels
<1>9. \A t \in Heap!Trees : Heap!pushNode[t] = IF t = Null THEN OnNull("push")
                                    ELSE PushOn(t, Heap!pushNode[t.mLeft], Heap!pushNode[t.mRight])
  <2> HIDE DEF body
  <2> QED
    BY <1>4, <1>7, Zenon
<1>10. ASSUME NEW d \in Items PROVE Heap!pushNode[Null][d] = Heap!Node(d)
  <2>1. Heap!pushNode[Null] = [e \in Items |-> Heap!Node(e)]
    BY <1>8, <1>9, Zenon DEF OnNull
  <2> QED
    BY <2>1, Zenon
<1> QED
  BY <1>9, <1>10, Zenon

LEMMA PopIs ==
  ASSUME Heap!HeapAssumption
  PROVE  /\ Heap!popNode[Null] = Null
         /\ \A t \in Heap!Trees : t # Null
               => Heap!popNode[t] = PopOn(t, Heap!popNode[t.mLeft], Heap!popNode[t.mRight])
<1> DEFINE body(f) ==
             [t \in Heap!Trees |->
                IF t = Null \/ (t.mLeft = Null /\ t.mRight = Null) THEN Null
                ELSE IF Heap!takesLeft(t)
                     THEN [t EXCEPT !.mData = t.mLeft.mData, !.mSize = @ - 1, !.mLeft = f[@]]
                     ELSE [t EXCEPT !.mData = t.mRight.mData, !.mSize = @ - 1, !.mRight = f[@]]]
<1>1. PICK f : Recurs(f, Heap!Trees, "pop", Null)
  BY TreeRecursion, Zenon
<1>2. f = [t \in Heap!Trees |-> f[t]]
  BY <1>1, Zenon DEF Recurs
<1>3. \A t \in Heap!Trees : f[t] = IF t = Null THEN Null ELSE PopOn(t, f[t.mLeft], f[t.mRight])
  BY <1>1, Zenon DEF Recurs, OnNull, OnNode
<1>4. ASSUME NEW t \in Heap!Trees, NEW g
      PROVE  body(g)[t] = IF t = Null THEN Null ELSE PopOn(t, g[t.mLeft], g[t.mRight])
  <2>1. CASE t = Null
    BY <2>1, Zenon
  <2>2. CASE t # Null
    BY <2>2, Zenon DEF PopOn
  <2> QED
    BY <2>1, <2>2
<1>5. f = body(f)
  <2>1. body(f) = [t \in Heap!Trees |-> body(f)[t]]
    OBVIOUS
  <2>2. \A t \in Heap!Trees : body(f)[t] = f[t]
    <3> HIDE DEF body
    <3> QED
      BY <1>3, <1>4, Zenon
  <2> HIDE DEF body
  <2> QED
    BY <1>2, <2>1, <2>2, Zenon
<1>6. Heap!popNode = CHOOSE g : g = body(g)
  BY Zenon DEF Heap!popNode
<1>7. Heap!popNode = body(Heap!popNode)
  <2> HIDE DEF body
  <2> QED
    BY <1>5, <1>6, Zenon
<1>8. Null \in Heap!Trees
  BY TreeFacts DEF Heap!Trees, Levels
<1>9. \A t \in Heap!Trees : Heap!popNode[t] = IF t = Null THEN Null
                                   ELSE PopOn(t, Heap!popNode[t.mLeft], Heap!popNode[t.mRight])
  <2> HIDE DEF body
  <2> QED
    BY <1>4, <1>7, Zenon
<1> QED
  BY <1>8, <1>9, Zenon

LEMMA RemoveIs ==
  ASSUME Heap!HeapAssumption, NEW d, NEW R, R = Heap!removeNode(d)
  PROVE  /\ R[Null] = Null
         /\ \A t \in Heap!Trees : t # Null => R[t] = RemoveOn(d, t, R[t.mLeft], R[t.mRight])
<1> DEFINE body(f) ==
             [t \in Heap!Trees |->
                IF t = Null THEN Null
                ELSE IF t.mData = d THEN Heap!popNode[t]
                ELSE IF ~Heap!mayHold(t, d) THEN t
                ELSE IF f[t.mLeft] # t.mLeft
                THEN [t EXCEPT !.mLeft = f[@], !.mSize = @ - 1]
                ELSE IF f[t.mRight] # t.mRight
                THEN [t EXCEPT !.mRight = f[@], !.mSize = @ - 1]
                ELSE t]
<1>1. PICK f : Recurs(f, Heap!Trees, "remove", d)
  BY TreeRecursion, Zenon
<1>2. f = [t \in Heap!Trees |-> f[t]]
  BY <1>1, Zenon DEF Recurs
<1>3. \A t \in Heap!Trees : f[t] =
           IF t = Null THEN Null ELSE RemoveOn(d, t, f[t.mLeft], f[t.mRight])
  BY <1>1, Zenon DEF Recurs, OnNull, OnNode
<1>4. ASSUME NEW t \in Heap!Trees, NEW g
      PROVE  body(g)[t] = IF t = Null THEN Null ELSE RemoveOn(d, t, g[t.mLeft], g[t.mRight])
  <2>1. CASE t = Null
    BY <2>1, Zenon
  <2>2. CASE t # Null
    BY <2>2, Zenon DEF RemoveOn
  <2> QED
    BY <2>1, <2>2
<1>5. f = body(f)
  <2>1. body(f) = [t \in Heap!Trees |-> body(f)[t]]
    OBVIOUS
  <2>2. \A t \in Heap!Trees : body(f)[t] = f[t]
    <3> HIDE DEF body
    <3> QED
      BY <1>3, <1>4, Zenon
  <2> HIDE DEF body
  <2> QED
    BY <1>2, <2>1, <2>2, Zenon
<1>6. R = CHOOSE g : g = body(g)
  BY Zenon DEF Heap!removeNode
<1>7. R = body(R)
  <2> HIDE DEF body
  <2> QED
    BY <1>5, <1>6, Zenon
<1>8. Null \in Heap!Trees
  BY TreeFacts DEF Heap!Trees, Levels
<1>9. \A t \in Heap!Trees : R[t] =
           IF t = Null THEN Null ELSE RemoveOn(d, t, R[t.mLeft], R[t.mRight])
  <2> HIDE DEF body
  <2> QED
    BY <1>4, <1>7, Zenon
<1> QED
  BY <1>8, <1>9, Zenon

-----------------------------------------------------------------------------
(* Trees in order.                                                         *)

\* Nothing is twice in the tree under a node.
Apart(t) == /\ t.mData \notin Heap!DataOf(t.mLeft) /\ t.mData \notin Heap!DataOf(t.mRight)
            /\ Heap!DataOf(t.mLeft) \cap Heap!DataOf(t.mRight) = {}

InOrder(t) == \A s \in Heap!Subtrees[t] : Heap!checkNodes(s) /\ Apart(s)

LEMMA DataIs ==
  ASSUME Heap!HeapAssumption
  PROVE  /\ Heap!DataOf(Null) = {}
         /\ \A t \in Heap!Trees : t # Null
               => Heap!DataOf(t) = {t.mData} \cup Heap!DataOf(t.mLeft) \cup Heap!DataOf(t.mRight)
<1>1. Heap!DataOf(Null) = {}
  BY SubtreesIs DEF Heap!DataOf
<1>2. ASSUME NEW t \in Heap!Trees, t # Null
      PROVE  Heap!DataOf(t) = {t.mData} \cup Heap!DataOf(t.mLeft) \cup Heap!DataOf(t.mRight)
  <2>1. Heap!Subtrees[t] = {t} \cup Heap!Subtrees[t.mLeft] \cup Heap!Subtrees[t.mRight]
    BY <1>2, SubtreesIs
  <2> QED
    BY <2>1 DEF Heap!DataOf
<1> QED
  BY <1>1, <1>2

LEMMA OrderIs ==
  ASSUME Heap!HeapAssumption
  PROVE  /\ InOrder(Null)
         /\ \A t \in Heap!Trees : t # Null =>
              (InOrder(t) <=> Heap!checkNodes(t) /\ Apart(t)
                                 /\ InOrder(t.mLeft) /\ InOrder(t.mRight))
<1>1. InOrder(Null)
  BY SubtreesIs, Zenon DEF InOrder
<1>2. ASSUME NEW t \in Heap!Trees, t # Null
      PROVE  InOrder(t) <=> Heap!checkNodes(t) /\ Apart(t) /\ InOrder(t.mLeft) /\ InOrder(t.mRight)
  <2>1. Heap!Subtrees[t] = {t} \cup Heap!Subtrees[t.mLeft] \cup Heap!Subtrees[t.mRight]
    BY <1>2, SubtreesIs
  <2> QED
    BY <2>1, Zenon DEF InOrder
<1> QED
  BY <1>1, <1>2

\* The objects of a tree in order are as many as its top counts, and it has no
\* more levels.
LEMMA SizeIs ==
  ASSUME Heap!HeapAssumption, NEW t \in Heap!Trees, InOrder(t)
  PROVE  /\ Heap!DataOf(t) \subseteq Items
         /\ Heap!SizeOf(t) = Cardinality(Heap!DataOf(t)) /\ Heap!SizeOf(t) \in 0..Levels
         /\ t \in Heap!TreesOf[Heap!SizeOf(t)]
<1> DEFINE Good(s) == /\ Heap!DataOf(s) \subseteq Items
                      /\ Heap!SizeOf(s) = Cardinality(Heap!DataOf(s))
                      /\ Heap!SizeOf(s) \in 0..Levels
                      /\ s \in Heap!TreesOf[Heap!SizeOf(s)]
           P == {s \in Heap!Trees : InOrder(s) => Good(s)}
<1>1. Null \in P
  <2>1. Heap!SizeOf(Null) = 0 /\ Heap!DataOf(Null) = {} /\ Cardinality({}) = 0
    BY DataIs, FS_EmptySet DEF Heap!SizeOf
  <2>2. Null \in Heap!Trees /\ Null \in Heap!TreesOf[0] /\ 0 \in 0..Levels
    BY TreeFacts DEF Heap!Trees, Levels
  <2> QED
    BY <2>1, <2>2
<1>2. ASSUME NEW s \in Heap!Trees, s # Null, s.mLeft \in P, s.mRight \in P, InOrder(s) PROVE Good(s)
  <2> DEFINE l == s.mLeft
             r == s.mRight
  <2>1. Heap!checkNodes(s) /\ Apart(s) /\ InOrder(l) /\ InOrder(r)
    BY <1>2, OrderIs
  <2>2. Good(l) /\ Good(r)
    BY <1>2, <2>1
  <2>3. s.mData \in Items /\ l \in Heap!Trees /\ r \in Heap!Trees
    BY <1>2, TreeParts
  <2>4. Heap!DataOf(s) = {s.mData} \cup Heap!DataOf(l) \cup Heap!DataOf(r)
    BY <1>2, DataIs
  <2> HIDE DEF P
  <2>5. IsFiniteSet(Items) /\ Levels \in Nat
    BY TreeFacts, SameInHeap DEF Heap!HeapAssumption
  <2>6. IsFiniteSet(Heap!DataOf(l)) /\ IsFiniteSet(Heap!DataOf(r))
    BY <2>2, <2>5, FS_Subset
  <2>7. /\ IsFiniteSet(Heap!DataOf(l) \cup Heap!DataOf(r))
        /\ Cardinality(Heap!DataOf(l) \cup Heap!DataOf(r)) = Heap!SizeOf(l) + Heap!SizeOf(r)
    <3>1. /\ Cardinality(Heap!DataOf(l) \cup Heap!DataOf(r)) =
                Cardinality(Heap!DataOf(l)) + Cardinality(Heap!DataOf(r))
                  - Cardinality(Heap!DataOf(l) \cap Heap!DataOf(r))
          /\ IsFiniteSet(Heap!DataOf(l) \cup Heap!DataOf(r))
      BY <2>6, FS_Union
    <3>2. Cardinality(Heap!DataOf(l) \cap Heap!DataOf(r)) = 0
      BY <2>1, FS_EmptySet DEF Apart
    <3> HIDE DEF l, r
    <3> QED
      BY <2>2, <3>1, <3>2
  <2>8. Cardinality(Heap!DataOf(s)) = Heap!SizeOf(l) + Heap!SizeOf(r) + 1
    <3>1. s.mData \notin Heap!DataOf(l) \cup Heap!DataOf(r)
      BY <2>1 DEF Apart
    <3>2. Heap!DataOf(s) = (Heap!DataOf(l) \cup Heap!DataOf(r)) \cup {s.mData}
      BY <2>4
    <3>3. Cardinality((Heap!DataOf(l) \cup Heap!DataOf(r)) \cup {s.mData}) =
            Cardinality(Heap!DataOf(l) \cup Heap!DataOf(r)) + 1
      BY <2>7, <3>1, FS_AddElement, Zenon
    <3> HIDE DEF l, r
    <3> QED
      BY <2>7, <3>2, <3>3, Zenon
  <2>9. Heap!SizeOf(s) = Heap!SizeOf(l) + Heap!SizeOf(r) + 1
    <3>1. s.mSize - Heap!SizeOf(l) - Heap!SizeOf(r) = 1 /\ s.mSize \in Int
               /\ Heap!SizeOf(s) = s.mSize
      BY <1>2, <2>1, TreeParts DEF Heap!checkNodes, Heap!SizeOf
    <3> HIDE DEF l, r
    <3> QED
      BY <2>2, <3>1
  <2>10. Heap!DataOf(s) \subseteq Items
    BY <2>2, <2>3, <2>4
  <2>11. Heap!SizeOf(s) \in 0..Levels
    <3>1. Cardinality(Heap!DataOf(s)) <= Levels
      BY <2>5, <2>10, FS_Subset, SameInHeap
    <3> HIDE DEF l, r
    <3> QED
      BY <2>2, <2>5, <2>8, <2>9, <3>1
  <2>12. s \in Heap!TreesOf[Heap!SizeOf(s)]
    <3> DEFINE n == Heap!SizeOf(l) + Heap!SizeOf(r)
    <3>1. n \in 0..Levels /\ n < Levels /\ n + 1 = Heap!SizeOf(s) /\ Heap!SizeOf(l) \in 0..n
               /\ Heap!SizeOf(r) \in 0..n
      <4> HIDE DEF l, r
      <4> QED
        BY <2>2, <2>5, <2>9, <2>11
    <3>2. l \in Heap!TreesOf[n] /\ r \in Heap!TreesOf[n]
      <4> HIDE DEF l, r, n
      <4>1. Heap!TreesOf[Heap!SizeOf(l)] \subseteq Heap!TreesOf[n]
                 /\ Heap!TreesOf[Heap!SizeOf(r)] \subseteq Heap!TreesOf[n]
        BY <2>5, <3>1, Growing, Zenon
      <4> QED
        BY <2>2, <4>1
    <3>3. s \in Nodes(Heap!TreesOf[n])
      <4> HIDE DEF n
      <4> QED
        BY <1>2, <3>2, TreeParts DEF Nodes
    <3> HIDE DEF n
    <3>4. Heap!TreesOf[n + 1] = {Null} \cup Nodes(Heap!TreesOf[n])
      BY <3>1, TreeFacts, Zenon
    <3> QED
      BY <3>1, <3>3, <3>4, Zenon
  <2> QED
    BY <2>8, <2>9, <2>10, <2>11, <2>12, Zenon
<1>3. Heap!Trees \subseteq P
  <2>1. \A s \in Heap!Trees : s # Null /\ s.mLeft \in P /\ s.mRight \in P => s \in P
    <3> HIDE DEF Good
    <3> QED
      BY <1>2
  <2> HIDE DEF P
  <2> QED
    BY <1>1, <2>1, TreeInduction
<1> QED
  BY <1>3

\* Nothing in a tree in order outranks its top.
LEMMA TopIsHighest ==
  ASSUME Heap!HeapAssumption, rank \in [Items -> Ranks], NEW t \in Heap!Trees, InOrder(t), t # Null
  PROVE  t.mData \in Heap!DataOf(t) /\ \A e \in Heap!DataOf(t) : rank[e] <= rank[t.mData]
<1> DEFINE Good(s) == \A e \in Heap!DataOf(s) : rank[e] <= rank[s.mData]
           P == {s \in Heap!Trees : InOrder(s) /\ s # Null => Good(s)}
<1>1. Null \in P
  BY TreeFacts DEF Heap!Trees, Levels
<1>2. ASSUME NEW s \in Heap!Trees, s # Null, s.mLeft \in P, s.mRight \in P, InOrder(s) PROVE Good(s)
  <2>1. Heap!checkNodes(s) /\ InOrder(s.mLeft) /\ InOrder(s.mRight)
    BY <1>2, OrderIs
  <2>2. ASSUME NEW u \in {s.mLeft, s.mRight}, NEW e \in Heap!DataOf(u)
        PROVE rank[e] <= rank[s.mData]
    <3>1. u # Null /\ u \in Heap!Trees /\ InOrder(u) /\ Good(u)
      <4>1. u # Null
        BY DataIs
      <4> QED
        BY <1>2, <2>1, <4>1
    <3>2. ~Heap!outRanks(u.mData, s.mData)
      BY <2>1, <3>1 DEF Heap!checkNodes
    <3>3. rank[u.mData] \in Int /\ rank[s.mData] \in Int /\ rank[e] \in Int
      <4>1. u.mData \in Items /\ s.mData \in Items
        BY <1>2, <3>1, TreeParts
      <4>2. e \in Items
        BY <3>1, SizeIs
      <4> QED
        BY <4>1, <4>2 DEF Heap!HeapAssumption
    <3>4. rank[e] <= rank[u.mData]
      BY <3>1
    <3> QED
      BY <3>2, <3>3, <3>4 DEF Heap!outRanks
  <2>3. Heap!DataOf(s) = {s.mData} \cup Heap!DataOf(s.mLeft) \cup Heap!DataOf(s.mRight)
    BY <1>2, DataIs
  <2>4. rank[s.mData] <= rank[s.mData]
    <3>1. rank[s.mData] \in Int
      BY <1>2, TreeParts DEF Heap!HeapAssumption
    <3> QED
      BY <3>1
  <2> QED
    BY <2>2, <2>3, <2>4
<1>3. Heap!Trees \subseteq P
  <2>1. \A s \in Heap!Trees : s # Null /\ s.mLeft \in P /\ s.mRight \in P => s \in P
    <3> HIDE DEF Good
    <3> QED
      BY <1>2
  <2> HIDE DEF P
  <2> QED
    BY <1>1, <2>1, TreeInduction
<1>4. t.mData \in Heap!DataOf(t)
  BY DataIs
<1> QED
  BY <1>3, <1>4

\* A node over two trees in order that it outranks.
LEMMA NewTop ==
  ASSUME Heap!HeapAssumption, rank \in [Items -> Ranks],
         NEW n \in 0..Levels, n < Levels,
         NEW l \in Heap!TreesOf[n], NEW r \in Heap!TreesOf[n], InOrder(l), InOrder(r),
         NEW d \in Items, d \notin Heap!DataOf(l), d \notin Heap!DataOf(r),
         Heap!DataOf(l) \cap Heap!DataOf(r) = {},
         \A e \in Heap!DataOf(l) \cup Heap!DataOf(r) : rank[e] <= rank[d],
         NEW size \in Int, size = Heap!SizeOf(l) + Heap!SizeOf(r) + 1,
         NEW t, t = [mData |-> d, mSize |-> size, mLeft |-> l, mRight |-> r]
  PROVE  /\ t \in Heap!TreesOf[n + 1] /\ t # Null /\ InOrder(t) /\ Heap!SizeOf(t) = size
         /\ Heap!DataOf(t) = {d} \cup Heap!DataOf(l) \cup Heap!DataOf(r)
<1>1. n + 1 \in 0..Levels /\ Heap!TreesOf[n] \subseteq Heap!Trees
           /\ Heap!TreesOf[n + 1] \subseteq Heap!Trees
  <2>1. n + 1 \in 0..Levels
    BY TreeFacts
  <2> QED
    BY <2>1, TreeFacts, Zenon
<1>2. t \in Nodes(Heap!TreesOf[n])
  BY DEF Nodes
<1>3. t \in Heap!TreesOf[n + 1] /\ t \in Heap!Trees
  <2>1. Heap!TreesOf[n + 1] = {Null} \cup Nodes(Heap!TreesOf[n])
    BY TreeFacts, Zenon
  <2> QED
    BY <1>1, <1>2, <2>1
<1>4. t # Null
  <2>1. t \in Nodes(Heap!Trees)
    BY <1>1, <1>2 DEF Nodes
  <2> QED
    BY <2>1, TreeFacts, Zenon
<1>5. t.mData = d /\ t.mSize = size /\ t.mLeft = l /\ t.mRight = r
  OBVIOUS
<1>6. Heap!DataOf(t) = {d} \cup Heap!DataOf(l) \cup Heap!DataOf(r)
  BY <1>3, <1>4, <1>5, DataIs
<1>7. Heap!checkNodes(t)
  <2>1. ASSUME NEW s \in {l, r}, s # Null PROVE ~Heap!outRanks(s.mData, t.mData)
    <3>1. s \in Heap!Trees /\ InOrder(s)
      BY <1>1, <2>1
    <3>2. s.mData \in Heap!DataOf(s) /\ s.mData \in Items
      BY <2>1, <3>1, TopIsHighest, TreeParts
    <3>3. rank[s.mData] <= rank[d]
      BY <2>1, <3>2
    <3>4. rank[s.mData] \in Int /\ rank[d] \in Int
      BY <3>2 DEF Heap!HeapAssumption
    <3> QED
      BY <1>5, <3>3, <3>4 DEF Heap!outRanks
  <2>2. t.mSize - Heap!SizeOf(t.mLeft) - Heap!SizeOf(t.mRight) = 1
    <3>1. Heap!SizeOf(l) \in 0..Levels /\ Heap!SizeOf(r) \in 0..Levels /\ Levels \in Nat
      <4>1. l \in Heap!Trees /\ r \in Heap!Trees
        BY <1>1
      <4> QED
        BY <4>1, SizeIs, TreeFacts
    <3> QED
      BY <1>5, <3>1
  <2> QED
    BY <1>5, <2>1, <2>2 DEF Heap!checkNodes
<1>8. Apart(t)
  BY <1>5 DEF Apart
<1>9. InOrder(t)
  BY <1>3, <1>4, <1>5, <1>7, <1>8, OrderIs
<1>10. Heap!SizeOf(t) = size
  BY <1>4, <1>5 DEF Heap!SizeOf
<1> QED
  BY <1>3, <1>4, <1>6, <1>9, <1>10

-----------------------------------------------------------------------------
(* push, pop and remove keep a tree in order and do to its objects what    *)
(* they should.                                                            *)

PushedOn(t, d, n, x) ==
  /\ x \in Heap!TreesOf[n + 1] /\ x # Null /\ InOrder(x) /\ Heap!SizeOf(x) = Heap!SizeOf(t) + 1
  /\ Heap!DataOf(x) = Heap!DataOf(t) \cup {d}

PushSafe(t) == \A n \in 0..Levels, d \in Items :
                 n < Levels /\ t \in Heap!TreesOf[n] /\ InOrder(t) /\ d \notin Heap!DataOf(t)
                   => PushedOn(t, d, n, Heap!pushNode[t][d])

LEMMA PushNull == ASSUME Heap!HeapAssumption, rank \in [Items -> Ranks] PROVE PushSafe(Null)
<1> SUFFICES ASSUME NEW n \in 0..Levels, NEW d \in Items, n < Levels
             PROVE  PushedOn(Null, d, n, Heap!pushNode[Null][d])
  BY DEF PushSafe
<1> DEFINE x == Heap!pushNode[Null][d]
<1>1. x = [mData |-> d, mSize |-> 1, mLeft |-> Null, mRight |-> Null]
  BY PushIs DEF Heap!Node
<1>2. /\ Null \in Heap!TreesOf[n] /\ InOrder(Null)
      /\ Heap!DataOf(Null) = {} /\ Heap!SizeOf(Null) = 0
      /\ 1 \in Int /\ 1 = Heap!SizeOf(Null) + Heap!SizeOf(Null) + 1
  BY TreeFacts, OrderIs, DataIs DEF Heap!SizeOf
<1> HIDE DEF x
<1>3. /\ x \in Heap!TreesOf[n + 1] /\ x # Null /\ InOrder(x) /\ Heap!SizeOf(x) = 1
      /\ Heap!DataOf(x) = {d} \cup Heap!DataOf(Null) \cup Heap!DataOf(Null)
  <2>1. \A e \in Heap!DataOf(Null) \cup Heap!DataOf(Null) : rank[e] <= rank[d]
    BY <1>2
  <2>2. d \notin Heap!DataOf(Null) /\ Heap!DataOf(Null) \cap Heap!DataOf(Null) = {}
    BY <1>2
  <2> QED
    BY <1>1, <1>2, <2>1, <2>2, NewTop
<1> QED
  BY <1>2, <1>3 DEF PushedOn, x

LEMMA PushNode ==
  ASSUME Heap!HeapAssumption, rank \in [Items -> Ranks],
         NEW t \in Heap!Trees, t # Null, PushSafe(t.mLeft), PushSafe(t.mRight)
  PROVE  PushSafe(t)
<1> SUFFICES ASSUME NEW n \in 0..Levels, NEW d \in Items, n < Levels, t \in Heap!TreesOf[n],
                    InOrder(t), d \notin Heap!DataOf(t)
             PROVE  PushedOn(t, d, n, Heap!pushNode[t][d])
  BY DEF PushSafe
<1> DEFINE l == t.mLeft
           r == t.mRight
           high == Heap!higher(d, t.mData)
           low == Heap!lower(d, t.mData)
           x == Heap!pushNode[t][d]
<1>1. /\ n - 1 \in 0..Levels /\ n - 1 < Levels /\ (n - 1) + 1 = n
      /\ l \in Heap!TreesOf[n - 1] /\ r \in Heap!TreesOf[n - 1]
      /\ l \in Heap!TreesOf[n] /\ r \in Heap!TreesOf[n]
      /\ t.mData \in Items /\ t.mSize \in Int /\ l \in Heap!Trees /\ r \in Heap!Trees
  <2>1. /\ n - 1 \in 0..Levels /\ n - 1 < Levels /\ (n - 1) + 1 = n /\ n - 1 \in 0..n
        /\ l \in Heap!TreesOf[n - 1] /\ r \in Heap!TreesOf[n - 1]
        /\ t.mData \in Items /\ t.mSize \in Int
    BY Parts, TreeFacts
  <2>2. Heap!TreesOf[n - 1] \subseteq Heap!TreesOf[n]
    BY <2>1, TreeFacts, Growing, Zenon
  <2> QED
    BY <2>1, <2>2, TreeParts
<1>2. Heap!checkNodes(t) /\ Apart(t) /\ InOrder(l) /\ InOrder(r)
  BY OrderIs
<1>3. Heap!DataOf(t) = {t.mData} \cup Heap!DataOf(l) \cup Heap!DataOf(r)
  BY DataIs
<1>4. /\ high \in Items /\ low \in Items /\ {high, low} = {d, t.mData} /\ high # low
      /\ rank[low] <= rank[high] /\ rank[t.mData] <= rank[high]
      /\ rank[high] \in Int /\ rank[t.mData] \in Int
  <2>1. rank[d] \in Int /\ rank[t.mData] \in Int
    BY <1>1 DEF Heap!HeapAssumption
  <2>2. d # t.mData
    BY <1>3
  <2> QED
    BY <1>1, <2>1, <2>2 DEF Heap!higher, Heap!lower, Heap!outRanks
<1>5. /\ low \notin Heap!DataOf(l) /\ low \notin Heap!DataOf(r)
      /\ high \notin Heap!DataOf(l) /\ high \notin Heap!DataOf(r)
      /\ Heap!DataOf(l) \cap Heap!DataOf(r) = {}
  <2>1. d \notin Heap!DataOf(l) /\ d \notin Heap!DataOf(r)
    BY <1>3
  <2>2. t.mData \notin Heap!DataOf(l) /\ t.mData \notin Heap!DataOf(r)
             /\ Heap!DataOf(l) \cap Heap!DataOf(r) = {}
    BY <1>2 DEF Apart
  <2> HIDE DEF high, low, l, r
  <2> QED
    BY <1>4, <2>1, <2>2
<1>6. \A e \in Heap!DataOf(l) \cup Heap!DataOf(r) : rank[e] <= rank[high]
  <2>1. ASSUME NEW e \in Heap!DataOf(l) \cup Heap!DataOf(r) PROVE rank[e] <= rank[high]
    <3>1. e \in Heap!DataOf(t)
      BY <1>3
    <3>2. rank[e] <= rank[t.mData]
      BY <3>1, TopIsHighest
    <3>3. rank[e] \in Int
      <4>1. e \in Items
        BY <3>1, SizeIs
      <4> QED
        BY <4>1 DEF Heap!HeapAssumption
    <3> HIDE DEF high
    <3> QED
      BY <1>4, <3>2, <3>3
  <2> QED
    BY <2>1
<1>7. t.mSize = Heap!SizeOf(l) + Heap!SizeOf(r) + 1 /\ Heap!SizeOf(t) = t.mSize
           /\ Heap!SizeOf(l) \in Int /\ Heap!SizeOf(r) \in Int
  <2>1. Heap!SizeOf(l) \in 0..Levels /\ Heap!SizeOf(r) \in 0..Levels
    BY <1>1, <1>2, SizeIs
  <2>2. t.mSize - Heap!SizeOf(l) - Heap!SizeOf(r) = 1 /\ Heap!SizeOf(t) = t.mSize
    BY <1>2 DEF Heap!checkNodes, Heap!SizeOf
  <2> HIDE DEF l, r
  <2> QED
    BY <1>1, <2>1, <2>2, TreeFacts
<1>8. t = [mData |-> t.mData, mSize |-> t.mSize, mLeft |-> l, mRight |-> r]
  BY TreeParts
<1>9. x = PushOn(t, Heap!pushNode[l], Heap!pushNode[r])[d]
  BY PushIs
<1>10. CASE Heap!goesLeft(t)
  <2> DEFINE u == Heap!pushNode[l][low]
  <2>1. PushedOn(l, low, n - 1, u)
    BY <1>1, <1>2, <1>4, <1>5 DEF PushSafe
  <2>2. /\ u \in Heap!TreesOf[n] /\ InOrder(u) /\ Heap!SizeOf(u) = Heap!SizeOf(l) + 1
        /\ Heap!DataOf(u) = Heap!DataOf(l) \cup {low}
    <3> HIDE DEF u, l, low
    <3> QED
      BY <1>1, <2>1 DEF PushedOn
  <2>3. x = [mData |-> high, mSize |-> t.mSize + 1, mLeft |-> u, mRight |-> r]
    <3>1. x = [t EXCEPT !.mData = Heap!higher(d, @), !.mSize = @ + 1, !.mLeft = u]
      BY <1>9, <1>10, Zenon DEF PushOn
    <3> HIDE DEF u, x
    <3> QED
      BY <1>8, <3>1
  <2> HIDE DEF u, x, high, low, l, r
  <2>4. high \notin Heap!DataOf(u) /\ Heap!DataOf(u) \cap Heap!DataOf(r) = {}
    BY <1>4, <1>5, <2>2
  <2>5. \A e \in Heap!DataOf(u) \cup Heap!DataOf(r) : rank[e] <= rank[high]
    BY <1>4, <1>6, <2>2
  <2>6. t.mSize + 1 \in Int /\ t.mSize + 1 = Heap!SizeOf(u) + Heap!SizeOf(r) + 1
    BY <1>1, <1>7, <2>2
  <2>7. /\ x \in Heap!TreesOf[n + 1] /\ x # Null /\ InOrder(x) /\ Heap!SizeOf(x) = t.mSize + 1
        /\ Heap!DataOf(x) = {high} \cup Heap!DataOf(u) \cup Heap!DataOf(r)
    BY <1>1, <1>2, <1>4, <1>5, <2>2, <2>3, <2>4, <2>5, <2>6, NewTop
  <2>8. Heap!DataOf(x) = Heap!DataOf(t) \cup {d}
    BY <1>3, <1>4, <2>2, <2>7
  <2> QED
    BY <1>7, <2>7, <2>8 DEF PushedOn, x
<1>11. CASE ~Heap!goesLeft(t)
  <2> DEFINE u == Heap!pushNode[r][low]
  <2>1. PushedOn(r, low, n - 1, u)
    BY <1>1, <1>2, <1>4, <1>5 DEF PushSafe
  <2>2. /\ u \in Heap!TreesOf[n] /\ InOrder(u) /\ Heap!SizeOf(u) = Heap!SizeOf(r) + 1
        /\ Heap!DataOf(u) = Heap!DataOf(r) \cup {low}
    <3> HIDE DEF u, r, low
    <3> QED
      BY <1>1, <2>1 DEF PushedOn
  <2>3. x = [mData |-> high, mSize |-> t.mSize + 1, mLeft |-> l, mRight |-> u]
    <3>1. x = [t EXCEPT !.mData = Heap!higher(d, @), !.mSize = @ + 1, !.mRight = u]
      BY <1>9, <1>11, Zenon DEF PushOn
    <3> HIDE DEF u, x
    <3> QED
      BY <1>8, <3>1
  <2> HIDE DEF u, x, high, low, l, r
  <2>4. high \notin Heap!DataOf(u) /\ Heap!DataOf(l) \cap Heap!DataOf(u) = {}
    BY <1>4, <1>5, <2>2
  <2>5. \A e \in Heap!DataOf(l) \cup Heap!DataOf(u) : rank[e] <= rank[high]
    BY <1>4, <1>6, <2>2
  <2>6. t.mSize + 1 \in Int /\ t.mSize + 1 = Heap!SizeOf(l) + Heap!SizeOf(u) + 1
    BY <1>1, <1>7, <2>2
  <2>7. /\ x \in Heap!TreesOf[n + 1] /\ x # Null /\ InOrder(x) /\ Heap!SizeOf(x) = t.mSize + 1
        /\ Heap!DataOf(x) = {high} \cup Heap!DataOf(l) \cup Heap!DataOf(u)
    BY <1>1, <1>2, <1>4, <1>5, <2>2, <2>3, <2>4, <2>5, <2>6, NewTop
  <2>8. Heap!DataOf(x) = Heap!DataOf(t) \cup {d}
    BY <1>3, <1>4, <2>2, <2>7
  <2> QED
    BY <1>7, <2>7, <2>8 DEF PushedOn, x
<1> QED
  BY <1>10, <1>11

LEMMA PushKeeps ==
  ASSUME Heap!HeapAssumption, rank \in [Items -> Ranks], NEW t \in Heap!Trees
  PROVE  PushSafe(t)
<1> DEFINE P == {s \in Heap!Trees : PushSafe(s)}
<1>1. Null \in P
  BY PushNull, TreeFacts DEF Heap!Trees, Levels
<1>2. \A s \in Heap!Trees : s # Null /\ s.mLeft \in P /\ s.mRight \in P => s \in P
  BY PushNode
<1>3. Heap!Trees \subseteq P
  <2> HIDE DEF P
  <2> QED
    BY <1>1, <1>2, TreeInduction
<1> QED
  BY <1>3

PoppedFrom(t, n, x) ==
  /\ x \in Heap!TreesOf[n] /\ InOrder(x) /\ Heap!SizeOf(x) = Heap!SizeOf(t) - 1
  /\ Heap!DataOf(x) = Heap!DataOf(t) \ {t.mData}

PopSafe(t) == \A n \in 0..Levels :
                t # Null /\ t \in Heap!TreesOf[n] /\ InOrder(t) => PoppedFrom(t, n, Heap!popNode[t])

\* The parts of a node in order, as pop and remove need them.
LEMMA NodeInOrder ==
  ASSUME Heap!HeapAssumption, rank \in [Items -> Ranks],
         NEW n \in 0..Levels, NEW t \in Heap!TreesOf[n], t # Null, InOrder(t)
  PROVE  /\ n - 1 \in 0..Levels /\ n - 1 < Levels /\ (n - 1) + 1 = n
         /\ t.mLeft \in Heap!TreesOf[n - 1] /\ t.mRight \in Heap!TreesOf[n - 1]
         /\ t.mLeft \in Heap!Trees /\ t.mRight \in Heap!Trees
         /\ InOrder(t.mLeft) /\ InOrder(t.mRight)
         /\ t.mData \in Items /\ t.mSize \in Int /\ Heap!SizeOf(t) = t.mSize
         /\ t.mSize = Heap!SizeOf(t.mLeft) + Heap!SizeOf(t.mRight) + 1
         /\ Heap!SizeOf(t.mLeft) \in Int /\ Heap!SizeOf(t.mRight) \in Int
         /\ Heap!DataOf(t) = {t.mData} \cup Heap!DataOf(t.mLeft) \cup Heap!DataOf(t.mRight)
         /\ t.mData \notin Heap!DataOf(t.mLeft) /\ t.mData \notin Heap!DataOf(t.mRight)
         /\ Heap!DataOf(t.mLeft) \cap Heap!DataOf(t.mRight) = {}
         /\ \A e \in Heap!DataOf(t) : rank[e] <= rank[t.mData] /\ rank[e] \in Int
         /\ t = [mData |-> t.mData, mSize |-> t.mSize, mLeft |-> t.mLeft, mRight |-> t.mRight]
<1>0. t \in Heap!Trees
  BY TreeFacts
<1>1. /\ n - 1 \in 0..Levels /\ n - 1 < Levels /\ (n - 1) + 1 = n
      /\ t.mLeft \in Heap!TreesOf[n - 1] /\ t.mRight \in Heap!TreesOf[n - 1]
  BY Parts, TreeFacts
<1>2. /\ t.mData \in Items /\ t.mSize \in Int /\ t.mLeft \in Heap!Trees /\ t.mRight \in Heap!Trees
      /\ t = [mData |-> t.mData, mSize |-> t.mSize, mLeft |-> t.mLeft, mRight |-> t.mRight]
  BY <1>0, TreeParts
<1>3. Heap!checkNodes(t) /\ Apart(t) /\ InOrder(t.mLeft) /\ InOrder(t.mRight)
  BY <1>0, OrderIs
<1>4. Heap!DataOf(t) = {t.mData} \cup Heap!DataOf(t.mLeft) \cup Heap!DataOf(t.mRight)
  BY <1>0, DataIs
<1>5. /\ Heap!SizeOf(t) = t.mSize /\ t.mSize = Heap!SizeOf(t.mLeft) + Heap!SizeOf(t.mRight) + 1
      /\ Heap!SizeOf(t.mLeft) \in Int /\ Heap!SizeOf(t.mRight) \in Int
  <2>1. Heap!SizeOf(t.mLeft) \in 0..Levels /\ Heap!SizeOf(t.mRight) \in 0..Levels
    BY <1>2, <1>3, SizeIs
  <2>2. t.mSize - Heap!SizeOf(t.mLeft) - Heap!SizeOf(t.mRight) = 1 /\ Heap!SizeOf(t) = t.mSize
    BY <1>3 DEF Heap!checkNodes, Heap!SizeOf
  <2> QED
    BY <1>2, <2>1, <2>2, TreeFacts
<1>6. ASSUME NEW e \in Heap!DataOf(t) PROVE rank[e] <= rank[t.mData] /\ rank[e] \in Int
  <2>1. rank[e] <= rank[t.mData]
    BY <1>0, TopIsHighest
  <2>2. e \in Items
    BY <1>0, SizeIs
  <2> QED
    BY <2>1, <2>2 DEF Heap!HeapAssumption
<1>7. /\ t.mData \notin Heap!DataOf(t.mLeft) /\ t.mData \notin Heap!DataOf(t.mRight)
      /\ Heap!DataOf(t.mLeft) \cap Heap!DataOf(t.mRight) = {}
  BY <1>3 DEF Apart
<1> QED
  BY <1>1, <1>2, <1>3, <1>4, <1>5, <1>6, <1>7

LEMMA PopNode ==
  ASSUME Heap!HeapAssumption, rank \in [Items -> Ranks],
         NEW t \in Heap!Trees, t # Null, PopSafe(t.mLeft), PopSafe(t.mRight)
  PROVE  PopSafe(t)
<1> SUFFICES ASSUME NEW n \in 0..Levels, t \in Heap!TreesOf[n], InOrder(t)
             PROVE  PoppedFrom(t, n, Heap!popNode[t])
  BY DEF PopSafe
<1> DEFINE l == t.mLeft
           r == t.mRight
           x == Heap!popNode[t]
<1>1. /\ n - 1 \in 0..Levels /\ n - 1 < Levels /\ (n - 1) + 1 = n
      /\ l \in Heap!TreesOf[n - 1] /\ r \in Heap!TreesOf[n - 1]
      /\ l \in Heap!Trees /\ r \in Heap!Trees
      /\ InOrder(l) /\ InOrder(r) /\ t.mSize \in Int
      /\ Heap!SizeOf(t) = t.mSize /\ t.mSize = Heap!SizeOf(l) + Heap!SizeOf(r) + 1
      /\ Heap!SizeOf(l) \in Int /\ Heap!SizeOf(r) \in Int
  BY NodeInOrder
<1>2. Heap!DataOf(t) = {t.mData} \cup Heap!DataOf(l) \cup Heap!DataOf(r)
  BY NodeInOrder
<1>3. t.mData \notin Heap!DataOf(l) /\ t.mData \notin Heap!DataOf(r)
           /\ Heap!DataOf(l) \cap Heap!DataOf(r) = {}
  BY NodeInOrder
<1>4. t = [mData |-> t.mData, mSize |-> t.mSize, mLeft |-> l, mRight |-> r]
  BY NodeInOrder
<1>5. x = PopOn(t, Heap!popNode[l], Heap!popNode[r])
  BY PopIs
<1>6. \A u \in {l, r} : u # Null =>
        /\ u.mData \in Items /\ u.mData \in Heap!DataOf(u)
        /\ \A e \in Heap!DataOf(u) : rank[e] <= rank[u.mData] /\ rank[e] \in Int
        /\ PoppedFrom(u, n - 1, Heap!popNode[u])
  <2>1. ASSUME NEW u \in {l, r}, u # Null
        PROVE  /\ u.mData \in Items /\ u.mData \in Heap!DataOf(u)
               /\ \A e \in Heap!DataOf(u) : rank[e] <= rank[u.mData] /\ rank[e] \in Int
               /\ PoppedFrom(u, n - 1, Heap!popNode[u])
    <3>1. u \in Heap!TreesOf[n - 1] /\ u \in Heap!Trees /\ InOrder(u)
      BY <1>1, <2>1
    <3>2. u.mData \in Items /\ u.mData \in Heap!DataOf(u)
      BY <2>1, <3>1, TreeParts, TopIsHighest
    <3>3. \A e \in Heap!DataOf(u) : rank[e] <= rank[u.mData] /\ rank[e] \in Int
      BY <1>1, <2>1, <3>1, NodeInOrder
    <3>4. PopSafe(u)
      BY <2>1
    <3>5. PoppedFrom(u, n - 1, Heap!popNode[u])
      BY <1>1, <2>1, <3>1, <3>4 DEF PopSafe
    <3> QED
      BY <3>2, <3>3, <3>5
  <2> QED
    BY <2>1
<1>7. CASE l = Null /\ r = Null
  <2>1. x = Null
    BY <1>5, <1>7, Zenon DEF PopOn
  <2>2. Heap!DataOf(l) = {} /\ Heap!DataOf(r) = {} /\ Heap!SizeOf(l) = 0 /\ Heap!SizeOf(r) = 0
             /\ Heap!SizeOf(Null) = 0
    BY <1>7, DataIs DEF Heap!SizeOf
  <2>3. Null \in Heap!TreesOf[n] /\ InOrder(Null) /\ Heap!DataOf(Null) = {}
    BY TreeFacts, OrderIs, DataIs
  <2> HIDE DEF x, l, r
  <2>4. Heap!SizeOf(x) = Heap!SizeOf(t) - 1
    BY <1>1, <2>1, <2>2
  <2>5. Heap!DataOf(x) = Heap!DataOf(t) \ {t.mData}
    BY <1>2, <2>1, <2>2, <2>3
  <2> QED
    BY <2>1, <2>3, <2>4, <2>5, Zenon DEF PoppedFrom, x
<1>8. CASE ~(l = Null /\ r = Null) /\ Heap!takesLeft(t)
  <2> DEFINE u == Heap!popNode[l]
             d == l.mData
  <2>1. l # Null /\ (r = Null \/ rank[l.mData] > rank[r.mData])
    BY <1>8 DEF Heap!takesLeft, Heap!outRanks
  <2>2. /\ d \in Items /\ d \in Heap!DataOf(l)
        /\ \A e \in Heap!DataOf(l) : rank[e] <= rank[d] /\ rank[e] \in Int
        /\ PoppedFrom(l, n - 1, u)
    BY <1>6, <2>1
  <2>3. x = [mData |-> d, mSize |-> t.mSize - 1, mLeft |-> u, mRight |-> r]
    <3>1. x = [t EXCEPT !.mData = d, !.mSize = @ - 1, !.mLeft = u]
      BY <1>5, <1>8, Zenon DEF PopOn
    <3> HIDE DEF u, x
    <3> QED
      BY <1>4, <3>1
  <2>4. \A e \in Heap!DataOf(r) : rank[e] <= rank[d]
    <3>1. ASSUME NEW e \in Heap!DataOf(r) PROVE rank[e] <= rank[d]
      <4>1. r # Null
        BY DataIs
      <4>2. rank[e] <= rank[r.mData] /\ rank[e] \in Int /\ rank[r.mData] \in Int
        BY <1>6, <4>1
      <4>3. rank[d] > rank[r.mData] /\ rank[d] \in Int
        BY <2>1, <2>2, <4>1
      <4> HIDE DEF d, r
      <4> QED
        BY <4>2, <4>3
    <3> QED
      BY <3>1
  <2>5. u \in Heap!TreesOf[n - 1] /\ InOrder(u) /\ Heap!SizeOf(u) = Heap!SizeOf(l) - 1
             /\ Heap!DataOf(u) = Heap!DataOf(l) \ {d}
    BY <2>2, Zenon DEF PoppedFrom
  <2> HIDE DEF u, x, d, l, r
  <2>6. d \notin Heap!DataOf(u) /\ d \notin Heap!DataOf(r)
             /\ Heap!DataOf(u) \cap Heap!DataOf(r) = {}
    BY <1>3, <2>2, <2>5
  <2>7. \A e \in Heap!DataOf(u) \cup Heap!DataOf(r) : rank[e] <= rank[d]
    BY <2>2, <2>4, <2>5
  <2>8. t.mSize - 1 \in Int /\ t.mSize - 1 = Heap!SizeOf(u) + Heap!SizeOf(r) + 1
    BY <1>1, <2>5
  <2>9. /\ x \in Heap!TreesOf[(n - 1) + 1] /\ x # Null /\ InOrder(x) /\ Heap!SizeOf(x) = t.mSize - 1
        /\ Heap!DataOf(x) = {d} \cup Heap!DataOf(u) \cup Heap!DataOf(r)
    BY <1>1, <2>2, <2>3, <2>5, <2>6, <2>7, <2>8, NewTop
  <2>10. Heap!DataOf(x) = Heap!DataOf(t) \ {t.mData}
    BY <1>2, <1>3, <2>2, <2>5, <2>9
  <2>11. x \in Heap!TreesOf[n]
    BY <1>1, <2>9, Zenon
  <2> QED
    BY <1>1, <2>9, <2>10, <2>11, Zenon DEF PoppedFrom, x
<1>9. CASE ~(l = Null /\ r = Null) /\ ~Heap!takesLeft(t)
  <2> DEFINE u == Heap!popNode[r]
             d == r.mData
  <2>1. r # Null /\ (l = Null \/ ~(rank[l.mData] > rank[r.mData]))
    BY <1>9 DEF Heap!takesLeft, Heap!outRanks
  <2>2. /\ d \in Items /\ d \in Heap!DataOf(r)
        /\ \A e \in Heap!DataOf(r) : rank[e] <= rank[d] /\ rank[e] \in Int
        /\ PoppedFrom(r, n - 1, u)
    BY <1>6, <2>1
  <2>3. x = [mData |-> d, mSize |-> t.mSize - 1, mLeft |-> l, mRight |-> u]
    <3>1. x = [t EXCEPT !.mData = d, !.mSize = @ - 1, !.mRight = u]
      BY <1>5, <1>9, Zenon DEF PopOn
    <3> HIDE DEF u, x
    <3> QED
      BY <1>4, <3>1
  <2>4. \A e \in Heap!DataOf(l) : rank[e] <= rank[d]
    <3>1. ASSUME NEW e \in Heap!DataOf(l) PROVE rank[e] <= rank[d]
      <4>1. l # Null
        BY DataIs
      <4>2. rank[e] <= rank[l.mData] /\ rank[e] \in Int /\ rank[l.mData] \in Int
        BY <1>6, <4>1
      <4>3. ~(rank[l.mData] > rank[d]) /\ rank[d] \in Int
        BY <2>1, <2>2, <4>1
      <4> HIDE DEF d, l
      <4> QED
        BY <4>2, <4>3
    <3> QED
      BY <3>1
  <2>5. u \in Heap!TreesOf[n - 1] /\ InOrder(u) /\ Heap!SizeOf(u) = Heap!SizeOf(r) - 1
             /\ Heap!DataOf(u) = Heap!DataOf(r) \ {d}
    BY <2>2, Zenon DEF PoppedFrom
  <2> HIDE DEF u, x, d, l, r
  <2>6. d \notin Heap!DataOf(u) /\ d \notin Heap!DataOf(l)
             /\ Heap!DataOf(l) \cap Heap!DataOf(u) = {}
    BY <1>3, <2>2, <2>5
  <2>7. \A e \in Heap!DataOf(l) \cup Heap!DataOf(u) : rank[e] <= rank[d]
    BY <2>2, <2>4, <2>5
  <2>8. t.mSize - 1 \in Int /\ t.mSize - 1 = Heap!SizeOf(l) + Heap!SizeOf(u) + 1
    BY <1>1, <2>5
  <2>9. /\ x \in Heap!TreesOf[(n - 1) + 1] /\ x # Null /\ InOrder(x) /\ Heap!SizeOf(x) = t.mSize - 1
        /\ Heap!DataOf(x) = {d} \cup Heap!DataOf(l) \cup Heap!DataOf(u)
    BY <1>1, <2>2, <2>3, <2>5, <2>6, <2>7, <2>8, NewTop
  <2>10. Heap!DataOf(x) = Heap!DataOf(t) \ {t.mData}
    BY <1>2, <1>3, <2>2, <2>5, <2>9
  <2>11. x \in Heap!TreesOf[n]
    BY <1>1, <2>9, Zenon
  <2> QED
    BY <1>1, <2>9, <2>10, <2>11, Zenon DEF PoppedFrom, x
<1> QED
  BY <1>7, <1>8, <1>9

LEMMA PopKeeps ==
  ASSUME Heap!HeapAssumption, rank \in [Items -> Ranks], NEW t \in Heap!Trees
  PROVE  PopSafe(t)
<1> DEFINE P == {s \in Heap!Trees : PopSafe(s)}
<1>1. Null \in P
  BY TreeFacts DEF Heap!Trees, Levels, PopSafe
<1>2. \A s \in Heap!Trees : s # Null /\ s.mLeft \in P /\ s.mRight \in P => s \in P
  BY PopNode
<1>3. Heap!Trees \subseteq P
  <2> HIDE DEF P
  <2> QED
    BY <1>1, <1>2, TreeInduction
<1> QED
  BY <1>3

RemovedFrom(t, d, n, x) ==
  /\ x \in Heap!TreesOf[n] /\ InOrder(x) /\ Heap!DataOf(x) = Heap!DataOf(t) \ {d}
  /\ d \in Heap!DataOf(t) => Heap!SizeOf(x) = Heap!SizeOf(t) - 1
  /\ d \notin Heap!DataOf(t) => x = t

RemoveSafe(t, d, R) == \A n \in 0..Levels :
                         t \in Heap!TreesOf[n] /\ InOrder(t) => RemovedFrom(t, d, n, R[t])

\* An object is in a tree that changes when it is removed.
LEMMA RemovedChanges ==
  ASSUME NEW t, NEW d, NEW n, NEW x, RemovedFrom(t, d, n, x)
  PROVE  x # t <=> d \in Heap!DataOf(t)
  BY Zenon DEF RemovedFrom

LEMMA RemoveNode ==
  ASSUME Heap!HeapAssumption, rank \in [Items -> Ranks], NEW d \in Items,
         NEW R, R = Heap!removeNode(d),
         NEW t \in Heap!Trees, t # Null, RemoveSafe(t.mLeft, d, R), RemoveSafe(t.mRight, d, R)
  PROVE  RemoveSafe(t, d, R)
<1> SUFFICES ASSUME NEW n \in 0..Levels, t \in Heap!TreesOf[n], InOrder(t)
             PROVE  RemovedFrom(t, d, n, R[t])
  BY DEF RemoveSafe
<1> DEFINE l == t.mLeft
           r == t.mRight
           x == R[t]
<1>1. /\ n - 1 \in 0..Levels /\ n - 1 < Levels /\ (n - 1) + 1 = n
      /\ l \in Heap!TreesOf[n - 1] /\ r \in Heap!TreesOf[n - 1]
      /\ InOrder(l) /\ InOrder(r) /\ t.mData \in Items /\ t.mSize \in Int
      /\ Heap!SizeOf(t) = t.mSize /\ t.mSize = Heap!SizeOf(l) + Heap!SizeOf(r) + 1
      /\ Heap!SizeOf(l) \in Int /\ Heap!SizeOf(r) \in Int
  BY NodeInOrder
<1>2. Heap!DataOf(t) = {t.mData} \cup Heap!DataOf(l) \cup Heap!DataOf(r)
  BY NodeInOrder
<1>3. t.mData \notin Heap!DataOf(l) /\ t.mData \notin Heap!DataOf(r)
           /\ Heap!DataOf(l) \cap Heap!DataOf(r) = {}
  BY NodeInOrder
<1>4. t = [mData |-> t.mData, mSize |-> t.mSize, mLeft |-> l, mRight |-> r]
  BY NodeInOrder
<1>5. \A e \in Heap!DataOf(t) : rank[e] <= rank[t.mData] /\ rank[e] \in Int
  BY NodeInOrder
<1>6. x = RemoveOn(d, t, R[l], R[r])
  BY RemoveIs
<1>7. RemovedFrom(l, d, n - 1, R[l]) /\ RemovedFrom(r, d, n - 1, R[r])
  BY <1>1 DEF RemoveSafe
<1>8. (R[l] # l <=> d \in Heap!DataOf(l)) /\ (R[r] # r <=> d \in Heap!DataOf(r))
  BY <1>7, RemovedChanges
<1>9. CASE t.mData = d
  <2>1. x = Heap!popNode[t]
    BY <1>6, <1>9, Zenon DEF RemoveOn
  <2>2. PoppedFrom(t, n, Heap!popNode[t])
    BY PopKeeps DEF PopSafe
  <2>3. d \in Heap!DataOf(t)
    BY <1>2, <1>9
  <2> QED
    BY <1>9, <2>1, <2>2, <2>3, Zenon DEF PoppedFrom, RemovedFrom
<1>10. CASE t.mData # d /\ ~Heap!mayHold(t, d)
  <2>1. x = t
    BY <1>6, <1>10, Zenon DEF RemoveOn
  <2>2. d \notin Heap!DataOf(t)
    <3>1. rank[d] > rank[t.mData]
      BY <1>10 DEF Heap!mayHold, Heap!outRanks
    <3>2. rank[d] \in Int /\ rank[t.mData] \in Int
      BY <1>1 DEF Heap!HeapAssumption
    <3> QED
      BY <1>5, <3>1, <3>2
  <2>3. Heap!DataOf(t) \ {d} = Heap!DataOf(t)
    BY <2>2
  <2> QED
    BY <2>1, <2>2, <2>3, Zenon DEF RemovedFrom
<1>11. CASE t.mData # d /\ Heap!mayHold(t, d) /\ R[l] # l
  <2> DEFINE u == R[l]
  <2>1. x = [mData |-> t.mData, mSize |-> t.mSize - 1, mLeft |-> u, mRight |-> r]
    <3>1. x = [t EXCEPT !.mLeft = u, !.mSize = @ - 1]
      BY <1>6, <1>11, Zenon DEF RemoveOn
    <3> HIDE DEF u, x
    <3> QED
      BY <1>4, <3>1
  <2>2. d \in Heap!DataOf(l)
    BY <1>8, <1>11, Zenon
  <2>3. u \in Heap!TreesOf[n - 1] /\ InOrder(u) /\ Heap!SizeOf(u) = Heap!SizeOf(l) - 1
             /\ Heap!DataOf(u) = Heap!DataOf(l) \ {d}
    BY <1>7, <2>2, Zenon DEF RemovedFrom
  <2> HIDE DEF u, x, l, r
  <2>4. t.mData \notin Heap!DataOf(u) /\ Heap!DataOf(u) \cap Heap!DataOf(r) = {}
    BY <1>3, <2>3
  <2>5. \A e \in Heap!DataOf(u) \cup Heap!DataOf(r) : rank[e] <= rank[t.mData]
    BY <1>2, <1>5, <2>3
  <2>6. t.mSize - 1 \in Int /\ t.mSize - 1 = Heap!SizeOf(u) + Heap!SizeOf(r) + 1
    BY <1>1, <2>3
  <2>7. /\ x \in Heap!TreesOf[(n - 1) + 1] /\ InOrder(x) /\ Heap!SizeOf(x) = t.mSize - 1
        /\ Heap!DataOf(x) = {t.mData} \cup Heap!DataOf(u) \cup Heap!DataOf(r)
    BY <1>1, <1>3, <2>1, <2>3, <2>4, <2>5, <2>6, NewTop
  <2>8. Heap!DataOf(x) = Heap!DataOf(t) \ {d} /\ d \in Heap!DataOf(t)
    BY <1>2, <1>3, <1>11, <2>2, <2>3, <2>7
  <2>9. x \in Heap!TreesOf[n]
    BY <1>1, <2>7, Zenon
  <2> QED
    BY <1>1, <2>7, <2>8, <2>9, Zenon DEF RemovedFrom, x
<1>12. CASE t.mData # d /\ Heap!mayHold(t, d) /\ R[l] = l /\ R[r] # r
  <2> DEFINE u == R[r]
  <2>1. x = [mData |-> t.mData, mSize |-> t.mSize - 1, mLeft |-> l, mRight |-> u]
    <3>1. x = [t EXCEPT !.mRight = u, !.mSize = @ - 1]
      BY <1>6, <1>12, Zenon DEF RemoveOn
    <3> HIDE DEF u, x
    <3> QED
      BY <1>4, <3>1
  <2>2. d \in Heap!DataOf(r)
    BY <1>8, <1>12, Zenon
  <2>3. u \in Heap!TreesOf[n - 1] /\ InOrder(u) /\ Heap!SizeOf(u) = Heap!SizeOf(r) - 1
             /\ Heap!DataOf(u) = Heap!DataOf(r) \ {d}
    BY <1>7, <2>2, Zenon DEF RemovedFrom
  <2> HIDE DEF u, x, l, r
  <2>4. t.mData \notin Heap!DataOf(u) /\ Heap!DataOf(l) \cap Heap!DataOf(u) = {}
    BY <1>3, <2>3
  <2>5. \A e \in Heap!DataOf(l) \cup Heap!DataOf(u) : rank[e] <= rank[t.mData]
    BY <1>2, <1>5, <2>3
  <2>6. t.mSize - 1 \in Int /\ t.mSize - 1 = Heap!SizeOf(l) + Heap!SizeOf(u) + 1
    BY <1>1, <2>3
  <2>7. /\ x \in Heap!TreesOf[(n - 1) + 1] /\ InOrder(x) /\ Heap!SizeOf(x) = t.mSize - 1
        /\ Heap!DataOf(x) = {t.mData} \cup Heap!DataOf(l) \cup Heap!DataOf(u)
    BY <1>1, <1>3, <2>1, <2>3, <2>4, <2>5, <2>6, NewTop
  <2>8. Heap!DataOf(x) = Heap!DataOf(t) \ {d} /\ d \in Heap!DataOf(t)
    BY <1>2, <1>3, <1>12, <2>2, <2>3, <2>7
  <2>9. x \in Heap!TreesOf[n]
    BY <1>1, <2>7, Zenon
  <2> QED
    BY <1>1, <2>7, <2>8, <2>9, Zenon DEF RemovedFrom, x
<1>13. CASE t.mData # d /\ Heap!mayHold(t, d) /\ R[l] = l /\ R[r] = r
  <2>1. x = t
    BY <1>6, <1>13, Zenon DEF RemoveOn
  <2>2. d \notin Heap!DataOf(l) /\ d \notin Heap!DataOf(r)
    BY <1>8, <1>13, Zenon
  <2>3. d \notin Heap!DataOf(t) /\ Heap!DataOf(t) \ {d} = Heap!DataOf(t)
    BY <1>2, <1>13, <2>2
  <2> QED
    BY <2>1, <2>3, Zenon DEF RemovedFrom
<1> QED
  BY <1>9, <1>10, <1>11, <1>12, <1>13, Zenon

LEMMA RemoveKeeps ==
  ASSUME Heap!HeapAssumption, rank \in [Items -> Ranks], NEW d \in Items,
         NEW R, R = Heap!removeNode(d),
         NEW t \in Heap!Trees
  PROVE  RemoveSafe(t, d, R)
<1> DEFINE P == {s \in Heap!Trees : RemoveSafe(s, d, R)}
<1>1. Null \in P
  <2>1. R[Null] = Null /\ Heap!DataOf(Null) = {} /\ InOrder(Null) /\ Null \in Heap!Trees
    BY RemoveIs, DataIs, OrderIs, TreeFacts DEF Heap!Trees, Levels
  <2>2. d \notin Heap!DataOf(Null) /\ Heap!DataOf(Null) \ {d} = Heap!DataOf(Null)
    BY <2>1
  <2> QED
    BY <2>1, <2>2 DEF RemoveSafe, RemovedFrom
<1>2. \A s \in Heap!Trees : s # Null /\ s.mLeft \in P /\ s.mRight \in P => s \in P
  BY RemoveNode
<1>3. Heap!Trees \subseteq P
  <2> HIDE DEF P
  <2> QED
    BY <1>1, <1>2, TreeInduction
<1> QED
  BY <1>3

-----------------------------------------------------------------------------
(* The heap.                                                               *)

HeapInv == /\ Heap!HeapAssumption
           /\ rank \in [Items -> Ranks]
           /\ mTree \in Heap!Trees /\ InOrder(mTree)

LEMMA InitHeap == Heap!HeapAssumption /\ Heap!Init => HeapInv /\ Heap!PQ!Init
<1> SUFFICES ASSUME Heap!HeapAssumption, Heap!Init PROVE HeapInv /\ Heap!PQ!Init
  OBVIOUS
<1>1. InOrder(Null) /\ Heap!DataOf(Null) = {} /\ Null \in Heap!Trees
  BY OrderIs, DataIs, TreeFacts DEF Heap!Trees, Levels
<1> QED
  BY <1>1 DEF Heap!Init, HeapInv, Heap!PQ!Init

\* The tree of an operation is in the levels there are.
LEMMA Fits == ASSUME HeapInv PROVE Levels \in 0..Levels /\ mTree \in Heap!TreesOf[Levels]
  BY TreeFacts DEF HeapInv, Heap!Trees, Levels

LEMMA PushStep == ASSUME HeapInv, NEW d \in Items, Heap!push(d)
                  PROVE  mTree' \in Heap!Trees /\ InOrder(mTree') /\ Heap!PQ!push(d)
<1> DEFINE n == Heap!SizeOf(mTree)
<1>1. Heap!HeapAssumption /\ rank \in [Items -> Ranks] /\ mTree \in Heap!Trees /\ InOrder(mTree)
  BY DEF HeapInv
<1>2. /\ Heap!DataOf(mTree) \subseteq Items /\ n = Cardinality(Heap!DataOf(mTree))
      /\ n \in 0..Levels /\ mTree \in Heap!TreesOf[n]
  BY <1>1, SizeIs
<1>3. d \notin Heap!DataOf(mTree) /\ mTree' = Heap!pushNode[mTree][d] /\ result' = Null
           /\ rank' = rank
  BY DEF Heap!push
<1>4. n < Levels
  <2>1. IsFiniteSet(Items) /\ Levels \in Nat
    BY <1>1, TreeFacts, SameInHeap DEF Heap!HeapAssumption
  <2>2. Heap!DataOf(mTree) # Items
    BY <1>3
  <2>3. Cardinality(Heap!DataOf(mTree)) <= Levels /\ Cardinality(Heap!DataOf(mTree)) # Levels
    BY <1>2, <2>1, <2>2, FS_Subset, SameInHeap
  <2> HIDE DEF n
  <2> QED
    BY <1>2, <2>1, <2>3
<1>5. PushedOn(mTree, d, n, mTree')
  <2>1. PushSafe(mTree)
    BY <1>1, PushKeeps
  <2> HIDE DEF n
  <2> QED
    BY <1>1, <1>2, <1>3, <1>4, <2>1 DEF PushSafe
<1>6. mTree' \in Heap!TreesOf[n + 1] /\ n + 1 \in 0..Levels
  <2>1. mTree' \in Heap!TreesOf[n + 1]
    BY <1>5, Zenon DEF PushedOn
  <2> HIDE DEF n
  <2> QED
    BY <1>1, <1>2, <1>4, <2>1, TreeFacts
<1>7. mTree' \in Heap!Trees
  <2> HIDE DEF n
  <2> QED
    BY <1>1, <1>6, TreeFacts
<1>8. InOrder(mTree') /\ Heap!DataOf(mTree') = Heap!DataOf(mTree) \cup {d}
  BY <1>5, Zenon DEF PushedOn
<1> QED
  BY <1>3, <1>7, <1>8 DEF Heap!PQ!push

LEMMA TopIs ==
  ASSUME HeapInv
  PROVE  /\ mTree = Null => Heap!DataOf(mTree) = {} /\ Heap!Top = Null
         /\ mTree # Null => /\ Heap!Top = mTree.mData
                            /\ Heap!Top \in Heap!DataOf(mTree)
                            /\ Heap!Top \in Heap!PQ!Highest
<1>1. Heap!HeapAssumption /\ rank \in [Items -> Ranks] /\ mTree \in Heap!Trees /\ InOrder(mTree)
  BY DEF HeapInv
<1>2. mTree = Null => Heap!DataOf(mTree) = {} /\ Heap!Top = Null
  BY <1>1, DataIs DEF Heap!Top
<1>3. ASSUME mTree # Null
      PROVE  Heap!Top = mTree.mData /\ Heap!Top \in Heap!DataOf(mTree)
            /\ Heap!Top \in Heap!PQ!Highest
  <2>1. mTree.mData \in Heap!DataOf(mTree) /\ \A e \in Heap!DataOf(mTree) :
             rank[e] <= rank[mTree.mData]
    BY <1>1, <1>3, TopIsHighest
  <2>2. Heap!Top = mTree.mData
    BY <1>3 DEF Heap!Top
  <2> QED
    BY <2>1, <2>2 DEF Heap!PQ!Highest
<1> QED
  BY <1>2, <1>3

LEMMA PopStep == ASSUME HeapInv, Heap!pop
                 PROVE  mTree' \in Heap!Trees /\ InOrder(mTree') /\ Heap!PQ!pop
<1>1. Heap!HeapAssumption /\ rank \in [Items -> Ranks] /\ mTree \in Heap!Trees /\ InOrder(mTree)
  BY DEF HeapInv
<1>2. result' = Heap!Top /\ mTree' = Heap!popNode[mTree] /\ rank' = rank
  BY DEF Heap!pop
<1>3. CASE mTree = Null
  <2>1. mTree' = Null /\ Heap!DataOf(Null) = {} /\ InOrder(Null) /\ Null \in Heap!Trees
    BY <1>1, <1>2, <1>3, PopIs, DataIs, OrderIs
  <2>2. result' = Null
    BY <1>2, <1>3, TopIs
  <2> QED
    BY <1>2, <1>3, <2>1, <2>2 DEF Heap!PQ!pop
<1>4. CASE mTree # Null
  <2>1. PoppedFrom(mTree, Levels, mTree')
    BY <1>1, <1>2, <1>4, Fits, PopKeeps DEF PopSafe
  <2>2. mTree' \in Heap!Trees /\ InOrder(mTree')
             /\ Heap!DataOf(mTree') = Heap!DataOf(mTree) \ {mTree.mData}
    BY <2>1, Zenon DEF PoppedFrom, Heap!Trees, Levels
  <2>3. result' = mTree.mData /\ result' \in Heap!PQ!Highest /\ Heap!DataOf(mTree) # {}
    BY <1>2, <1>4, TopIs
  <2> QED
    BY <1>2, <2>2, <2>3, Zenon DEF Heap!PQ!pop
<1> QED
  BY <1>3, <1>4

LEMMA RemoveStep == ASSUME HeapInv, NEW d \in Items, Heap!remove(d)
                    PROVE  mTree' \in Heap!Trees /\ InOrder(mTree') /\ Heap!PQ!remove(d)
<1> DEFINE R == Heap!removeNode(d)
<1>1. Heap!HeapAssumption /\ rank \in [Items -> Ranks] /\ mTree \in Heap!Trees /\ InOrder(mTree)
  BY DEF HeapInv
<1>2. /\ mTree' = R[mTree] /\ result' = (IF mTree' = mTree THEN Null ELSE d)
      /\ rank' = rank
  BY DEF Heap!remove
<1>3. RemovedFrom(mTree, d, Levels, R[mTree])
  <2> HIDE DEF R
  <2>1. R = Heap!removeNode(d)
    BY DEF R
  <2> QED
    BY <1>1, <2>1, Fits, RemoveKeeps DEF RemoveSafe
<1> HIDE DEF R
<1>4. mTree' \in Heap!Trees /\ InOrder(mTree') /\ Heap!DataOf(mTree') = Heap!DataOf(mTree) \ {d}
  BY <1>2, <1>3, Zenon DEF RemovedFrom, Heap!Trees, Levels
<1>5. mTree' # mTree <=> d \in Heap!DataOf(mTree)
  BY <1>2, <1>3, RemovedChanges
<1> QED
  BY <1>2, <1>4, <1>5, Zenon DEF Heap!PQ!remove

\* Every step keeps the tree in order, and is one of the priority queue.
LEMMA NextHeap == HeapInv /\ [Heap!Next]_(Heap!vars)
                    => HeapInv' /\ [Heap!PQ!Next]_<<rank, Heap!DataOf(mTree), result>>
<1> SUFFICES ASSUME HeapInv, [Heap!Next]_(Heap!vars)
             PROVE  HeapInv' /\ [Heap!PQ!Next]_<<rank, Heap!DataOf(mTree), result>>
  OBVIOUS
<1>1. Heap!HeapAssumption' /\ Heap!HeapAssumption
  BY DEF HeapInv, Heap!HeapAssumption, Heap!Trees
<1>2. rank' = rank /\ rank' \in [Items -> Ranks]
  BY DEF HeapInv, Heap!Next, Heap!vars, Heap!pop, Heap!peek, Heap!push, Heap!remove
<1>3. ASSUME mTree' \in Heap!Trees, InOrder(mTree') PROVE HeapInv'
  <2>1. InOrder(mTree)'
    BY <1>2, <1>3, Zenon DEF InOrder, Heap!checkNodes, Apart, Heap!outRanks
  <2> QED
    BY <1>1, <1>2, <1>3, <2>1, Zenon DEF HeapInv
<1>4. CASE Heap!pop
  BY <1>3, <1>4, PopStep DEF Heap!PQ!Next
<1>5. CASE Heap!peek
  <2>1. mTree' = mTree /\ result' = Heap!Top
    BY <1>5 DEF Heap!peek
  <2>2. HeapInv'
    BY <1>3, <2>1, Zenon DEF HeapInv
  <2>3. Heap!PQ!peek
    BY <1>2, <2>1, TopIs, Zenon DEF Heap!PQ!peek
  <2> QED
    BY <2>2, <2>3 DEF Heap!PQ!Next
<1>6. ASSUME NEW d \in Items, Heap!push(d)
      PROVE  HeapInv' /\ [Heap!PQ!Next]_<<rank, Heap!DataOf(mTree), result>>
  BY <1>3, <1>6, PushStep DEF Heap!PQ!Next
<1>7. ASSUME NEW d \in Items, Heap!remove(d)
      PROVE  HeapInv' /\ [Heap!PQ!Next]_<<rank, Heap!DataOf(mTree), result>>
  BY <1>3, <1>7, RemoveStep DEF Heap!PQ!Next
<1>8. CASE UNCHANGED (Heap!vars)
  <2>1. mTree' = mTree /\ result' = result
    BY <1>8 DEF Heap!vars
  <2>2. HeapInv'
    BY <1>3, <2>1, Zenon DEF HeapInv
  <2> QED
    BY <1>2, <2>1, <2>2
<1> QED
  BY <1>4, <1>5, <1>6, <1>7, <1>8 DEF Heap!Next

(***************************************************************************)
(* LocHeap is the priority queue its header promises, and checkNodes()     *)
(* finds its tree in order, after any history of push, pop, peek and       *)
(* remove: pop() and peek() return an object that nothing in the heap      *)
(* outranks, remove() finds the object wherever it is, and no operation    *)
(* loses another one.                                                      *)
(***************************************************************************)
THEOREM HeapIsAQueue == Heap!Spec => IsPriorityQueue
<1> USE UtilsAssumption
<1>1. Heap!Init => HeapInv /\ Heap!PQ!Init
  BY InitHeap
<1>2. HeapInv /\ [Heap!Next]_(Heap!vars)
        => HeapInv' /\ [Heap!PQ!Next]_<<rank, Heap!DataOf(mTree), result>>
  BY NextHeap
<1>3. HeapInv => Heap!TreeIsConsistent
  BY Zenon DEF HeapInv, InOrder, Heap!TreeIsConsistent
<1> QED
  BY <1>1, <1>2, <1>3, PTL DEF IsPriorityQueue, Heap!Spec, Heap!IsPriorityQueue, Heap!PQ!Spec
=============================================================================
