--------------------------- MODULE LocEngNiProofs ---------------------------
(***************************************************************************)
(* Theorems about LocEngNi, for any set of requests, any choice of those   *)
(* that are emergencies, and any number of restarts of the modem.          *)
(***************************************************************************)
EXTENDS LocEngNi, FiniteSetTheorems, TLAPS

-----------------------------------------------------------------------------
(* Where a request can be: in a message, in what a thread is about to      *)
(* send, or in its session.                                                *)

\* The request that a message carries.
ReqOf(m) == CASE m.type = "LocEngRequestNi" -> m.req
              [] m.type = "LocEngInformNiResponse" -> m.answer.req
              [] OTHER -> NULL

RequestMsg(r) == [type |-> "LocEngRequestNi", req |-> r]

InQueue(r, s) == \E i \in 1..Len(s) : ReqOf(s[i]) = r
Requested(r, s) == \E i \in 1..Len(s) : s[i] = RequestMsg(r)
Distinct(s) ==
  \A i, j \in 1..Len(s) : ReqOf(s[i]) # NULL /\ ReqOf(s[i]) = ReqOf(s[j]) => i = j
NoDown(s) == \A i \in 1..Len(s) : s[i].type # "LocEngDown"

Answering(t, r, tm) == tm[t] # NULL /\ tm[t].req = r
InThread(r, tm) == \E t \in Requests : Answering(t, r, tm)
OneThread(tm) ==
  \A r, t, u \in Requests : Answering(t, r, tm) /\ Answering(u, r, tm) => t = u

\* The session has r; a thread of it may have r too, until it clears.
InSession(r) == rawRequest[sessionOf(r)] = r

AtAPlace(r) == InQueue(r, msgs) \/ InThread(r, tmsg) \/ Held(r)

-----------------------------------------------------------------------------
(* The inductive invariant.                                                *)

\* A request is at one place at most.
OnePlace ==
  /\ Distinct(msgs) /\ OneThread(tmsg)
  /\ \A r \in Requests : /\ InQueue(r, msgs) => ~InThread(r, tmsg) /\ ~InSession(r)
                         /\ InThread(r, tmsg) => ~Held(r)

\* It gets there when the modem makes it, and nowhere after its answer.
Lifetime ==
  /\ \A r \in Requests :
       AtAPlace(r) \/ InSession(r) \/ told[r] # NULL \/ r \in dropped \/ freed[r] # 0
         => r \in asked
  /\ \A r \in Requests : AtAPlace(r) => told[r] = NULL

\* A request that is dropped is not in a session any more, save one that a
\* thread has made an answer of already.
NotDropped == \A r \in Requests : Requested(r, msgs) \/ Held(r) => r \notin dropped

OwnSession == \A s \in Sessions : rawRequest[s] # NULL => sessionOf(rawRequest[s]) = s

\* Without a restart a block is freed when its request leaves the last place.
FreedOnce ==
  restarts = 0 =>
    /\ hpc.at \in {"idle", "notify"} /\ NoDown(msgs) /\ dropped = {}
    /\ \A r \in asked : freed[r] = IF AtAPlace(r) THEN 0 ELSE 1

Places == OnePlace /\ Lifetime /\ NotDropped /\ OwnSession /\ FreedOnce

Notifying(r) == hpc.at = "notify" /\ hpc.req = r

\* The thread of a request is started by its notification only.
NotStarted ==
  \A r \in Requests :
    /\ r \notin asked \/ Requested(r, msgs) \/ Notifying(r) => tpc[r] = "none"
    /\ Notifying(r) => r \in asked /\ ~Requested(r, msgs)

\* A thread has an answer between making and sending it only, and its session
\* has the request of the answer until the unlock at most.
SendsLast ==
  \A t \in Requests : tmsg[t] # NULL =>
    \/ tpc[t] = "clear" /\ (tmsg[t].req # NULL => sessionOf(tmsg[t].req) = sessionOf(t))
    \/ tpc[t] = "unlocked" /\ (tmsg[t].req # NULL => ~InSession(tmsg[t].req))

Locks(t) == tpc[t] \in {"make", "clear"}

\* tLock has one holder, and its session has a request, unless it was dropped.
OneHolder ==
  \A t, u \in Requests : Locks(t) /\ Locks(u) /\ sessionOf(t) = sessionOf(u) => t = u
Emptied ==
  \A t \in Requests : Locks(t) /\ rawRequest[sessionOf(t)] = NULL =>
    \E r \in dropped : sessionOf(r) = sessionOf(t)

Threading == NotStarted /\ SendsLast /\ OneHolder /\ Emptied /\ NoLostResponse

NiInv == TypeOK /\ Places /\ Threading

-----------------------------------------------------------------------------
(* The queue.                                                              *)

LEMMA MsgKinds ==
  ASSUME NEW m \in Msg
  PROVE  /\ m.type \in {"LocEngRequestNi", "LocEngDown", "LocEngInformNiResponse"}
         /\ m.type = "LocEngRequestNi" => m.req \in Requests /\ m = RequestMsg(m.req)
         /\ m.type = "LocEngInformNiResponse" => m.answer \in Answer
         /\ ReqOf(m) \in Requests \cup {NULL}
         /\ m.type = "LocEngRequestNi" => ReqOf(m) # NULL
BY NiAssumption DEF Msg, Answer, ReqOf, RequestMsg

LEMMA TailSeq ==
  ASSUME NEW S, NEW s \in Seq(S), s # <<>>
  PROVE  /\ Tail(s) \in Seq(S) /\ Head(s) \in S
         /\ Len(s) \in Nat /\ Len(s) > 0 /\ Len(Tail(s)) = Len(s) - 1
         /\ \A i \in 1..Len(Tail(s)) : Tail(s)[i] = s[i + 1]
         /\ Head(s) = s[1]
OBVIOUS

LEMMA AppendSeq ==
  ASSUME NEW S, NEW s \in Seq(S), NEW x \in S
  PROVE  /\ Append(s, x) \in Seq(S)
         /\ Len(s) \in Nat /\ Len(Append(s, x)) = Len(s) + 1
         /\ \A i \in 1..Len(s) : Append(s, x)[i] = s[i]
         /\ Append(s, x)[Len(s) + 1] = x
OBVIOUS

\* Taking the oldest message.
LEMMA TailQueue ==
  ASSUME NEW s \in Seq(Msg), s # <<>>
  PROVE  /\ Tail(s) \in Seq(Msg) /\ Head(s) \in Msg
         /\ \A r : InQueue(r, s) <=> r = ReqOf(Head(s)) \/ InQueue(r, Tail(s))
         /\ \A r : Requested(r, Tail(s)) => Requested(r, s)
         /\ \A r : Head(s) = RequestMsg(r) => Requested(r, s)
         /\ Distinct(s) => /\ Distinct(Tail(s))
                           /\ ReqOf(Head(s)) # NULL => ~InQueue(ReqOf(Head(s)), Tail(s))
         /\ NoDown(s) => NoDown(Tail(s)) /\ Head(s).type # "LocEngDown"
<1> USE TailSeq
<1>1. ASSUME NEW r, InQueue(r, s), r # ReqOf(Head(s)) PROVE InQueue(r, Tail(s))
  <2>1. PICK i \in 1..Len(s) : ReqOf(s[i]) = r
    BY <1>1 DEF InQueue
  <2>2. i - 1 \in 1..Len(Tail(s)) /\ Tail(s)[i - 1] = s[i]
    BY <1>1, <2>1
  <2> QED
    BY <2>1, <2>2 DEF InQueue
<1>2. ASSUME NEW r, InQueue(r, Tail(s)) PROVE InQueue(r, s)
  <2>1. PICK i \in 1..Len(Tail(s)) : ReqOf(Tail(s)[i]) = r
    BY <1>2 DEF InQueue
  <2>2. i + 1 \in 1..Len(s) /\ ReqOf(s[i + 1]) = r
    BY <2>1
  <2> QED
    BY <2>2 DEF InQueue
<1>3. InQueue(ReqOf(Head(s)), s)
  BY DEF InQueue
<1>4. ASSUME NEW r, Requested(r, Tail(s)) PROVE Requested(r, s)
  <2>1. PICK i \in 1..Len(Tail(s)) : Tail(s)[i] = RequestMsg(r)
    BY <1>4 DEF Requested
  <2>2. i + 1 \in 1..Len(s) /\ s[i + 1] = RequestMsg(r)
    BY <2>1
  <2> QED
    BY <2>2 DEF Requested
<1>5. ASSUME NEW r, Head(s) = RequestMsg(r) PROVE Requested(r, s)
  BY <1>5 DEF Requested
<1>6. ASSUME Distinct(s) PROVE Distinct(Tail(s))
  <2> SUFFICES ASSUME NEW i \in 1..Len(Tail(s)), NEW j \in 1..Len(Tail(s)),
                      ReqOf(Tail(s)[i]) # NULL, ReqOf(Tail(s)[i]) = ReqOf(Tail(s)[j])
               PROVE  i = j
    BY DEF Distinct
  <2>1. i + 1 \in 1..Len(s) /\ j + 1 \in 1..Len(s)
    OBVIOUS
  <2>2. i + 1 = j + 1
    BY <1>6, <2>1 DEF Distinct
  <2> QED
    BY <2>2
<1>7. ASSUME Distinct(s), ReqOf(Head(s)) # NULL, InQueue(ReqOf(Head(s)), Tail(s)) PROVE FALSE
  <2>1. PICK i \in 1..Len(Tail(s)) : ReqOf(Tail(s)[i]) = ReqOf(Head(s))
    BY <1>7 DEF InQueue
  <2>2. i + 1 \in 1..Len(s) /\ 1 \in 1..Len(s) /\ ReqOf(s[i + 1]) = ReqOf(s[1])
    BY <2>1
  <2>3. i + 1 = 1
    BY <1>7, <2>2 DEF Distinct
  <2> QED
    BY <2>3
<1>8. ASSUME NoDown(s) PROVE NoDown(Tail(s)) /\ Head(s).type # "LocEngDown"
  BY <1>8 DEF NoDown
<1> QED
  BY <1>1, <1>2, <1>3, <1>4, <1>5, <1>6, <1>7, <1>8

\* Adding a message at the end.
LEMMA AppendQueue ==
  ASSUME NEW s \in Seq(Msg), NEW m \in Msg
  PROVE  /\ Append(s, m) \in Seq(Msg)
         /\ \A r : InQueue(r, Append(s, m)) <=> InQueue(r, s) \/ r = ReqOf(m)
         /\ \A r : Requested(r, Append(s, m)) => Requested(r, s) \/ m = RequestMsg(r)
         /\ Distinct(s) /\ (ReqOf(m) # NULL => ~InQueue(ReqOf(m), s)) => Distinct(Append(s, m))
         /\ NoDown(s) /\ m.type # "LocEngDown" => NoDown(Append(s, m))
<1> USE AppendSeq
<1>1. ASSUME NEW r, InQueue(r, Append(s, m)), r # ReqOf(m) PROVE InQueue(r, s)
  <2>1. PICK i \in 1..(Len(s) + 1) : ReqOf(Append(s, m)[i]) = r
    BY <1>1 DEF InQueue
  <2> QED
    BY <1>1, <2>1 DEF InQueue
<1>2. ASSUME NEW r, InQueue(r, s) PROVE InQueue(r, Append(s, m))
  <2>1. PICK i \in 1..Len(s) : ReqOf(s[i]) = r
    BY <1>2 DEF InQueue
  <2>2. i \in 1..Len(Append(s, m)) /\ ReqOf(Append(s, m)[i]) = r
    BY <2>1
  <2> QED
    BY <2>2 DEF InQueue
<1>3. InQueue(ReqOf(m), Append(s, m))
  BY DEF InQueue
<1>4. ASSUME NEW r, Requested(r, Append(s, m)), m # RequestMsg(r) PROVE Requested(r, s)
  <2>1. PICK i \in 1..(Len(s) + 1) : Append(s, m)[i] = RequestMsg(r)
    BY <1>4 DEF Requested
  <2> QED
    BY <1>4, <2>1 DEF Requested
<1>5. ASSUME Distinct(s), ReqOf(m) # NULL => ~InQueue(ReqOf(m), s) PROVE Distinct(Append(s, m))
  <2> SUFFICES ASSUME NEW i \in 1..Len(Append(s, m)), NEW j \in 1..Len(Append(s, m)),
                      ReqOf(Append(s, m)[i]) # NULL,
                      ReqOf(Append(s, m)[i]) = ReqOf(Append(s, m)[j])
               PROVE  i = j
    BY DEF Distinct
  <2>1. CASE i \in 1..Len(s) /\ j \in 1..Len(s)
    BY <1>5, <2>1 DEF Distinct
  <2>2. CASE i \in 1..Len(s) /\ j = Len(s) + 1
    BY <1>5, <2>2 DEF InQueue
  <2>3. CASE i = Len(s) + 1 /\ j \in 1..Len(s)
    BY <1>5, <2>3 DEF InQueue
  <2> QED
    BY <2>1, <2>2, <2>3
<1>6. ASSUME NoDown(s), m.type # "LocEngDown" PROVE NoDown(Append(s, m))
  BY <1>6 DEF NoDown
<1> QED
  BY <1>1, <1>2, <1>3, <1>4, <1>5, <1>6

-----------------------------------------------------------------------------
(* Types.                                                                  *)

LEMMA Where ==
  ASSUME TypeOK
  PROVE  /\ hpc.at \in {"idle", "notify", "test", "free", "clear", "signal"}
         /\ hpc.at = "idle" <=> hpc = Idle
         /\ hpc.at = "notify" => hpc.req \in Requests
         /\ hpc.at \in {"test", "free", "clear", "signal"} =>
              /\ hpc.ses \in Sessions
              /\ \A a \in {"test", "free", "clear", "signal"} :
                   [hpc EXCEPT !.at = a] = [at |-> a, ses |-> hpc.ses]
         /\ upc.at \in {"idle", "accept", "ignore", "set"}
         /\ upc.at \in {"accept", "ignore", "set"} =>
              /\ upc.ses \in Sessions /\ upc.resp \in UserChoices
              /\ \A a \in {"ignore", "set"} :
                   [upc EXCEPT !.at = a] = [at |-> a, ses |-> upc.ses, resp |-> upc.resp]
BY DEF TypeOK, Idle

LEMMA SessionOf == \A r : sessionOf(r) \in Sessions
BY DEF sessionOf, Sessions

\* What an answer left in a session does to the threads.
LEMMA SignalType ==
  ASSUME TypeOK, NEW s \in Sessions, pthread_cond_signal(s)
  PROVE  /\ tpc' \in [Requests -> {"none", "failed", "start", "wait", "woken",
                               "make", "clear", "unlocked", "done"}]
         /\ \A t \in Requests : tpc'[t] # tpc[t] => tpc[t] = "wait" /\ tpc'[t] = "woken"
         /\ Waiting(s) # {} => \E t \in Requests : sessionOf(t) = s /\ tpc'[t] = "woken"
BY DEF TypeOK, pthread_cond_signal, Waiting

LEMMA QueueType == TypeOK /\ [Next]_vars => msgs' \in Seq(Msg)
<1> SUFFICES ASSUME TypeOK, [Next]_vars PROVE msgs' \in Seq(Msg)
  OBVIOUS
<1>1. /\ msgs \in Seq(Msg)
      /\ \A r \in Requests : [type |-> "LocEngRequestNi", req |-> r] \in Msg
      /\ [type |-> "LocEngDown"] \in Msg
      /\ \A a \in Answer : [type |-> "LocEngInformNiResponse", answer |-> a] \in Msg
      /\ \A t \in Requests : tmsg[t] \in Answer \cup {NULL}
  BY DEF TypeOK, Msg
<1>2. \/ msgs' = msgs
      \/ msgs # <<>> /\ msgs' = Tail(msgs)
      \/ \E r \in Requests : msgs' = Append(msgs, [type |-> "LocEngRequestNi", req |-> r])
      \/ msgs' = Append(msgs, [type |-> "LocEngDown"])
      \/ \E t \in Requests : /\ tmsg[t] # NULL
                             /\ msgs' = Append(msgs, [type |-> "LocEngInformNiResponse",
                                                      answer |-> tmsg[t]])
  BY DEF Next, MsgTaskStep, IgnoreRequest, AcceptRequest, Notify, InformNiResponse, EngineDown,
     ResetTest, ResetFree, ResetClear, ResetSignal, UserStep, TestIgnore, IgnoreOther, SetResponse,
     ModemRestarts, ModemRequests, ni_thread_proc, TestResp, TimeOut, EndWait, Make, Clear, Finish,
     loc_eng_ni_respond, Takes, vars
<1>3. msgs' = msgs \/ (msgs # <<>> /\ msgs' = Tail(msgs)) \/ \E m \in Msg : msgs' = Append(msgs, m)
  BY <1>1, <1>2
<1> QED
  BY <1>1, <1>3, TailQueue, AppendQueue

\* TypeOK is preserved.
LEMMA TypeStep == TypeOK /\ [Next]_vars => TypeOK'
<1> SUFFICES ASSUME TypeOK, [Next]_vars PROVE TypeOK'
  OBVIOUS
<1>q. msgs' \in Seq(Msg)
  BY QueueType
<1> USE DEF TypeOK, session, thread, client, modem
<1>1. CASE IgnoreRequest
  BY <1>q, <1>1, MsgKinds, TailQueue DEF IgnoreRequest, Takes, Free
<1>2. CASE AcceptRequest
  BY <1>q, <1>2, MsgKinds, TailQueue, SessionOf DEF AcceptRequest, Takes
<1>3. CASE Notify
  BY <1>q, <1>3, Where, SessionOf DEF Notify
<1>4. CASE InformNiResponse
  <2>1. Head(msgs).answer \in Answer
    BY <1>4, MsgKinds, TailQueue DEF InformNiResponse, Takes
  <2>2. PICK r, a : r = Head(msgs).answer.req /\ a = Head(msgs).answer.resp
    OBVIOUS
  <2>3. r \in Requests \cup {NULL} /\ a \in Responses
    BY <2>1, <2>2 DEF Answer
  <2>4. told' \in [Requests -> Responses \cup {NULL}] /\ freed' \in [Requests -> Nat]
    <3>1. CASE r = NULL
      BY <1>4, <2>2, <3>1 DEF InformNiResponse
    <3>2. CASE r # NULL
      <4>1. told' = [told EXCEPT ![r] = a] /\ freed' = [freed EXCEPT ![r] = @ + 1]
        BY <1>4, <2>2, <3>2 DEF InformNiResponse, Free
      <4> QED
        BY <2>3, <3>2, <4>1
    <3> QED
      BY <3>1, <3>2
  <2> QED
    BY <1>q, <1>4, <2>4 DEF InformNiResponse
<1>5. CASE EngineDown
  BY <1>q, <1>5 DEF EngineDown, Test, nextSession, Sessions
<1>6. CASE ResetTest
  BY <1>q, <1>6, Where DEF ResetTest, Test, nextSession, Sessions
<1>7. CASE ResetFree
  BY <1>q, <1>7, Where DEF ResetFree, Free
<1>8. CASE ResetClear
  BY <1>q, <1>8, Where DEF ResetClear
<1>9. CASE ResetSignal
  BY <1>q, <1>9, Where, SignalType DEF ResetSignal, respond, nextSession, Sessions
<1>10. CASE IgnoreOther
  BY <1>q, <1>10, Where, SignalType DEF IgnoreOther, respond, Responses, Sessions
<1>11. CASE SetResponse
  BY <1>q, <1>11, Where, SignalType, NiAssumption DEF SetResponse, respond, Responses
<1>12. CASE ModemRestarts
  BY <1>q, <1>12, NiAssumption DEF ModemRestarts
<1>13. ASSUME NEW r \in Requests, ModemRequests(r) PROVE TypeOK'
  BY <1>q, <1>13 DEF ModemRequests
<1>14. ASSUME NEW t \in Requests, NEW a \in Responses, EndWait(t, a) PROVE TypeOK'
  BY <1>q, <1>14, SessionOf DEF EndWait
<1>15. ASSUME NEW t \in Requests, TestResp(t) PROVE TypeOK'
  BY <1>q, <1>14, <1>15, SessionOf DEF TestResp
<1>16. ASSUME NEW t \in Requests, TimeOut(t) PROVE TypeOK'
  BY <1>14, <1>16 DEF TimeOut, Responses
<1>17. ASSUME NEW t \in Requests, Finish(t) PROVE TypeOK'
  BY <1>q, <1>17, SessionOf DEF Finish
<1>18. ASSUME NEW r \in Requests, NEW a \in UserChoices, loc_eng_ni_respond(r, a) PROVE TypeOK'
  BY <1>q, <1>18 DEF loc_eng_ni_respond, Sessions
<1>19. CASE UNCHANGED vars
  BY <1>q, <1>19 DEF vars
<1>20. CASE TestIgnore
  BY <1>q, <1>20, Where DEF TestIgnore
<1>21. ASSUME NEW t \in Requests, Make(t) PROVE TypeOK'
  <2>1. /\ rawRequest[sessionOf(t)] \in Requests \cup {NULL}
        /\ [req |-> rawRequest[sessionOf(t)], resp |-> resp[sessionOf(t)]] \in Answer
    BY SessionOf DEF Answer
  <2>2. tmsg' \in [Requests -> Answer \cup {NULL}]
    <3>1. PICK m \in Answer :
            m = [req |-> rawRequest[sessionOf(t)], resp |-> resp[sessionOf(t)]]
      BY <2>1
    <3>2. tmsg' = tmsg \/ tmsg' = [tmsg EXCEPT ![t] = m]
      BY <1>21, <3>1 DEF Make
    <3> QED
      BY <3>2
  <2>3. freed' \in [Requests -> Nat]
    <3>1. PICK r \in Requests \cup {NULL} : r = rawRequest[sessionOf(t)]
      BY <2>1
    <3>2. freed' = freed \/ (r # NULL /\ freed' = [freed EXCEPT ![r] = @ + 1])
      BY <1>21, <3>1 DEF Make, Free
    <3>3. ASSUME r \in Requests, freed' = [freed EXCEPT ![r] = @ + 1]
          PROVE  freed' \in [Requests -> Nat]
      BY <3>3
    <3> QED
      BY <3>1, <3>2, <3>3
  <2> QED
    BY <1>q, <1>21, <2>2, <2>3 DEF Make
<1>22. ASSUME NEW t \in Requests, Clear(t) PROVE TypeOK'
  BY <1>q, <1>22, SessionOf DEF Clear
<1> QED
  BY <1>1, <1>2, <1>3, <1>4, <1>5, <1>6, <1>7, <1>8, <1>9, <1>10, <1>11, <1>12, <1>13, <1>15,
     <1>16, <1>17, <1>18, <1>19, <1>20, <1>21, <1>22
     DEF Next, MsgTaskStep, UserStep, ni_thread_proc

-----------------------------------------------------------------------------
(* The invariant.                                                          *)

\* The message that is taken, and where its request was.
LEMMA TakesFacts ==
  ASSUME TypeOK, OnePlace, NEW type, Takes(type)
  PROVE  /\ Head(msgs) \in Msg /\ Head(msgs).type = type
         /\ Distinct(msgs')
         /\ NoDown(msgs) => NoDown(msgs') /\ type # "LocEngDown"
         /\ \A r : Requested(r, msgs') => Requested(r, msgs)
         /\ type = "LocEngRequestNi" =>
              /\ Head(msgs).req \in Requests
              /\ Requested(Head(msgs).req, msgs)
              /\ InQueue(Head(msgs).req, msgs)
              /\ \A r : InQueue(r, msgs') <=> InQueue(r, msgs) /\ r # Head(msgs).req
         /\ type = "LocEngInformNiResponse" =>
              /\ Head(msgs).answer.req \in Requests \cup {NULL}
              /\ Head(msgs).answer.req # NULL => InQueue(Head(msgs).answer.req, msgs)
              /\ \A r \in Requests :
                   InQueue(r, msgs') <=> InQueue(r, msgs) /\ r # Head(msgs).answer.req
         /\ type = "LocEngDown" => \A r \in Requests : InQueue(r, msgs') <=> InQueue(r, msgs)
<1>1. msgs # <<>> /\ msgs \in Seq(Msg) /\ msgs' = Tail(msgs) /\ Head(msgs).type = type
  BY DEF Takes, TypeOK
<1>2. Head(msgs) \in Msg /\ Distinct(msgs)
  BY <1>1, TailQueue DEF OnePlace
<1>3. /\ Distinct(msgs')
      /\ ReqOf(Head(msgs)) # NULL => ~InQueue(ReqOf(Head(msgs)), msgs')
      /\ NoDown(msgs) => NoDown(msgs') /\ type # "LocEngDown"
      /\ \A r : Requested(r, msgs') => Requested(r, msgs)
      /\ \A r : Head(msgs) = RequestMsg(r) => Requested(r, msgs)
      /\ \A r : InQueue(r, msgs) <=> r = ReqOf(Head(msgs)) \/ InQueue(r, msgs')
  BY <1>1, <1>2, TailQueue
<1>4. CASE type = "LocEngRequestNi"
  <2>1. /\ Head(msgs).req \in Requests /\ Head(msgs) = RequestMsg(Head(msgs).req)
        /\ ReqOf(Head(msgs)) = Head(msgs).req /\ ReqOf(Head(msgs)) # NULL
    BY <1>1, <1>2, <1>4, MsgKinds DEF ReqOf
  <2> QED
    BY <1>1, <1>2, <1>3, <1>4, <2>1
<1>5. CASE type = "LocEngInformNiResponse"
  <2>1. /\ Head(msgs).answer.req \in Requests \cup {NULL}
        /\ ReqOf(Head(msgs)) = Head(msgs).answer.req
    BY <1>1, <1>2, <1>5, MsgKinds DEF ReqOf, Answer
  <2>2. \A r \in Requests : r # NULL
    BY NiAssumption
  <2> QED
    BY <1>1, <1>2, <1>3, <1>5, <2>1, <2>2
<1>6. CASE type = "LocEngDown"
  <2>1. ReqOf(Head(msgs)) = NULL
    BY <1>1, <1>6 DEF ReqOf
  <2> QED
    BY <1>1, <1>2, <1>3, <1>6, <2>1, NiAssumption
<1> QED
  BY <1>1, <1>2, <1>3, <1>4, <1>5, <1>6

\* A step that neither changes a session's request nor starts or ends a clear.
LEMMA HeldKept ==
  ASSUME rawRequest' = rawRequest, \A t \in Requests : tpc'[t] = "clear" <=> tpc[t] = "clear"
  PROVE  \A r : (Held(r)' <=> Held(r)) /\ (InSession(r)' <=> InSession(r))
BY DEF Held, InSession

\* The requests' places, and what is true of them, after every step.
LEMMA PlacesStep == NiInv /\ [Next]_vars => Places'
<1> SUFFICES ASSUME NiInv, [Next]_vars PROVE Places'
  OBVIOUS
<1>type. TypeOK /\ TypeOK'
  BY TypeStep DEF NiInv
<1>inv. /\ OnePlace /\ Lifetime /\ NotDropped /\ OwnSession /\ FreedOnce
        /\ NotStarted /\ SendsLast /\ OneHolder /\ Emptied
  BY DEF NiInv, Places, Threading
<1> USE DEF session, thread, client, modem
<1>h. \A r : Held(r) => InSession(r)
  BY DEF Held, InSession
<1>n. \A r \in Requests : r # NULL
  BY NiAssumption
<1>0. ASSUME UNCHANGED <<msgs, tmsg, rawRequest, told, dropped, freed, asked, restarts>>,
             \A t \in Requests : tpc'[t] = "clear" <=> tpc[t] = "clear",
             hpc.at \in {"idle", "notify"} => hpc'.at \in {"idle", "notify"}
      PROVE  Places'
  <2>1. \A r : (Held(r)' <=> Held(r)) /\ (InSession(r)' <=> InSession(r))
    BY <1>0, HeldKept
  <2> QED
    BY <1>0, <1>inv, <2>1
       DEF Places, OnePlace, Lifetime, NotDropped, OwnSession, FreedOnce, AtAPlace
<1>1. CASE IgnoreRequest
  <2> DEFINE r == Head(msgs).req
  <2>1. /\ r \in Requests /\ InQueue(r, msgs) /\ Distinct(msgs')
        /\ NoDown(msgs) => NoDown(msgs')
        /\ \A p : InQueue(p, msgs') <=> InQueue(p, msgs) /\ p # r
        /\ \A p : Requested(p, msgs') => Requested(p, msgs)
    BY <1>1, <1>type, <1>inv, TakesFacts DEF IgnoreRequest
  <2>2. /\ freed' = [freed EXCEPT ![r] = @ + 1]
        /\ UNCHANGED <<tmsg, rawRequest, told, dropped, asked, restarts, hpc, tpc>>
    BY <1>1 DEF IgnoreRequest, Free
  <2> HIDE DEF r
  <2>3. \A p : (Held(p)' <=> Held(p)) /\ (InSession(p)' <=> InSession(p))
    BY <2>2, HeldKept
  <2>4. OnePlace' /\ OwnSession' /\ NotDropped'
    BY <1>inv, <2>1, <2>2, <2>3 DEF OnePlace, OwnSession, NotDropped
  <2>5. \A p \in Requests : AtAPlace(p)' <=> AtAPlace(p) /\ p # r
    BY <1>inv, <1>h, <2>1, <2>2, <2>3 DEF AtAPlace, OnePlace
  <2>6. AtAPlace(r)
    BY <2>1 DEF AtAPlace
  <2> QED
    BY <1>inv, <1>type, <2>1, <2>2, <2>3, <2>4, <2>5, <2>6
       DEF Places, Lifetime, FreedOnce, TypeOK
<1>2. CASE AcceptRequest
  <2> DEFINE r == Head(msgs).req
  <2>1. /\ r \in Requests /\ InQueue(r, msgs) /\ Distinct(msgs') /\ Requested(r, msgs)
        /\ NoDown(msgs) => NoDown(msgs')
        /\ \A p : InQueue(p, msgs') <=> InQueue(p, msgs) /\ p # r
        /\ \A p : Requested(p, msgs') => Requested(p, msgs)
    BY <1>2, <1>type, <1>inv, TakesFacts DEF AcceptRequest
  <2>2. /\ rawRequest' = [rawRequest EXCEPT ![sessionOf(r)] = r]
        /\ UNCHANGED <<tmsg, told, dropped, asked, restarts, freed, tpc>>
        /\ hpc'.at = "notify"
    BY <1>2 DEF AcceptRequest
  <2>3. rawRequest[sessionOf(r)] = NULL
    BY <1>2, <2>1 DEF AcceptRequest, inProgress, sessionOf
  <2> HIDE DEF r
  <2>4. \A p \in Requests : InSession(p)' <=> InSession(p) \/ p = r
    BY <1>type, <2>1, <2>2, <2>3, SessionOf, NiAssumption DEF InSession, TypeOK
  <2>5. \A p \in Requests : Held(p)' => Held(p) \/ p = r
    BY <2>2, <2>4 DEF Held, InSession
  <2>6. OwnSession'
    BY <1>inv, <1>type, <2>2, SessionOf DEF OwnSession, TypeOK
  <2>7. OnePlace'
    BY <1>inv, <2>1, <2>2, <2>4, <2>5 DEF OnePlace
  <2>8. \A p \in Requests : AtAPlace(p)' => AtAPlace(p)
    BY <1>inv, <2>1, <2>2, <2>5 DEF AtAPlace
  <2>9. NotDropped' /\ Lifetime'
    <3>1. AtAPlace(r) /\ r \notin dropped
      BY <1>inv, <2>1 DEF AtAPlace, NotDropped
    <3>2. NotDropped'
      BY <1>inv, <2>1, <2>2, <2>5, <3>1 DEF NotDropped
    <3>3. Lifetime'
      BY <1>inv, <2>1, <2>2, <2>4, <2>8, <3>1 DEF Lifetime
    <3> QED
      BY <3>2, <3>3
  <2>10. FreedOnce'
    <3> SUFFICES ASSUME restarts = 0 PROVE FreedOnce'
      BY <2>2 DEF FreedOnce
    <3>1. \A t \in Requests : tpc[t] = "clear" => sessionOf(t) # sessionOf(r)
      BY <1>inv, <2>3 DEF Emptied, Locks, FreedOnce
    <3>2. \A p \in Requests : Held(p)' <=> Held(p) \/ p = r
      BY <2>2, <2>4, <2>5, <3>1 DEF Held, InSession
    <3>3. \A p \in Requests : AtAPlace(p)' <=> AtAPlace(p)
      BY <1>inv, <2>1, <2>2, <3>2 DEF AtAPlace
    <3>4. asked' = asked /\ asked \subseteq Requests /\ freed' = freed
      BY <1>type, <2>2 DEF TypeOK
    <3> QED
      BY <1>inv, <2>1, <2>2, <3>3, <3>4 DEF FreedOnce
  <2> QED
    BY <2>6, <2>7, <2>9, <2>10 DEF Places
<1>3. CASE Notify
  <2>1. \A t \in Requests : tpc'[t] = "clear" <=> tpc[t] = "clear"
    <3>1. hpc.req \in Requests /\ tpc[hpc.req] = "none"
      BY <1>3, <1>type, <1>inv, Where DEF Notify, Notifying, NotStarted
    <3> QED
      BY <1>3, <1>type, <3>1 DEF Notify, TypeOK
  <2> QED
    BY <1>0, <1>3, <2>1 DEF Notify, Idle
<1>4. CASE InformNiResponse
  <2> DEFINE r == Head(msgs).answer.req
  <2>1. /\ r \in Requests \cup {NULL} /\ (r # NULL => InQueue(r, msgs)) /\ Distinct(msgs')
        /\ NoDown(msgs) => NoDown(msgs')
        /\ \A p \in Requests : InQueue(p, msgs') <=> InQueue(p, msgs) /\ p # r
        /\ \A p : Requested(p, msgs') => Requested(p, msgs)
    BY <1>4, <1>type, <1>inv, TakesFacts DEF InformNiResponse
  <2>2. UNCHANGED <<tmsg, rawRequest, dropped, asked, restarts, hpc, tpc>>
    BY <1>4 DEF InformNiResponse
  <2>3. IF r = NULL THEN UNCHANGED <<told, freed>>
        ELSE /\ freed' = [freed EXCEPT ![r] = @ + 1]
             /\ told' = [told EXCEPT ![r] = Head(msgs).answer.resp]
    BY <1>4 DEF InformNiResponse, Free
  <2> HIDE DEF r
  <2>4. \A p : (Held(p)' <=> Held(p)) /\ (InSession(p)' <=> InSession(p))
    BY <2>2, HeldKept
  <2>5. OnePlace' /\ OwnSession' /\ NotDropped'
    BY <1>inv, <2>1, <2>2, <2>4 DEF OnePlace, OwnSession, NotDropped
  <2>6. \A p \in Requests : AtAPlace(p)' <=> AtAPlace(p) /\ p # r
    BY <1>inv, <1>h, <1>n, <2>1, <2>2, <2>4 DEF AtAPlace, OnePlace
  <2>7. r # NULL => r \in Requests /\ AtAPlace(r)
    BY <2>1 DEF AtAPlace
  <2>8. \A p \in Requests : p # r => told'[p] = told[p] /\ freed'[p] = freed[p]
    BY <1>type, <2>3 DEF TypeOK
  <2>9. r # NULL => freed'[r] = freed[r] + 1
    BY <1>type, <2>3, <2>7 DEF TypeOK
  <2>10. Lifetime'
    <3>1. \A p \in Requests : p = r => p \in asked
      BY <1>inv, <1>n, <2>7 DEF Lifetime
    <3>2. \A p \in Requests : AtAPlace(p)' => AtAPlace(p) /\ told'[p] = told[p]
      BY <2>6, <2>8
    <3> QED
      BY <1>inv, <2>2, <2>4, <2>8, <3>1, <3>2 DEF Lifetime
  <2>11. FreedOnce'
    <3> SUFFICES ASSUME restarts = 0 PROVE FreedOnce'
      BY <2>2 DEF FreedOnce
    <3>1. asked' = asked /\ asked \subseteq Requests
      BY <1>type, <2>2 DEF TypeOK
    <3> QED
      BY <1>inv, <1>n, <2>1, <2>2, <2>6, <2>7, <2>8, <2>9, <3>1 DEF FreedOnce
  <2> QED
    BY <2>5, <2>10, <2>11 DEF Places
<1>5. CASE EngineDown
  <2>1. /\ Distinct(msgs') /\ ~NoDown(msgs)
        /\ \A p \in Requests : InQueue(p, msgs') <=> InQueue(p, msgs)
        /\ \A p : Requested(p, msgs') => Requested(p, msgs)
    BY <1>5, <1>type, <1>inv, TakesFacts DEF EngineDown
  <2>2. UNCHANGED <<tmsg, rawRequest, told, dropped, asked, restarts, freed, tpc>>
    BY <1>5 DEF EngineDown
  <2>3. \A p : (Held(p)' <=> Held(p)) /\ (InSession(p)' <=> InSession(p))
    BY <2>2, HeldKept
  <2> QED
    BY <1>inv, <2>1, <2>2, <2>3
       DEF Places, OnePlace, Lifetime, NotDropped, OwnSession, FreedOnce, AtAPlace
<1>6. CASE ResetTest
  BY <1>0, <1>6 DEF ResetTest
<1>7. CASE ResetFree
  <2>1. /\ UNCHANGED <<msgs, tmsg, rawRequest, told, dropped, asked, restarts, tpc>>
        /\ restarts # 0 /\ hpc.ses \in Sessions
    BY <1>7, <1>type, <1>inv, Where DEF ResetFree, FreedOnce
  <2>2. \A p \in Requests : freed'[p] # freed[p] => InSession(p)
    BY <1>7, <1>type, <1>inv, <2>1 DEF ResetFree, Free, TypeOK, OwnSession, InSession
  <2>3. \A p : (Held(p)' <=> Held(p)) /\ (InSession(p)' <=> InSession(p))
    BY <2>1, HeldKept
  <2> QED
    BY <1>inv, <2>1, <2>2, <2>3
       DEF Places, OnePlace, Lifetime, NotDropped, OwnSession, FreedOnce, AtAPlace
<1>8. CASE ResetClear
  <2>1. /\ UNCHANGED <<msgs, tmsg, told, freed, asked, restarts, tpc>>
        /\ restarts # 0 /\ hpc.ses \in Sessions
    BY <1>8, <1>type, <1>inv, Where DEF ResetClear, FreedOnce
  <2>2. \A p \in Requests : p \in dropped' => p \in dropped \/ InSession(p)
    BY <1>8, <1>type, <1>inv, <2>1 DEF ResetClear, TypeOK, OwnSession, InSession
  <2>3. \A p \in Requests : InSession(p)' => InSession(p) /\ (p \in dropped' => p \in dropped)
    BY <1>8, <1>type, <1>inv, <2>1, SessionOf, NiAssumption
       DEF ResetClear, InSession, TypeOK, OwnSession
  <2>4. \A p \in Requests : Held(p)' => Held(p) /\ InSession(p)'
    BY <2>1, <2>3 DEF Held, InSession
  <2>5. OwnSession'
    BY <1>8, <1>type, <1>inv, <2>1 DEF ResetClear, OwnSession, TypeOK
  <2>6. NotDropped'
    <3>1. \A p \in Requests : Requested(p, msgs) => InQueue(p, msgs)
      BY DEF Requested, InQueue, ReqOf, RequestMsg
    <3> QED
      BY <1>inv, <2>1, <2>2, <2>3, <2>4, <3>1 DEF NotDropped, OnePlace
  <2> QED
    BY <1>inv, <2>1, <2>2, <2>3, <2>4, <2>5, <2>6
       DEF Places, OnePlace, Lifetime, FreedOnce, AtAPlace
<1>s. ASSUME NEW z \in Sessions, NEW a, respond(z, a)
      PROVE  \A t \in Requests : tpc'[t] = "clear" <=> tpc[t] = "clear"
  BY <1>s, <1>type, SignalType DEF respond
<1>9. CASE ResetSignal
  BY <1>0, <1>9, <1>s, <1>type, Where DEF ResetSignal, respond
<1>10. CASE IgnoreOther
  BY <1>0, <1>10, <1>s DEF IgnoreOther, respond, Sessions
<1>11. CASE SetResponse
  BY <1>0, <1>11, <1>s, <1>type, Where DEF SetResponse, respond
<1>12. CASE ModemRestarts
  <2>1. /\ [type |-> "LocEngDown"] \in Msg /\ ReqOf([type |-> "LocEngDown"]) = NULL
        /\ \A r : [type |-> "LocEngDown"] # RequestMsg(r)
    BY DEF Msg, ReqOf, RequestMsg
  <2>2. /\ Distinct(msgs') /\ \A p \in Requests : InQueue(p, msgs') <=> InQueue(p, msgs)
        /\ \A p : Requested(p, msgs') => Requested(p, msgs)
    BY <1>12, <1>type, <1>inv, <2>1, AppendQueue, NiAssumption
       DEF ModemRestarts, TypeOK, OnePlace
  <2>3. /\ UNCHANGED <<tmsg, rawRequest, told, dropped, freed, asked, tpc>>
        /\ restarts' # 0
    BY <1>12, <1>type DEF ModemRestarts, TypeOK
  <2>4. \A p : (Held(p)' <=> Held(p)) /\ (InSession(p)' <=> InSession(p))
    BY <2>3, HeldKept
  <2> QED
    BY <1>inv, <2>2, <2>3, <2>4
       DEF Places, OnePlace, Lifetime, NotDropped, OwnSession, FreedOnce, AtAPlace
<1>13. ASSUME NEW r \in Requests, ModemRequests(r) PROVE Places'
  <2>1. /\ RequestMsg(r) \in Msg /\ ReqOf(RequestMsg(r)) = r /\ RequestMsg(r).type # "LocEngDown"
        /\ \A p : RequestMsg(p) = RequestMsg(r) => p = r
    BY DEF Msg, ReqOf, RequestMsg
  <2>2. /\ msgs' = Append(msgs, RequestMsg(r)) /\ r \notin asked /\ asked' = asked \cup {r}
        /\ UNCHANGED <<tmsg, rawRequest, told, dropped, freed, restarts, hpc, tpc>>
    BY <1>13 DEF ModemRequests, RequestMsg
  <2>3. ~AtAPlace(r) /\ ~InSession(r) /\ told[r] = NULL /\ r \notin dropped /\ freed[r] = 0
    BY <1>inv, <2>2 DEF Lifetime
  <2>4. /\ Distinct(msgs') /\ (NoDown(msgs) => NoDown(msgs'))
        /\ \A p : InQueue(p, msgs') <=> InQueue(p, msgs) \/ p = r
        /\ \A p : Requested(p, msgs') => Requested(p, msgs) \/ p = r
    BY <1>type, <1>inv, <2>1, <2>2, <2>3, AppendQueue DEF TypeOK, OnePlace, AtAPlace
  <2>5. \A p : (Held(p)' <=> Held(p)) /\ (InSession(p)' <=> InSession(p))
    BY <2>2, HeldKept
  <2>6. OnePlace' /\ OwnSession' /\ NotDropped'
    BY <1>inv, <2>2, <2>3, <2>4, <2>5 DEF OnePlace, OwnSession, NotDropped, AtAPlace
  <2>7. \A p \in Requests : AtAPlace(p)' <=> AtAPlace(p) \/ p = r
    BY <2>2, <2>4, <2>5 DEF AtAPlace
  <2>8. Lifetime'
    BY <1>inv, <2>2, <2>3, <2>5, <2>7 DEF Lifetime
  <2>9. FreedOnce'
    BY <1>inv, <1>type, <2>2, <2>3, <2>4, <2>7 DEF FreedOnce, TypeOK
  <2> QED
    BY <2>6, <2>8, <2>9 DEF Places
<1>14. ASSUME NEW t \in Requests, NEW a \in Responses, EndWait(t, a),
              tpc[t] \in {"start", "wait", "woken"}
       PROVE  Places'
  <2>1. \A u \in Requests : tpc'[u] = "clear" <=> tpc[u] = "clear"
    BY <1>14, <1>type DEF EndWait, TypeOK
  <2> QED
    BY <1>0, <1>14, <2>1 DEF EndWait
<1>15. ASSUME NEW t \in Requests, TestResp(t) PROVE Places'
  <2>1. resp[sessionOf(t)] \in Responses
    BY <1>type, SessionOf DEF TypeOK
  <2>2. CASE respRecvd[sessionOf(t)]
    BY <1>14, <1>15, <2>1, <2>2 DEF TestResp
  <2>3. CASE ~respRecvd[sessionOf(t)]
    <3>1. \A u \in Requests : tpc'[u] = "clear" <=> tpc[u] = "clear"
      BY <1>15, <1>type, <2>3 DEF TestResp, TypeOK
    <3> QED
      BY <1>0, <1>15, <2>3, <3>1 DEF TestResp
  <2> QED
    BY <2>2, <2>3
<1>16. ASSUME NEW t \in Requests, TimeOut(t) PROVE Places'
  BY <1>14, <1>16 DEF TimeOut, Responses
<1>17. ASSUME NEW t \in Requests, Finish(t) PROVE Places'
  <2>0. \A u \in Requests : tpc'[u] = "clear" <=> tpc[u] = "clear"
    BY <1>17, <1>type DEF Finish, TypeOK
  <2>1. CASE tmsg[t] = NULL
    <3>1. tmsg' = tmsg
      BY <1>17, <1>type, <2>1 DEF Finish, TypeOK
    <3> QED
      BY <1>0, <1>17, <2>0, <2>1, <3>1 DEF Finish
  <2>2. CASE tmsg[t] # NULL
    <3> DEFINE r == tmsg[t].req
               m == [type |-> "LocEngInformNiResponse", answer |-> tmsg[t]]
    <3>1. /\ msgs' = Append(msgs, m) /\ tmsg' = [tmsg EXCEPT ![t] = NULL]
          /\ UNCHANGED <<rawRequest, told, dropped, freed, asked, restarts, hpc>>
      BY <1>17, <2>2 DEF Finish
    <3>2. /\ m \in Msg /\ ReqOf(m) = r /\ m.type # "LocEngDown" /\ r \in Requests \cup {NULL}
          /\ (r # NULL => Answering(t, r, tmsg)) /\ \A p : m # RequestMsg(p)
      BY <1>type, <2>2 DEF Msg, ReqOf, TypeOK, Answer, Answering, RequestMsg
    <3>3. r # NULL => InThread(r, tmsg) /\ ~InSession(r)
      BY <1>17, <1>inv, <2>2, <3>2 DEF InThread, SendsLast, Finish
    <3>4. r # NULL => ~InQueue(r, msgs)
      BY <1>inv, <3>2, <3>3 DEF OnePlace
    <3>5. /\ Distinct(msgs') /\ (NoDown(msgs) => NoDown(msgs'))
          /\ \A p : InQueue(p, msgs') <=> InQueue(p, msgs) \/ p = r
          /\ \A p : Requested(p, msgs') => Requested(p, msgs)
      BY <1>type, <1>inv, <3>1, <3>2, <3>4, AppendQueue DEF TypeOK, OnePlace
    <3>6. \A u, p \in Requests : Answering(u, p, tmsg') <=> Answering(u, p, tmsg) /\ u # t
      BY <1>type, <3>1 DEF Answering, TypeOK
    <3>7. \A p \in Requests : InThread(p, tmsg') <=> InThread(p, tmsg) /\ p # r
      BY <1>inv, <1>n, <3>2, <3>6 DEF InThread, OnePlace, OneThread, Answering
    <3>8. OneThread(tmsg')
      BY <1>inv, <3>6 DEF OneThread, OnePlace
    <3> HIDE DEF r, m
    <3>9. \A p : (Held(p)' <=> Held(p)) /\ (InSession(p)' <=> InSession(p))
      BY <2>0, <3>1, HeldKept
    <3>10. OnePlace'
      BY <1>inv, <1>n, <3>1, <3>2, <3>3, <3>5, <3>7, <3>8, <3>9 DEF OnePlace
    <3>11. \A p \in Requests : AtAPlace(p)' <=> AtAPlace(p)
      BY <1>inv, <1>n, <3>1, <3>2, <3>3, <3>5, <3>7, <3>9 DEF AtAPlace
    <3>12. Lifetime' /\ NotDropped' /\ OwnSession'
      BY <1>inv, <3>1, <3>5, <3>9, <3>11 DEF Lifetime, NotDropped, OwnSession
    <3>13. FreedOnce'
      BY <1>inv, <1>type, <3>1, <3>5, <3>11 DEF FreedOnce, TypeOK
    <3> QED
      BY <3>10, <3>12, <3>13 DEF Places
  <2> QED
    BY <2>1, <2>2
<1>18. ASSUME NEW r \in Requests, NEW a \in UserChoices, loc_eng_ni_respond(r, a) PROVE Places'
  BY <1>0, <1>18 DEF loc_eng_ni_respond
<1>19. CASE UNCHANGED vars
  BY <1>0, <1>19 DEF vars
<1>20. CASE TestIgnore
  BY <1>0, <1>20 DEF TestIgnore
<1>21. ASSUME NEW t \in Requests, Make(t) PROVE Places'
  <2> DEFINE s == sessionOf(t)
             r == rawRequest[s]
  <2>1. /\ UNCHANGED <<msgs, rawRequest, told, dropped, asked, restarts, hpc>>
        /\ tpc' = [tpc EXCEPT ![t] = "clear"] /\ tpc[t] = "make"
        /\ s \in Sessions /\ r \in Requests \cup {NULL}
        /\ tmsg[t] = NULL
    BY <1>21, <1>type, <1>inv, SessionOf DEF Make, TypeOK, SendsLast
  <2>2. \A p : InSession(p)' <=> InSession(p)
    BY <2>1 DEF InSession
  <2>3. \A p \in Requests : InSession(p) /\ sessionOf(p) = s <=> p = r
    BY <1>inv, <1>n, <2>1 DEF InSession, OwnSession
  <2>4. \A u \in Requests : tpc[u] = "clear" => sessionOf(u) # s
    BY <1>inv, <2>1 DEF OneHolder, Locks
  <2>5. \A u \in Requests : tpc'[u] = "clear" <=> tpc[u] = "clear" \/ u = t
    BY <1>type, <2>1 DEF TypeOK
  <2>6. \A p \in Requests : Held(p)' <=> Held(p) /\ p # r
    BY <2>2, <2>3, <2>5 DEF Held, InSession
  <2>7. r # NULL => r \in Requests /\ Held(r)
    BY <2>1, <2>3, <2>4 DEF Held, InSession
  <2>8. OwnSession' /\ NotDropped'
    BY <1>inv, <2>1, <2>6 DEF OwnSession, NotDropped
  <2>9. CASE resp[s] = "IGNORE"
    <3>1. tmsg' = tmsg /\ freed' = IF r = NULL THEN freed ELSE [freed EXCEPT ![r] = @ + 1]
      BY <1>21, <2>9 DEF Make, Free
    <3> HIDE DEF r, s
    <3>2. OnePlace'
      BY <1>inv, <2>1, <2>2, <2>6, <3>1 DEF OnePlace
    <3>3. \A p \in Requests : AtAPlace(p)' <=> AtAPlace(p) /\ p # r
      BY <1>inv, <1>h, <1>n, <2>1, <2>6, <2>7, <3>1 DEF AtAPlace, OnePlace
    <3>4. r # NULL => AtAPlace(r)
      BY <2>7 DEF AtAPlace
    <3>5. \A p \in Requests : freed'[p] = IF p = r THEN freed[p] + 1 ELSE freed[p]
      BY <1>type, <1>n, <2>7, <3>1 DEF TypeOK
    <3>6. Lifetime'
      <4>1. \A p \in Requests : freed'[p] # freed[p] => p \in asked
        BY <1>inv, <1>n, <3>4, <3>5 DEF Lifetime
      <4> QED
        BY <1>inv, <2>1, <2>2, <3>3, <4>1 DEF Lifetime
    <3>7. FreedOnce'
      <4> SUFFICES ASSUME restarts = 0 PROVE FreedOnce'
        BY <2>1 DEF FreedOnce
      <4>1. /\ hpc.at \in {"idle", "notify"} /\ NoDown(msgs) /\ dropped = {}
            /\ asked \subseteq Requests
        BY <1>inv, <1>type DEF FreedOnce, TypeOK
      <4>2. \A p \in asked : freed[p] = IF AtAPlace(p) THEN 0 ELSE 1
        BY <1>inv DEF FreedOnce
      <4>3. \A p \in asked : freed'[p] = IF AtAPlace(p)' THEN 0 ELSE 1
        BY <1>n, <3>3, <3>4, <3>5, <4>1, <4>2
      <4> QED
        BY <2>1, <4>1, <4>3 DEF FreedOnce
    <3> QED
      BY <2>8, <3>2, <3>6, <3>7 DEF Places
  <2>10. CASE resp[s] # "IGNORE"
    <3> DEFINE m == [req |-> r, resp |-> resp[s]]
    <3>1. tmsg' = [tmsg EXCEPT ![t] = m] /\ freed' = freed
      BY <1>21, <2>10 DEF Make
    <3>2. m # NULL /\ m.req = r
      <4>1. m \in Answer
        BY <1>type, <2>1 DEF Answer, TypeOK
      <4> QED
        BY <4>1, NullAssumption
    <3> HIDE DEF m, r, s
    <3>3. \A u, p \in Requests : Answering(u, p, tmsg')
                                   <=> Answering(u, p, tmsg) \/ (u = t /\ p = r)
      BY <1>type, <2>1, <3>1, <3>2 DEF Answering, TypeOK
    <3>4. \A p \in Requests : InThread(p, tmsg') <=> InThread(p, tmsg) \/ p = r
      BY <3>3 DEF InThread
    <3>5. OneThread(tmsg')
      BY <1>inv, <2>7, <3>3, <1>n DEF OneThread, InThread, OnePlace
    <3>6. OnePlace'
      BY <1>inv, <1>h, <1>n, <2>1, <2>2, <2>6, <2>7, <3>4, <3>5 DEF OnePlace
    <3>7. \A p \in Requests : AtAPlace(p)' <=> AtAPlace(p)
      BY <1>n, <2>1, <2>6, <2>7, <3>4 DEF AtAPlace
    <3>8. Lifetime' /\ FreedOnce'
      BY <1>inv, <1>type, <2>1, <2>2, <3>1, <3>7 DEF Lifetime, FreedOnce, TypeOK
    <3> QED
      BY <2>8, <3>6, <3>8 DEF Places
  <2> QED
    BY <2>9, <2>10
<1>22. ASSUME NEW t \in Requests, Clear(t) PROVE Places'
  <2>1. /\ UNCHANGED <<msgs, tmsg, told, dropped, asked, restarts, hpc, freed>>
        /\ tpc' = [tpc EXCEPT ![t] = "unlocked"] /\ tpc[t] = "clear"
        /\ rawRequest' = [rawRequest EXCEPT ![sessionOf(t)] = NULL] /\ sessionOf(t) \in Sessions
    BY <1>22, SessionOf DEF Clear
  <2>2. \A p \in Requests : InSession(p)' <=> InSession(p) /\ sessionOf(p) # sessionOf(t)
    BY <1>type, <1>n, <2>1, SessionOf DEF InSession, TypeOK
  <2>3. \A u \in Requests : tpc'[u] = "clear" <=> tpc[u] = "clear" /\ u # t
    BY <1>type, <2>1 DEF TypeOK
  <2>4. \A p \in Requests : Held(p)' <=> Held(p)
    BY <2>1, <2>2, <2>3 DEF Held, InSession
  <2>5. OwnSession'
    BY <1>inv, <1>type, <2>1 DEF OwnSession, TypeOK
  <2>6. OnePlace' /\ NotDropped'
    BY <1>inv, <2>1, <2>2, <2>4 DEF OnePlace, NotDropped
  <2>7. \A p \in Requests : AtAPlace(p)' <=> AtAPlace(p)
    BY <2>1, <2>4 DEF AtAPlace
  <2> QED
    BY <1>inv, <1>type, <2>1, <2>2, <2>5, <2>6, <2>7 DEF Places, Lifetime, FreedOnce, TypeOK
<1> QED
  BY <1>1, <1>2, <1>3, <1>4, <1>5, <1>6, <1>7, <1>8, <1>9, <1>10, <1>11, <1>12, <1>13, <1>15,
     <1>16, <1>17, <1>18, <1>19, <1>20, <1>21, <1>22
     DEF Next, MsgTaskStep, UserStep, ni_thread_proc

\* What a thread that is signalled, or that is not, changes for the others.
LEMMA SignalFacts ==
  ASSUME NiInv, NEW s \in Sessions, NEW a, respond(s, a),
         UNCHANGED <<msgs, asked>>, \A r \in Requests : Notifying(r)' => Notifying(r)
  PROVE  (NotStarted /\ NoLostResponse)'
<1>1. TypeOK /\ NotStarted /\ NoLostResponse
  BY DEF NiInv, Threading
<1>2. /\ \A t \in Requests : tpc'[t] # tpc[t] => tpc[t] = "wait" /\ tpc'[t] = "woken"
      /\ Waiting(s) # {} => \E t \in Requests : sessionOf(t) = s /\ tpc'[t] = "woken"
      /\ respRecvd' = [respRecvd EXCEPT ![s] = TRUE]
  BY <1>1, SignalType DEF respond
<1>3. NotStarted'
  BY <1>1, <1>2 DEF NotStarted
<1>4. NoLostResponse'
  <2> SUFFICES ASSUME NEW z \in Sessions, respRecvd'[z], NEW t \in Requests,
                      sessionOf(t) = z, tpc'[t] = "wait"
               PROVE  \E u \in Requests : sessionOf(u) = z /\ tpc'[u] \in {"start", "woken"}
    BY DEF NoLostResponse, Waiting
  <2>1. t \in Waiting(z)
    BY <1>2 DEF Waiting
  <2>2. CASE z = s
    BY <1>2, <2>1, <2>2
  <2>3. CASE z # s
    <3>1. respRecvd[z]
      BY <1>1, <1>2, <2>3 DEF TypeOK
    <3>2. PICK u \in Requests : sessionOf(u) = z /\ tpc[u] \in {"start", "woken"}
      BY <1>1, <2>1, <3>1 DEF NoLostResponse
    <3>3. tpc'[u] = tpc[u]
      BY <1>2, <3>2
    <3> QED
      BY <3>2, <3>3
  <2> QED
    BY <2>2, <2>3
<1> QED
  BY <1>3, <1>4

\* The threads after every step.
LEMMA ThreadsStep == NiInv /\ [Next]_vars => (NotStarted /\ NoLostResponse)'
<1> DEFINE Goal == (NotStarted /\ NoLostResponse)'
<1> SUFFICES ASSUME NiInv, [Next]_vars PROVE Goal
  OBVIOUS
<1>type. TypeOK /\ TypeOK'
  BY TypeStep DEF NiInv
<1>inv. OnePlace /\ Lifetime /\ NotStarted /\ NoLostResponse
  BY DEF NiInv, Places, Threading
<1> USE DEF session, thread, client, modem
<1>0. ASSUME UNCHANGED <<asked, respRecvd>>,
             \A r \in Requests : /\ Requested(r, msgs') => Requested(r, msgs)
                                 /\ Notifying(r)' => Notifying(r)
                                 /\ \/ tpc'[r] = tpc[r]
                                    \/ /\ tpc[r] \in {"make", "clear", "unlocked"}
                                       /\ tpc'[r] \in {"clear", "unlocked", "done"}
      PROVE  Goal
  <2>1. NotStarted'
    BY <1>0, <1>inv DEF NotStarted
  <2>2. NoLostResponse'
    <3> SUFFICES ASSUME NEW z \in Sessions, respRecvd'[z], NEW u \in Requests,
                        sessionOf(u) = z, tpc'[u] = "wait"
                 PROVE  \E v \in Requests : sessionOf(v) = z /\ tpc'[v] \in {"start", "woken"}
      BY DEF NoLostResponse, Waiting
    <3>1. respRecvd[z] /\ tpc[u] = "wait"
      BY <1>0
    <3>2. PICK v \in Requests : sessionOf(v) = z /\ tpc[v] \in {"start", "woken"}
      BY <1>inv, <3>1 DEF NoLostResponse, Waiting
    <3> QED
      BY <1>0, <3>2
  <2> QED
    BY <2>1, <2>2
<1>1. CASE IgnoreRequest \/ InformNiResponse \/ EngineDown
  <2>1. \A r : Requested(r, msgs') => Requested(r, msgs)
    BY <1>1, <1>type, <1>inv, TakesFacts DEF IgnoreRequest, InformNiResponse, EngineDown
  <2>2. \A r : ~Notifying(r)'
    BY <1>1 DEF IgnoreRequest, InformNiResponse, EngineDown, Takes, Test, nextSession, Idle, Notifying
  <2> QED
    BY <1>0, <1>1, <2>1, <2>2 DEF IgnoreRequest, InformNiResponse, EngineDown
<1>2. CASE AcceptRequest
  <2> DEFINE r == Head(msgs).req
  <2>1. /\ r \in Requests /\ Requested(r, msgs) /\ InQueue(r, msgs)
        /\ \A p : Requested(p, msgs') => Requested(p, msgs)
        /\ \A p : InQueue(p, msgs') <=> InQueue(p, msgs) /\ p # r
    BY <1>2, <1>type, <1>inv, TakesFacts DEF AcceptRequest
  <2>2. /\ hpc' = [at |-> "notify", req |-> r]
        /\ UNCHANGED <<asked, tpc, respRecvd>>
    BY <1>2 DEF AcceptRequest
  <2> HIDE DEF r
  <2>3. ~Requested(r, msgs') /\ r \in asked
    <3>1. Requested(r, msgs') => InQueue(r, msgs')
      BY DEF Requested, InQueue, ReqOf, RequestMsg
    <3> QED
      BY <1>inv, <2>1, <3>1 DEF Lifetime, AtAPlace
  <2>4. \A p \in Requests : Notifying(p)' <=> p = r
    BY <2>2 DEF Notifying
  <2>5. NotStarted'
    BY <1>inv, <2>1, <2>2, <2>3, <2>4 DEF NotStarted
  <2> QED
    BY <1>inv, <2>2, <2>5 DEF NoLostResponse, Waiting
<1>3. CASE Notify
  <2> DEFINE r == hpc.req
  <2>1. /\ r \in Requests /\ Notifying(r)
        /\ \E pc \in {"start", "failed"} : tpc' = [tpc EXCEPT ![r] = pc]
        /\ UNCHANGED <<msgs, asked, respRecvd>>
        /\ \A p : ~Notifying(p)'
    BY <1>3, <1>type, Where DEF Notify, Notifying, Idle
  <2> HIDE DEF r
  <2>2. tpc[r] = "none" /\ r \in asked /\ ~Requested(r, msgs)
    BY <1>inv, <2>1 DEF NotStarted
  <2>3. NotStarted'
    BY <1>inv, <1>type, <2>1, <2>2 DEF NotStarted, TypeOK
  <2>4. \A p \in Requests : /\ tpc'[p] = "wait" => tpc[p] = "wait"
                            /\ tpc[p] \in {"start", "woken"} => tpc'[p] = tpc[p]
    BY <1>type, <2>1, <2>2 DEF TypeOK
  <2>5. NoLostResponse'
    BY <1>inv, <2>1, <2>4 DEF NoLostResponse, Waiting
  <2> QED
    BY <2>3, <2>5
<1>4. CASE ResetTest \/ ResetFree \/ ResetClear
  BY <1>0, <1>4, <1>type, Where DEF ResetTest, ResetFree, ResetClear, Notifying, Test, nextSession, Idle
<1>5. CASE ResetSignal
  BY <1>5, <1>type, Where, SignalFacts DEF ResetSignal, Notifying, nextSession, Idle
<1>6. CASE IgnoreOther
  BY <1>6, <1>type, SignalFacts DEF IgnoreOther, Notifying, Sessions
<1>7. CASE SetResponse
  BY <1>7, <1>type, Where, SignalFacts DEF SetResponse, Notifying
<1>8. CASE ModemRestarts
  <2>1. [type |-> "LocEngDown"] \in Msg /\ \A r : [type |-> "LocEngDown"] # RequestMsg(r)
    BY DEF Msg, RequestMsg
  <2>2. \A r : Requested(r, msgs') => Requested(r, msgs)
    BY <1>8, <1>type, <2>1, AppendQueue DEF ModemRestarts, TypeOK
  <2> QED
    BY <1>0, <1>8, <2>2 DEF ModemRestarts, Notifying
<1>9. ASSUME NEW r \in Requests, ModemRequests(r) PROVE Goal
  <2>1. RequestMsg(r) \in Msg /\ \A p : RequestMsg(p) = RequestMsg(r) => p = r
    BY DEF Msg, RequestMsg
  <2>2. \A p : Requested(p, msgs') => Requested(p, msgs) \/ p = r
    BY <1>9, <1>type, <2>1, AppendQueue DEF ModemRequests, TypeOK, RequestMsg
  <2>3. r \notin asked /\ asked' = asked \cup {r} /\ UNCHANGED <<tpc, respRecvd, hpc>>
    BY <1>9 DEF ModemRequests
  <2>4. NotStarted'
    BY <1>inv, <2>2, <2>3 DEF NotStarted, Notifying
  <2> QED
    BY <1>inv, <2>3, <2>4 DEF NoLostResponse, Waiting
<1>10. ASSUME NEW t \in Requests, NEW a \in Responses, EndWait(t, a),
              tpc[t] \in {"start", "wait", "woken"}
       PROVE  Goal
  <2>1. /\ UNCHANGED <<msgs, asked, hpc>>
        /\ \E pc \in {"make", "unlocked"} : tpc' = [tpc EXCEPT ![t] = pc]
        /\ respRecvd' = [respRecvd EXCEPT ![sessionOf(t)] = FALSE]
    BY <1>10, <1>type DEF EndWait, TypeOK
  <2>2. NotStarted'
    BY <1>10, <1>inv, <1>type, <2>1 DEF NotStarted, TypeOK, Notifying
  <2>3. NoLostResponse'
    <3> SUFFICES ASSUME NEW z \in Sessions, respRecvd'[z], NEW u \in Requests,
                        sessionOf(u) = z, tpc'[u] = "wait"
                 PROVE  \E v \in Requests : sessionOf(v) = z /\ tpc'[v] \in {"start", "woken"}
      BY DEF NoLostResponse, Waiting
    <3>1. respRecvd[z] /\ z # sessionOf(t) /\ tpc[u] = "wait"
      BY <1>type, <2>1 DEF TypeOK
    <3>2. PICK v \in Requests : sessionOf(v) = z /\ tpc[v] \in {"start", "woken"}
      BY <1>inv, <3>1 DEF NoLostResponse, Waiting
    <3> QED
      BY <1>type, <2>1, <3>1, <3>2 DEF TypeOK
  <2> QED
    BY <2>2, <2>3
<1>11. ASSUME NEW t \in Requests, TestResp(t) PROVE Goal
  <2>1. CASE respRecvd[sessionOf(t)] /\ EndWait(t, resp[sessionOf(t)])
    BY <1>10, <1>11, <1>type, <2>1, SessionOf DEF TestResp, TypeOK
  <2>2. CASE ~respRecvd[sessionOf(t)]
    <3>1. /\ tpc[t] \in {"start", "woken"} /\ tpc' = [tpc EXCEPT ![t] = "wait"]
          /\ UNCHANGED <<msgs, asked, hpc, respRecvd>>
      BY <1>11, <2>2 DEF TestResp
    <3>2. NotStarted'
      BY <1>inv, <1>type, <3>1 DEF NotStarted, TypeOK, Notifying
    <3>3. NoLostResponse'
      <4> SUFFICES ASSUME NEW z \in Sessions, respRecvd[z], NEW u \in Requests,
                          sessionOf(u) = z, tpc'[u] = "wait"
                   PROVE  \E v \in Requests : sessionOf(v) = z /\ tpc'[v] \in {"start", "woken"}
        BY <3>1 DEF NoLostResponse, Waiting
      <4>1. z # sessionOf(t) /\ u # t /\ tpc[u] = "wait"
        BY <1>type, <2>2, <3>1 DEF TypeOK
      <4>2. PICK v \in Requests : sessionOf(v) = z /\ tpc[v] \in {"start", "woken"}
        BY <1>inv, <4>1 DEF NoLostResponse, Waiting
      <4> QED
        BY <1>type, <3>1, <4>1, <4>2 DEF TypeOK
    <3> QED
      BY <3>2, <3>3
  <2> QED
    BY <1>11, <2>1, <2>2 DEF TestResp
<1>12. ASSUME NEW t \in Requests, TimeOut(t) PROVE Goal
  BY <1>10, <1>12 DEF TimeOut, Responses
<1>13. ASSUME NEW t \in Requests, Finish(t) PROVE Goal
  <2>1. \A r : Requested(r, msgs') => Requested(r, msgs)
    <3>1. CASE tmsg[t] = NULL
      BY <1>13, <3>1 DEF Finish
    <3>2. CASE tmsg[t] # NULL
      <4> DEFINE m == [type |-> "LocEngInformNiResponse", answer |-> tmsg[t]]
      <4>1. m \in Msg /\ \A r : m # RequestMsg(r)
        BY <1>type, <3>2 DEF Msg, RequestMsg, TypeOK
      <4>2. msgs' = Append(msgs, m)
        BY <1>13, <3>2 DEF Finish
      <4> QED
        BY <1>type, <4>1, <4>2, AppendQueue DEF TypeOK
    <3> QED
      BY <3>1, <3>2
  <2> QED
    BY <1>0, <1>13, <1>type, <2>1 DEF Finish, Notifying, TypeOK
<1>14. ASSUME NEW r \in Requests, NEW a \in UserChoices, loc_eng_ni_respond(r, a) PROVE Goal
  BY <1>0, <1>14 DEF loc_eng_ni_respond, Notifying
<1>15. CASE UNCHANGED vars
  BY <1>0, <1>15 DEF vars, Notifying
<1>16. CASE TestIgnore
  BY <1>0, <1>16 DEF TestIgnore, Notifying
<1>17. ASSUME NEW t \in Requests, Make(t) \/ Clear(t) PROVE Goal
  BY <1>0, <1>17, <1>type DEF Make, Clear, Notifying, TypeOK
<1> QED
  BY <1>1, <1>2, <1>3, <1>4, <1>5, <1>6, <1>7, <1>8, <1>9, <1>11, <1>12, <1>13, <1>14, <1>15,
     <1>16, <1>17 DEF Next, MsgTaskStep, UserStep, ni_thread_proc

\* The lock, what is made under it and what is sent behind it, after every step.
LEMMA LocksStep == NiInv /\ [Next]_vars => (SendsLast /\ OneHolder /\ Emptied)'
<1> DEFINE Goal == (SendsLast /\ OneHolder /\ Emptied)'
<1> SUFFICES ASSUME NiInv, [Next]_vars PROVE Goal
  OBVIOUS
<1>type. TypeOK /\ TypeOK'
  BY TypeStep DEF NiInv
<1>inv. /\ OnePlace /\ OwnSession /\ NotStarted /\ SendsLast /\ OneHolder /\ Emptied
  BY DEF NiInv, Places, Threading
<1> USE DEF session, thread, client, modem
<1>0. ASSUME UNCHANGED <<tmsg, rawRequest, dropped>>,
             \A t \in Requests : \/ tpc'[t] = tpc[t]
                                 \/ /\ tpc[t] \notin {"make", "clear", "unlocked"}
                                    /\ tpc'[t] \notin {"make", "clear", "unlocked"}
      PROVE  Goal
  <2>1. \A t \in Requests : Locks(t)' <=> Locks(t)
    BY <1>0 DEF Locks
  <2>2. SendsLast'
    BY <1>0, <1>inv DEF SendsLast, InSession
  <2> QED
    BY <1>0, <1>inv, <2>1, <2>2 DEF OneHolder, Emptied
<1>s. ASSUME NEW z \in Sessions, NEW a, respond(z, a), UNCHANGED <<tmsg, rawRequest, dropped>>
      PROVE  Goal
  BY <1>0, <1>s, <1>type, SignalType DEF respond
<1>1. CASE IgnoreRequest \/ InformNiResponse \/ EngineDown
  BY <1>0, <1>1 DEF IgnoreRequest, InformNiResponse, EngineDown
<1>2. CASE AcceptRequest
  <2> DEFINE r == Head(msgs).req
  <2>1. r \in Requests /\ InQueue(r, msgs)
    BY <1>2, <1>type, <1>inv, TakesFacts DEF AcceptRequest
  <2>2. /\ rawRequest' = [rawRequest EXCEPT ![sessionOf(r)] = r]
        /\ UNCHANGED <<tmsg, dropped, tpc>>
    BY <1>2 DEF AcceptRequest
  <2> HIDE DEF r
  <2>3. \A p \in Requests : InSession(p)' => InSession(p) \/ p = r
    BY <1>type, <2>1, <2>2, SessionOf DEF InSession, TypeOK
  <2>4. ~InThread(r, tmsg)
    BY <1>inv, <2>1 DEF OnePlace
  <2>5. SendsLast'
    <3> SUFFICES ASSUME NEW t \in Requests, tmsg[t] # NULL, tpc[t] = "unlocked",
                        tmsg[t].req # NULL
                 PROVE  ~InSession(tmsg[t].req)'
      BY <1>inv, <2>2 DEF SendsLast
    <3>1. tmsg[t].req \in Requests /\ ~InSession(tmsg[t].req)
      BY <1>inv, <1>type DEF SendsLast, TypeOK, Answer
    <3>2. tmsg[t].req # r
      BY <2>1, <2>4 DEF InThread, Answering
    <3>3. PICK p \in Requests : p = tmsg[t].req
      BY <3>1
    <3>4. ~InSession(p)'
      BY <2>3, <3>1, <3>2, <3>3
    <3> QED
      BY <2>2, <3>3, <3>4 DEF InSession
  <2>6. \A z \in Sessions : rawRequest'[z] = NULL => rawRequest[z] = NULL
    BY <1>type, <2>1, <2>2, NiAssumption DEF TypeOK
  <2> QED
    BY <1>inv, <2>2, <2>5, <2>6, SessionOf DEF OneHolder, Emptied, Locks
<1>3. CASE Notify
  <2>1. hpc.req \in Requests /\ tpc[hpc.req] = "none"
    BY <1>3, <1>type, <1>inv, Where DEF Notify, Notifying, NotStarted
  <2> QED
    BY <1>0, <1>3, <1>type, <2>1 DEF Notify, TypeOK
<1>4. CASE ResetTest \/ ResetFree
  BY <1>0, <1>4 DEF ResetTest, ResetFree
<1>5. CASE ResetClear
  <2>1. /\ hpc.ses \in Sessions /\ UNCHANGED <<tmsg, tpc>>
        /\ rawRequest' = [rawRequest EXCEPT ![hpc.ses] = NULL]
        /\ dropped' = dropped \cup ({rawRequest[hpc.ses]} \ {NULL})
    BY <1>5, <1>type, Where DEF ResetClear
  <2>2. \A p \in Requests : InSession(p)' => InSession(p)
    BY <1>type, <2>1, SessionOf, NiAssumption DEF InSession, TypeOK
  <2>3. SendsLast'
    <3> SUFFICES ASSUME NEW t \in Requests, tmsg[t] # NULL, tpc[t] = "unlocked",
                        tmsg[t].req # NULL
                 PROVE  ~InSession(tmsg[t].req)'
      BY <1>inv, <2>1 DEF SendsLast
    <3>1. PICK p \in Requests : p = tmsg[t].req /\ ~InSession(p)
      BY <1>inv, <1>type DEF SendsLast, TypeOK, Answer
    <3>2. ~InSession(p)'
      BY <2>2, <3>1
    <3> QED
      BY <2>1, <3>1, <3>2 DEF InSession
  <2>4. Emptied'
    <3> SUFFICES ASSUME NEW t \in Requests, Locks(t), rawRequest'[sessionOf(t)] = NULL
                 PROVE  \E r \in dropped' : sessionOf(r) = sessionOf(t)
      BY <2>1 DEF Emptied, Locks
    <3>1. CASE rawRequest[sessionOf(t)] = NULL
      BY <1>inv, <2>1, <3>1 DEF Emptied
    <3>2. CASE rawRequest[sessionOf(t)] # NULL
      BY <1>inv, <1>type, <2>1, <3>2, SessionOf DEF OwnSession, TypeOK
    <3> QED
      BY <3>1, <3>2
  <2> QED
    BY <1>inv, <2>1, <2>3, <2>4 DEF OneHolder, Locks
<1>6. CASE ResetSignal
  BY <1>6, <1>s, <1>type, Where DEF ResetSignal
<1>7. CASE IgnoreOther
  BY <1>7, <1>s DEF IgnoreOther, Sessions
<1>8. CASE SetResponse
  BY <1>8, <1>s, <1>type, Where DEF SetResponse
<1>9. CASE TestIgnore \/ ModemRestarts
  BY <1>0, <1>9 DEF TestIgnore, ModemRestarts
<1>10. ASSUME NEW r \in Requests, ModemRequests(r) PROVE Goal
  BY <1>0, <1>10 DEF ModemRequests
<1>11. ASSUME NEW t \in Requests, NEW a \in Responses, EndWait(t, a),
              tpc[t] \in {"start", "wait", "woken"}, Holders(sessionOf(t)) = {}
       PROVE  Goal
  <2>1. /\ UNCHANGED <<tmsg, rawRequest, dropped>>
        /\ tpc' = [tpc EXCEPT ![t] = IF rawRequest[sessionOf(t)] = NULL THEN "unlocked" ELSE "make"]
    BY <1>11 DEF EndWait
  <2>2. \A u \in Requests : u # t => tpc'[u] = tpc[u]
    BY <1>type, <2>1 DEF TypeOK
  <2>3. \A u \in Requests : Locks(u) => sessionOf(u) # sessionOf(t)
    BY <1>11 DEF Holders, Locks
  <2>4. tpc'[t] = IF rawRequest[sessionOf(t)] = NULL THEN "unlocked" ELSE "make"
    BY <1>type, <2>1 DEF TypeOK
  <2>5. SendsLast'
    BY <1>11, <1>inv, <2>1, <2>2 DEF SendsLast, InSession
  <2>6. OneHolder'
    BY <1>inv, <2>2, <2>3 DEF OneHolder, Locks
  <2>7. Emptied'
    BY <1>inv, <2>1, <2>2, <2>4 DEF Emptied, Locks
  <2> QED
    BY <2>5, <2>6, <2>7
<1>12. ASSUME NEW t \in Requests, TestResp(t) PROVE Goal
  <2>1. resp[sessionOf(t)] \in Responses
    BY <1>type, SessionOf DEF TypeOK
  <2>2. CASE respRecvd[sessionOf(t)]
    BY <1>11, <1>12, <2>1, <2>2 DEF TestResp
  <2>3. CASE ~respRecvd[sessionOf(t)]
    BY <1>0, <1>12, <1>type, <2>3 DEF TestResp, TypeOK
  <2> QED
    BY <2>2, <2>3
<1>13. ASSUME NEW t \in Requests, TimeOut(t) PROVE Goal
  BY <1>11, <1>13 DEF TimeOut, Responses
<1>14. ASSUME NEW t \in Requests, Make(t) PROVE Goal
  <2> DEFINE r == rawRequest[sessionOf(t)]
  <2>1. /\ tpc[t] = "make" /\ tpc' = [tpc EXCEPT ![t] = "clear"]
        /\ UNCHANGED <<rawRequest, dropped>>
        /\ tmsg' = tmsg \/ tmsg' = [tmsg EXCEPT ![t] = [req |-> r, resp |-> resp[sessionOf(t)]]]
    BY <1>14 DEF Make
  <2>2. \A u \in Requests : /\ u # t => tpc'[u] = tpc[u] /\ tmsg'[u] = tmsg[u]
                            /\ Locks(u)' <=> Locks(u)
    BY <1>type, <2>1 DEF TypeOK, Locks
  <2>3. tpc'[t] = "clear" /\ (tmsg'[t] # NULL => tmsg'[t].req = r)
    <3>1. tpc'[t] = "clear" /\ tmsg[t] = NULL
      BY <1>inv, <1>type, <2>1 DEF TypeOK, SendsLast
    <3>2. tmsg'[t] = NULL \/ tmsg'[t] = [req |-> r, resp |-> resp[sessionOf(t)]]
      BY <1>type, <2>1, <3>1 DEF TypeOK
    <3> QED
      BY <3>1, <3>2
  <2>4. r # NULL => sessionOf(r) = sessionOf(t)
    BY <1>inv, SessionOf DEF OwnSession
  <2> HIDE DEF r
  <2>5. SendsLast'
    BY <1>inv, <2>1, <2>2, <2>3, <2>4 DEF SendsLast, InSession
  <2> QED
    BY <1>inv, <2>1, <2>2, <2>5 DEF OneHolder, Emptied
<1>15. ASSUME NEW t \in Requests, Clear(t) PROVE Goal
  <2>1. /\ tpc[t] = "clear" /\ tpc' = [tpc EXCEPT ![t] = "unlocked"]
        /\ rawRequest' = [rawRequest EXCEPT ![sessionOf(t)] = NULL] /\ sessionOf(t) \in Sessions
        /\ UNCHANGED <<tmsg, dropped>>
    BY <1>15, SessionOf DEF Clear
  <2>2. \A u \in Requests : /\ u # t => tpc'[u] = tpc[u]
                            /\ Locks(u)' => u # t /\ Locks(u)
    BY <1>type, <2>1 DEF TypeOK, Locks
  <2>3. \A p \in Requests : InSession(p)' => InSession(p) /\ sessionOf(p) # sessionOf(t)
    BY <1>type, <2>1, SessionOf, NiAssumption DEF InSession, TypeOK
  <2>4. SendsLast'
    <3> SUFFICES ASSUME NEW u \in Requests, tmsg[u] # NULL
                 PROVE  \/ tpc'[u] = "clear"
                           /\ (tmsg[u].req # NULL => sessionOf(tmsg[u].req) = sessionOf(u))
                        \/ tpc'[u] = "unlocked"
                           /\ (tmsg[u].req # NULL => rawRequest'[sessionOf(tmsg[u].req)] # tmsg[u].req)
      BY <2>1 DEF SendsLast, InSession
    <3>1. PICK p \in Requests \cup {NULL} : p = tmsg[u].req
      BY <1>type DEF TypeOK, Answer
    <3>2. \/ tpc[u] = "clear" /\ (p # NULL => sessionOf(p) = sessionOf(u))
          \/ tpc[u] = "unlocked" /\ (p # NULL => ~InSession(p))
      BY <1>inv, <3>1 DEF SendsLast
    <3>3. CASE u = t
      <4>1. tpc'[u] = "unlocked" /\ (p # NULL => ~InSession(p)')
        BY <1>type, <2>1, <2>3, <3>2, <3>3 DEF TypeOK
      <4> QED
        BY <3>1, <4>1 DEF InSession
    <3>4. CASE u # t
      <4>1. p # NULL /\ ~InSession(p) => ~InSession(p)'
        BY <2>3
      <4> QED
        BY <2>2, <3>1, <3>2, <3>4, <4>1 DEF InSession
    <3> QED
      BY <3>3, <3>4
  <2>5. OneHolder'
    BY <1>inv, <2>2 DEF OneHolder
  <2>6. \A u \in Requests : Locks(u)' => rawRequest'[sessionOf(u)] = rawRequest[sessionOf(u)]
    BY <1>inv, <1>type, <2>1, <2>2, SessionOf DEF OneHolder, Locks, TypeOK
  <2>7. Emptied'
    BY <1>inv, <2>1, <2>2, <2>6 DEF Emptied
  <2> QED
    BY <2>4, <2>5, <2>7
<1>16. ASSUME NEW t \in Requests, Finish(t) PROVE Goal
  <2>1. /\ tpc[t] = "unlocked" /\ UNCHANGED <<rawRequest, dropped>>
        /\ tpc'[t] = "done" /\ tmsg'[t] = NULL
        /\ \A u \in Requests : u # t => tpc'[u] = tpc[u] /\ tmsg'[u] = tmsg[u]
    BY <1>16, <1>type DEF Finish, TypeOK
  <2>2. \A u \in Requests : Locks(u)' <=> Locks(u)
    BY <2>1 DEF Locks
  <2>3. SendsLast'
    BY <1>inv, <2>1 DEF SendsLast, InSession
  <2> QED
    BY <1>inv, <2>1, <2>2, <2>3 DEF OneHolder, Emptied
<1>17. ASSUME NEW r \in Requests, NEW a \in UserChoices, loc_eng_ni_respond(r, a) PROVE Goal
  BY <1>0, <1>17 DEF loc_eng_ni_respond
<1>18. CASE UNCHANGED vars
  BY <1>0, <1>18 DEF vars
<1> QED
  BY <1>1, <1>2, <1>3, <1>4, <1>5, <1>6, <1>7, <1>8, <1>9, <1>10, <1>12, <1>13, <1>14, <1>15,
     <1>16, <1>17, <1>18 DEF Next, MsgTaskStep, UserStep, ni_thread_proc

LEMMA NiInvariant == Spec => []NiInv
<1>1. Init => NiInv
  <2> SUFFICES ASSUME Init PROVE NiInv
    OBVIOUS
  <2>1. TypeOK
    BY NiAssumption DEF Init, TypeOK, Idle, Responses
  <2>2. /\ \A r : ~InQueue(r, msgs) /\ ~Requested(r, msgs)
        /\ Distinct(msgs) /\ NoDown(msgs)
    BY DEF Init, InQueue, Requested, Distinct, NoDown
  <2>3. \A r \in Requests : ~InThread(r, tmsg) /\ ~Held(r) /\ ~InSession(r)
    BY NiAssumption, SessionOf DEF Init, InThread, Answering, Held, InSession
  <2>4. OneThread(tmsg)
    BY DEF Init, OneThread, Answering
  <2>5. Places
    BY <2>2, <2>3, <2>4
       DEF Init, Places, OnePlace, Lifetime, NotDropped, OwnSession, FreedOnce, AtAPlace, Idle
  <2>6. Threading
    BY <2>2 DEF Init, Threading, NotStarted, SendsLast, OneHolder, Emptied, Locks,
       NoLostResponse, Notifying, Idle
  <2> QED
    BY <2>1, <2>5, <2>6 DEF NiInv
<1>2. NiInv /\ [Next]_vars => NiInv'
  BY TypeStep, PlacesStep, ThreadsStep, LocksStep DEF NiInv, Threading
<1> QED
  BY <1>1, <1>2, PTL DEF Spec

-----------------------------------------------------------------------------
(* What the invariant gives.                                               *)

\* A set without two different elements.
LEMMA AtMostOne ==
  ASSUME NEW S, \A x, y \in S : x = y
  PROVE  Cardinality(S) = IF S = {} THEN 0 ELSE 1
<1>1. CASE S = {}
  BY <1>1, FS_EmptySet
<1>2. CASE S # {}
  <2>1. PICK x : S = {x}
    BY <1>2
  <2> QED
    BY <1>2, <2>1, FS_Singleton
<1> QED
  BY <1>1, <1>2

\* The sets that AnswersTo and OwnersOf count.
Threads(r) == {t \in Requests : tmsg[t] # NULL /\ tmsg[t].req = r}
AnswerMsgs(r) ==
  {i \in 1..Len(msgs) : msgs[i].type = "LocEngInformNiResponse" /\ msgs[i].answer.req = r}
Carriers(r) ==
  {i \in 1..Len(msgs) :
     \/ msgs[i].type = "LocEngRequestNi" /\ msgs[i].req = r
     \/ msgs[i].type = "LocEngInformNiResponse" /\ msgs[i].answer.req = r}

LEMMA Counts ==
  ASSUME NiInv, NEW r \in Requests
  PROVE  /\ Cardinality(Threads(r)) = IF InThread(r, tmsg) THEN 1 ELSE 0
         /\ Cardinality(Carriers(r)) = IF InQueue(r, msgs) THEN 1 ELSE 0
         /\ Cardinality(AnswerMsgs(r)) \in {0, 1}
         /\ ~InQueue(r, msgs) => Cardinality(AnswerMsgs(r)) = 0
<1>1. TypeOK /\ OneThread(tmsg) /\ Distinct(msgs)
  BY DEF NiInv, Places, OnePlace
<1>2. Cardinality(Threads(r)) = IF InThread(r, tmsg) THEN 1 ELSE 0
  <2>1. \A t, u \in Threads(r) : t = u
    BY <1>1 DEF OneThread, Threads, Answering
  <2>2. Threads(r) = {} <=> ~InThread(r, tmsg)
    BY DEF Threads, InThread, Answering
  <2> QED
    BY <2>1, <2>2, AtMostOne
<1>3. Carriers(r) = {i \in 1..Len(msgs) : ReqOf(msgs[i]) = r}
  <2>1. \A i \in 1..Len(msgs) : msgs[i] \in Msg
    BY <1>1 DEF TypeOK
  <2> QED
    BY <2>1, NiAssumption DEF Carriers, ReqOf
<1>4. \A i, j \in Carriers(r) : i = j
  BY <1>1, <1>3, NiAssumption DEF Distinct
<1>5. Carriers(r) = {} <=> ~InQueue(r, msgs)
  BY <1>3 DEF InQueue
<1>6. AnswerMsgs(r) \subseteq Carriers(r)
  BY DEF AnswerMsgs, Carriers
<1>7. \A i, j \in AnswerMsgs(r) : i = j
  BY <1>4, <1>6
<1>8. Cardinality(Carriers(r)) = IF InQueue(r, msgs) THEN 1 ELSE 0
  BY <1>4, <1>5, AtMostOne
<1>9. Cardinality(AnswerMsgs(r)) = IF AnswerMsgs(r) = {} THEN 0 ELSE 1
  BY <1>7, AtMostOne
<1> QED
  BY <1>2, <1>5, <1>6, <1>8, <1>9

(***************************************************************************)
(* The variables of the sessions, the threads and the queue keep their     *)
(* types, whichever request a thread of loc_eng_ni.cpp answers.            *)
(***************************************************************************)
THEOREM NiTypes == Spec => []TypeOK
<1>1. NiInv => TypeOK
  BY DEF NiInv
<1> QED
  BY <1>1, NiInvariant, PTL

(***************************************************************************)
(* The modem gets at most one answer to a request, also when a thread of   *)
(* an earlier request makes it and a restart takes the request away.       *)
(***************************************************************************)
THEOREM OneAnswer == Spec => []OneAnswerEach
<1>1. NiInv => OneAnswerEach
  <2> SUFFICES ASSUME NiInv, NEW r \in Requests PROVE AnswersTo(r) <= 1
    BY DEF OneAnswerEach
  <2>1. /\ InQueue(r, msgs) => ~InThread(r, tmsg)
        /\ InQueue(r, msgs) \/ InThread(r, tmsg) => told[r] = NULL
    BY DEF NiInv, Places, OnePlace, Lifetime, AtAPlace
  <2>2. AnswersTo(r) = Cardinality(Threads(r)) + Cardinality(AnswerMsgs(r))
                       + (IF told[r] = NULL THEN 0 ELSE 1)
    BY DEF AnswersTo, Threads, AnswerMsgs
  <2> QED
    BY <2>1, <2>2, Counts
<1> QED
  BY <1>1, NiInvariant, PTL

(***************************************************************************)
(* Without a restart of the modem the block of a request, which wanders    *)
(* from message to session to thread to message, has one owner until it is *)
(* freed, and is freed once.                                               *)
(***************************************************************************)
THEOREM BlockIsOwned == Spec => []BlockHasOneOwner
<1>1. NiInv => BlockHasOneOwner
  <2> SUFFICES ASSUME NiInv, restarts = 0, NEW r \in asked PROVE OwnersOf(r) + freed[r] = 1
    BY DEF BlockHasOneOwner
  <2>1. r \in Requests
    BY DEF NiInv, TypeOK
  <2>2. /\ InQueue(r, msgs) => ~InThread(r, tmsg) /\ ~Held(r)
        /\ InThread(r, tmsg) => ~Held(r)
        /\ freed[r] = IF AtAPlace(r) THEN 0 ELSE 1
    BY <2>1 DEF NiInv, Places, OnePlace, FreedOnce, InSession, Held
  <2>3. OwnersOf(r) = Cardinality(Threads(r)) + Cardinality(Carriers(r))
                      + (IF Held(r) THEN 1 ELSE 0)
    BY DEF OwnersOf, Threads, Carriers
  <2> QED
    BY <2>1, <2>2, <2>3, Counts DEF AtAPlace
<1> QED
  BY <1>1, NiInvariant, PTL

(***************************************************************************)
(* No response that was left in a session sleeps there: a thread that      *)
(* waits with respRecvd set has another one about to look.                 *)
(***************************************************************************)
THEOREM ResponseIsSeen == Spec => []NoLostResponse
<1>1. NiInv => NoLostResponse
  BY DEF NiInv, Threading
<1> QED
  BY <1>1, NiInvariant, PTL

(***************************************************************************)
(* A request that loc_eng_ni_reset_on_engine_restart has cleared is in no  *)
(* answer that a thread makes later, although the reset does not take      *)
(* tLock, and a thread makes an answer without a request only if the reset *)
(* has cleared one of its session.                                         *)
(***************************************************************************)
THEOREM ClearedIsSilent == Spec => ClearedIsNotAnswered
<1> DEFINE Silent == \A t \in Requests : tmsg'[t] # tmsg[t] /\ tmsg'[t] # NULL =>
                       /\ tmsg'[t].req \notin dropped
                       /\ tmsg'[t].req = NULL => \E r \in dropped : sessionOf(r) = sessionOf(t)
<1>1. NiInv /\ [Next]_vars => [Silent]_vars
  <2> SUFFICES ASSUME NiInv, Next PROVE Silent
    BY DEF vars
  <2>1. TypeOK /\ NotDropped /\ OwnSession /\ OneHolder /\ Emptied
    BY DEF NiInv, Places, Threading
  <2>2. ASSUME NEW u \in Requests, Make(u) PROVE Silent
    <3> DEFINE s == sessionOf(u)
               r == rawRequest[s]
    <3>1. \A t \in Requests : tmsg'[t] # tmsg[t] => t = u /\ tmsg'[t].req = r
      BY <2>1, <2>2 DEF Make, TypeOK
    <3>2. r # NULL => r \in Requests /\ Held(r)
      BY <2>1, <2>2, SessionOf DEF TypeOK, OwnSession, Held, OneHolder, Locks, Make
    <3>3. r \notin dropped
      BY <2>1, <3>2, NiAssumption DEF NotDropped, TypeOK
    <3>4. r = NULL => \E p \in dropped : sessionOf(p) = s
      BY <2>1, <2>2 DEF Emptied, Locks, Make
    <3> HIDE DEF r, s
    <3> QED
      BY <3>1, <3>3, <3>4 DEF s
  <2>3. ASSUME NEW u \in Requests, Finish(u) PROVE Silent
    BY <2>1, <2>3 DEF Finish, TypeOK
  <2>4. CASE tmsg' = tmsg
    BY <2>4
  <2> QED
    BY <2>2, <2>3, <2>4 DEF Next, MsgTaskStep, IgnoreRequest, AcceptRequest, Notify,
       InformNiResponse, EngineDown, ResetTest, ResetFree, ResetClear, ResetSignal, UserStep,
       TestIgnore, IgnoreOther, SetResponse, ModemRestarts, ModemRequests, ni_thread_proc,
       TestResp, TimeOut, EndWait, Clear, loc_eng_ni_respond, thread
<1> QED
  BY <1>1, NiInvariant, PTL DEF Spec, ClearedIsNotAnswered
=============================================================================
