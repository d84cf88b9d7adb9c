---------------------------- MODULE ClosableFifo ----------------------------
(***************************************************************************)
(* What the message queue of gps/utils/msg_q.h promises its users: a FIFO  *)
(* that hands every accepted message to one receiver, oldest first, that   *)
(* can be emptied at once, and that can be closed for good.  Threads,      *)
(* mutex and condition variable are not visible here; MsgQ implements this *)
(* specification.                                                          *)
(***************************************************************************)
EXTENDS Sequences

CONSTANTS Msgs,       \* the message objects (pointers) senders may queue
          Receivers,  \* the threads that take messages
          NoMsg       \* "no message": what an idle receiver holds

VARIABLES queue,   \* the accepted messages not yet taken, oldest first
          closed,  \* TRUE once the queue has been stopped
          held     \* the message each receiver is working on, or NoMsg

vars == <<queue, closed, held>>

Init == /\ queue = <<>>
        /\ closed = FALSE
        /\ held = [r \in Receivers |-> NoMsg]

\* A message is accepted while the queue is open.
Accept(m) == /\ ~closed
             /\ queue' = Append(queue, m)
             /\ UNCHANGED <<closed, held>>

\* The oldest message goes to one receiver that holds nothing.
Deliver(r) == /\ held[r] = NoMsg
              /\ queue # <<>>
              /\ queue' = Tail(queue)
              /\ held' = [held EXCEPT ![r] = Head(queue)]
              /\ UNCHANGED closed

\* The receiver is done with its message.
Finish(r) == /\ held[r] # NoMsg
             /\ held' = [held EXCEPT ![r] = NoMsg]
             /\ UNCHANGED <<queue, closed>>

Flush == queue' = <<>> /\ UNCHANGED <<closed, held>>

Close == closed' = TRUE /\ UNCHANGED <<queue, held>>

Next == \/ \E m \in Msgs : Accept(m)
        \/ \E r \in Receivers : Deliver(r) \/ Finish(r)
        \/ Flush
        \/ Close

Spec == Init /\ [][Next]_vars
=============================================================================
