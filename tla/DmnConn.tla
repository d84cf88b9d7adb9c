------------------------------ MODULE DmnConn -------------------------------
(***************************************************************************)
(* The connection to the GPS daemons (loc_eng_dmn_conn*.c, .cpp): a named  *)
(* pipe on which daemons ask for a network interface, a thread that reads  *)
(* it and sends the requests to the engine, and one pipe per daemon for    *)
(* the answers.  thread_helper.c starts, unblocks and joins the thread.    *)
(*                                                                         *)
(* thread_exit is written without the mutex by the unblocking thread and   *)
(* by the server; the server's init never fails (proc_init returns 0 even  *)
(* if a pipe could not be made).  A daemon writes a message with one       *)
(* write, so a message is on the pipe as a whole or not at all.            *)
(***************************************************************************)
EXTENDS Naturals, Sequences, FiniteSets, SequencesExt

CONSTANTS Daemons,     \* daemons with an answer pipe
          MaxMessages  \* bound on messages the daemons write

VARIABLES server,       \* where thelper_main is
          thread_exit, thread_ready,
          pipe,         \* the request pipe
          msgqid,       \* the request pipe's descriptor: "unset", "open" or "closed"
          caller,       \* where the thread that launches, unblocks and joins is
          written,      \* messages the daemons wrote, in order
          lost,         \* messages written while the pipe was not there
          forwarded,    \* requests and releases sent to the engine
          answers,      \* per daemon, how many answers are on its pipe
          early         \* cond_wait woke up for no reason while it waited

vars == <<server, thread_exit, thread_ready, pipe, msgqid, caller, written, lost,
          forwarded, answers, early>>

Requests == [type: {"IF_REQUEST", "IF_RELEASE"}, sender: Daemons]
BadMessage == [type |-> "oversized", sender |-> "?"]
Unsupported == [type |-> "IF_REQUEST", sender |-> "?"]
Unblock == [type |-> "UNBLOCK", sender |-> "engine"]
Messages == Requests \cup {BadMessage, Unsupported, Unblock}

TypeOK == /\ server \in {"none", "init", "ready", "proc", "test", "post", "ended"}
          /\ {thread_exit, thread_ready, early, lost} \subseteq BOOLEAN
          /\ pipe \in Seq(Messages) /\ written \in Seq(Messages)
          /\ msgqid \in {"unset", "open", "closed"}
          /\ caller \in {"idle", "wait", "blocked", "launched", "flagged", "unblocked",
                         "joined"}
          /\ forwarded \in Seq(Requests)
          /\ answers \in [Daemons -> Nat]

Init == /\ server = "none" /\ thread_exit = FALSE /\ thread_ready = FALSE
        /\ pipe = <<>> /\ msgqid = "unset" /\ caller = "idle"
        /\ written = <<>> /\ lost = FALSE /\ forwarded = <<>>
        /\ answers = [d \in Daemons |-> 0] /\ early = FALSE

-----------------------------------------------------------------------------
(* The request pipe (loc_eng_dmn_conn_glue_pipe.c).  Removing it drops     *)
(* what is still on it, and writing to a pipe that is not there fails.     *)
pipeget == msgqid' = "open"
piperemove == msgqid' = "closed" /\ pipe' = <<>>
pipewrite(msg) == pipe' = IF msgqid = "open" THEN Append(pipe, msg) ELSE pipe
piperead == pipe # <<>> /\ pipe' = Tail(pipe)

-----------------------------------------------------------------------------
(* The thread that uses the connection.                                    *)

(* loc_eng_dmn_conn_launch_thelper up to its wait. *)
launch_thelper == /\ caller = "idle"
                  /\ thread_exit' = FALSE /\ thread_ready' = FALSE
                  /\ server' = "init" /\ caller' = "wait"
                  /\ UNCHANGED <<pipe, msgqid, written, lost, forwarded, answers, early>>

(* thelper_signal_wait: one test, not a loop. *)
signal_wait == /\ caller = "wait"
               /\ caller' = IF thread_ready \/ thread_exit THEN "launched" ELSE "blocked"
               /\ UNCHANGED <<server, thread_exit, thread_ready, pipe, msgqid, written, lost,
                              forwarded, answers, early>>

(* pthread_cond_wait may return without a signal. *)
SpuriousWakeup == /\ caller = "blocked"
                  /\ caller' = "launched" /\ early' = TRUE
                  /\ UNCHANGED <<server, thread_exit, thread_ready, pipe, msgqid, written, lost,
                                 forwarded, answers>>

(* An unblock that wakes the reader before it tells it to stop. *)
UnblockSendFirst == <<"send", "flag">>

(* loc_eng_dmn_conn_unblock_thelper sets thread_exit, then its procedure   *)
(* sends itself a message through the request pipe.                        *)
UnblockOrder == <<"flag", "send">>

UnblockStep(step) ==
  /\ thread_exit' = (thread_exit \/ step = "flag")
  /\ IF step = "send" THEN pipewrite(Unblock) ELSE UNCHANGED pipe
  /\ UNCHANGED <<server, thread_ready, msgqid, written, lost, forwarded, answers, early>>

unblock_thelper == /\ caller = "launched" /\ caller' = "flagged"
                   /\ UnblockStep(UnblockOrder[1])

unblock_proc == /\ caller = "flagged" /\ caller' = "unblocked"
                /\ UnblockStep(UnblockOrder[2])

(* loc_eng_dmn_conn_join_thelper: waits for the thread, then destroys the  *)
(* condition and the mutex.                                                *)
join_thelper == /\ caller = "unblocked" /\ server = "ended"
                /\ caller' = "joined"
                /\ UNCHANGED <<server, thread_exit, thread_ready, pipe, msgqid, written, lost,
                               forwarded, answers, early>>

-----------------------------------------------------------------------------
(* The server thread, thelper_main.                                        *)

(* loc_api_server_proc_init opens the pipes for reading and writing. *)
proc_init == /\ server = "init"
             /\ pipeget /\ server' = "ready"
             /\ UNCHANGED <<thread_exit, thread_ready, pipe, caller, written, lost, forwarded,
                            answers, early>>

signal_ready == /\ server = "ready"
                /\ thread_ready' = TRUE
                /\ caller' = IF caller = "blocked" THEN "launched" ELSE caller
                /\ server' = "proc"
                /\ UNCHANGED <<thread_exit, pipe, msgqid, written, lost, forwarded, answers,
                               early>>

(* if_request_handler and if_release_handler: a request of a known sender  *)
(* becomes LocEngReqRelWifi or LocEngReqRelBIT; others are refused, which  *)
(* nobody is told.                                                         *)
Handle(msg) == IF msg \in Requests THEN Append(forwarded, msg) ELSE forwarded

(* loc_api_server_proc: blocks in msgrcv; a message that does not fit the  *)
(* buffer is a failure, and a failure ends the thread.                     *)
server_proc == /\ server = "proc" /\ piperead
               /\ forwarded' = Handle(Head(pipe))
               /\ thread_exit' = (thread_exit \/ Head(pipe) = BadMessage)
               /\ server' = "test"
               /\ UNCHANGED <<thread_ready, msgqid, caller, written, lost, answers, early>>

(* A server that leaves its loop when the pipe is empty. *)
LoopUntilIdle == IF thread_exit \/ pipe = <<>> THEN "post" ELSE "proc"

(* while (thelper->thread_exit == 0). *)
LoopTest == IF thread_exit THEN "post" ELSE "proc"

server_loop == /\ server = "test"
               /\ server' = LoopTest
               /\ UNCHANGED <<thread_exit, thread_ready, pipe, msgqid, caller, written, lost,
                              forwarded, answers, early>>

(* loc_api_server_proc_post closes and removes the pipes. *)
proc_post == /\ server = "post"
             /\ piperemove /\ server' = "ended"
             /\ UNCHANGED <<thread_exit, thread_ready, caller, written, lost, forwarded, answers,
                            early>>

-----------------------------------------------------------------------------
(* A daemon writes to the request pipe. *)
DaemonWrites(msg) ==
  /\ Len(written) < MaxMessages /\ msgqid # "unset"
  /\ written' = Append(written, msg)
  /\ pipewrite(msg)
  /\ lost' = (lost \/ msgqid = "closed")
  /\ UNCHANGED <<server, thread_exit, thread_ready, msgqid, caller, forwarded, answers, early>>

(* data_conn: the engine answers the sender of a forwarded request on that *)
(* daemon's pipe, unless the pipes are gone.                               *)
data_conn(d) ==
  /\ answers[d] < Len(SelectSeq(forwarded, LAMBDA m : m.sender = d))
  /\ msgqid = "open"
  /\ answers' = [answers EXCEPT ![d] = @ + 1]
  /\ UNCHANGED <<server, thread_exit, thread_ready, pipe, msgqid, caller, written, lost,
                 forwarded, early>>

ServerSteps == proc_init \/ signal_ready \/ server_proc \/ server_loop \/ proc_post
Next == \/ launch_thelper \/ signal_wait \/ SpuriousWakeup
        \/ unblock_thelper \/ unblock_proc \/ join_thelper
        \/ ServerSteps
        \/ \E msg \in Messages \ {Unblock} : DaemonWrites(msg)
        \/ \E d \in Daemons : data_conn(d)

(* The kernel runs the server thread and the caller; whether a daemon      *)
(* writes, and whether the caller ever unblocks, is not promised.          *)
CallerSteps == signal_wait \/ unblock_proc \/ join_thelper
Fairness == WF_vars(ServerSteps) /\ WF_vars(CallerSteps)

Spec == Init /\ [][Next]_vars /\ Fairness

-----------------------------------------------------------------------------
\* The requests among some messages, in their order.
RequestsOn(msgs) ==
  LET of[i \in 0..Len(msgs)] ==
        IF i = 0 THEN <<>>
        ELSE IF msgs[i] \in Requests THEN Append(of[i - 1], msgs[i]) ELSE of[i - 1]
  IN  of[Len(msgs)]

Served == RequestsOn(written)

(* The engine gets the requests in the order they were written, each once; *)
(* those it does not have yet are on the pipe, until the pipe is removed.  *)
ServedInOrder ==
  /\ IsPrefix(forwarded, Served)
  /\ msgqid # "closed" => forwarded \o RequestsOn(pipe) = Served

(* Nobody sleeps on: launch waits only for a thread that will signal it,   *)
(* and an unblocked server finds a message on the pipe, whether the flag   *)
(* was set before or after its test.  The latter needs that launch did not *)
(* return early, since thelper_signal_wait tests once and not in a loop.   *)
SleepersAreWoken ==
  /\ caller = "blocked" => server \in {"init", "ready"}
  /\ caller = "unblocked" /\ server = "proc" /\ ~early => pipe # <<>>

(* The thread is over only if it was told to stop or could not read a      *)
(* message, and the condition and the mutex are destroyed after it.        *)
StopsWhenTold ==
  /\ server \in {"post", "ended"} => \/ caller \in {"flagged", "unblocked", "joined"}
                                    \/ BadMessage \in ToSet(written)
  /\ caller = "joined" => server = "ended"

(* A running server catches up: the engine gets every request the daemons  *)
(* wrote, in the order they were written and each once, unless the         *)
(* connection is shut down or a message cannot be read, which also ends    *)
(* the server.  And shutting the connection down terminates: once          *)
(* thread_exit is set the join returns, wherever the server thread was and *)
(* whatever is on the pipe, unless launch returned early.                  *)
ServedAndJoined ==
  /\ [](ServedInOrder /\ SleepersAreWoken /\ StopsWhenTold)
  /\ (forwarded # Served) ~> (thread_exit \/ BadMessage \in ToSet(written) \/ forwarded = Served)
  /\ (caller = "flagged" /\ ~early) ~> (caller = "joined")

(* "fail receiving msg from gpsone_daemon, retry later": after a message   *)
(* that could not be read the server goes on reading, unless it was told   *)
(* to stop.  The code does not keep this; see Divergences in the README.   *)
ReadIsRetried == server \in {"post", "ended"} => caller \in {"flagged", "unblocked", "joined"}

=============================================================================
