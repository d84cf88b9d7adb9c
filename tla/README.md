# TLA+ models of the msm8916-common device tree

The repository is the device tree of the ASUS msm8916 phones. Most of its own
logic is the location HAL under `gps/`: a set of threads, queues, timers and
state machines between the Android framework, the network and the modem. Beside
it stand the device's own services: gestures, doze, lights and the camera
wrapper. This project models both, checks the models with TLC and proves the
central results with TLAPS. `PROJECT.json` lists components, runs, the source
lines of each definition (`map`), findings, hazards and theorems; this file
explains them.

Paths below are relative to the repository. `50001/` stands for
`gps/loc_api/libloc_api_50001/`.

## 1. Inventory

### Location HAL, infrastructure (`gps/utils/`)

| Component | State | Operations | Hard part |
|---|---|---|---|
| message queue `msg_q.c`, `linked_list.c` | list, `unblocked`, mutex and condition variable | init, snd, rcv, flush, unblock, destroy | one signal per message with several receivers; unblock against receivers about to sleep |
| thread wrapper `LocThread.cpp` | `LocThreadDelegate` with `mRunnable`, `mJoinable`, `mRefCount`, shared by two threads | start, stop, destructor, `threadMain` | delegate deleted by whoever leaves last; thread finished before `create()` looks at it |
| message task `MsgTask.cpp` | a message queue and a `LocThread` | constructor, `sendMsg`, `run`, `destroy`, destructor | `destroy()` works on an object that the other thread deletes |
| timer service `LocTimer.cpp` | `LocTimer`, `LocTimerDelegate`, container (heap, timerfd), epoll set | start, stop, push, remove, expire | three threads; unlocked reads of client objects; expiry messages that come late |
| heap `LocHeap.cpp` | tree with size fields, ordered vertically only | push, pop, peek, remove | shape depends on the whole history; removal prunes by rank |
| configuration files `loc_cfg.cpp` | parameter tables, the number of records still to be found | read a file, update from a buffer | the count ends a pass and is shared by two tables |
| log and name tables, `loc_misc_utils.cpp`, `loc_target.cpp` | none | – | – |

### Location HAL, engine (`50001/`, `gps/core/`)

| Component | State | Operations | Hard part |
|---|---|---|---|
| AGPS state machines `loc_eng_agps.cpp` | state, subscriber list | subscribe, unsubscribe, GRANTED / RELEASED / DENIED, drop all | answers that belong to an earlier request; no timeouts; modem restarts |
| DS state machine (same file) | as above, retry count and retry timer | start and stop of the emergency data call, fallback to ATL | data services refuse at once; retries on the timer's thread |
| fix session `loc_eng.cpp`, `LocEngAdapter.cpp` | `mNavigating`, mute state, engine status, aiding data mask | start, stop, cleanup, delete aiding data, reports, engine down / up | calls and reports queued around a modem restart |
| position mode and ULP proxy (same files) | `mFixCriteria`, `mUlp` and what the proxy was told | set mode, start, stop, replace the proxy | the proxy is used on one thread and deleted on another; the modem restarts |
| network-initiated requests `loc_eng_ni.cpp` | two sessions, each with `rawRequest`, `reqID`, `resp`, a thread | request, respond, timeout, reset on restart | fields read and written without the lock |
| engine configuration `loc_eng.cpp`, `loc.cpp` | `gps_conf`, server buffers, network status | set and forward, update, `loc_eng_reinit` | the modem forgets on restart; settings change while they are being sent again |
| XTRA and injected data `loc_eng_xtra.cpp`, `LocEngAdapter.cpp` | flags of the adapter, user agent, certificate slots | inject time, position, XTRA, certificates; requests of the modem | the modem may call before the flags are set; fixed buffers |
| LocApi and contexts `gps/core/` | array of adapters, event masks | add and remove adapters, open, restart, event fan-out | the array has no lock |
| daemon connection `loc_eng_dmn_conn*` | server thread, pipes, exit flag | launch, unblock, join, handlers | exit flag without lock, failed reads |
| NMEA `loc_eng_nmea.cpp` | satellites and dilutions of precision of the last satellite report | sentence generation | paging; values cached from one report for the next |
| HAL entry points `loc.cpp` | callback table | forwards to `loc_eng_*` | – |

How they interact: the framework calls `loc_eng_*`, which allocates a `LocMsg`
and appends it to the queue of the engine's `MsgTask`; modem events become
messages of the same queue through `LocApiBase` and `LocEngAdapter`. The
`MsgTask` thread runs each message's `proc()`, calls the modem through `LocApi`
and the framework through its callbacks. Beside it run one thread per pending
NI request, the timer's `MsgTask` and polling threads, and the daemon server
threads. Only the queue, `LocTimer` and NI sessions have locks; the rest relies
on being used from the one message thread, which the calls of the framework
into the ULP proxy, the settings and the array of adapters do not respect.

### Device services

| Component | State | Operations | Hard part |
|---|---|---|---|
| key handler `keyhandler/` | message handler, proximity listeners and wake lock, torch state | gesture, proximity answer, timeout, torch callbacks | three threads; messages are told apart by type only |
| doze service `cmactions/` | which sensors are enabled, gesture flags, stow and pulse times | display on / off, sensor events, settings | the sensors switch each other on and off; events in any order |
| lights `liblight/` | last notification and attention light | set, open, close | three lights share one pair of LEDs |
| camera wrapper `camera/` | wrapped devices, `fixed_set_params` | open, close, set and get parameters | strings owned by a global array and freed in several places |

Settings screens (`cmhw/`, preference screens), init and WCNSS helpers, vendored
camera shims (`libshims/`) and data make up the rest. `PROJECT.json` gives status
and reason for each.

### What makes each part correct

* queue: no message waits while every receiver sleeps, a receive fails only
  after unblock, order is kept, everyone gets out;
* thread and task: nothing shared is used after deletion or leaked; when
  destruction returns no handler runs; accepted messages are handled in order
  or freed;
* timer: a running timer is never mislaid, the kernel is armed for the
  soonest one, each ends, none too early;
* configuration files: every item of the input arrives, whatever stands around
  it;
* AGPS and DS: no state waits for an answer that will not come, clients are not
  misled about their connection, all are answered, retries end, no connection
  is orphaned;
* session: what the framework wants survives a restart, in the mode it asked
  for, nothing runs for nobody, mute and status do not outlive the engine;
* settings: the modem has what the HAL holds, after every restart too;
* NI: at most one answer per request and it is the user's, one owner per
  block, no sleeper overlooks an answer, no request blocks its session;
* core and data: the modem is asked for every event somebody wants, an event is
  delivered once, what the HAL is given it passes on whole, sentences list every
  satellite and no stale one;
* daemon connection: requests are served once and in order, shutting down ends;
* device: an accepted gesture is carried out once or dropped for a reason, no
  enabled gesture goes unwatched, the torch flag and the LEDs show what is the
  case, no string is freed twice.

## 2. Modules

| Module | Models | State and actions |
|---|---|---|
| `MsgQ` | `msg_q.c`, `linked_list.c` | One step per critical section. `msg_q_rcv` is split at `pthread_cond_wait`: idle, waiting, woken. Spurious wakeups are steps. |
| `ClosableFifo` | – | The abstract queue: send while open, receive the oldest, flush, close. `MsgQ` implements it (`FifoSpec`). |
| `LocThread` | `LocThread.cpp` | Owner (`opc`) and spawned thread (`wpc`) over the delegate; each unlocked access is a step. `pthread_create` may fail, `prerun`/`run` may return false. |
| `MsgTask` | `MsgTask.cpp` | `INSTANCE LocThread` and a closable queue. `Run` becomes "receive, proc, delete"; a handler may send; `destroy()` is a step per member access; in a deleted task it may read anything (`Outcomes`). A receiver that waits when the queue is unblocked may still take a message. |
| `LocTimer` | `LocTimer.cpp` | Client calls are atomic (`LocSharedLock`); each system call and each unlocked access of the two service threads is a step. The heap is a set with some maximal `top`. Time is in ticks; `ranks()` compares seconds. |
| `LocHeap` | `LocHeap.cpp` | The tree and its recursive methods, node by node, as recursive functions on trees. Their domain (`TreesOf`) is the trees with at most as many levels as there are objects, which loses nothing: no object is in the heap twice. |
| `PriorityQueue` | – | What `LocHeap.h` promises. `LocHeap` implements it (`IsPriorityQueue`). |
| `LocCfg` | `loc_cfg.cpp` | A line of the input per step, against the caller's table and then the library's own, with the counter that ends a pass. |
| `AgpsStateMachine` | `loc_eng_agps.cpp`, the ATL/BIT/WIFI messages of `loc_eng.cpp` | A step of the HAL is the whole `proc()` at the head of the queue; clients, framework and modem append. `Kind` selects `ATLSubscriber`, `BITSubscriber` or `WIFISubscriber`. |
| `DSStateMachine` | `DSStateMachine`, `DSSubscriber` of the same file | The same states over data services, which may refuse a start at once; a retry timer whose callback reads the list on its own thread. A start that fails with an error the code does not know leaves its client unanswered. The ATL machine it falls back to is the set of its clients. |
| `LocEngSession` | `loc_eng.cpp`, `LocEngAdapter`, `LocApiBase` | Framework calls append, each message is handled in one step. |
| `LocEngUlp` | position mode and ULP proxy in the same files, `loc.cpp` | Proxies are numbers. A call of the framework is split between reading `mUlp` and using it; the message thread replaces and deletes proxies. |
| `LocEngNi` | `loc_eng_ni.cpp` | Message thread, one thread per request, user; each access to `rawRequest` is a step, under `tLock` or not, since the restart writes it without the lock. One condition that reads two fields of a session is one step. |
| `LocEngConfig` | settings in `loc.cpp`, `loc_eng.cpp`, `LocEngAdapter`, `loc_eng_xtra.cpp` | `loc_eng_reinit` goes from setting to setting (`mt`), and reading a setting and sending it are two steps; the framework's thread writes and sends meanwhile. |
| `LocEngXtra` | `loc_eng_xtra.cpp`, injections in `loc_eng.cpp` and `LocEngAdapter.cpp` | Items of data are counted; `loc_init` is two steps, since the modem may call in between, and may be called again (`MaxInits`). User agent and server list as sequences over two characters. |
| `LocApi` | `gps/core/` | Contexts with their arrays of adapters; a walk of the modem's thread through an array is a step per slot, and so are the writes of `addAdapter` and `removeAdapter`. Changes of one array exclude each other, and a mask is read in one step. Masks are sets of events. An adapter is created once; what is created after its deletion is another (`created`). |
| `DmnConn` | `loc_eng_dmn_conn*` | Server thread, caller and daemons over a pipe; launch with its handshake, each access of `thread_exit` a step. |
| `Nmea` | `loc_eng_nmea.cpp` | A report per step; a sentence is a record of the fields decided there. |
| `KeyHandler` | `KeyHandler.java` | Handler queue, proximity listeners and torch callbacks. What two calls on the handler separate, one finding or removing messages and one sending, is a step each, on the input thread (`calling`) and on the sensor's (`sensing`). |
| `SensorsDoze` | `SensorsDozeService.java` and the sensor wrappers | One step per callback on the main thread; times are ages that stop at the limit. |
| `Lights` | `lights.c` | One step per call, all of it under `g_lock`; blink and brightness arithmetic in integers. An unlit light may be told to flash. |
| `CameraWrapper` | `CameraWrapper.cpp` | Strings are numbers, so that a second free and a use after it show; the vendor's HAL may fail. |
| `UtilsMC`, `AgpsMC`, `EngineMC`, `PartsMC` | – | Run several modules that share no state in one run, below. |
| `MsgQProofs`, `MsgTaskProofs`, `UtilsProofs`, `AgpsProofs`, `EngineProofs`, `LocEngNiProofs`, `PartsProofs` | – | Theorems, section 4. `MsgTaskProofs` has also those of `LocThread`, `UtilsProofs` those of `LocTimer` and `LocHeap`, `AgpsProofs` those of `AgpsStateMachine` and `DSStateMachine`, `EngineProofs` and `PartsProofs` those of the modules `EngineMC` and `PartsMC` run. |
| `Induction` | – | Lemmas on induction, recursive definitions and selections from a sequence, for the modules above. |

Composition: `MsgTask` instantiates `LocThread` and uses the queue that `MsgQ`
is shown to implement; `LocTimer` uses the queue that `PriorityQueue`
specifies; the modules of the engine rest on `MsgTask`'s guarantee that messages
are handled one at a time and in order (`HandledInOrder`).

The four `MC` modules instantiate components that do not interact within the
model. The variable `part` is chosen in the initial state and says which
component runs; the others stay in their initial state. The states of such a
run are the union of the states of its parts, so it checks what separate runs
would check. Where a property of a module is meant for one part only, the `MC`
module states it under `part`.

Definitions keep the names of the source. Some are preceded by a variant with a
telling suffix (`msg_q_unblock_one`, `start_handlerFlagOnly`, ...). No
specification uses a variant: they are plausible mistakes in that code, and
`PROJECT.json` (`mutants`) says which property fails when the original is
replaced by one.

External parts (the framework's connectivity service, the modem behind
`LocApi`, data services, sensors, kernel timers, POSIX condition variables) are
modelled from the way the code uses them and are marked so in the map. In
`AgpsStateMachine` the framework answers each request once, may deny an open,
and may lose an open network at any time. An answer to an open names an APN:
with NULL for one `loc_eng_agps_open` returns 0 and queues nothing
(`50001/loc_eng.cpp:2386-2390`), and `PendingIsAnswered` and
`EveryClientAnswered` rest on that not happening. A failure that
`atlCloseStatus` reports for an ATL client ends its connection like success. In
`LocEngSession`, `LocEngUlp` and `LocEngConfig` the modem takes calls from the
moment `LocSsrMsg` has re-opened it, and has forgotten what it was told before.

Undefined behaviour is nondeterminism: comparing a deleted AGPS subscriber may
match or not (`FreedMatch`); a call on a deleted timer client may find nothing
running or crash (`StopDeadClient`); `MsgTask::destroy` on a deleted task may
go on as before or end in the state "undefined"; a ULP proxy used after its
deletion is recorded in `deleted`, a string in `badUse`. That the block of an
NI request was freed twice, or is in an answer after it was freed, is only
counted (`freed`): the answer is modelled as if the block were whole.

## 3. Runs

Passing runs check deadlock unless the system may come to rest for good
(bounded input used up, task destroyed); those cfgs say
`CHECK_DEADLOCK FALSE`.

| Run | Instance | Shows |
|---|---|---|
| `msgq` | 3 messages, 3 receivers | `NoLostWakeup`, `FailsOnlyWhenUnblocked`, `FifoSpec`, `NobodyIsStuck` |
| `msgtask` | 3 messages, joinable or not | `HandledInOrder`, `QuietAfterDestroy`, `DeletedTaskHasNoMsgs`, `DelegateIsSafe`, `DestroyReturns` |
| `utils` | timer: 2 clients, 2 starts, 4 ticks of half a second; heap: 5 objects, 3 ranks | `TimersAreKept`, `SoonestIsArmed`, `EveryTimerEnds`; `IsPriorityQueue` |
| `agps` | ATL: 2 clients, 4 messages, 2 framework requests, 1 restart; BIT: the same, no restart; WIFI: 3 framework requests; DS: 2 clients, 2 requests | `PendingIsAnswered`, `OpenMeansAcquired`, `NoClientForgotten`, `EveryClientAnswered`; `DataCallIsSettled` |
| `engine` | session: 3 framework calls, 1 crash, 1 report; settings: 1 value of `gps.conf`, 1 server, 2 changes, 1 restart; daemons: 2, 3 messages; mode: 2 modes, 1 new proxy, 3 calls, 1 restart | `WantedIsInSession`, `NoOrphanFix`, `EngineEndIsSeen`, `WantedIsServed`; `SettingsReachModem`; `ServedAndJoined`; `SessionFollows` |
| `ni` | 2 SUPL requests, 1 emergency request, 1 restart | `OneAnswerEach`, `BlockHasOneOwner`, `NoLostResponse`, `ClearedIsNotAnswered`, `EveryRequestEnds` |
| `parts` | adapters: 3 in an array of 2, 2 kinds of events, 3 calls; NMEA: reports of up to 5 satellites, 3 reports; data: 2 items of each kind, 2 calls of `loc_init`, 2 certificate slots, a user agent buffer of 5; keys: 3 scan codes, 2 gestures, 2 foreign torch moves; doze: 2 setting changes; lights: 2 brightnesses, 2 times; camera: 2 cameras, 3 strings, 2 opens; configuration files: inputs of up to 4 lines, 2 + 1 records | `ModemIsSetUp`, `DeliveredOnce`; `SentencesAreRight`; `DataIsPassedOn`; `EachGestureOnce`, `TorchAgrees`; `GesturesAreWatched`; `LedFollowsPriority`; `StringsAreSafe`; `InputIsTaken` |
| `timer_early`, `agps_orphan`, `session_stop`, `session_mode`, `ni_user` | the smallest that show it | findings, section 5 |

### Bounds

* `msgq`: three receivers are needed for "one signalled, one about to sleep,
  one awake takes the message". The theorems need no bound.
* timer: two delegates are enough for every pair that can be confused (the
  expired one and the next). Time and starts are the bounds. Three starts over
  three ticks (705,000 states) hold as well.
* heap: five nodes are the smallest trees with a subtree of three on one
  side; three ranks on five objects force ties.
* configuration: four lines hold every record of both tables and an unknown
  name or an empty line before, between or after them.
* `agps`: `MaxQ` and `MaxFw` limit only what *adds* requests; answers are
  never blocked. With three pending framework requests a
  request–release–request sequence is in flight at once. Two DS clients are
  needed for one to ask while the data call of the other is retried or given up.
  The safety properties also hold for ATL with 6 messages, 3 framework requests
  and 2 restarts (25 million states) and with 3 clients (1.1 million).
* session: three calls cover start–stop–start around one restart. Two
  restarts (4.0 million states) hold as well.
* settings: two changes put one before and one into a reinit, or two into the
  same one. Settings differ in who holds them, so one of each kind is enough:
  a value of `gps.conf` and a server; the kinds that stand alone (network
  status, measurements, capabilities) are always there.
* mode: three calls are set mode, start and one more around the replacement or
  the restart; the framework may hand over the proxy in use once more. Two
  proxies with four calls hold as well.
* daemons: three messages are one served, one under way and one that comes too
  late or cannot be read.
* `ni`: two requests on one session are needed for one to meet the leftovers
  of the other, the emergency one for "ignore the other session". All three
  user choices, and requests in any order, hold for the safety properties
  (11.9 million states).
* adapters: one more than slots, so that the array overflows and an adapter
  moves while it is walked through; three calls, four of which hold as well.
  NMEA: five satellites of one constellation need two sentences. Keys: two
  gestures, so that an answer of the first meets the message of the second.
  Data: a second `loc_init` is enough for its effect on the flag to show. Doze:
  ages stop at the limit of two ticks, below, at and beyond which the code
  decides. Lights: brightness 0, which stands for full, and one that scales;
  times that round to nothing and ones that do not. Camera: three strings and
  two opens are a set, a second set and a set after re-opening.

### Fairness

Weak fairness of threads the code keeps in a loop (receivers, `MsgTask`, the
polling thread, NI threads, the daemon server) and of a caller inside a
shutdown; of time: `pthread_cond_timedwait`, the timerfd and the DS retry timer
end by themselves. Handlers return. For AGPS also of the framework's answer,
since `AgpsPendingState` has no timeout and rests on it, for DS in the same way
of data services; for the session, that a modem that is down comes back.
Clients, users, networks and crashes owe nothing. No strong fairness is used.

### What the properties except

Where the code has no way out, the property says so, and the hazard list names
the line:

* `EveryTimerEnds` excepts the crash of `StopDeadClient`, `DestroyReturns` a
  `destroy()` misled by a deleted task, `EveryRequestEnds` a failed
  `pthread_create`;
* `WantedIsInSession` and `WantedIsServed` a start that an open modem fails.
  With `PHONE_OFFLINE`, `INTERNAL` or `ENGINE_DOWN` the session is kept although
  nothing runs, with other codes it is dropped
  (`50001/loc_eng.cpp:1929-1934`); in both cases nobody tries again before the
  next restart of the modem;
* `DataCallIsSettled` a start refused in `AgpsReleasingState`, which does not
  look at the result of `sendRsrcRequest`;
* `ServedAndJoined` a launch that returned before its thread was ready, and a
  message that cannot be read;
* `SettingsReachModem` a change that had nothing to send, and one that was
  overtaken by the value reinit had already read; and the lock and the
  measurement mask when a restart or a closed link took them (`forgotten`),
  since nobody sends those again;
* `BlockHasOneOwner` restarts of the modem;
* `DeliveredOnce` a second delivery to the adapter that a walk met while
  `removeAdapter` had it in the array twice;
* `DataIsPassedOn` one time per call of `loc_init`, for an extended CPI;
* `SessionFollows` a call that raced the replacement of the proxy, and the mode
  of a session restarted by `loc_eng_handle_engine_up` (finding `session_mode`);
* `InputIsTaken` inputs that repeat any name of the tables, and
  `loc_update_conf` given every record of its table;
* `EachGestureOnce` a sensor answer that finds no message or that of a later
  gesture;
* `StringsAreSafe` a camera opened while another is open;
* `LedFollowsPriority` the time until the next set after the battery light,
  blinks that round to nothing, and unlit lights that are told to flash, which
  do;
* `GesturesAreWatched` settings changed while the display is off, and devices
  without a magnetometer.

## 4. Proofs

All theorems hold for every value of the constants under the named ASSUMEs
(`NoMsg` is not a message, receivers are a finite set, bounds are naturals).

**`MsgQProofs`.** `NoLostWakeup` compares the length of the list with the
number of woken receivers. It is inductive together with `TypeOK` and
`NobodySleepsAfterUnblock` (`WakeupInv`): a send may wake one and adds one; a
woken receiver that takes a message removes one of each; one that goes back to
sleep found the list empty. Cardinalities come from `FiniteSetTheorems`.
`FailsOnlyWhenUnblocked` needs that a receiver inside `msg_q_rcv` holds no
message (`RcvInv`). `ImplementsFifo` is step simulation under the same
invariant.

**`MsgTaskProofs`, the thread.** `ThreadInv`: the reference count equals the
number of threads that still hold the delegate, and `ThreadPositions` says which
pairs of program counters can meet. From it follow that the delegate is not used
after deletion, not leaked, and joined before `stop()` goes on.

**`MsgTaskProofs`, the task.** `StepOfThread` shows that every step of
`MsgTask` is a step of its `LocThread`, a stutter, or the `delete this` of
`destroy()`, which leaves the delegate alone; the thread's invariant therefore
carries over (`ThreadInvariant`), and with it the three parts of
`DelegateIsSafe` (`TaskDelegateSafe`). `TaskInv` ties the positions of
`destroy()` to those of the thread and gives `DestroyQuiets` and
`NothingLeftBehind`. `OrderKept` rests on `OrderInv`: the accepted messages are
the handled ones, the one in hand and the queued ones, in this order, until
`~MsgTask` throws the queue away; from then on nothing is taken any more.

**`UtilsProofs`, the timers.** `TimersKept` and `TopIsArmed` from `TimerInv`,
which says where each delegate is between the steps of the service threads. A
running timer is in a push message, in the heap or in the hand of the expiring
thread (`RunningIsKept`); whatever a message, the heap or that thread points to
is not deleted (`PointersAreLive`); a remove never overtakes the push of its
delegate and no message is there twice (`QueueInOrder`), or the deletion that
follows a remove would leave a pointer behind. `Armed` is `SoonestIsArmed` with
the positions in between: the timerfd may be late only while `MsgTimerExpire`
is queued, the polling thread is not waiting, or the container is about to set
it.

**`UtilsProofs`, the heap.** `HeapIsAQueue` is a refinement: every step of
`LocHeap` is one of `PriorityQueue` on the objects in the tree. The invariant
says of every subtree what `checkNodes()` tests, sizes and ranks, and that no
object is in it twice (`InOrder`). The test alone is not enough: removal
searches a subtree only if its top is not outranked by the object, and it takes
out one node, so an object that was in the tree twice would still be there. The
sizes also bound the levels: a tree of n nodes has at most n levels, so what
push builds is again in the domain of the functions. `TreeInduction` is
induction on the levels of a tree, and `PushIs`, `PopIs` and `RemoveIs` say of
each recursive function that it has the value its definition gives it on NULL
and on a node. `HeapAssumption` says that the objects are finitely many, that
ranks are numbers, and that NULL is not a node.

**`AgpsProofs`.** `TypeCorrect` for every kind. `MachineInv`: an empty list in
Released and an answer under way in Pending; the second needs the first, since
Pending is entered from Released with a request that only an active subscriber
lets through. The same for the way out: in Releasing an answer to a RELEASE is
under way (`ReleasingAnswered`).

`AtlClientView`: for ATL, `AtlInv` adds that no subscriber is inactive and that
between a restart and its `ENGINE_UP` message no client believes in a
connection; without the latter `dropAllSubscribers` would break
`OpenMeansAcquired`. `DaemonClientView`: for BIT and WIFI, `View` lists the seven
combinations of what a client believes, its entry in the list, its SUBSCRIBE and
UNSUBSCRIBE in the queue and the state of the machine. `OpenMeansAcquired` alone
is not inductive: an answer to an earlier request can make a client idle while
its UNSUBSCRIBE is still queued, so the queue must be part of the invariant. BIT
also needs that nobody is inactive, WIFI that only one client is on the list.

`NobodyForgotten` follows from the views for BIT and WIFI. For ATL, where a
restart makes clients idle whatever is queued, `AtlView` says instead that no
UNSUBSCRIBE stands behind the last SUBSCRIBE of a client that opens.

Hypotheses: for BIT there is no restart (section 5, Divergences), and
`FreedMatch` is FALSE for BIT and, in `NobodyForgotten`, for ATL: if the read of a
freed subscriber matches, `notifySubscribers` can take another one off the list
untold. `TypeCorrect`, `MachineCorrect`, `AtlClientView` and all of WIFI hold for
`FreedMatch` TRUE and FALSE.

**`AgpsProofs`, data calls.** `DataCallsAreHeld` is the safety part of
`DataCallIsSettled`. `DSInv` adds to it that after every answer "up" in the queue
comes one that the call is down, unless it is still up (`DSUp`), since the machine
takes an old answer for news; and that in `AgpsReleasingState` a client that still
believes in its data call is on the list marked inactive (`DSHolds`), since only
those are told when the call ends. One lemma per message shows what handling it
does (`Handled`); the queue is treated once for all of them.

**`EngineProofs`, the session.** `SessionInv` has one part per property. An open
modem was or will be told of the session because every `LocSsrMsg` has a
`LocEngUp` behind it (`UpFollows`); what is wanted and not in session has a
start with no stop behind it in the queue (`StartIsLast`); a modem at work has a
session or a start on its way (`WorkIsKnown`); a start that failed is told apart
by its code (`startFix`); when the engine is off, each
ON report in the queue has an OFF report or the `LocEngDown` behind it, and one
is there if mute or status still say ON (`OffIsLast`). The lemmas about queues
(`Sent`, `Taken`) say once what appending and taking a message does to all of
these.

**`EngineProofs`, the mode.** `UlpInv`: proxies come through the queue in the
order in which they were handed over (`ProxiesInOrder`). While no call raced a
replacement, the proxy in use knows what is wanted or a call is about to tell
it (`ProxyKnows`), and the mode wanted is in a call, in the queue with no other
mode behind it, or set (`ModeArrives`).

**`EngineProofs`, settings.** `SettingsInv`: each setting that is held, wanted
by the modem and not excepted is about to be sent again, being read, about to
be sent by the framework's thread, the last of its kind in the queue with the
modem open by then, or already there (`Arrives`). The lock and the measurement
mask are not sent again: unless forgotten they are in the queue or with the
modem. The case "open by then" needs that a modem that is back but not open has
`LocSsrMsg` queued (`OpenIsQueued`).

**`EngineProofs`, daemons.** `DaemonsAreServed` is the safety part of
`ServedAndJoined`. `DmnPlaces` says which positions of the server and of the
caller can meet, and that the thread's flag is set only by one who says why;
`DmnPipe`, that what was passed on and what is on the pipe make up what was
written. `RequestsChange` says what a message at either end does to the requests
among the messages.

**`LocEngNiProofs`.** A request is at one place at a time: in a message, with
the thread that answers it, or in its session (`OnePlace`), and once it was
answered it is at none (`Lifetime`). From it follow `OneAnswer` and, counting
places while nothing restarted (`FreedOnce`), `BlockIsOwned`. A thread that has
the lock reads `rawRequest` twice and clears it, and a restart may come before,
between and after. `ClearedIsSilent` needs that what a restart clears is neither
in the queue nor in a session any more (`NotDropped`), that a session holds
requests of its own kind (`OwnSession`), that one thread per session has the
lock (`OneHolder`), and that the session it holds is empty only when a restart
has cleared it (`Emptied`). A thread starts only for a request that left the queue
(`NotStarted`) and holds its answer only on the way from the session to the
queue (`SendsLast`). `ResponseIsSeen` is inductive beside these.

**`PartsProofs`.** One invariant per part:

* lights: the property itself with the types; every set writes the LEDs anew.
  What an LED is to show (`ShowsLit`) is said of the light's own state, not of the
  one that the code selects.
* torch: the last callback under way is the state of the torch, and the flag is
  off while the rear camera is unknown (`TorchInv`).
* gestures: any number of messages wait, as the sensor's thread and the input
  thread may both send. Every accepted gesture waits in one of them, is about
  to be sent again, was done once or was dropped (`OnePlace`); listeners,
  sensor answers and messages belong to gestures already accepted, and a thread
  about to register its listener has none there yet (`KeysAreKnown`).
* doze: while the display is on the proximity sensor is not ready, and while it
  is enabled and not ready no gesture flag is set; without these, display off
  would start from states the service cannot be in (`DozeInv`).
* camera: with one camera open, each string belongs to one of the two arrays or
  to one caller (`OneOwner`).
* adapters: an adapter is in one slot of one array (`ArraysInv`), and what a
  walk has passed is not at or behind its position (`WalksInv`), since removal
  moves adapters only towards the beginning: `EventOnce`. An adapter that a
  walk met at the gap while it was at the end as well is the exception
  (`torn`): the walk may have it ahead once more, at the end and nowhere else.
  For `ModemHasAll` the events that an adapter wants are registered or asked
  for by an open or a restart message of its context, and the feature
  configuration was injected unless a modem that was never up is to get it
  (`SetUpInv`).
* configuration files: the counter that ends a pass is the size of the table
  less the names found so far, and for the library's own update less one
  (`Counted`); so a pass that ends early has found every name.
* NMEA: a cached dilution of precision and the satellites it goes with come from
  the same report, which nobody has used (`NmeaInv`). For `SentencesAreInFull`:
  where a sentence goes on, those before it have listed the first four times as
  many satellites, so the i-th it lists has the rank its place says
  (`RankReaches`, `SvNumbers`), by induction on the sentences.
* data: what was given is what the modem has and what is queued (`AllPassed`),
  kind by kind, less one time for each `loc_init` that made the adapter forget
  that it had seen one; `Number` counts the messages of a kind, and
  `NumberAppend` and `NumberTail` say by a bijection what appending and taking
  one does to it. The user agent is compared with the encodings of the first n
  characters of its value, which only grow with n: after i turns the loop has
  encoded all it has read, or was left with as many as have room (`Turned`), by
  induction on i.

The attempt to prove `EventOnce` failed at first for a good reason: a model in
which a deleted adapter could be added again under its old name delivered an
event twice "to the same" adapter. In the code that is another object, and so it
is now in `LocApi`.

**`Induction`.** Recursive definitions are reasoned about from one principle: a
set of naturals that has 0 and with each number the next is all of them
(`SetInduction`, from the well-foundedness of `<` by choosing a least element
outside it). With it `RecursionExists` builds the function that a definition by
`f[i - 1]` asks for, so that the `CHOOSE` behind such a definition has a value.
`IsSelection` is "the elements of a set among those of a sequence, in order", and
says what appending to the sequence or taking its head does.

**Assumptions.** `MsgQAssumption`, `MsgTaskAssumption`, `LocTimerAssumption`,
`UtilsAssumption` (which is `HeapAssumption`), `AgpsAssumption`,
`NiAssumption`, `NullAssumption`, `SessionAssumption`, `EngineAssumption` and
`PartsAssumption` say what kind of thing a constant is: bounds are naturals,
the names of the settings are those of the source, NULL and `NoMsg` are no
messages, a table has finitely many records. None limits a number of clients,
calls, messages or restarts. `MaxTime` and `MaxVal` are at least 1, as time 0
and value 0 stand for "none".

**Only model-checked.** Every safety property and every action property of a
passing run is stated by a theorem. What TLC alone checks is liveness under
fairness, which is out of the prover's reach: `NobodyIsStuck`,
`DestroyReturns`, `EveryTimerEnds`, `EveryClientAnswered`, `WantedIsServed`,
`EveryRequestEnds`, and the liveness parts of `DataCallIsSettled` and
`ServedAndJoined`. The properties of the runs that end in a violation are
false, of course.

## 5. Findings

* `timer_early`: `MsgTimerExpire` pops the top without asking whether it is
  due. If the timer that expired was stopped in the meantime the next one is
  called back early.
* `agps_orphan`: `AgpsPendingState` cannot tell the answer to its request from
  the answer to an earlier one; a client that gives up and asks again can leave
  the framework holding a connection without a subscriber.
* `session_stop`: a stop queued behind `LocEngUp` is lost, because engine-up
  clears the session flag and queues a start behind the stop.
* `session_mode`: clearing the session flag on engine-up also sets the mode in
  the adapter to `LOC_POSITION_MODE_INVALID`; the session is restarted in that
  mode and not in the one the framework set.
* `ni_user`: a late answer to a request that timed out can be given to the
  modem as the answer to the next request.

### Divergences

Met while modelling and reached by the models, but not the subject of a run.
Those with a name are stated in the module, and TLC refutes them.

* `DSStateMachine!ReleasedIsEmpty`, `DSStateMachine!OpeningIsOnList`:
  `AgpsReleasedState` says of the list that it "should really be empty"
  (`50001/loc_eng_agps.cpp:287`). When a data call is refused at once and the
  client handed over to ATL, it stays on the DS list in that state. And
  `AgpsReleasingState` says of a client that asks again that "we need to add
  subscriber to the list" (line 525): the one that is leaving is still on it,
  marked inactive, and `addSubscriber` does not add it a second time, so the
  next RELEASED drops it.
* `KeyHandler!LateSensorIsIgnored`: the comment "The sensor took to long,
  ignoring." (`KeyHandler.java:275`) holds only while no other gesture waits.
  `hasMessages` and `removeMessages` go by type: a late answer to one gesture
  takes the message of the next and carries out the first a second time.
* `LocCfg!ReturnsUpdatedRecords`: `loc_update_conf` counts down from
  `table_length - 1` (`gps/utils/loc_cfg.cpp:340`), so it leaves out the last
  of an input that names every record, and it returns the items looked at,
  where its comment promises the records updated.
* `DmnConn!ReadIsRetried`: the log says "retry later" of a failed read
  (`50001/loc_eng_dmn_conn.cpp:138`); the -1 it returns ends the server thread.
* `LocEngUlp!NoDeletedProxy`: `loc_eng_start` and the other calls of the
  framework use the result of `getUlpProxy()` on their own thread
  (`50001/loc_eng.cpp:1912`), while `setUlpProxy` deletes it on the message
  thread (`50001/LocEngAdapter.cpp:300`); `LocEngSuplMode` carries the pointer
  through the queue (`50001/loc_eng.cpp:2732`).
* `LocEngConfig!BufferedServerIsSent`: `loc_eng_set_server_proxy` "buffers
  server settings and calls loc_eng_set_server when the client is open"
  (`50001/loc_eng.cpp:2569`), but `loc_eng_init` clears the buffers with the
  rest of `loc_eng_data` (line 1739).
* The lock is sent by `loc_init` and `loc_cleanup` (`50001/loc.cpp:316`, 356),
  the measurement mask when measurements are switched on or off
  (`50001/loc_eng.cpp:2940-2997`). `loc_eng_reinit` (lines 1782-1833) repeats
  neither: a restart of the modem loses them.
* `ni_thread_proc` tests `rawRequest` because after a restart "we need the
  thread to exit without calling sending data"
  (`50001/loc_eng_ni.cpp:239-241`). The restart does not take `tLock`, so it may
  come between that test and the next read (line 250), and an answer with
  the payload NULL is sent.
* `removeAdapter` has the last adapter in the array twice between two of its
  writes (`gps/core/LocApiBase.cpp:192`, 194), and a gap before them
  (line 177), while the modem's thread walks through it without a lock: an
  event may reach that adapter twice, or not reach those behind the gap.
* `set_light_locked` looks at the flash mode and times and not at `is_lit`
  (`liblight/lights.c:145-195`): an unlit light that is told to flash makes the
  LED blink.
* `loc_init` resets `mSupportsTimeInjection` each time it is called
  (`50001/loc.cpp:313-318`), and the adapter outlives `loc_eng_cleanup`: with an
  extended CPI a later time is dropped as well.
* `loc_eng_xtra_inject_data` "buffers the data if engine is busy"
  (`50001/loc_eng_xtra.cpp:144`); the code sends it on at once. `loc_xtra_init`
  copies only the download callback, so `report_xtra_server_cb` is never called
  on its behalf.
* After a restart of the modem `dropAllSubscribers` empties the list of
  `internet_nif` (`50001/loc_eng.cpp:2851`) and tells nobody. The modem's own
  clients are gone by then; a BIT daemon waits for an answer that does not
  come. `Bit` in `AgpsMC` is therefore run without restarts.
* `DSStateMachine::sendRsrcRequest` takes the handle `loc_timer_start` returns,
  NULL when it fails, for an error code (`50001/loc_eng_agps.cpp:885`): it logs
  "Could not start delay thread" when the timer did start. Nothing reads the
  result, so the wrong message is all there is to it.
* `getChipsetSerialNo` strips spaces with a `size_t` index and `--len >= 0`
  (`50001/LocEngAdapter.cpp:198`), which is always true: a line of spaces only
  is read past its beginning.

Also reached: the block of an NI request may be freed twice when the modem
restarts, or be sent after it was freed (`freed` = 2; hence the premise of
`BlockHasOneOwner`); a new `delete_aiding_data` replaces a mask that is waiting
for the engine to go off; a single-shot session may be ended by a late position
of the previous one (hence `NoOrphanFix` for periodic sessions); two cameras
open at once share `fixed_set_params`, and closing one leaves the other with
freed strings (hence `StringsAreSafe` without overlap).

## 6. Not modelled

* Settings screens, name tables, string splitting, `loc_target.cpp`, init and
  WCNSS: no behaviour beyond reading a file or single assignments.
* The geofence loader and the tables of functions in `loc.cpp`: no state.
* Camera shims: vendored. Makefiles, overlays, policies, media, audio and wifi
  data: no code.

Within modelled parts: the second (wake) timer container is an independent copy
of the first; a failing `timerfd_create` ends the process; `loc_timer_start` is an
operator of `DSStateMachine`, its only user, and `loc_timer_stop` has no caller.
ATL and BIT clients on one `internet_nif` at the same time are not combined.
SV and measurement reports, which are forwarded unless muted, and the zero power
position are left out. Camera calls the wrapper only forwards change nothing in
it. Texts, APN strings, digits of NMEA sentences and checksums are left out; the
serial number of the chipset is any string; a line of a configuration file that is
longer than `LOC_MAX_PARAM_LINE`, which `fgets` would split, and the third word of
a line, which the code ignores, do not occur; the NI deadline is a timeout at any
time; what a gesture launches, other than the torch, is outside the model.

## 7. Plan

The modules of the plan are written, and every safety property a run checks is
stated by a theorem. What could come next:

1. BIT and WIFI clients of `AgpsStateMachine` on the daemon connection of
   `DmnConn`, and the ordinary ATL machine under `DSStateMachine` in place of
   the set of its clients.
2. A bound on the retry timers of `DSStateMachine` that run at once, which
   their end in `DataCallIsSettled` implies only together with fairness.
