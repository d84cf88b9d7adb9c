------------------------------- MODULE LocApi -------------------------------
(***************************************************************************)
(* The core library between the modem and the adapters, gps/core: the      *)
(* contexts of LocDualContext, each with its LocApiBase, and the array     *)
(* mLocAdapters of the adapters to which events of the modem are           *)
(* delivered.                                                              *)
(*                                                                         *)
(* The array has no lock: threads that create and delete adapters write    *)
(* its elements one after the other while the modem's thread walks through *)
(* it.  Within a context one adapter is added or removed at a time, as     *)
(* nothing keeps two such threads apart.  A mask is read in one step, and  *)
(* an adapter that an event is being delivered to is not deleted.  Masks   *)
(* of events are sets.  open() is LocApiV02's or the RPC library's:        *)
(* addAdapter passes only the new adapter's mask, so it adds to what is    *)
(* registered.                                                             *)
(***************************************************************************)
EXTENDS Naturals, Sequences, FiniteSets, SequencesExt

CONSTANTS Adapters,      \* adapters that may be created
          MAX_ADAPTERS,  \* size of the array
          Events,        \* bits of an event mask
          MaxCalls,      \* bound: adapters created, changed and deleted
          MaxEvents      \* bound: events and restarts of the modem

Contexts == {"Fg", "Bg"}

VARIABLES contexts,      \* the contexts that were created
          mInjectContext,
          mLocAdapters,  \* context -> the array without the NULLs at its end
          change,        \* context -> how far addAdapter or removeAdapter is
          created,       \* the adapters constructed so far: a new one is a new object
          mEvtMask,      \* adapter -> the events it wants
          q,             \* the MsgTask queue both contexts share
          registered,    \* context -> the events the modem was asked for
          open,          \* context -> the link to the modem is open
          walk,          \* context -> where the modem's thread is in the array
          configured,    \* the modem has the feature configuration
          modem,         \* contexts that have not heard of the last restart
          calls, events

vars == <<contexts, mInjectContext, mLocAdapters, change, created, mEvtMask, q, registered, open,
          walk, configured, modem, calls, events>>

Mask == SUBSET Events
Idle == [at |-> "idle"]
NoChange == [at |-> "no"]

\* LocDualContext::mFgExclMask and mBgExclMask.
ExcludedMask(c) == IF c = "Bg" THEN Events \cap {"POSITION"} ELSE {}

TypeOK == /\ contexts \subseteq Contexts
          /\ mInjectContext \in Contexts \cup {"NULL"}
          /\ \A c \in Contexts :
               mLocAdapters[c] \in BoundedSeq(Adapters \cup {"NULL"}, MAX_ADAPTERS)
          /\ \A c \in Contexts : change[c].at \in {"no", "added", "gap", "twice", "gone"}
          /\ created \subseteq Adapters /\ mEvtMask \in [Adapters -> Mask]
          /\ q \in Seq([op : {"Open"}, c : Contexts, mask : Mask] \cup [op : {"Ssr"}, c : Contexts])
          /\ registered \in [Contexts -> Mask]
          /\ open \in [Contexts -> BOOLEAN]
          /\ \A c \in Contexts : walk[c].at \in {"idle", "all", "first"}
          /\ configured \in BOOLEAN /\ modem \subseteq Contexts
          /\ calls \in 0..MaxCalls /\ events \in 0..MaxEvents

Init == /\ contexts = {} /\ mInjectContext = "NULL"
        /\ mLocAdapters = [c \in Contexts |-> <<>>]
        /\ change = [c \in Contexts |-> NoChange]
        /\ created = {} /\ mEvtMask = [a \in Adapters |-> {}]
        /\ q = <<>>
        /\ registered = [c \in Contexts |-> {}] /\ open = [c \in Contexts |-> FALSE]
        /\ walk = [c \in Contexts |-> Idle]
        /\ configured = FALSE /\ modem = {}
        /\ calls = 0 /\ events = 0

-----------------------------------------------------------------------------
(* Contexts and adapters.                                                  *)

injectFeatureConfig(c) == configured' = (configured \/ c = mInjectContext')

\* getLocFgContext and getLocBgContext, under mGetLocContextMutex.
getLocContext(c) ==
  /\ c \notin contexts
  /\ contexts' = contexts \cup {c}
  /\ mInjectContext' = IF mInjectContext = "NULL" THEN c ELSE mInjectContext
  /\ injectFeatureConfig(c)
  /\ UNCHANGED <<mLocAdapters, change, created, mEvtMask, q, registered, open, walk, modem, calls,
                 events>>

\* The adapters that a loop over the array s meets: it ends at the first NULL.
Listed(s) == {s[i] : i \in {k \in DOMAIN s : \A n \in 1..k : s[n] # "NULL"}}

getEvtMask(c) == (UNION {mEvtMask'[a] : a \in Listed(mLocAdapters[c])}) \ ExcludedMask(c)
sendOpen(c, mask) == q' = Append(q, [op |-> "Open", c |-> c, mask |-> mask])

\* LocAdapterBase's constructor, up to the array; a full one takes no more.
addAdapter(a, c, mask) ==
  /\ c \in contexts /\ change[c] = NoChange /\ a \notin created /\ calls < MaxCalls
  /\ created' = created \cup {a}
  /\ mEvtMask' = [mEvtMask EXCEPT ![a] = mask]
  /\ IF Len(mLocAdapters[c]) < MAX_ADAPTERS
     THEN /\ mLocAdapters' = [mLocAdapters EXCEPT ![c] = Append(@, a)]
          /\ change' = [change EXCEPT ![c] = [at |-> "added", a |-> a]]
     ELSE UNCHANGED <<mLocAdapters, change>>
  /\ calls' = calls + 1
  /\ UNCHANGED <<contexts, mInjectContext, q, registered, open, walk, configured, modem, events>>

AskForAdded(c) ==
  /\ change[c].at = "added"
  /\ change' = [change EXCEPT ![c] = NoChange]
  /\ sendOpen(c, mEvtMask[change[c].a])
  /\ UNCHANGED <<contexts, mInjectContext, mLocAdapters, created, mEvtMask, registered, open, walk,
                 configured, modem, calls, events>>

\* LocAdapterBase's destructor writes NULL over the adapter.
removeAdapter(a, c) ==
  /\ change[c] = NoChange /\ calls < MaxCalls
  /\ \E j \in DOMAIN mLocAdapters[c] :
       /\ mLocAdapters[c][j] = a
       /\ mLocAdapters' = [mLocAdapters EXCEPT ![c][j] = "NULL"]
       /\ change' = [change EXCEPT ![c] = [at |-> "gap", j |-> j]]
  /\ calls' = calls + 1
  /\ UNCHANGED <<contexts, mInjectContext, created, mEvtMask, q, registered, open, walk,
                 configured, modem, events>>

\* The last adapter takes the place of the one removed.
LastToGap(s, j) == [s EXCEPT ![j] = s[Len(s)]]

\* Without mLocAdapters[i] = NULL the last stays there twice.
LastStays(s) == s

\* The last adapter is then taken from the end.
DropLast(s) == SubSeq(s, 1, Len(s) - 1)

MoveLast(c) ==
  /\ \/ /\ change[c].at = "gap"
        /\ mLocAdapters' = [mLocAdapters EXCEPT ![c] = LastToGap(@, change[c].j)]
        /\ change' = [change EXCEPT ![c] = [at |-> "twice", j |-> change[c].j]]
     \/ /\ change[c].at = "twice"
        /\ mLocAdapters' = [mLocAdapters EXCEPT ![c] = DropLast(@)]
        /\ change' = [change EXCEPT ![c] = [at |-> "gone"]]
  /\ UNCHANGED <<contexts, mInjectContext, created, mEvtMask, q, registered, open, walk,
                 configured, modem, calls, events>>

\* An empty array closes the link, at once and without a message.
AskForRest(c) ==
  /\ change[c].at = "gone"
  /\ change' = [change EXCEPT ![c] = NoChange]
  /\ mEvtMask' = mEvtMask
  /\ IF mLocAdapters[c] = <<>>
     THEN /\ registered' = [registered EXCEPT ![c] = {}]
          /\ open' = [open EXCEPT ![c] = FALSE]
          /\ UNCHANGED q
     ELSE sendOpen(c, getEvtMask(c)) /\ UNCHANGED <<registered, open>>
  /\ UNCHANGED <<contexts, mInjectContext, mLocAdapters, created, walk, configured, modem, calls,
                 events>>

\* Of an adapter that is neither being constructed nor deleted.
updateEvtMask(a, c, event) ==
  /\ a \in ToSet(mLocAdapters[c]) /\ calls < MaxCalls
  /\ change[c] # [at |-> "added", a |-> a]
  /\ \/ mEvtMask' = [mEvtMask EXCEPT ![a] = @ \cup {event}]
     \/ mEvtMask' = [mEvtMask EXCEPT ![a] = @ \ {event}]
  /\ sendOpen(c, getEvtMask(c))
  /\ calls' = calls + 1
  /\ UNCHANGED <<contexts, mInjectContext, mLocAdapters, change, created, registered, open, walk,
                 configured, modem, events>>

-----------------------------------------------------------------------------
(* The MsgTask thread.                                                     *)

\* LocOpenMsg::proc.
LocOpenMsg == /\ Head(q).op = "Open"
              /\ LET c == Head(q).c IN
                   /\ open' = [open EXCEPT ![c] = TRUE]
                   /\ registered' = [registered EXCEPT
                                       ![c] = @ \cup (Head(q).mask \ ExcludedMask(c))]

\* A LocSsrMsg that opens with what was registered before.
LocSsrKeepsMask(c) == registered[c]

\* LocSsrMsg::proc closes, and opens with the mask of that moment.
LocSsrMask(c) == (UNION {mEvtMask[a] : a \in Listed(mLocAdapters[c])}) \ ExcludedMask(c)

LocSsrMsg == /\ Head(q).op = "Ssr"
             /\ LET c == Head(q).c IN
                  /\ open' = [open EXCEPT ![c] = TRUE]
                  /\ registered' = [registered EXCEPT ![c] = LocSsrMask(c)]

proc == /\ q # <<>>
        /\ q' = Tail(q)
        /\ LocOpenMsg \/ LocSsrMsg
        /\ UNCHANGED <<contexts, mInjectContext, mLocAdapters, change, created, mEvtMask, walk,
                       configured, modem, calls, events>>

-----------------------------------------------------------------------------
(* The modem and its thread.                                               *)

\* The modem restarts and has lost everything.
ModemRestarts == /\ modem = {} /\ events < MaxEvents /\ contexts # {}
                 /\ modem' = contexts
                 /\ configured' = FALSE
                 /\ registered' = [c \in Contexts |-> {}]
                 /\ events' = events + 1
                 /\ UNCHANGED <<contexts, mInjectContext, mLocAdapters, change, created, mEvtMask, q,
                                open, walk, calls>>

\* A walk counts what it delivered to each adapter, and knows the adapters that
\* it met while a removal had them in the array twice.
NewWalk(at) == [at |-> at, i |-> 1, got |-> [a \in Adapters |-> 0], torn |-> {}]

\* handleEngineUpEvent up to its loop.
handleEngineUpEvent(c) ==
  /\ c \in modem /\ walk[c] = Idle
  /\ modem' = modem \ {c}
  /\ q' = Append(q, [op |-> "Ssr", c |-> c])
  /\ mInjectContext' = mInjectContext
  /\ injectFeatureConfig(c)
  /\ walk' = [walk EXCEPT ![c] = NewWalk("all")]
  /\ UNCHANGED <<contexts, mLocAdapters, change, created, mEvtMask, registered, open, calls, events>>

\* report... go to all adapters, request... to the first that handles it.
report(c, at) ==
  /\ c \in contexts \ modem /\ open[c] /\ walk[c] = Idle /\ events < MaxEvents
  /\ walk' = [walk EXCEPT ![c] = NewWalk(at)]
  /\ events' = events + 1
  /\ UNCHANGED <<contexts, mInjectContext, mLocAdapters, change, created, mEvtMask, q, registered,
                 open, configured, modem, calls>>

\* The adapter that is at the end of its context's array and at the gap.
Doubled(c) == IF change[c].at = "twice" THEN {mLocAdapters[c][Len(mLocAdapters[c])]} ELSE {}

\* One round of TO_ALL_ADAPTERS or TO_1ST_HANDLING_ADAPTER.
deliver(c) ==
  LET w == walk[c]
      s == mLocAdapters[c]
      more == w.i <= Len(s) /\ s[w.i] # "NULL"
  IN
  /\ w # Idle
  /\ \/ /\ more => (w.at = "first" /\ w.i > 1)
        /\ walk' = [walk EXCEPT ![c] = Idle]
     \/ /\ more
        /\ walk' = [walk EXCEPT ![c] =
             [w EXCEPT !.i = @ + 1, !.got[s[w.i]] = @ + 1,
                       !.torn = @ \cup (Doubled(c) \cap {s[w.i]})]]
  /\ UNCHANGED <<contexts, mInjectContext, mLocAdapters, change, created, mEvtMask, q, registered,
                 open, configured, modem, calls, events>>

Next ==
  \/ proc \/ ModemRestarts
  \/ \E c \in Contexts :
       \/ getLocContext(c) \/ handleEngineUpEvent(c) \/ deliver(c)
       \/ AskForAdded(c) \/ MoveLast(c) \/ AskForRest(c)
       \/ \E at \in {"all", "first"} : report(c, at)
       \/ \E a \in Adapters :
            \/ removeAdapter(a, c)
            \/ addAdapter(a, c, Events)
            \/ \E event \in Events : updateEvtMask(a, c, event)

Spec == Init /\ [][Next]_vars

-----------------------------------------------------------------------------
(* A modem that all contexts know to be up is set up: with the queue empty *)
(* and no adapter half added or removed, it was asked for every event that *)
(* the adapters of a context want and the context does not exclude,        *)
(* whatever order masks were changed, messages taken and the modem         *)
(* restarted in, and although a message may be made while the array has a  *)
(* gap; and it has its feature configuration, which only one of the        *)
(* contexts injects.                                                       *)
ModemIsSetUp ==
  modem = {} /\ q = <<>> /\ contexts # {} =>
    /\ configured
    /\ \A c \in contexts : change[c] = NoChange =>
         \A a \in ToSet(mLocAdapters[c]) : mEvtMask[a] \ ExcludedMask(c) \subseteq registered[c]

(* While adapters are removed under the thread that delivers an event, an  *)
(* adapter gets it at most once, as removeAdapter moves an adapter only    *)
(* towards the beginning; but the one that the thread met while the array  *)
(* had it twice, at the gap and still at the end, may get it a second      *)
(* time, and never a third.                                                *)
DeliveredOnce ==
  \A c \in Contexts : walk[c] # Idle =>
    \A a \in Adapters : walk[c].got[a] <= IF a \in walk[c].torn THEN 2 ELSE 1

=============================================================================
