------------------------------- MODULE UtilsMC ------------------------------
(***************************************************************************)
(* The timer service of gps/utils and the heap in which it keeps its       *)
(* timers, for TLC.  In LocTimer the heap is the set that module LocHeap   *)
(* is shown to implement, so each is checked by itself: a behaviour is one *)
(* of a single module, chosen at the start.                                *)
(***************************************************************************)
EXTENDS LocTimer

CONSTANTS Items, Ranks, Null

VARIABLES part,
          rank, mTree, result

Heap == INSTANCE LocHeap

heapVars == <<rank, mTree, result>>
allVars == <<part, vars, heapVars>>

ASSUME UtilsAssumption == Heap!HeapAssumption

MCInit == /\ part \in {"timer", "heap"}
          /\ Init
          /\ IF part = "heap" THEN Heap!Init
             ELSE rank = [i \in Items |-> 1] /\ mTree = Null /\ result = Null

MCNext == \/ part = "timer" /\ Next /\ UNCHANGED <<part, heapVars>>
          \/ part = "heap" /\ Heap!Next /\ UNCHANGED <<part, vars>>

\* The fairness of LocTimer's FairSpec, for the part that runs.
Timer(A) == part = "timer" /\ Running /\ A /\ UNCHANGED <<part, heapVars>>

MCSpec == /\ MCInit /\ [][MCNext]_allVars
          /\ WF_allVars(Timer(MsgTaskStep))
          /\ WF_allVars(Timer(PollStep))
          /\ WF_allVars(Timer(Tick))

-----------------------------------------------------------------------------
(***************************************************************************)
(* LocHeap is a priority queue, and its tree is in order.                  *)
(***************************************************************************)
IsPriorityQueue == Heap!IsPriorityQueue
=============================================================================
