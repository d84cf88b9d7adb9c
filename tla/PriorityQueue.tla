--------------------------- MODULE PriorityQueue ---------------------------
(***************************************************************************)
(* What gps/utils/LocHeap.h promises its client: a set of LocRankable      *)
(* objects from which pop() takes one that no other outranks and remove()  *)
(* takes the one it is given.                                              *)
(***************************************************************************)
EXTENDS Naturals

CONSTANTS Items,   \* the LocRankable objects of the client
          Ranks,   \* what ranks() compares, larger is higher
          Null

VARIABLES rank,      \* the rank of each item
          contents,  \* the items in the heap
          result     \* what the last call returned

Init ==
  /\ rank \in [Items -> Ranks]
  /\ contents = {}
  /\ result = Null

push(d) ==
  /\ d \notin contents
  /\ contents' = contents \cup {d}
  /\ result' = Null
  /\ UNCHANGED rank

Highest == {d \in contents : \A e \in contents : rank[e] <= rank[d]}

pop ==
  /\ IF contents = {} THEN result' = Null ELSE result' \in Highest
  /\ contents' = contents \ {result'}
  /\ UNCHANGED rank

remove(d) ==
  /\ result' = IF d \in contents THEN d ELSE Null
  /\ contents' = contents \ {d}
  /\ UNCHANGED rank

peek ==
  /\ IF contents = {} THEN result' = Null ELSE result' \in Highest
  /\ UNCHANGED <<contents, rank>>

Next == pop \/ peek \/ \E d \in Items : push(d) \/ remove(d)

Spec == Init /\ [][Next]_<<rank, contents, result>>
=============================================================================
