------------------------------ MODULE LocHeap ------------------------------
(***************************************************************************)
(* The heap of the timer service, gps/utils/LocHeap.cpp: a binary tree     *)
(* sorted only vertically, whose nodes count the nodes of their subtree.   *)
(* A tree is NULL or a node; the recursive methods of LocHeapNode return   *)
(* the tree that they leave behind the reference they are given.           *)
(***************************************************************************)
EXTENDS Integers, FiniteSets

CONSTANTS Items, Ranks, Null

VARIABLES rank, mTree, result

vars == <<rank, mTree, result>>

\* The trees of at most n levels.  No tree of the heap has more levels than
\* there are objects, since no object is in it twice.
TreesOf[n \in 0..Cardinality(Items)] ==
  IF n = 0 THEN {Null}
  ELSE {Null} \cup [mData : Items, mSize : Int,
                    mLeft : TreesOf[n - 1], mRight : TreesOf[n - 1]]

Trees == TreesOf[Cardinality(Items)]

\* The client has finitely many objects, ranked by a number, and NULL is no node.
HeapAssumption ==
  /\ IsFiniteSet(Items) /\ Ranks \subseteq Int
  /\ Null \notin [mData : Items, mSize : Int, mLeft : Trees, mRight : Trees]

Node(d) == [mData |-> d, mSize |-> 1, mLeft |-> Null, mRight |-> Null]

outRanks(d, e) == rank[d] > rank[e]

SizeOf(t) == IF t = Null THEN 0 ELSE t.mSize

\* The subtrees that LocHeapNode::checkNodes visits, and the objects in them.
Subtrees[t \in Trees] ==
  IF t = Null THEN {} ELSE {t} \cup Subtrees[t.mLeft] \cup Subtrees[t.mRight]

DataOf(t) == {s.mData : s \in Subtrees[t]}

-----------------------------------------------------------------------------
(* LocHeapNode.  A reference that is NULL gets the new node, and nothing    *)
(* is taken from it.                                                       *)

\* The subtree that gets a new node is the left one.
goesLeft(t) ==
  \/ t.mLeft = Null
  \/ t.mRight # Null /\ SizeOf(t.mLeft) <= SizeOf(t.mRight)

\* LocHeapNode::push, the lower of the two data going down.
higher(d, e) == IF outRanks(d, e) THEN d ELSE e
lower(d, e) == IF outRanks(d, e) THEN e ELSE d

pushNode[t \in Trees] ==
  [d \in Items |->
     IF t = Null THEN Node(d)
     ELSE IF goesLeft(t)
          THEN [t EXCEPT !.mData = higher(d, @), !.mSize = @ + 1,
                         !.mLeft = pushNode[@][lower(d, t.mData)]]
          ELSE [t EXCEPT !.mData = higher(d, @), !.mSize = @ + 1,
                         !.mRight = pushNode[@][lower(d, t.mData)]]]

\* The right child replaces the top whenever there is one.
takesLeftLast(t) == t.mRight = Null

\* The child that replaces the top is the left one.
takesLeft(t) ==
  t.mLeft # Null /\ (t.mRight = Null \/ outRanks(t.mLeft.mData, t.mRight.mData))

\* LocHeapNode::pop of the data on top.
popNode[t \in Trees] ==
  IF t = Null \/ (t.mLeft = Null /\ t.mRight = Null) THEN Null
  ELSE IF takesLeft(t)
       THEN [t EXCEPT !.mData = t.mLeft.mData, !.mSize = @ - 1, !.mLeft = popNode[@]]
       ELSE [t EXCEPT !.mData = t.mRight.mData, !.mSize = @ - 1, !.mRight = popNode[@]]

\* Equal rank taken for a reason not to look further down.
mayHoldStrict(t, d) == outRanks(t.mData, d)

\* The data may be somewhere under the top.
mayHold(t, d) == ~outRanks(d, t.mData)

\* LocHeapNode::remove; the tree is the same if the data is not in it.
removeNode(d) ==
  LET left[t \in Trees] ==
        IF t = Null THEN Null
        ELSE IF t.mData = d THEN popNode[t]
        ELSE IF ~mayHold(t, d) THEN t
        ELSE IF left[t.mLeft] # t.mLeft
        THEN [t EXCEPT !.mLeft = left[@], !.mSize = @ - 1]
        ELSE IF left[t.mRight] # t.mRight
        THEN [t EXCEPT !.mRight = left[@], !.mSize = @ - 1]
        ELSE t
  IN  left

-----------------------------------------------------------------------------
(* LocHeap, as its client calls it.                                        *)

Init ==
  /\ rank \in [Items -> Ranks]
  /\ mTree = Null
  /\ result = Null

\* The client does not push an object that is in the heap.
push(d) ==
  /\ d \notin DataOf(mTree)
  /\ mTree' = pushNode[mTree][d]
  /\ result' = Null
  /\ UNCHANGED rank

Top == IF mTree = Null THEN Null ELSE mTree.mData

peek == result' = Top /\ UNCHANGED <<mTree, rank>>

pop ==
  /\ result' = Top
  /\ mTree' = popNode[mTree]
  /\ UNCHANGED rank

remove(d) ==
  /\ mTree' = removeNode(d)[mTree]
  /\ result' = IF mTree' = mTree THEN Null ELSE d
  /\ UNCHANGED rank

Next == pop \/ peek \/ \E d \in Items : push(d) \/ remove(d)

Spec == Init /\ [][Next]_vars

-----------------------------------------------------------------------------
\* What checkNodes tests in each.
checkNodes(t) ==
  /\ \A s \in {t.mLeft, t.mRight} \ {Null} : ~outRanks(s.mData, t.mData)
  /\ t.mSize - SizeOf(t.mLeft) - SizeOf(t.mRight) = 1

\* After any history of operations checkNodes() finds the tree in order.
TreeIsConsistent == \A t \in Subtrees[mTree] : checkNodes(t)

PQ == INSTANCE PriorityQueue WITH contents <- DataOf(mTree)

(***************************************************************************)
(* The tree is the priority queue LocHeap.h promises: pop() and peek()     *)
(* return an object that nothing in the heap outranks, remove() finds the  *)
(* object wherever it is, and no operation loses another one.  And in it   *)
(* all is as the unit test demands of checkNodes(): "checks if mSize is    *)
(* correct, AND this node is the highest ranking of the entire subtree".   *)
(***************************************************************************)
IsPriorityQueue == PQ!Spec /\ []TreeIsConsistent
=============================================================================
