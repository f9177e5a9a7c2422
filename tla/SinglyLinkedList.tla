---------------------------- MODULE SinglyLinkedList ---------------------------
(***************************************************************************)
(* SinglyLinkedList and SinglyLinkedNode of LinkedList.h and LinkedList.cpp*)
(* as operators on a list l = [head |-> node, next |-> [Node -> node]].    *)
(* The nodes belong to the caller; a node outside the list keeps whatever  *)
(* it last had in its next pointer.                                        *)
(*                                                                         *)
(* The operators are those of a list that ends in NULL (Ends below): on a  *)
(* cyclic one the loops of the code need not terminate.                    *)
(***************************************************************************)
EXTENDS Naturals, FiniteSets

CONSTANTS
    Node,   \* the nodes there are
    NULL

ASSUME NodeAssumption == IsFiniteSet(Node) /\ NULL \notin Node

List == [head : Node \union {NULL}, next : [Node -> Node \union {NULL}]]

EmptyList == [head |-> NULL, next |-> [n \in Node |-> NULL]]

\* The nodes met by following next pointers from the head, by distance.
Walk(l) ==
    LET at[k \in 0 .. Cardinality(Node)] ==
            IF k = 0 THEN l.head
            ELSE IF at[k - 1] = NULL THEN NULL ELSE l.next[at[k - 1]]
    IN  at

Members(l) == {Walk(l)[k] : k \in 0 .. Cardinality(Node)} \ {NULL}

\* The walk comes to an end: the list is not cyclic.
Ends(l) == Walk(l)[Cardinality(Node)] = NULL

\* m comes before n in the list.
Before(l, m, n) ==
    \E i, j \in 0 .. Cardinality(Node) :
        i < j /\ Walk(l)[i] = m /\ Walk(l)[j] = n

Last(l) == CHOOSE n \in Members(l) : l.next[n] = NULL

Predecessor(l, n) == CHOOSE m \in Members(l) : l.next[m] = n

(***************************************************************************)
(* Append n.  Only a DEBUG build makes sure that n, now the last node, has *)
(* no successor.                                                           *)
(***************************************************************************)
ListAdd(l, n, debug) ==
    LET linked == IF l.head = NULL
                  THEN [l EXCEPT !.head = n]
                  ELSE [l EXCEPT !.next[Last(l)] = n]
    IN  IF debug THEN [linked EXCEPT !.next[n] = NULL] ELSE linked

\* Mutant: a node inserted before the first does not become the head.
M_ListInsert_NoHead(l, ref, n) ==
    IF ref \notin Members(l) THEN l
    ELSE IF ref = l.head THEN [l EXCEPT !.next[n] = ref]
    ELSE [l EXCEPT !.next = [@ EXCEPT ![n] = ref, ![Predecessor(l, ref)] = n]]

\* Insert n in front of ref; nothing happens when ref is not in the list.
ListInsert(l, ref, n) ==
    IF ref \notin Members(l) THEN l
    ELSE IF ref = l.head THEN [head |-> n, next |-> [l.next EXCEPT ![n] = ref]]
    ELSE [l EXCEPT !.next = [@ EXCEPT ![n] = ref, ![Predecessor(l, ref)] = n]]

(***************************************************************************)
(* Unlink n.  The node is "cleaned out" when it was the head or was not in *)
(* the list; the early return leaves the next pointer of any other node as *)
(* it was.                                                                 *)
(***************************************************************************)
ListRemove(l, n) ==
    IF n = l.head
    THEN [head |-> l.next[n], next |-> [l.next EXCEPT ![n] = NULL]]
    ELSE IF n \in Members(l)
         THEN [l EXCEPT !.next[Predecessor(l, n)] = l.next[n]]
         ELSE [l EXCEPT !.next[n] = NULL]

================================================================================
