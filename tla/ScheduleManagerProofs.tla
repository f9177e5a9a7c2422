-------------------------- MODULE ScheduleManagerProofs ------------------------
(***************************************************************************)
(* Proofs about the linked list and the scheduler that keeps its tasks in  *)
(* it: for any tasks, intervals and clock, no task is lost, the list stays *)
(* in the order of the wake-up times, and a pass serves every task that is *)
(* due.                                                                    *)
(***************************************************************************)
EXTENDS ScheduleManager, Induction, SequenceTheorems, TLAPS

\* How many nodes there are: no walk is longer.
N == Cardinality(Node)

\* The number of nodes.
LEMMA NIsNat == N \in Nat /\ N \in Int
BY NodeAssumption, FS_CardinalityType DEF N

(***************************************************************************)
(* Walk is the function that its recursive definition describes.           *)
(***************************************************************************)
LEMMA WalkSteps ==
    ASSUME NEW l
    PROVE  Walk(l) = [k \in 0 .. N |->
                        IF k = 0 THEN l.head
                        ELSE IF Walk(l)[k - 1] = NULL THEN NULL
                        ELSE l.next[Walk(l)[k - 1]]]
<1> DEFINE step(f, k) == IF k = 0 THEN l.head
                         ELSE IF f[k - 1] = NULL THEN NULL ELSE l.next[f[k - 1]]
           Unfolds(f, m) == f = [k \in 0 .. m |-> step(f, k)]
           T == {m \in Nat : \E f : Unfolds(f, m)}
<1>1. 0 \in T
  <2> DEFINE f == [k \in 0 .. 0 |-> l.head]
  <2>1. f = [k \in 0 .. 0 |-> step(f, k)]
    OBVIOUS
  <2> QED
    BY <2>1
<1>2. ASSUME NEW m \in Nat, m \in T PROVE m + 1 \in T
  <2>1. PICK f : Unfolds(f, m)
    BY <1>2
  <2> DEFINE g == [k \in 0 .. m + 1 |-> IF k <= m THEN f[k] ELSE step(f, m + 1)]
  <2>2. ASSUME NEW k \in 0 .. m + 1 PROVE g[k] = step(g, k)
    <3>1. CASE k = 0
      BY <2>1, <3>1
    <3>2. CASE k # 0 /\ k <= m
      <4>1. k \in 0 .. m /\ k - 1 \in 0 .. m + 1 /\ k - 1 <= m
        BY <3>2
      <4>2. g[k] = f[k] /\ g[k - 1] = f[k - 1]
        BY <3>2, <4>1
      <4>3. f[k] = step(f, k)
        BY <2>1, <4>1
      <4> QED
        BY <4>2, <4>3
    <3>3. CASE k = m + 1
      <4>1. (m + 1) - 1 = m /\ ~ (m + 1 <= m) /\ m \in 0 .. m + 1 /\ m + 1 # 0
        OBVIOUS
      <4>2. g[k] = step(f, m + 1) /\ g[m] = f[m]
        BY <3>3, <4>1
      <4> QED
        BY <3>3, <4>1, <4>2
    <3> QED
      BY <3>1, <3>2, <3>3
  <2>3. g = [k \in 0 .. m + 1 |-> g[k]]
    OBVIOUS
  <2> HIDE DEF g
  <2>4. Unfolds(g, m + 1)
    BY <2>2, <2>3
  <2> HIDE DEF Unfolds
  <2> QED
    BY <2>4
<1>3. \E f : Unfolds(f, N)
  <2>1. Nat \subseteq T
    <3> HIDE DEF T
    <3> QED
      BY <1>1, <1>2, Induct
  <2> QED
    BY <2>1, NIsNat
<1>4. Walk(l) = CHOOSE f : Unfolds(f, N)
  BY DEF Walk, N
<1>5. Unfolds(Walk(l), N)
  <2> HIDE DEF Unfolds
  <2> QED
    BY <1>3, <1>4
<1> QED
  BY <1>5

\* The same, distance by distance.
LEMMA WalkIs ==
    ASSUME NEW l
    PROVE  /\ Walk(l)[0] = l.head
           /\ \A k \in 0 .. N - 1 :
                Walk(l)[k + 1] = IF Walk(l)[k] = NULL THEN NULL ELSE l.next[Walk(l)[k]]
<1> DEFINE w == Walk(l)
<1>1. w = [i \in 0 .. N |-> IF i = 0 THEN l.head
                            ELSE IF w[i - 1] = NULL THEN NULL ELSE l.next[w[i - 1]]]
  BY WalkSteps
<1> HIDE DEF w
<1>2. w[0] = l.head
  BY <1>1, NIsNat
<1>3. ASSUME NEW k \in 0 .. N - 1
      PROVE  w[k + 1] = IF w[k] = NULL THEN NULL ELSE l.next[w[k]]
  <2> DEFINE j == k + 1
  <2>1. j \in 0 .. N /\ j - 1 = k /\ j # 0
    BY NIsNat
  <2> HIDE DEF j
  <2>2. w[j] = IF w[k] = NULL THEN NULL ELSE l.next[w[k]]
    BY <1>1, <2>1
  <2> QED
    BY <2>2 DEF j
<1> QED
  BY <1>2, <1>3 DEF w

\* The nodes of a list, whatever its links, are nodes.
LEMMA WalkMeetsNodes ==
    ASSUME NEW l \in List
    PROVE  /\ \A k \in 0 .. N : Walk(l)[k] \in Node \union {NULL}
           /\ Members(l) \subseteq Node
<1> DEFINE T == {k \in Nat : k \in 0 .. N => Walk(l)[k] \in Node \union {NULL}}
<1>1. 0 \in T
  BY WalkIs DEF List
<1>2. ASSUME NEW k \in Nat, k \in T PROVE k + 1 \in T
  <2> SUFFICES ASSUME k + 1 \in 0 .. N PROVE Walk(l)[k + 1] \in Node \union {NULL}
    OBVIOUS
  <2>1. k \in 0 .. N /\ k \in 0 .. N - 1
    BY NIsNat
  <2>2. Walk(l)[k + 1] = IF Walk(l)[k] = NULL THEN NULL ELSE l.next[Walk(l)[k]]
    BY <2>1, WalkIs
  <2>3. Walk(l)[k] \in Node \union {NULL}
    BY <1>2, <2>1
  <2> QED
    BY <2>2, <2>3 DEF List
<1>3. Nat \subseteq T
  <2> HIDE DEF T
  <2> QED
    BY <1>1, <1>2, Induct
<1>4. \A k \in 0 .. N : Walk(l)[k] \in Node \union {NULL}
  BY <1>3, NIsNat
<1> QED
  BY <1>4 DEF Members, N

\* Lists stay lists, cyclic or not.
LEMMA AddIsList ==
    ASSUME NEW l \in List, NEW t \in Node, NEW d \in BOOLEAN
    PROVE  ListAdd(l, t, d) \in List
<1> DEFINE linked == IF l.head = NULL
                     THEN [l EXCEPT !.head = t]
                     ELSE [l EXCEPT !.next[Last(l)] = t]
<1>1. linked \in List
  BY DEF List
<1>2. ListAdd(l, t, d) = IF d THEN [linked EXCEPT !.next[t] = NULL] ELSE linked
  BY DEF ListAdd
<1> HIDE DEF linked
<1>3. [linked EXCEPT !.next[t] = NULL] \in List
  BY <1>1 DEF List
<1> QED
  BY <1>1, <1>2, <1>3

\* Entering before a node, and leaving, as AddIsList.
LEMMA InsertIsList ==
    ASSUME NEW l \in List, NEW ref, NEW t \in Node
    PROVE  ListInsert(l, ref, t) \in List
<1>1. CASE ref \notin Members(l)
  BY <1>1 DEF ListInsert
<1>2. CASE ref \in Members(l)
  <2>1. ref \in Node
    BY <1>2, WalkMeetsNodes
  <2>2. [l.next EXCEPT ![t] = ref] \in [Node -> Node \union {NULL}]
    BY <2>1 DEF List
  <2>3. CASE ref = l.head
    BY <1>2, <2>2, <2>3 DEF ListInsert, List
  <2>4. CASE ref # l.head
    <3> DEFINE nx == [[l.next EXCEPT ![t] = ref] EXCEPT ![Predecessor(l, ref)] = t]
    <3>1. nx \in [Node -> Node \union {NULL}]
      BY <2>2
    <3>2. ListInsert(l, ref, t) = [l EXCEPT !.next = nx]
      BY <1>2, <2>4 DEF ListInsert
    <3> HIDE DEF nx
    <3> QED
      BY <3>1, <3>2 DEF List
  <2> QED
    BY <2>3, <2>4
<1> QED
  BY <1>1, <1>2

\* remove() makes a list of a list.
LEMMA RemoveIsList ==
    ASSUME NEW l \in List, NEW t \in Node
    PROVE  ListRemove(l, t) \in List
<1>1. l.next[t] \in Node \union {NULL}
  BY DEF List
<1>2. [l.next EXCEPT ![t] = NULL] \in [Node -> Node \union {NULL}]
  BY DEF List
<1>3. [l EXCEPT !.next[t] = NULL] \in List
  BY DEF List
<1>4. [l EXCEPT !.next[Predecessor(l, t)] = l.next[t]] \in List
  BY <1>1 DEF List
<1>5. [head |-> l.next[t], next |-> [l.next EXCEPT ![t] = NULL]] \in List
  BY <1>1, <1>2 DEF List
<1> QED
  BY <1>3, <1>4, <1>5 DEF ListRemove

\* So does a list that a task entered.
LEMMA ScheduleIsList ==
    ASSUME NEW l \in List, NEW w, NEW t \in Node, debug \in BOOLEAN
    PROVE  schedule(l, w, t) \in List
BY AddIsList, InsertIsList DEF schedule

--------------------------------------------------------------------------------
\* TypeOK, and a task that runs is one.
Typed == TypeOK /\ (pc = "running" => scheduled \in Node)

\* A wake-up time is on the clock.
LEMMA WakeupIsTime ==
    ASSUME NEW t \in Node, NEW from \in Time
    PROVE  nextWakeup(t, from) \in Time
<1>1. Interval[t] \in Nat /\ from \in Nat /\ TimeMod \in Nat \ {0}
  BY TimeAssumption DEF Time
<1> DEFINE a == from + Interval[t]
<1>2. a \in Nat
  BY <1>1
<1> HIDE DEF a
<1>3. a % TimeMod \in 0 .. TimeMod - 1
  BY <1>1, <1>2
<1> QED
  BY <1>3 DEF nextWakeup, Time, a

\* The types, with a task that runs, hold throughout.
LEMMA AlwaysTyped == Spec => []Typed
<1>1. Init => Typed
  <2> SUFFICES ASSUME Init PROVE Typed
    OBVIOUS
  <2>1. 0 \in Time /\ 0 \in 0 .. MaxTicks /\ StartTimes \subseteq Time
    BY TimeAssumption DEF Time
  <2>2. EmptyList \in List
    BY DEF EmptyList, List
  <2>3. DebugBuilds \subseteq BOOLEAN
    BY TimeAssumption
  <2> QED
    BY <2>1, <2>2, <2>3 DEF Init, Typed, TypeOK
<1>2. Typed /\ [Next]_vars => Typed'
  <2> SUFFICES ASSUME Typed, [Next]_vars PROVE Typed'
    OBVIOUS
  <2> USE DEF Typed, TypeOK
  <2>1. CASE Tick
    <3>1. (now + 1) % TimeMod \in Time
      <4>1. now + 1 \in Nat /\ TimeMod \in Nat \ {0}
        BY TimeAssumption DEF Time
      <4> QED
        BY <4>1 DEF Time
    <3>2. ticks' \in 0 .. MaxTicks
      BY <2>1, TimeAssumption DEF Tick
    <3> QED
      BY <2>1, <3>1, <3>2 DEF Tick
  <2>2. ASSUME NEW t \in Node, add(t) PROVE Typed'
    <3>1. wakeup' \in [Node -> Time]
      BY <2>2, WakeupIsTime DEF add
    <3>2. schedule(listScheduled, wakeup', t) \in List
      BY ScheduleIsList
    <3> QED
      BY <2>2, <3>1, <3>2 DEF add
  <2>3. ASSUME NEW t \in Node, remove(t) PROVE Typed'
    BY <2>3, RemoveIsList DEF remove
  <2>4. CASE executeBegin
    BY <2>4 DEF executeBegin, List
  <2>5. CASE executeTask
    <3>1. scheduled \in Node /\ listScheduled.next[scheduled] \in Node \union {NULL}
      BY <2>5 DEF executeTask, List
    <3> QED
      BY <2>5, <3>1 DEF executeTask
  <2>6. CASE executeReschedule
    <3>1. scheduled \in Node
      BY <2>6 DEF executeReschedule
    <3>2. nextWakeup(scheduled, wakeup[scheduled]) \in Time
      BY <3>1, WakeupIsTime
    <3>3. wakeup' \in [Node -> Time]
      BY <2>6, <3>2 DEF executeReschedule
    <3>4. ListRemove(listScheduled, scheduled) \in List
      BY <3>1, RemoveIsList
    <3>5. schedule(ListRemove(listScheduled, scheduled), wakeup', scheduled) \in List
      BY <3>1, <3>4, ScheduleIsList
    <3> QED
      BY <2>6, <3>3, <3>5 DEF executeReschedule
  <2>7. CASE executeEnd
    BY <2>7 DEF executeEnd
  <2>8. CASE UNCHANGED vars
    BY <2>8 DEF vars
  <2> QED
    BY <2>1, <2>2, <2>3, <2>4, <2>5, <2>6, <2>7, <2>8 DEF Next, Pass
<1> QED
  BY <1>1, <1>2, PTL DEF Spec

(***************************************************************************)
(* The scheduler keeps its types, whatever the clock and the client do.    *)
(***************************************************************************)
THEOREM TypeCorrect == Spec => []TypeOK
<1>1. Typed => TypeOK
  BY DEF Typed
<1> QED
  BY <1>1, AlwaysTyped, PTL

--------------------------------------------------------------------------------
(***************************************************************************)
(* c is the path of the list l, from its head to its end.                  *)
(***************************************************************************)
Path(c, l) ==
    /\ c \in Seq(Node) /\ l \in List
    /\ \A i, j \in 1 .. Len(c) : c[i] = c[j] => i = j
    /\ l.head = IF Len(c) = 0 THEN NULL ELSE c[1]
    /\ \A k \in 1 .. Len(c) : l.next[c[k]] = IF k = Len(c) THEN NULL ELSE c[k + 1]

\* The nodes of a path.
On(c) == {c[k] : k \in 1 .. Len(c)}

\* A path has no more nodes than there are.
LEMMA PathIsShort ==
    ASSUME NEW c, NEW l, Path(c, l)
    PROVE  /\ Len(c) \in 0 .. N /\ On(c) \subseteq Node /\ NULL \notin Node
           /\ \A k \in 1 .. Len(c) : c[k] \in On(c) /\ c[k] \in Node /\ c[k] # NULL
<1>1. Len(c) \in Nat /\ c \in [1 .. Len(c) -> Node]
  BY DEF Path
<1>2. c \in Injection(1 .. Len(c), Node)
  BY <1>1 DEF Path, Injection, IsInjective
<1>3. Cardinality(1 .. Len(c)) = Len(c)
  BY <1>1, FS_Interval
<1>4. Cardinality(1 .. Len(c)) <= N
  BY <1>2, NodeAssumption, FS_Injection DEF N
<1>5. Len(c) \in 0 .. N
  BY <1>1, <1>3, <1>4, NIsNat
<1> QED
  BY <1>1, <1>5, NodeAssumption DEF On

\* The walk meets the nodes of the path, and nothing behind them.
LEMMA WalkIsPath ==
    ASSUME NEW c, NEW l, Path(c, l)
    PROVE  \A k \in 0 .. N : Walk(l)[k] = IF k < Len(c) THEN c[k + 1] ELSE NULL
<1> DEFINE n == Len(c)
           w == Walk(l)
           T == {k \in Nat : k \in 0 .. N => w[k] = IF k < n THEN c[k + 1] ELSE NULL}
<1>1. /\ n \in 0 .. N /\ N \in Nat
      /\ \A k \in 1 .. n : c[k] # NULL
  BY PathIsShort, NIsNat
<1>2. /\ l.head = IF n = 0 THEN NULL ELSE c[1]
      /\ \A k \in 1 .. n : l.next[c[k]] = IF k = n THEN NULL ELSE c[k + 1]
  BY DEF Path
<1>3. /\ w[0] = l.head
      /\ \A k \in 0 .. N - 1 :
            w[k + 1] = IF w[k] = NULL THEN NULL ELSE l.next[w[k]]
  BY WalkIs
<1> HIDE DEF n, w
<1>4. 0 \in T
  <2>1. CASE n = 0
    BY <1>2, <1>3, <2>1
  <2>2. CASE n # 0
    <3>1. 0 < n /\ 0 + 1 = 1
      BY <1>1, <2>2
    <3> QED
      BY <1>2, <1>3, <2>2, <3>1
  <2> QED
    BY <2>1, <2>2
<1>5. ASSUME NEW k \in Nat, k \in T PROVE k + 1 \in T
  <2> SUFFICES ASSUME k + 1 \in 0 .. N
               PROVE  w[k + 1] = IF k + 1 < n THEN c[(k + 1) + 1] ELSE NULL
    OBVIOUS
  <2>1. k \in 0 .. N /\ k \in 0 .. N - 1
    BY <1>1
  <2>2. w[k + 1] = IF w[k] = NULL THEN NULL ELSE l.next[w[k]]
    BY <1>3, <2>1
  <2>3. w[k] = IF k < n THEN c[k + 1] ELSE NULL
    BY <1>5, <2>1
  <2>4. CASE k < n
    <3>1. k + 1 \in 1 .. n
      BY <1>1, <2>4
    <3>2. w[k] = c[k + 1] /\ w[k] # NULL
      BY <1>1, <2>3, <2>4, <3>1
    <3>3. l.next[c[k + 1]] = IF k + 1 = n THEN NULL ELSE c[(k + 1) + 1]
      BY <1>2, <3>1
    <3>4. k + 1 = n <=> ~ (k + 1 < n)
      BY <1>1, <3>1
    <3> QED
      BY <2>2, <3>2, <3>3, <3>4
  <2>5. CASE ~ (k < n)
    <3>1. ~ (k + 1 < n)
      BY <1>1, <2>5
    <3> QED
      BY <2>2, <2>3, <2>5, <3>1
  <2> QED
    BY <2>4, <2>5
<1>6. Nat \subseteq T
  <2> HIDE DEF T
  <2> QED
    BY <1>4, <1>5, Induct
<1>7. \A k \in 0 .. N : w[k] = IF k < n THEN c[k + 1] ELSE NULL
  BY <1>1, <1>6
<1> QED
  BY <1>7 DEF n, w

(***************************************************************************)
(* What the operators on lists say of a list with a path.                  *)
(***************************************************************************)
LEMMA PathIs ==
    ASSUME NEW c, NEW l, Path(c, l)
    PROVE  /\ Members(l) = On(c) /\ Ends(l)
           /\ \A i, j \in 1 .. Len(c) : Before(l, c[i], c[j]) <=> i < j
<1> DEFINE n == Len(c)
           w == Walk(l)
<1>1. /\ n \in 0 .. N /\ N \in Nat
      /\ \A k \in 1 .. n : c[k] # NULL
      /\ \A i, j \in 1 .. n : c[i] = c[j] => i = j
  BY PathIsShort, NIsNat DEF Path
<1>2. \A k \in 0 .. N : w[k] = IF k < n THEN c[k + 1] ELSE NULL
  BY WalkIsPath
<1>3. /\ Members(l) = {w[k] : k \in 0 .. N} \ {NULL}
      /\ Ends(l) <=> w[N] = NULL
      /\ On(c) = {c[k] : k \in 1 .. n}
  BY DEF Members, Ends, N, On
<1>4. ASSUME NEW a, NEW b
      PROVE  Before(l, a, b) <=> \E i, j \in 0 .. N : i < j /\ w[i] = a /\ w[j] = b
  BY DEF Before, N
<1> HIDE DEF n, w
<1>5. \A k \in 1 .. n : k - 1 \in 0 .. N /\ k - 1 < n /\ w[k - 1] = c[k]
  <2> SUFFICES ASSUME NEW k \in 1 .. n
               PROVE  k - 1 \in 0 .. N /\ k - 1 < n /\ w[k - 1] = c[k]
    OBVIOUS
  <2>1. k - 1 \in 0 .. N /\ k - 1 < n /\ (k - 1) + 1 = k
    BY <1>1
  <2> QED
    BY <1>2, <2>1
<1>6. \A k \in 0 .. N : w[k] # NULL => k + 1 \in 1 .. n /\ w[k] = c[k + 1]
  BY <1>1, <1>2
<1>7. Members(l) = On(c)
  <2>1. ASSUME NEW m \in Members(l) PROVE m \in On(c)
    <3>1. PICK k \in 0 .. N : m = w[k] /\ w[k] # NULL
      BY <1>3, <2>1
    <3> QED
      BY <1>3, <1>6, <3>1
  <2>2. ASSUME NEW m \in On(c) PROVE m \in Members(l)
    <3>1. PICK k \in 1 .. n : m = c[k]
      BY <1>3, <2>2
    <3> QED
      BY <1>1, <1>3, <1>5, <3>1
  <2> QED
    BY <2>1, <2>2
<1>8. Ends(l)
  <2>1. N \in 0 .. N /\ ~ (N < n)
    BY <1>1
  <2> QED
    BY <1>2, <1>3, <2>1
<1>9. ASSUME NEW i \in 1 .. n, NEW j \in 1 .. n
      PROVE  Before(l, c[i], c[j]) <=> i < j
  <2>1. ASSUME i < j PROVE Before(l, c[i], c[j])
    <3>1. i - 1 < j - 1
      BY <2>1
    <3> QED
      BY <1>4, <1>5, <3>1
  <2>2. ASSUME Before(l, c[i], c[j]) PROVE i < j
    <3>1. PICK a \in 0 .. N, b \in 0 .. N : a < b /\ w[a] = c[i] /\ w[b] = c[j]
      BY <1>4, <2>2
    <3>2. a + 1 \in 1 .. n /\ b + 1 \in 1 .. n /\ c[a + 1] = c[i] /\ c[b + 1] = c[j]
      BY <1>1, <1>6, <3>1
    <3>3. a + 1 = i /\ b + 1 = j
      BY <1>1, <3>2
    <3> QED
      BY <3>1, <3>3
  <2> QED
    BY <2>1, <2>2
<1> QED
  BY <1>7, <1>8, <1>9 DEF n

--------------------------------------------------------------------------------
\* c with t in its p-th place, and c without its p-th node.
Insert(c, p, t) ==
    [k \in 1 .. Len(c) + 1 |->
        IF k < p THEN c[k] ELSE IF k = p THEN t ELSE c[k - 1]]

Without(c, p) == [k \in 1 .. Len(c) - 1 |-> IF k < p THEN c[k] ELSE c[k + 1]]

\* They are such sequences, and have the nodes that one expects.
LEMMA InsertIs ==
    ASSUME NEW c \in Seq(Node), NEW p \in 1 .. Len(c) + 1, NEW t \in Node
    PROVE  /\ Insert(c, p, t) \in Seq(Node) /\ Len(Insert(c, p, t)) = Len(c) + 1
           /\ \A k \in 1 .. Len(c) + 1 :
                Insert(c, p, t)[k] = IF k < p THEN c[k] ELSE IF k = p THEN t ELSE c[k - 1]
           /\ On(Insert(c, p, t)) = On(c) \union {t}
<1> DEFINE n == Len(c)
           d == Insert(c, p, t)
<1>1. n \in Nat /\ p \in 1 .. n + 1 /\ \A k \in 1 .. n : c[k] \in Node
  OBVIOUS
<1>2. d = [k \in 1 .. n + 1 |-> IF k < p THEN c[k] ELSE IF k = p THEN t ELSE c[k - 1]]
  BY DEF Insert
<1> HIDE DEF n, d
<1>3. ASSUME NEW k \in 1 .. n + 1 PROVE d[k] \in Node
  <2>1. CASE k < p
    <3>1. k \in 1 .. n
      BY <1>1, <2>1
    <3> QED
      BY <1>1, <1>2, <2>1, <3>1
  <2>2. CASE k = p
    BY <1>2, <2>2
  <2>3. CASE ~ (k < p) /\ k # p
    <3>1. k - 1 \in 1 .. n
      BY <1>1, <2>3
    <3> QED
      BY <1>1, <1>2, <2>3, <3>1
  <2> QED
    BY <2>1, <2>2, <2>3
<1>4. d \in Seq(Node) /\ Len(d) = n + 1
  <2>1. d \in [1 .. n + 1 -> Node] /\ n + 1 \in Nat
    BY <1>1, <1>2, <1>3
  <2> QED
    BY <2>1
<1>5. On(d) = {d[k] : k \in 1 .. n + 1} /\ On(c) = {c[k] : k \in 1 .. n}
  BY <1>4 DEF On, n
<1>6. ASSUME NEW i \in On(c) PROVE i \in On(d)
  <2>1. PICK k \in 1 .. n : i = c[k]
    BY <1>5, <1>6
  <2>2. CASE k < p
    <3>1. k \in 1 .. n + 1 /\ d[k] = c[k]
      BY <1>1, <1>2, <2>2
    <3> QED
      BY <1>5, <2>1, <3>1
  <2>3. CASE ~ (k < p)
    <3>1. k + 1 \in 1 .. n + 1 /\ ~ (k + 1 < p) /\ k + 1 # p /\ (k + 1) - 1 = k
      BY <1>1, <2>3
    <3>2. d[k + 1] = c[k]
      BY <1>2, <3>1
    <3> QED
      BY <1>5, <2>1, <3>1, <3>2
  <2> QED
    BY <2>2, <2>3
<1>7. ASSUME NEW i \in On(d) PROVE i \in On(c) \union {t}
  <2>1. PICK k \in 1 .. n + 1 : i = d[k]
    BY <1>5, <1>7
  <2>2. CASE k < p
    <3>1. k \in 1 .. n
      BY <1>1, <2>2
    <3> QED
      BY <1>2, <1>5, <2>1, <2>2, <3>1
  <2>3. CASE k = p
    BY <1>2, <2>1, <2>3
  <2>4. CASE ~ (k < p) /\ k # p
    <3>1. k - 1 \in 1 .. n
      BY <1>1, <2>4
    <3> QED
      BY <1>2, <1>5, <2>1, <2>4, <3>1
  <2> QED
    BY <2>2, <2>3, <2>4
<1>8. t \in On(d)
  <2>1. d[p] = t
    BY <1>1, <1>2
  <2> QED
    BY <1>1, <1>5, <2>1
<1> QED
  BY <1>2, <1>4, <1>6, <1>7, <1>8 DEF n, d

\* It is a path that has lost just that node.
LEMMA WithoutIs ==
    ASSUME NEW c \in Seq(Node), NEW p \in 1 .. Len(c),
           \A i, j \in 1 .. Len(c) : c[i] = c[j] => i = j
    PROVE  /\ Without(c, p) \in Seq(Node) /\ Len(Without(c, p)) = Len(c) - 1
           /\ \A k \in 1 .. Len(c) - 1 :
                Without(c, p)[k] = IF k < p THEN c[k] ELSE c[k + 1]
           /\ On(Without(c, p)) = On(c) \ {c[p]}
<1> DEFINE n == Len(c) - 1
           d == Without(c, p)
<1>1. /\ n \in Nat /\ p \in 1 .. n + 1 /\ Len(c) = n + 1
      /\ \A k \in 1 .. n + 1 : c[k] \in Node
      /\ \A i, j \in 1 .. n + 1 : c[i] = c[j] => i = j
  OBVIOUS
<1>2. d = [k \in 1 .. n |-> IF k < p THEN c[k] ELSE c[k + 1]]
  BY DEF Without
<1> HIDE DEF n, d
<1>3. \A k \in 1 .. n : k \in 1 .. n + 1 /\ k + 1 \in 1 .. n + 1
  BY <1>1
<1>4. d \in Seq(Node) /\ Len(d) = n
  <2>1. d \in [1 .. n -> Node]
    BY <1>1, <1>2, <1>3
  <2> QED
    BY <1>1, <2>1
<1>5. On(d) = {d[k] : k \in 1 .. n} /\ On(c) = {c[k] : k \in 1 .. n + 1}
  BY <1>1, <1>4 DEF On
<1>6. ASSUME NEW i \in On(c) \ {c[p]} PROVE i \in On(d)
  <2>1. PICK k \in 1 .. n + 1 : i = c[k] /\ k # p
    BY <1>5, <1>6
  <2>2. CASE k < p
    <3>1. k \in 1 .. n
      BY <1>1, <2>2
    <3> QED
      BY <1>2, <1>5, <2>1, <2>2, <3>1
  <2>3. CASE ~ (k < p)
    <3>1. k - 1 \in 1 .. n /\ ~ (k - 1 < p) /\ (k - 1) + 1 = k
      BY <1>1, <2>1, <2>3
    <3>2. d[k - 1] = c[k]
      BY <1>2, <3>1
    <3> QED
      BY <1>5, <2>1, <3>1, <3>2
  <2> QED
    BY <2>2, <2>3
<1>7. ASSUME NEW i \in On(d) PROVE i \in On(c) \ {c[p]}
  <2>1. PICK k \in 1 .. n : i = d[k]
    BY <1>5, <1>7
  <2>2. CASE k < p
    <3>1. i = c[k] /\ k # p
      BY <1>1, <1>2, <2>1, <2>2
    <3> QED
      BY <1>1, <1>3, <1>5, <3>1
  <2>3. CASE ~ (k < p)
    <3>1. i = c[k + 1] /\ k + 1 # p
      BY <1>1, <1>2, <2>1, <2>3
    <3> QED
      BY <1>1, <1>3, <1>5, <3>1
  <2> QED
    BY <2>2, <2>3
<1> QED
  BY <1>1, <1>2, <1>4, <1>6, <1>7 DEF n, d

\* A node is linked into a path.
LEMMA PathWith ==
    ASSUME NEW c, NEW l, Path(c, l), NEW t \in Node, t \notin On(c),
           NEW p \in 1 .. Len(c) + 1, NEW m \in List,
           m.head = IF p = 1 THEN t ELSE l.head,
           m.next[t] = IF p = Len(c) + 1 THEN NULL ELSE c[p],
           \A k \in 1 .. Len(c) :
                m.next[c[k]] = IF k = p - 1 THEN t ELSE l.next[c[k]]
    PROVE  Path(Insert(c, p, t), m)
<1> DEFINE n == Len(c)
           d == Insert(c, p, t)
<1>1. /\ n \in Nat /\ p \in 1 .. n + 1 /\ c \in Seq(Node)
      /\ \A i, j \in 1 .. n : c[i] = c[j] => i = j
      /\ l.head = IF n = 0 THEN NULL ELSE c[1]
      /\ \A k \in 1 .. n : l.next[c[k]] = IF k = n THEN NULL ELSE c[k + 1]
      /\ \A k \in 1 .. n : m.next[c[k]] = IF k = p - 1 THEN t ELSE l.next[c[k]]
      /\ m.next[t] = IF p = n + 1 THEN NULL ELSE c[p]
  BY DEF Path
<1>2. \A k \in 1 .. n : c[k] # t
  BY DEF On
<1>3. /\ d \in Seq(Node) /\ Len(d) = n + 1
      /\ \A k \in 1 .. n + 1 :
            d[k] = IF k < p THEN c[k] ELSE IF k = p THEN t ELSE c[k - 1]
  BY <1>1, InsertIs
<1> HIDE DEF n, d
<1>4. \A k \in 1 .. n + 1 : /\ k < p => k \in 1 .. n /\ d[k] = c[k]
                            /\ k = p => d[k] = t
                            /\ p < k => k - 1 \in 1 .. n /\ d[k] = c[k - 1]
  <2> SUFFICES ASSUME NEW k \in 1 .. n + 1
               PROVE  /\ k < p => k \in 1 .. n /\ d[k] = c[k]
                      /\ k = p => d[k] = t
                      /\ p < k => k - 1 \in 1 .. n /\ d[k] = c[k - 1]
    OBVIOUS
  <2>1. d[k] = IF k < p THEN c[k] ELSE IF k = p THEN t ELSE c[k - 1]
    BY <1>3
  <2>2. /\ k < p => k \in 1 .. n
        /\ k = p => ~ (k < p)
        /\ p < k => k - 1 \in 1 .. n /\ ~ (k < p) /\ k # p
    BY <1>1
  <2> QED
    BY <2>1, <2>2
<1>5. ASSUME NEW i \in 1 .. n + 1, NEW j \in 1 .. n + 1, d[i] = d[j] PROVE i = j
  <2> DEFINE a == IF i < p THEN i ELSE i - 1
             b == IF j < p THEN j ELSE j - 1
  <2>1. i # p => a \in 1 .. n /\ d[i] = c[a]
    BY <1>1, <1>4
  <2>2. j # p => b \in 1 .. n /\ d[j] = c[b]
    BY <1>1, <1>4
  <2>3. CASE i = p \/ j = p
    <3>1. d[p] = t
      BY <1>1, <1>4
    <3> HIDE DEF a, b
    <3> QED
      BY <1>2, <1>5, <2>1, <2>2, <2>3, <3>1
  <2>4. CASE i # p /\ j # p
    <3>1. a = b
      <4> HIDE DEF a, b
      <4> QED
        BY <1>1, <1>5, <2>1, <2>2, <2>4
    <3> QED
      BY <1>1, <2>4, <3>1
  <2> QED
    BY <2>3, <2>4
<1>6. m.head = IF n + 1 = 0 THEN NULL ELSE d[1]
  <2>1. CASE p = 1
    BY <1>1, <1>4, <2>1
  <2>2. CASE p # 1
    <3>1. 1 \in 1 .. n + 1 /\ 1 < p /\ n # 0
      BY <1>1, <2>2
    <3> QED
      BY <1>1, <1>4, <2>2, <3>1
  <2> QED
    BY <2>1, <2>2
<1>7. ASSUME NEW k \in 1 .. n + 1
      PROVE  m.next[d[k]] = IF k = n + 1 THEN NULL ELSE d[k + 1]
  <2>1. CASE k < p /\ k # p - 1
    <3>1. k \in 1 .. n /\ k + 1 \in 1 .. n + 1 /\ k + 1 < p /\ k # n + 1 /\ k # n
      BY <1>1, <2>1
    <3>2. d[k] = c[k] /\ d[k + 1] = c[k + 1]
      BY <1>4, <2>1, <3>1
    <3> QED
      BY <1>1, <2>1, <3>1, <3>2
  <2>2. CASE k < p /\ k = p - 1
    <3>1. k \in 1 .. n /\ k + 1 \in 1 .. n + 1 /\ k + 1 = p /\ k # n + 1
      BY <1>1, <2>2
    <3>2. d[k] = c[k] /\ d[k + 1] = t
      BY <1>4, <2>2, <3>1
    <3> QED
      BY <1>1, <2>2, <3>1, <3>2
  <2>3. CASE k = p
    <3>1. d[k] = t
      BY <1>4, <2>3
    <3>2. ASSUME k # n + 1 PROVE k + 1 \in 1 .. n + 1 /\ d[k + 1] = c[k]
      <4>1. k + 1 \in 1 .. n + 1 /\ p < k + 1 /\ (k + 1) - 1 = k
        BY <1>1, <2>3, <3>2
      <4> QED
        BY <1>4, <4>1
    <3> QED
      BY <1>1, <2>3, <3>1, <3>2
  <2>4. CASE p < k
    <3>1. k - 1 \in 1 .. n /\ d[k] = c[k - 1] /\ k - 1 # p - 1 /\ (k - 1) + 1 = k
          /\ (k - 1 = n <=> k = n + 1)
      BY <1>1, <1>4, <2>4
    <3>2. m.next[d[k]] = IF k = n + 1 THEN NULL ELSE c[k]
      <4> DEFINE j == k - 1
      <4>1. j \in 1 .. n /\ d[k] = c[j] /\ j # p - 1 /\ j + 1 = k /\ (j = n <=> k = n + 1)
        BY <3>1
      <4> HIDE DEF j
      <4> QED
        BY <1>1, <4>1
    <3>3. ASSUME k # n + 1 PROVE d[k + 1] = c[k]
      <4>1. k + 1 \in 1 .. n + 1 /\ p < k + 1 /\ (k + 1) - 1 = k
        BY <1>1, <2>4, <3>3
      <4> QED
        BY <1>4, <4>1
    <3> QED
      BY <3>2, <3>3
  <2> QED
    BY <1>1, <2>1, <2>2, <2>3, <2>4
<1> QED
  BY <1>3, <1>5, <1>6, <1>7 DEF Path, d

\* A node is linked out of a path.
LEMMA PathWithout ==
    ASSUME NEW c, NEW l, Path(c, l), NEW p \in 1 .. Len(c), NEW m \in List,
           m.head = IF p = 1 THEN l.next[c[1]] ELSE l.head,
           \A k \in 1 .. Len(c) :
                k # p => m.next[c[k]] = IF k = p - 1 THEN l.next[c[p]] ELSE l.next[c[k]]
    PROVE  Path(Without(c, p), m)
<1> DEFINE n == Len(c) - 1
           d == Without(c, p)
<1>1. /\ n \in Nat /\ p \in 1 .. n + 1 /\ c \in Seq(Node) /\ Len(c) = n + 1
      /\ \A i, j \in 1 .. n + 1 : c[i] = c[j] => i = j
      /\ l.head = c[1]
      /\ \A k \in 1 .. n + 1 : l.next[c[k]] = IF k = n + 1 THEN NULL ELSE c[k + 1]
      /\ \A k \in 1 .. n + 1 : k # p =>
            m.next[c[k]] = IF k = p - 1 THEN l.next[c[p]] ELSE l.next[c[k]]
  BY DEF Path
<1>2. /\ d \in Seq(Node) /\ Len(d) = n
      /\ \A k \in 1 .. n : d[k] = IF k < p THEN c[k] ELSE c[k + 1]
  <2>1. \A i, j \in 1 .. Len(c) : c[i] = c[j] => i = j
    BY DEF Path
  <2>2. /\ d \in Seq(Node) /\ Len(d) = Len(c) - 1
        /\ \A k \in 1 .. Len(c) - 1 : d[k] = IF k < p THEN c[k] ELSE c[k + 1]
    BY <1>1, <2>1, WithoutIs
  <2> QED
    BY <2>2
<1> HIDE DEF n, d
<1>3. ASSUME NEW i \in 1 .. n, NEW j \in 1 .. n, d[i] = d[j] PROVE i = j
  <2> DEFINE a == IF i < p THEN i ELSE i + 1
             b == IF j < p THEN j ELSE j + 1
  <2>1. a \in 1 .. n + 1 /\ b \in 1 .. n + 1 /\ d[i] = c[a] /\ d[j] = c[b]
    BY <1>1, <1>2
  <2>2. a = b
    <3>1. c[a] = c[b]
      BY <1>3, <2>1
    <3> HIDE DEF a, b
    <3> QED
      BY <1>1, <2>1, <3>1
  <2> QED
    BY <1>1, <2>2
<1>4. m.head = IF n = 0 THEN NULL ELSE d[1]
  <2>1. CASE n = 0
    BY <1>1, <2>1
  <2>2. CASE n # 0 /\ p = 1
    <3>1. 1 \in 1 .. n /\ 1 \in 1 .. n + 1 /\ 1 # n + 1
      BY <1>1, <2>2
    <3> QED
      BY <1>1, <1>2, <2>2, <3>1
  <2>3. CASE n # 0 /\ p # 1
    <3>1. 1 \in 1 .. n /\ 1 < p
      BY <1>1, <2>3
    <3> QED
      BY <1>1, <1>2, <2>3, <3>1
  <2> QED
    BY <2>1, <2>2, <2>3
<1>5. ASSUME NEW k \in 1 .. n
      PROVE  m.next[d[k]] = IF k = n THEN NULL ELSE d[k + 1]
  <2>1. CASE k < p /\ k # p - 1
    <3>1. k \in 1 .. n + 1 /\ k + 1 \in 1 .. n /\ k + 1 < p /\ k # n + 1 /\ k # n /\ k # p
      BY <1>1, <2>1
    <3>2. d[k] = c[k] /\ d[k + 1] = c[k + 1]
      BY <1>2, <2>1, <3>1
    <3> QED
      BY <1>1, <2>1, <3>1, <3>2
  <2>2. CASE k < p /\ k = p - 1
    <3>1. k \in 1 .. n + 1 /\ k # p /\ d[k] = c[k] /\ k + 1 = p
      BY <1>1, <1>2, <2>2
    <3>2. m.next[d[k]] = IF p = n + 1 THEN NULL ELSE c[p + 1]
      BY <1>1, <2>2, <3>1
    <3>3. (p = n + 1) <=> (k = n)
      BY <1>1, <2>2
    <3>4. ASSUME k # n PROVE d[k + 1] = c[p + 1]
      <4>1. k + 1 \in 1 .. n /\ ~ (k + 1 < p)
        BY <1>1, <3>1, <3>4
      <4> QED
        BY <1>2, <3>1, <4>1
    <3> QED
      BY <3>2, <3>3, <3>4
  <2>3. CASE ~ (k < p)
    <3>1. k + 1 \in 1 .. n + 1 /\ k + 1 # p /\ k + 1 # p - 1 /\ d[k] = c[k + 1]
          /\ (k + 1 = n + 1 <=> k = n)
      BY <1>1, <1>2, <2>3
    <3>2. m.next[d[k]] = IF k = n THEN NULL ELSE c[(k + 1) + 1]
      BY <1>1, <3>1
    <3>3. ASSUME k # n PROVE d[k + 1] = c[(k + 1) + 1]
      <4>1. k + 1 \in 1 .. n /\ ~ (k + 1 < p)
        BY <1>1, <2>3, <3>3
      <4> QED
        BY <1>2, <4>1
    <3> QED
      BY <3>2, <3>3
  <2> QED
    BY <1>1, <2>1, <2>2, <2>3
<1> QED
  BY <1>2, <1>3, <1>4, <1>5 DEF Path, d

--------------------------------------------------------------------------------
\* The nodes outside c, but for t, keep their links.
Apart(c, t, l, m) ==
    \A u \in Node : u \notin On(c) /\ u # t => m.next[u] = l.next[u]

\* ListRemove takes a node out of the path, and cleans the head.
LEMMA RemovePath ==
    ASSUME NEW c, NEW l, Path(c, l), NEW p \in 1 .. Len(c)
    PROVE  /\ Path(Without(c, p), ListRemove(l, c[p]))
           /\ Apart(c, c[p], l, ListRemove(l, c[p]))
           /\ p = 1 => ListRemove(l, c[p]).next[c[p]] = NULL
<1> DEFINE n == Len(c)
           m == ListRemove(l, c[p])
           t == c[p]
<1>1. /\ n \in Nat /\ p \in 1 .. n /\ l \in List
      /\ \A i, j \in 1 .. n : c[i] = c[j] => i = j
      /\ l.head = c[1]
      /\ \A k \in 1 .. n : l.next[c[k]] = IF k = n THEN NULL ELSE c[k + 1]
      /\ l.next \in [Node -> Node \union {NULL}]
  BY DEF Path, List
<1>2. /\ \A k \in 1 .. n : c[k] \in On(c) /\ c[k] \in Node /\ c[k] # NULL
      /\ Members(l) = On(c) /\ t \in Node
  BY PathIsShort, PathIs
<1>3. m \in List
  BY <1>1, <1>2, RemoveIsList
<1>4. CASE p = 1
  <2>1. m = [head |-> l.next[t], next |-> [l.next EXCEPT ![t] = NULL]]
    BY <1>1, <1>4 DEF ListRemove
  <2>2. /\ m.head = l.next[t] /\ m.next[t] = NULL
        /\ \A u \in Node : u # t => m.next[u] = l.next[u]
    BY <1>1, <1>2, <2>1
  <2> HIDE DEF m
  <2>3. \A k \in 1 .. n : k # p =>
            m.next[c[k]] = IF k = p - 1 THEN l.next[c[p]] ELSE l.next[c[k]]
    BY <1>1, <1>2, <1>4, <2>2
  <2>4. m.head = IF p = 1 THEN l.next[c[1]] ELSE l.head
    BY <1>4, <2>2
  <2>5. Path(Without(c, p), m)
    BY <1>3, <2>3, <2>4, PathWithout
  <2> QED
    BY <2>2, <2>5 DEF Apart, m
<1>5. CASE p # 1
  <2> DEFINE q == p - 1
             r == c[q]
  <2>1. q \in 1 .. n /\ q # n /\ q + 1 = p /\ q # p /\ 1 \in 1 .. n
    BY <1>1, <1>5
  <2>2. t # l.head /\ t \in Members(l)
    BY <1>1, <1>2, <1>5, <2>1
  <2>3. r \in Members(l) /\ l.next[r] = t /\ r \in Node
    BY <1>1, <1>2, <2>1
  <2>4. ASSUME NEW x \in Members(l), l.next[x] = t PROVE x = r
    <3>1. PICK k \in 1 .. n : x = c[k]
      BY <1>2 DEF On
    <3>2. k # n /\ c[k + 1] = t
      BY <1>1, <1>2, <2>4, <3>1
    <3>3. k + 1 \in 1 .. n
      BY <1>1, <3>2
    <3>4. k + 1 = p
      BY <1>1, <3>2, <3>3
    <3> QED
      BY <2>1, <3>1, <3>4
  <2>5. Predecessor(l, t) = r
    BY <2>3, <2>4 DEF Predecessor
  <2>6. m = [l EXCEPT !.next[r] = l.next[t]]
    BY <2>2, <2>5 DEF ListRemove
  <2>7. /\ m.head = l.head /\ m.next[r] = l.next[t]
        /\ \A u \in Node : u # r => m.next[u] = l.next[u]
    BY <1>1, <2>3, <2>6 DEF List
  <2> HIDE DEF m
  <2>8. \A k \in 1 .. n : k # p =>
            m.next[c[k]] = IF k = p - 1 THEN l.next[c[p]] ELSE l.next[c[k]]
    <3>1. \A k \in 1 .. n : c[k] = r <=> k = q
      BY <1>1, <2>1
    <3> QED
      BY <1>2, <2>7, <3>1
  <2>9. m.head = IF p = 1 THEN l.next[c[1]] ELSE l.head
    BY <1>5, <2>7
  <2>10. Path(Without(c, p), m)
    BY <1>3, <2>8, <2>9, PathWithout
  <2>11. Apart(c, t, l, m)
    BY <1>2, <2>3, <2>7 DEF Apart
  <2> QED
    BY <1>5, <2>10, <2>11 DEF m
<1> QED
  BY <1>4, <1>5

\* ListAdd puts a node behind the path, if the node ends the list.
LEMMA AddPath ==
    ASSUME NEW c, NEW l, Path(c, l), NEW t \in Node, t \notin On(c),
           NEW d \in BOOLEAN, d \/ l.next[t] = NULL
    PROVE  /\ Path(Insert(c, Len(c) + 1, t), ListAdd(l, t, d))
           /\ Apart(c, t, l, ListAdd(l, t, d))
<1> DEFINE n == Len(c)
           m == ListAdd(l, t, d)
           linked == IF l.head = NULL
                     THEN [l EXCEPT !.head = t]
                     ELSE [l EXCEPT !.next[Last(l)] = t]
<1>1. /\ n \in Nat /\ l \in List
      /\ \A i, j \in 1 .. n : c[i] = c[j] => i = j
      /\ l.head = IF n = 0 THEN NULL ELSE c[1]
      /\ \A k \in 1 .. n : l.next[c[k]] = IF k = n THEN NULL ELSE c[k + 1]
      /\ l.next \in [Node -> Node \union {NULL}]
  BY DEF Path, List
<1>2. /\ \A k \in 1 .. n : c[k] \in On(c) /\ c[k] \in Node /\ c[k] # NULL /\ c[k] # t
      /\ Members(l) = On(c) /\ t # NULL
  BY PathIsShort, PathIs, NodeAssumption
<1>3. m \in List
  BY <1>1, AddIsList
<1>4. n > 0 => Last(l) = c[n]
  <2> SUFFICES ASSUME n > 0 PROVE Last(l) = c[n]
    OBVIOUS
  <2>1. n \in 1 .. n /\ c[n] \in Members(l) /\ l.next[c[n]] = NULL
    BY <1>1, <1>2
  <2>2. ASSUME NEW x \in Members(l), l.next[x] = NULL PROVE x = c[n]
    <3>1. PICK k \in 1 .. n : x = c[k]
      BY <1>2 DEF On
    <3>2. k = n
      <4>1. k # n => k + 1 \in 1 .. n
        BY <1>1
      <4> QED
        BY <1>1, <1>2, <2>2, <3>1, <4>1
    <3> QED
      BY <3>1, <3>2
  <2> QED
    BY <2>1, <2>2 DEF Last
<1>5. /\ linked \in List
      /\ linked.head = IF n = 0 THEN t ELSE l.head
      /\ \A u \in Node : linked.next[u] = IF n > 0 /\ u = c[n] THEN t ELSE l.next[u]
  <2>1. CASE n = 0
    <3>1. linked = [l EXCEPT !.head = t]
      BY <1>1, <2>1
    <3> HIDE DEF linked
    <3>2. linked \in List /\ linked.head = t /\ linked.next = l.next
      BY <1>1, <3>1 DEF List
    <3>3. ~ (n > 0)
      BY <2>1
    <3> QED
      BY <2>1, <3>2, <3>3
  <2>2. CASE n # 0
    <3>1. n > 0 /\ n \in 1 .. n /\ 1 \in 1 .. n /\ l.head # NULL
      BY <1>1, <1>2, <2>2
    <3>2. linked = [l EXCEPT !.next[c[n]] = t]
      BY <1>4, <3>1
    <3>3. c[n] \in Node
      BY <1>2, <3>1
    <3> HIDE DEF linked
    <3>4. /\ linked \in List /\ linked.head = l.head
          /\ linked.next = [l.next EXCEPT ![c[n]] = t]
      BY <1>1, <3>2 DEF List
    <3>5. \A u \in Node : linked.next[u] = IF u = c[n] THEN t ELSE l.next[u]
      BY <1>1, <3>4
    <3> QED
      BY <2>2, <3>1, <3>4, <3>5
  <2> QED
    BY <2>1, <2>2
<1>6. m = IF d THEN [linked EXCEPT !.next[t] = NULL] ELSE linked
  BY DEF ListAdd
<1> HIDE DEF linked, m
<1>7. linked.next[t] = l.next[t]
  <2>1. n > 0 => n \in 1 .. n
    BY <1>1
  <2> QED
    BY <1>2, <1>5, <2>1
<1>8. /\ m.head = linked.head /\ m.next[t] = NULL
      /\ \A u \in Node : u # t => m.next[u] = linked.next[u]
  <2>1. CASE d
    BY <1>5, <1>6, <2>1 DEF List
  <2>2. CASE ~ d
    BY <1>6, <1>7, <2>2
  <2> QED
    BY <2>1, <2>2
<1>9. \A k \in 1 .. n :
        m.next[c[k]] = IF k = (n + 1) - 1 THEN t ELSE l.next[c[k]]
  <2> SUFFICES ASSUME NEW k \in 1 .. n
               PROVE  m.next[c[k]] = IF k = (n + 1) - 1 THEN t ELSE l.next[c[k]]
    OBVIOUS
  <2>1. (n + 1) - 1 = n /\ n > 0 /\ n \in 1 .. n
    BY <1>1
  <2>2. c[k] = c[n] <=> k = n
    BY <1>1, <2>1
  <2>3. m.next[c[k]] = IF c[k] = c[n] THEN t ELSE l.next[c[k]]
    BY <1>2, <1>5, <1>8, <2>1
  <2> QED
    BY <2>1, <2>2, <2>3
<1>10. m.head = IF n + 1 = 1 THEN t ELSE l.head
  BY <1>1, <1>5, <1>8
<1>11. n + 1 \in 1 .. n + 1
  BY <1>1
<1>12. Path(Insert(c, n + 1, t), m)
  BY <1>3, <1>8, <1>9, <1>10, <1>11, PathWith
<1>13. Apart(c, t, l, m)
  <2>1. n > 0 => n \in 1 .. n /\ c[n] \in On(c)
    BY <1>1, <1>2
  <2> QED
    BY <1>5, <1>8, <2>1 DEF Apart
<1> QED
  BY <1>12, <1>13 DEF m

\* ListInsert puts a node in front of another of the path.
LEMMA InsertPath ==
    ASSUME NEW c, NEW l, Path(c, l), NEW t \in Node, t \notin On(c),
           NEW p \in 1 .. Len(c)
    PROVE  /\ Path(Insert(c, p, t), ListInsert(l, c[p], t))
           /\ Apart(c, t, l, ListInsert(l, c[p], t))
<1> DEFINE n == Len(c)
           ref == c[p]
           m == ListInsert(l, ref, t)
<1>1. /\ n \in Nat /\ l \in List /\ p \in 1 .. n
      /\ \A i, j \in 1 .. n : c[i] = c[j] => i = j
      /\ l.head = c[1]
      /\ \A k \in 1 .. n : l.next[c[k]] = IF k = n THEN NULL ELSE c[k + 1]
      /\ l.next \in [Node -> Node \union {NULL}]
  BY DEF Path, List
<1>2. /\ \A k \in 1 .. n : c[k] \in On(c) /\ c[k] \in Node /\ c[k] # NULL /\ c[k] # t
      /\ Members(l) = On(c)
  BY PathIsShort, PathIs
<1>3. m \in List /\ ref \in Members(l) /\ ref \in Node
  BY <1>1, <1>2, InsertIsList
<1>4. p # n + 1 /\ p \in 1 .. n + 1
  BY <1>1
<1>5. CASE p = 1
  <2>1. m = [head |-> t, next |-> [l.next EXCEPT ![t] = ref]]
    BY <1>1, <1>3, <1>5 DEF ListInsert
  <2>2. /\ m.head = t /\ m.next[t] = ref
        /\ \A u \in Node : u # t => m.next[u] = l.next[u]
    BY <1>1, <2>1
  <2> HIDE DEF m
  <2>3. \A k \in 1 .. n : m.next[c[k]] = IF k = p - 1 THEN t ELSE l.next[c[k]]
    BY <1>1, <1>2, <1>5, <2>2
  <2>4. m.head = IF p = 1 THEN t ELSE l.head
    BY <1>5, <2>2
  <2>5. m.next[t] = IF p = Len(c) + 1 THEN NULL ELSE c[p]
    BY <1>4, <2>2
  <2>6. Path(Insert(c, p, t), m)
    BY <1>3, <1>4, <2>3, <2>4, <2>5, PathWith
  <2>7. Apart(c, t, l, m)
    BY <2>2 DEF Apart
  <2> QED
    BY <2>6, <2>7 DEF m
<1>6. CASE p # 1
  <2> DEFINE q == p - 1
             r == c[q]
             f == [l.next EXCEPT ![t] = ref]
  <2>1. q \in 1 .. n /\ q # n /\ q + 1 = p /\ q # p /\ 1 \in 1 .. n
    BY <1>1, <1>6
  <2>2. ref # l.head
    BY <1>1, <1>6, <2>1
  <2>3. r \in Members(l) /\ l.next[r] = ref /\ r \in Node /\ r # t
    BY <1>1, <1>2, <2>1
  <2>4. ASSUME NEW x \in Members(l), l.next[x] = ref PROVE x = r
    <3>1. PICK k \in 1 .. n : x = c[k]
      BY <1>2 DEF On
    <3>2. k # n /\ c[k + 1] = ref
      BY <1>1, <1>2, <2>4, <3>1
    <3>3. k + 1 \in 1 .. n
      BY <1>1, <3>2
    <3>4. k + 1 = p
      BY <1>1, <3>2, <3>3
    <3> QED
      BY <2>1, <3>1, <3>4
  <2>5. Predecessor(l, ref) = r
    BY <2>3, <2>4 DEF Predecessor
  <2>6. m = [l EXCEPT !.next = [f EXCEPT ![r] = t]]
    BY <1>3, <2>2, <2>5 DEF ListInsert
  <2>7. /\ f \in [Node -> Node \union {NULL}] /\ f[t] = ref
        /\ \A u \in Node : u # t => f[u] = l.next[u]
    BY <1>1, <1>3
  <2> HIDE DEF f
  <2>8. /\ m.head = l.head /\ m.next[r] = t /\ m.next[t] = ref
        /\ \A u \in Node : u # r /\ u # t => m.next[u] = l.next[u]
    BY <1>1, <2>3, <2>6, <2>7 DEF List
  <2> HIDE DEF m
  <2>9. \A k \in 1 .. n : m.next[c[k]] = IF k = p - 1 THEN t ELSE l.next[c[k]]
    <3>1. \A k \in 1 .. n : c[k] = r <=> k = q
      BY <1>1, <2>1
    <3> QED
      BY <1>2, <2>8, <3>1
  <2>10. m.head = IF p = 1 THEN t ELSE l.head
    BY <1>6, <2>8
  <2>11. m.next[t] = IF p = Len(c) + 1 THEN NULL ELSE c[p]
    BY <1>4, <2>8
  <2>12. Path(Insert(c, p, t), m)
    BY <1>3, <1>4, <2>9, <2>10, <2>11, PathWith
  <2>13. Apart(c, t, l, m)
    BY <1>2, <2>3, <2>8 DEF Apart
  <2> QED
    BY <2>12, <2>13 DEF m
<1> QED
  BY <1>5, <1>6

--------------------------------------------------------------------------------
\* c is in the order of the wake-up times w.
Ordered(c, w) ==
    \A i, j \in 1 .. Len(c) : i < j => w[c[i]] <= w[c[j]]

\* The nodes of c from t on.
From(c, t) ==
    {u \in On(c) : \E i, j \in 1 .. Len(c) : i <= j /\ c[i] = t /\ c[j] = u}

(***************************************************************************)
(* Task t entered the list l, whose path was c: the list is m now, and its *)
(* path d.  Whoever was to be met before is still, in the same order, and  *)
(* who wakes up before t keeps his place.                                  *)
(***************************************************************************)
Entered(c, d, l, m, w, t) ==
    /\ Path(d, m) /\ On(d) = On(c) \union {t} /\ Apart(c, t, l, m)
    /\ Ordered(d, w)
    /\ \A u \in On(c) : From(c, u) \subseteq From(d, u)
    /\ \A k \in 1 .. Len(c) : w[c[k]] < w[t] => k \in 1 .. Len(d) /\ d[k] = c[k]

\* What inserting a task in its place does to a path.
LEMMA InPlace ==
    ASSUME NEW c, NEW l, Path(c, l), NEW w \in [Node -> Time], Ordered(c, w),
           NEW t \in Node, t \notin On(c), NEW p \in 1 .. Len(c) + 1, NEW m,
           Path(Insert(c, p, t), m), Apart(c, t, l, m),
           \A k \in 1 .. Len(c) : k < p => w[c[k]] < w[t],
           p \in 1 .. Len(c) => w[t] <= w[c[p]]
    PROVE  Entered(c, Insert(c, p, t), l, m, w, t)
<1> DEFINE n == Len(c)
           d == Insert(c, p, t)
           At(k) == IF k < p THEN k ELSE k + 1
<1>1. /\ n \in Nat /\ p \in 1 .. n + 1 /\ c \in Seq(Node)
      /\ \A k \in 1 .. n : c[k] \in Node /\ c[k] \in On(c)
  BY PathIsShort DEF Path
<1>2. /\ Len(d) = n + 1 /\ On(d) = On(c) \union {t}
      /\ \A k \in 1 .. n + 1 :
            d[k] = IF k < p THEN c[k] ELSE IF k = p THEN t ELSE c[k - 1]
  BY <1>1, InsertIs
<1>3. /\ \A u \in Node : w[u] \in Nat
      /\ \A i, j \in 1 .. n : i < j => w[c[i]] <= w[c[j]]
      /\ \A k \in 1 .. n : k < p => w[c[k]] < w[t]
      /\ p \in 1 .. n => w[t] <= w[c[p]]
  BY DEF Ordered, Time
<1> HIDE DEF n, d
<1>4. ASSUME NEW k \in 1 .. n
      PROVE  At(k) \in 1 .. n + 1 /\ d[At(k)] = c[k]
  <2>1. CASE k < p
    BY <1>1, <1>2, <2>1
  <2>2. CASE ~ (k < p)
    <3>1. k + 1 \in 1 .. n + 1 /\ ~ (k + 1 < p) /\ k + 1 # p /\ (k + 1) - 1 = k
      BY <1>1, <2>2
    <3> QED
      BY <1>2, <2>2, <3>1
  <2> QED
    BY <2>1, <2>2
<1>5. ASSUME NEW k \in 1 .. n + 1
      PROVE  \/ k = p /\ d[k] = t
             \/ \E a \in 1 .. n : k = At(a) /\ d[k] = c[a]
  <2>1. CASE k < p
    <3>1. k \in 1 .. n /\ k = At(k)
      BY <1>1, <2>1
    <3> QED
      BY <1>4, <3>1
  <2>2. CASE k = p
    BY <1>2, <2>2
  <2>3. CASE p < k
    <3>1. k - 1 \in 1 .. n /\ k = At(k - 1)
      BY <1>1, <2>3
    <3> QED
      BY <1>4, <3>1
  <2> QED
    BY <1>1, <2>1, <2>2, <2>3
<1>6. \A i, j \in 1 .. n : i <= j <=> At(i) <= At(j)
  BY <1>1
<1>7. Ordered(d, w)
  <2> SUFFICES ASSUME NEW i \in 1 .. n + 1, NEW j \in 1 .. n + 1, i < j
               PROVE  w[d[i]] <= w[d[j]]
    BY <1>2 DEF Ordered
  <2>1. CASE i = p
    <3>a. i \in Nat /\ j \in Nat /\ p < j
      BY <1>1, <2>1
    <3>1. PICK b \in 1 .. n : j = At(b) /\ d[j] = c[b]
      BY <1>5, <3>a
    <3>2. p <= b /\ p \in 1 .. n /\ d[i] = t
      <4>1. ~ (b < p)
        BY <1>1, <3>a, <3>1
      <4>2. d[p] = t
        BY <1>1, <1>2
      <4> QED
        BY <1>1, <2>1, <4>1, <4>2
    <3>3. w[t] <= w[c[p]] /\ w[c[p]] <= w[c[b]]
      <4>1. p = b \/ p < b
        BY <3>2
      <4>2. w[c[p]] \in Nat
        BY <1>1, <1>3, <3>2
      <4>3. w[c[p]] <= w[c[b]]
        BY <1>3, <3>2, <4>1, <4>2
      <4> QED
        BY <1>3, <3>2, <4>3
    <3>4. w[t] \in Nat /\ w[c[p]] \in Nat /\ w[c[b]] \in Nat
      BY <1>1, <1>3, <3>2
    <3> QED
      BY <3>1, <3>2, <3>3, <3>4
  <2>2. CASE j = p
    <3>1. PICK a \in 1 .. n : i = At(a) /\ d[i] = c[a]
      BY <1>1, <1>5, <2>2
    <3>2. a < p /\ d[j] = t
      BY <1>1, <1>2, <2>2, <3>1
    <3> QED
      BY <1>1, <1>3, <3>1, <3>2
  <2>3. CASE i # p /\ j # p
    <3>1. PICK a \in 1 .. n : i = At(a) /\ d[i] = c[a]
      BY <1>5, <2>3
    <3>2. PICK b \in 1 .. n : j = At(b) /\ d[j] = c[b]
      BY <1>5, <2>3
    <3>3. a < b
      BY <1>1, <3>1, <3>2
    <3> QED
      BY <1>3, <3>1, <3>2, <3>3
  <2> QED
    BY <2>1, <2>2, <2>3
<1>8. ASSUME NEW u \in On(c), NEW v \in From(c, u) PROVE v \in From(d, u)
  <2>1. PICK i \in 1 .. n, j \in 1 .. n : i <= j /\ c[i] = u /\ c[j] = v
    BY <1>8 DEF From, n
  <2>2. /\ At(i) \in 1 .. n + 1 /\ At(j) \in 1 .. n + 1 /\ At(i) <= At(j)
        /\ d[At(i)] = u /\ d[At(j)] = v /\ v \in On(d)
    BY <1>2, <1>4, <1>6, <2>1 DEF From
  <2> HIDE DEF At
  <2> QED
    BY <1>2, <2>2 DEF From
<1>9. ASSUME NEW k \in 1 .. n, w[c[k]] < w[t] PROVE k \in 1 .. n + 1 /\ d[k] = c[k]
  <2>1. k < p
    <3> SUFFICES ASSUME p <= k PROVE FALSE
      BY <1>1
    <3>1. p \in 1 .. n /\ (p = k \/ p < k)
      BY <1>1
    <3>2. w[t] <= w[c[p]] /\ w[c[p]] <= w[c[k]]
      BY <1>1, <1>3, <3>1
    <3>3. w[t] \in Nat /\ w[c[p]] \in Nat /\ w[c[k]] \in Nat
      BY <1>1, <1>3, <3>1
    <3> QED
      BY <1>9, <3>2, <3>3
  <2> QED
    BY <1>1, <1>2, <2>1
<1> QED
  BY <1>2, <1>7, <1>8, <1>9 DEF Entered, n, d

\* Where char is signed, schedule() puts a task in its place.
LEMMA ScheduleEnters ==
    ASSUME CharIsSigned, debug \in BOOLEAN,
           NEW c, NEW l, Path(c, l), NEW w \in [Node -> Time], Ordered(c, w),
           NEW t \in Node, t \notin On(c), debug \/ l.next[t] = NULL
    PROVE  \E d : Entered(c, d, l, schedule(l, w, t), w, t)
<1> DEFINE n == Len(c)
           O == OnOrAfter(l, w, w[t])
           m == schedule(l, w, t)
           T == {k \in 1 .. n : w[c[k]] >= w[t]}
<1>1. /\ n \in Nat /\ l \in List /\ Members(l) = On(c)
      /\ \A i, j \in 1 .. n : c[i] = c[j] => i = j
      /\ \A k \in 1 .. n : c[k] \in On(c) /\ c[k] \in Node
      /\ \A u \in On(c) : \E k \in 1 .. n : u = c[k]
      /\ \A i, j \in 1 .. n : Before(l, c[i], c[j]) <=> i < j
  <2>1. n \in Nat /\ l \in List /\ \A i, j \in 1 .. n : c[i] = c[j] => i = j
    BY DEF Path
  <2>2. \A u \in On(c) : \E k \in 1 .. n : u = c[k]
    BY DEF On
  <2>3. \A k \in 1 .. n : c[k] \in On(c) /\ c[k] \in Node
    BY PathIsShort
  <2>4. Members(l) = On(c) /\ \A i, j \in 1 .. n : Before(l, c[i], c[j]) <=> i < j
    BY PathIs
  <2> QED
    BY <2>1, <2>2, <2>3, <2>4
<1>2. \A u \in Node : w[u] \in Nat
  BY DEF Time
<1>3. \A u : u \in O <=> u \in On(c) /\ w[u] >= w[t]
  BY <1>1 DEF OnOrAfter, comparesOnOrAfter
<1>4. m = IF O = {} THEN ListAdd(l, t, debug)
          ELSE ListInsert(l, findNodeOnOrJustAfter(l, w, w[t]), t)
  BY DEF schedule
<1> HIDE DEF O, m
<1>5. CASE O = {}
  <2> DEFINE p == n + 1
  <2>1. Path(Insert(c, p, t), m) /\ Apart(c, t, l, m)
    BY <1>4, <1>5, AddPath
  <2>2. \A k \in 1 .. n : w[c[k]] < w[t]
    BY <1>1, <1>2, <1>3, <1>5
  <2>3. p \in 1 .. n + 1 /\ p \notin 1 .. n
    BY <1>1
  <2> HIDE DEF p
  <2>4. Entered(c, Insert(c, p, t), l, m, w, t)
    BY <2>1, <2>2, <2>3, InPlace
  <2> QED
    BY <2>4 DEF m
<1>6. CASE O # {}
  <2>1. T \in SUBSET Nat /\ T # {}
    BY <1>1, <1>3, <1>6
  <2>2. PICK p \in T : \A k \in T : p <= k
    <3> HIDE DEF T
    <3> QED
      BY <2>1, Least
  <2>3. p \in 1 .. n /\ p \in 1 .. n + 1 /\ w[t] <= w[c[p]]
    BY <1>1, <1>2, <2>2
  <2>4. \A k \in 1 .. n : k < p => w[c[k]] < w[t]
    BY <1>1, <1>2, <2>2
  <2>5. c[p] \in O /\ \A u \in O \ {c[p]} : Before(l, c[p], u)
    <3>1. c[p] \in O
      BY <1>1, <1>3, <2>2
    <3>2. ASSUME NEW u \in O \ {c[p]} PROVE Before(l, c[p], u)
      <4>1. PICK k \in 1 .. n : u = c[k]
        BY <1>1, <1>3
      <4>2. k \in T /\ k # p
        BY <1>3, <3>2, <4>1
      <4>3. p < k
        BY <2>2, <2>3, <4>2
      <4> QED
        BY <1>1, <2>3, <4>1, <4>3
    <3> QED
      BY <3>1, <3>2
  <2>6. ASSUME NEW x \in O, \A u \in O \ {x} : Before(l, x, u) PROVE x = c[p]
    <3> SUFFICES ASSUME x # c[p] PROVE FALSE
      OBVIOUS
    <3>1. PICK k \in 1 .. n : x = c[k]
      BY <1>1, <1>3, <2>6
    <3>2. k < p /\ p < k
      BY <1>1, <2>3, <2>5, <2>6, <3>1
    <3> QED
      BY <2>3, <3>2
  <2>7. findNodeOnOrJustAfter(l, w, w[t]) = c[p]
    BY <2>5, <2>6 DEF findNodeOnOrJustAfter, O
  <2>8. Path(Insert(c, p, t), m) /\ Apart(c, t, l, m)
    BY <1>4, <1>6, <2>3, <2>7, InsertPath
  <2>9. Entered(c, Insert(c, p, t), l, m, w, t)
    BY <2>3, <2>4, <2>8, InPlace
  <2> QED
    BY <2>9 DEF m
<1> QED
  BY <1>5, <1>6

\* Task t left the list l.
Left(c, d, l, m, t) ==
    /\ Path(d, m) /\ On(d) = On(c) \ {t} /\ Apart(c, t, l, m)
    /\ \A w : Ordered(c, w) => Ordered(d, w)
    /\ \A u \in On(c) \ {t} : From(c, u) \ {t} \subseteq From(d, u)

\* A task leaves the list; who comes before it keeps his place.
LEMMA RemoveLeaves ==
    ASSUME NEW c, NEW l, Path(c, l), NEW p \in 1 .. Len(c)
    PROVE  /\ Left(c, Without(c, p), l, ListRemove(l, c[p]), c[p])
           /\ \A k \in 1 .. Len(c) :
                /\ k < p => k \in 1 .. Len(Without(c, p)) /\ Without(c, p)[k] = c[k]
                /\ p < k => /\ k - 1 \in 1 .. Len(Without(c, p))
                            /\ Without(c, p)[k - 1] = c[k]
           /\ p = 1 => ListRemove(l, c[p]).next[c[p]] = NULL
<1> DEFINE n == Len(c) - 1
           d == Without(c, p)
           m == ListRemove(l, c[p])
           t == c[p]
<1>1. /\ n \in Nat /\ p \in 1 .. n + 1 /\ c \in Seq(Node) /\ Len(c) = n + 1
      /\ \A i, j \in 1 .. n + 1 : c[i] = c[j] => i = j
      /\ \A k \in 1 .. n + 1 : c[k] \in Node /\ c[k] \in On(c)
  <2>1. /\ c \in Seq(Node) /\ Len(c) \in Nat
        /\ \A i, j \in 1 .. Len(c) : c[i] = c[j] => i = j
    BY DEF Path
  <2>2. \A k \in 1 .. Len(c) : c[k] \in Node /\ c[k] \in On(c)
    BY PathIsShort
  <2>3. Len(c) = n + 1 /\ n \in Nat
    BY <2>1
  <2> HIDE DEF n
  <2> QED
    BY <2>1, <2>2, <2>3
<1>2. /\ Len(d) = n /\ On(d) = On(c) \ {t}
      /\ \A k \in 1 .. n : d[k] = IF k < p THEN c[k] ELSE c[k + 1]
  <2>1. \A i, j \in 1 .. Len(c) : c[i] = c[j] => i = j
    BY DEF Path
  <2>2. /\ Len(d) = Len(c) - 1 /\ On(d) = On(c) \ {c[p]}
        /\ \A k \in 1 .. Len(c) - 1 : d[k] = IF k < p THEN c[k] ELSE c[k + 1]
    BY <1>1, <2>1, WithoutIs
  <2> QED
    BY <2>2
<1>3. /\ Path(d, m) /\ Apart(c, t, l, m)
      /\ p = 1 => m.next[t] = NULL
  BY RemovePath
<1> HIDE DEF n, d, m
<1>4. ASSUME NEW k \in 1 .. n + 1, k # p
      PROVE  /\ k < p => k \in 1 .. n /\ d[k] = c[k]
             /\ p < k => k - 1 \in 1 .. n /\ d[k - 1] = c[k]
  <2>1. ASSUME k < p PROVE k \in 1 .. n /\ d[k] = c[k]
    BY <1>1, <1>2, <2>1
  <2>2. ASSUME p < k PROVE k - 1 \in 1 .. n /\ d[k - 1] = c[k]
    <3>1. k - 1 \in 1 .. n /\ ~ (k - 1 < p) /\ (k - 1) + 1 = k
      BY <1>1, <2>2
    <3> QED
      BY <1>2, <3>1
  <2> QED
    BY <2>1, <2>2
<1>5. ASSUME NEW w, Ordered(c, w) PROVE Ordered(d, w)
  <2> SUFFICES ASSUME NEW i \in 1 .. n, NEW j \in 1 .. n, i < j
               PROVE  w[d[i]] <= w[d[j]]
    BY <1>2 DEF Ordered
  <2> DEFINE a == IF i < p THEN i ELSE i + 1
             b == IF j < p THEN j ELSE j + 1
  <2>1. a \in 1 .. n + 1 /\ b \in 1 .. n + 1 /\ d[i] = c[a] /\ d[j] = c[b] /\ a < b
    BY <1>1, <1>2
  <2> HIDE DEF a, b
  <2> QED
    BY <1>1, <1>5, <2>1 DEF Ordered
<1>6. ASSUME NEW u \in On(c) \ {t}, NEW v \in From(c, u) \ {t} PROVE v \in From(d, u)
  <2>1. PICK i \in 1 .. n + 1, j \in 1 .. n + 1 : i <= j /\ c[i] = u /\ c[j] = v
    BY <1>1, <1>6 DEF From
  <2>2. i # p /\ j # p
    BY <1>6, <2>1
  <2> DEFINE a == IF i < p THEN i ELSE i - 1
             b == IF j < p THEN j ELSE j - 1
  <2>3. a \in 1 .. n /\ b \in 1 .. n /\ d[a] = u /\ d[b] = v
    BY <1>1, <1>4, <2>1, <2>2
  <2>4. a <= b
    BY <1>1, <2>1, <2>2
  <2>5. v \in On(d)
    BY <1>2, <1>6 DEF From
  <2> HIDE DEF a, b
  <2> QED
    BY <1>2, <2>3, <2>4, <2>5 DEF From
<1>7. Left(c, d, l, m, t)
  BY <1>2, <1>3, <1>5, <1>6 DEF Left
<1>8. \A k \in 1 .. n + 1 : /\ k < p => k \in 1 .. Len(d) /\ d[k] = c[k]
                            /\ p < k => k - 1 \in 1 .. Len(d) /\ d[k - 1] = c[k]
  BY <1>1, <1>2, <1>4
<1> QED
  BY <1>1, <1>3, <1>7, <1>8 DEF d, m

--------------------------------------------------------------------------------
(***************************************************************************)
(* What holds of the list's path c.  The list holds the tasks that are     *)
(* registered, in their order.                                             *)
(***************************************************************************)
Listed(c) ==
    /\ Path(c, listScheduled) /\ On(c) = registered
    /\ Ordered(c, wakeup)

(***************************************************************************)
(* A pass stands on tasks of the list, and has yet to come to those that   *)
(* it owes.                                                                *)
(***************************************************************************)
Passing(c) ==
    /\ pc = "idle" => owed = {}
    /\ pc = "loop" => /\ scheduled \in On(c) \union {NULL}
                      /\ owed \subseteq From(c, scheduled)
    /\ pc = "running" => /\ scheduled \in On(c)
                         /\ scheduledNext \in (On(c) \ {scheduled}) \union {NULL}
                         /\ owed \subseteq From(c, scheduledNext) \ {scheduled}
    /\ \A t \in owed : isWakeupTime(t)

\* The first two tasks of c are t and u.
Begins(c, t, u) ==
    /\ 1 \in 1 .. Len(c) /\ c[1] = t
    /\ u # NULL /\ isWakeupTime(u) => 2 \in 1 .. Len(c) /\ c[2] = u

(***************************************************************************)
(* With a careful client a pass takes due tasks from the head only, where  *)
(* ListRemove leaves no link behind, and none of them is due again before  *)
(* the pass is over.                                                       *)
(***************************************************************************)
Tidy(c) ==
    /\ \A t \in fresh : listScheduled.next[t] = NULL
    /\ \A t \in registered : /\ now + Interval[t] < TimeMod
                             /\ now < wakeup[t] + Interval[t]
    /\ pc = "loop" /\ scheduled # NULL /\ isWakeupTime(scheduled) =>
            1 \in 1 .. Len(c) /\ c[1] = scheduled
    /\ pc = "running" => isWakeupTime(scheduled) /\ Begins(c, scheduled, scheduledNext)

\* The client is careful, or the build is one in which it need not be.
Guarded == debug \/ CarefulClient

\* What holds with the path c of the list.
Inv(c) ==
    /\ Typed /\ Guarded /\ fresh \intersect registered = {}
    /\ Listed(c) /\ Passing(c)
    /\ Careful => Tidy(c)

\* The sequences of tasks without repetitions are among these.
Orders == UNION {[1 .. n -> Node] : n \in 0 .. N}

(***************************************************************************)
(* The inductive invariant: the list has such a path.                      *)
(***************************************************************************)
IInv == \E c \in Orders : Inv(c)

\* A path is one of the orders.
LEMMA PathIsOrder ==
    ASSUME NEW c, NEW l, Path(c, l)
    PROVE  c \in Orders
<1>1. Len(c) \in 0 .. N /\ c \in [1 .. Len(c) -> Node]
  BY PathIsShort DEF Path
<1> QED
  BY <1>1 DEF Orders

\* The clock and the intervals are numbers.
LEMMA Numbers ==
    ASSUME Typed
    PROVE  /\ now \in Nat /\ TimeMod \in Nat \ {0}
           /\ \A t \in Node : wakeup[t] \in Nat /\ Interval[t] \in Nat /\ 0 < Interval[t]
BY TimeAssumption DEF Typed, TypeOK, Time

\* A sum below TimeMod does not wrap.
LEMMA NoWrap ==
    ASSUME NEW t \in Node, NEW from \in Nat, from + Interval[t] < TimeMod
    PROVE  nextWakeup(t, from) = from + Interval[t]
<1> DEFINE a == from + Interval[t]
<1>1. a \in Nat /\ TimeMod \in Nat \ {0} /\ a < TimeMod
  BY TimeAssumption
<1> HIDE DEF a
<1>2. a % TimeMod = a
  BY <1>1
<1> QED
  BY <1>2 DEF nextWakeup, a

\* A wake-up time that changes outside a path leaves its order.
LEMMA OrderKept ==
    ASSUME NEW c, NEW l, Path(c, l), NEW w, NEW v, Ordered(c, w),
           \A t \in On(c) : v[t] = w[t]
    PROVE  Ordered(c, v)
<1>1. \A k \in 1 .. Len(c) : v[c[k]] = w[c[k]]
  BY PathIsShort
<1> QED
  BY <1>1 DEF Ordered

\* Time goes on.
LEMMA TickKeeps ==
    ASSUME Typed', NEW c \in Orders, Inv(c), Tick
    PROVE  Inv(c)'
<1>1. /\ now' = (now + 1) % TimeMod
      /\ owed' = {t \in owed : now' >= wakeup[t]}
      /\ UNCHANGED <<debug, listScheduled, wakeup, pc, scheduled, scheduledNext,
                     registered, fresh>>
  BY DEF Tick
<1>2. Guarded' /\ fresh' \intersect registered' = {} /\ Listed(c)'
  BY <1>1 DEF Inv, Guarded, Listed
<1>3. Passing(c)'
  <2>1. \A t \in owed' : t \in owed /\ isWakeupTime(t)'
    BY <1>1 DEF isWakeupTime
  <2> QED
    BY <1>1, <2>1 DEF Inv, Passing
<1>4. ASSUME Careful' PROVE Tidy(c)'
  <2>1. Careful /\ MayTick /\ pc = "idle"
    BY <1>1, <1>4 DEF Careful, Tick, MayTick
  <2>2. now \in Nat /\ TimeMod \in Nat \ {0}
    BY Numbers DEF Inv
  <2>3. ASSUME NEW t \in registered
        PROVE  now' + Interval[t] < TimeMod /\ now' < wakeup[t] + Interval[t]
    <3>1. t \in Node /\ wakeup[t] \in Nat /\ Interval[t] \in Nat
      BY Numbers DEF Inv, Typed, TypeOK
    <3>2. now + 1 + Interval[t] < TimeMod /\ now + 1 < wakeup[t] + Interval[t]
      BY <2>1, <3>1 DEF MayTick
    <3>3. now + 1 < TimeMod /\ now + 1 \in Nat
      BY <2>2, <3>1, <3>2
    <3>4. now' = now + 1
      BY <1>1, <2>2, <3>3
    <3> QED
      BY <2>2, <3>1, <3>2, <3>4
  <2>4. \A t \in fresh : listScheduled.next[t] = NULL
    BY <2>1 DEF Inv, Tidy
  <2> QED
    BY <1>1, <2>1, <2>3, <2>4 DEF Tidy
<1> QED
  BY <1>2, <1>3, <1>4 DEF Inv

\* A pass begins at the head.
LEMMA BeginKeeps ==
    ASSUME Typed', NEW c \in Orders, Inv(c), executeBegin
    PROVE  Inv(c)'
<1>1. /\ pc = "idle" /\ pc' = "loop" /\ scheduled' = listScheduled.head
      /\ owed' = {t \in registered : isWakeupTime(t)}
      /\ UNCHANGED <<debug, listScheduled, wakeup, now, registered, fresh>>
  BY DEF executeBegin
<1>2. Guarded' /\ fresh' \intersect registered' = {} /\ Listed(c)'
  BY <1>1 DEF Inv, Guarded, Listed
<1>3. Path(c, listScheduled) /\ On(c) = registered
  BY DEF Inv, Listed
<1>4. /\ Len(c) \in Nat /\ \A k \in 1 .. Len(c) : c[k] \in On(c)
      /\ listScheduled.head = IF Len(c) = 0 THEN NULL ELSE c[1]
  BY <1>3, PathIsShort DEF Path
<1>5. scheduled' # NULL => 1 \in 1 .. Len(c) /\ c[1] = scheduled'
  BY <1>1, <1>4
<1>6. Passing(c)'
  <2>1. scheduled' \in On(c) \union {NULL}
    BY <1>4, <1>5
  <2>2. ASSUME NEW t \in owed' PROVE t \in From(c, scheduled') /\ isWakeupTime(t)'
    <3>1. t \in On(c) /\ isWakeupTime(t)'
      BY <1>1, <1>3, <2>2 DEF isWakeupTime
    <3>2. PICK k \in 1 .. Len(c) : c[k] = t
      BY <3>1 DEF On
    <3>3. 1 \in 1 .. Len(c) /\ 1 <= k /\ c[1] = scheduled'
      BY <1>1, <1>4, <3>2
    <3> QED
      BY <3>1, <3>2, <3>3 DEF From
  <2> QED
    BY <1>1, <2>1, <2>2 DEF Passing
<1>7. ASSUME Careful' PROVE Tidy(c)'
  <2>1. Careful /\ Tidy(c)
    BY <1>1, <1>7 DEF Careful, Inv
  <2> QED
    BY <1>1, <1>5, <2>1 DEF Tidy
<1> QED
  BY <1>2, <1>6, <1>7 DEF Inv

\* A due task is started, and the one behind it remembered.
LEMMA TaskKeeps ==
    ASSUME Typed', NEW c \in Orders, Inv(c), executeTask
    PROVE  Inv(c)'
<1>1. /\ pc = "loop" /\ pc' = "running" /\ scheduled # NULL /\ isWakeupTime(scheduled)
      /\ scheduledNext' = listScheduled.next[scheduled]
      /\ owed' = owed \ {scheduled}
      /\ UNCHANGED <<debug, listScheduled, wakeup, now, scheduled, registered, fresh>>
  BY DEF executeTask
<1>2. Guarded' /\ fresh' \intersect registered' = {} /\ Listed(c)'
  BY <1>1 DEF Inv, Guarded, Listed
<1> DEFINE n == Len(c)
<1>3. /\ n \in Nat /\ \A i, j \in 1 .. n : c[i] = c[j] => i = j
      /\ \A k \in 1 .. n : c[k] \in On(c) /\ c[k] # NULL
      /\ \A k \in 1 .. n :
            listScheduled.next[c[k]] = IF k = n THEN NULL ELSE c[k + 1]
  BY PathIsShort DEF Inv, Listed, Path
<1>4. PICK p \in 1 .. n : c[p] = scheduled
  BY <1>1 DEF Inv, Passing, On
<1>5. scheduledNext' = IF p = n THEN NULL ELSE c[p + 1]
  BY <1>1, <1>3, <1>4
<1>6. p # n => p + 1 \in 1 .. n /\ scheduledNext' = c[p + 1] /\ c[p + 1] # c[p]
  BY <1>3, <1>5
<1>7. Passing(c)'
  <2>1. scheduledNext' \in (On(c) \ {scheduled}) \union {NULL}
    BY <1>3, <1>4, <1>5, <1>6
  <2>2. ASSUME NEW t \in owed'
        PROVE  t \in From(c, scheduledNext') \ {scheduled} /\ isWakeupTime(t)'
    <3>1. t \in From(c, scheduled) /\ t # scheduled /\ isWakeupTime(t)'
      BY <1>1, <2>2 DEF Inv, Passing, isWakeupTime
    <3>2. PICK i \in 1 .. n, j \in 1 .. n : i <= j /\ c[i] = scheduled /\ c[j] = t
      BY <3>1 DEF From
    <3>3. i = p /\ j # p
      BY <1>3, <1>4, <3>1, <3>2
    <3>4. p # n /\ p + 1 <= j
      BY <1>3, <3>2, <3>3
    <3>5. t \in From(c, c[p + 1])
      BY <1>6, <3>1, <3>2, <3>4 DEF From
    <3> QED
      BY <1>6, <3>1, <3>4, <3>5
  <2>3. scheduled \in On(c)
    BY <1>3, <1>4
  <2> QED
    BY <1>1, <2>1, <2>2, <2>3 DEF Passing
<1>8. ASSUME Careful' PROVE Tidy(c)'
  <2>1. Careful /\ Tidy(c)
    BY <1>1, <1>8 DEF Careful, Inv
  <2>2. 1 \in 1 .. n /\ c[1] = scheduled
    BY <1>1, <2>1 DEF Tidy
  <2>3. p = 1
    BY <1>3, <1>4, <2>2
  <2>4. scheduledNext' # NULL => 2 \in 1 .. n /\ c[2] = scheduledNext'
    BY <1>5, <1>6, <2>3
  <2>5. isWakeupTime(scheduled)' /\ Begins(c, scheduled, scheduledNext)'
    BY <1>1, <2>2, <2>4 DEF Begins, isWakeupTime
  <2> QED
    BY <1>1, <2>1, <2>5 DEF Tidy
<1> QED
  BY <1>2, <1>7, <1>8 DEF Inv

\* A pass ends at the first task that is not due: those behind are not either.
LEMMA EndKeeps ==
    ASSUME Typed', NEW c \in Orders, Inv(c), executeEnd
    PROVE  Inv(c)'
<1>1. /\ pc = "loop" /\ pc' = "idle" /\ (scheduled # NULL => ~ isWakeupTime(scheduled))
      /\ UNCHANGED <<debug, listScheduled, wakeup, now, registered, fresh, owed>>
  BY DEF executeEnd
<1>2. Guarded' /\ fresh' \intersect registered' = {} /\ Listed(c)'
  BY <1>1 DEF Inv, Guarded, Listed
<1>3. ASSUME NEW t \in owed PROVE FALSE
  <2>1. t \in From(c, scheduled) /\ isWakeupTime(t)
    BY <1>1, <1>3 DEF Inv, Passing
  <2>2. PICK i \in 1 .. Len(c), j \in 1 .. Len(c) : i <= j /\ c[i] = scheduled /\ c[j] = t
    BY <2>1 DEF From
  <2>3. scheduled # NULL /\ scheduled \in Node /\ t \in Node
    BY <2>2, PathIsShort DEF Inv, Listed
  <2>4. i = j \/ i < j
    BY <2>2
  <2>5. wakeup[scheduled] <= wakeup[t]
    BY <2>2, <2>3, <2>4, Numbers DEF Inv, Listed, Ordered
  <2> QED
    BY <1>1, <2>1, <2>3, <2>5, Numbers DEF isWakeupTime, Inv
<1>4. Passing(c)'
  BY <1>1, <1>3 DEF Passing
<1>5. ASSUME Careful' PROVE Tidy(c)'
  <2>1. Careful /\ Tidy(c)
    BY <1>1, <1>5 DEF Careful, Inv
  <2> QED
    BY <1>1, <2>1 DEF Tidy
<1> QED
  BY <1>2, <1>4, <1>5 DEF Inv

\* A task is added, from the main loop or from a running task.
LEMMA AddKeeps ==
    ASSUME CharIsSigned, Typed', NEW c \in Orders, Inv(c), NEW t \in Node, add(t)
    PROVE  \E d \in Orders : Inv(d)'
<1>1. /\ pc \in {"idle", "running"} /\ t \notin registered /\ MayAdd(t)
      /\ wakeup' = [wakeup EXCEPT ![t] = nextWakeup(t, now)]
      /\ listScheduled' = schedule(listScheduled, wakeup', t)
      /\ registered' = registered \union {t} /\ fresh' = fresh \ {t}
      /\ UNCHANGED <<debug, now, pc, scheduled, scheduledNext, owed>>
  BY DEF add
<1>2. /\ Path(c, listScheduled) /\ On(c) = registered /\ Ordered(c, wakeup)
      /\ Typed /\ debug \in BOOLEAN /\ wakeup \in [Node -> Time]
      /\ wakeup' \in [Node -> Time] /\ registered \subseteq Node
      /\ fresh \subseteq Node
  BY DEF Inv, Listed, Typed, TypeOK
<1>3. \A u \in Node : u # t => wakeup'[u] = wakeup[u]
  BY <1>1, <1>2
<1>4. \A u \in registered : u # t /\ u \in Node /\ wakeup'[u] = wakeup[u]
  BY <1>1, <1>2, <1>3
<1>5. Ordered(c, wakeup')
  BY <1>2, <1>4, OrderKept
<1>6. ~ debug => Careful /\ t \in fresh /\ now + Interval[t] < TimeMod
  BY <1>1, <1>2 DEF Inv, Guarded, Careful, MayAdd
<1>7. debug \/ listScheduled.next[t] = NULL
  BY <1>6 DEF Inv, Tidy
<1>8. t \notin On(c)
  BY <1>1, <1>2
<1> DEFINE w == wakeup'
<1>9. \E d : Entered(c, d, listScheduled, schedule(listScheduled, w, t), w, t)
  <2> HIDE DEF w
  <2>1. w \in [Node -> Time] /\ Ordered(c, w)
    BY <1>2, <1>5 DEF w
  <2> QED
    BY <1>2, <1>7, <1>8, <2>1, ScheduleEnters
<1>10. PICK d : Entered(c, d, listScheduled, listScheduled', wakeup', t)
  BY <1>1, <1>9
<1>11. /\ Path(d, listScheduled') /\ On(d) = registered \union {t}
       /\ Apart(c, t, listScheduled, listScheduled') /\ Ordered(d, wakeup')
       /\ \A u \in On(c) : From(c, u) \subseteq From(d, u)
       /\ \A k \in 1 .. Len(c) :
            wakeup'[c[k]] < wakeup'[t] => k \in 1 .. Len(d) /\ d[k] = c[k]
  BY <1>2, <1>10 DEF Entered
<1>12. Listed(d)'
  BY <1>1, <1>11 DEF Listed
<1>13. fresh' \intersect registered' = {} /\ Guarded'
  BY <1>1 DEF Inv, Guarded
<1>14. \A u : From(c, u) \subseteq From(d, u) /\ From(c, u) \subseteq On(c)
  <2>1. ASSUME NEW u, u \notin On(c) PROVE From(c, u) = {}
    BY <2>1 DEF From, On
  <2> QED
    BY <1>11, <2>1 DEF From
<1>15. Passing(d)'
  <2>1. pc = "idle" => owed = {}
    BY DEF Inv, Passing
  <2>2. pc = "running" => owed \subseteq registered
    BY <1>2, <1>14 DEF Inv, Passing
  <2>3. \A u \in owed : isWakeupTime(u)'
    <3>1. \A u \in owed : u \in registered /\ isWakeupTime(u)
      BY <1>1, <2>1, <2>2 DEF Inv, Passing
    <3> QED
      BY <1>1, <1>4, <3>1 DEF isWakeupTime
  <2>4. pc = "running" => /\ scheduled \in On(d)
                          /\ scheduledNext \in (On(d) \ {scheduled}) \union {NULL}
                          /\ owed \subseteq From(d, scheduledNext) \ {scheduled}
    BY <1>2, <1>11, <1>14 DEF Inv, Passing
  <2>5. pc # "loop"
    BY <1>1
  <2> QED
    BY <1>1, <2>1, <2>3, <2>4, <2>5 DEF Passing
<1>16. ASSUME Careful' PROVE Tidy(d)'
  <2>1. /\ Careful /\ Tidy(c) /\ ~ debug
        /\ t \in fresh /\ now + Interval[t] < TimeMod
    BY <1>1, <1>6, <1>16 DEF Careful, Inv
  <2>2. /\ now \in Nat /\ \A u \in Node : /\ wakeup[u] \in Nat /\ Interval[u] \in Nat
                                          /\ 0 < Interval[u]
    BY Numbers DEF Inv
  <2>3. wakeup'[t] = now + Interval[t]
    BY <1>1, <1>2, <2>1, <2>2, NoWrap
  <2>4. ASSUME NEW u \in fresh' PROVE listScheduled'.next[u] = NULL
    <3>1. u \in fresh /\ u # t /\ u \notin On(c) /\ u \in Node
      BY <1>1, <1>2, <2>4 DEF Inv
    <3> QED
      BY <1>11, <2>1, <3>1 DEF Apart, Tidy
  <2>5. ASSUME NEW u \in registered'
        PROVE  now + Interval[u] < TimeMod /\ now < wakeup'[u] + Interval[u]
    <3>1. CASE u = t
      BY <2>1, <2>2, <2>3, <3>1
    <3>2. CASE u \in registered
      BY <1>4, <2>1, <3>2 DEF Tidy
    <3> QED
      BY <1>1, <2>5, <3>1, <3>2
  <2>6. ASSUME NEW k \in 1 .. Len(c), isWakeupTime(c[k])
        PROVE  k \in 1 .. Len(d) /\ d[k] = c[k]
    <3>1. c[k] \in registered
      BY <1>2 DEF On
    <3>2. wakeup'[c[k]] = wakeup[c[k]] /\ wakeup[c[k]] \in Nat /\ wakeup[c[k]] <= now
      BY <1>4, <2>2, <2>6, <3>1 DEF isWakeupTime
    <3>3. wakeup'[c[k]] < wakeup'[t]
      BY <2>2, <2>3, <3>2
    <3> QED
      BY <1>11, <3>3
  <2>7. ASSUME NEW u \in registered PROVE isWakeupTime(u)' <=> isWakeupTime(u)
    BY <1>1, <1>4 DEF isWakeupTime
  <2>8. ASSUME pc = "running"
        PROVE  isWakeupTime(scheduled)' /\ Begins(d, scheduled, scheduledNext)'
    <3>1. /\ isWakeupTime(scheduled) /\ 1 \in 1 .. Len(c) /\ c[1] = scheduled
          /\ scheduledNext # NULL /\ isWakeupTime(scheduledNext) =>
                2 \in 1 .. Len(c) /\ c[2] = scheduledNext
          /\ scheduled \in registered /\ scheduledNext \in registered \union {NULL}
      BY <1>2, <2>1, <2>8 DEF Tidy, Begins, Inv, Passing
    <3>2. 1 \in 1 .. Len(d) /\ d[1] = scheduled
      BY <2>6, <3>1
    <3>3. \A u \in registered : now' >= wakeup'[u] <=> isWakeupTime(u)
      BY <2>7 DEF isWakeupTime
    <3>4. ASSUME scheduledNext # NULL, now' >= wakeup'[scheduledNext]
          PROVE  2 \in 1 .. Len(d) /\ d[2] = scheduledNext
      <4>1. isWakeupTime(scheduledNext)
        BY <3>1, <3>3, <3>4
      <4> QED
        BY <2>6, <3>1, <3>4, <4>1
    <3>5. now' >= wakeup'[scheduled]
      BY <3>1, <3>3
    <3> QED
      BY <1>1, <3>2, <3>4, <3>5 DEF Begins, isWakeupTime
  <2>9. pc' # "loop"
    BY <1>1
  <2> QED
    BY <1>1, <2>4, <2>5, <2>8, <2>9 DEF Tidy
<1>17. d \in Orders
  BY <1>11, PathIsOrder
<1> QED
  BY <1>12, <1>13, <1>15, <1>16, <1>17 DEF Inv

\* A task is removed that no pass stands on.
LEMMA RemoveKeeps ==
    ASSUME Typed', NEW c \in Orders, Inv(c), NEW t \in Node, remove(t)
    PROVE  \E d \in Orders : Inv(d)'
<1>1. /\ pc = "idle" \/ (pc = "running" /\ t # scheduled /\ t # scheduledNext)
      /\ t \in registered /\ listScheduled' = ListRemove(listScheduled, t)
      /\ registered' = registered \ {t} /\ owed' = owed \ {t}
      /\ UNCHANGED <<debug, wakeup, now, pc, scheduled, scheduledNext, fresh>>
  BY DEF remove
<1>2. /\ Path(c, listScheduled) /\ On(c) = registered /\ Ordered(c, wakeup)
      /\ fresh \subseteq Node /\ Len(c) \in Nat
      /\ \A i, j \in 1 .. Len(c) : c[i] = c[j] => i = j
  BY DEF Inv, Listed, Typed, TypeOK, Path
<1>3. PICK p \in 1 .. Len(c) : c[p] = t
  BY <1>1, <1>2 DEF On
<1> DEFINE d == Without(c, p)
<1>4. /\ Left(c, d, listScheduled, listScheduled', t)
      /\ \A k \in 1 .. Len(c) : k < p => k \in 1 .. Len(d) /\ d[k] = c[k]
  BY <1>1, <1>2, <1>3, RemoveLeaves
<1> HIDE DEF d
<1>5. /\ Path(d, listScheduled') /\ On(d) = registered \ {t}
      /\ Apart(c, t, listScheduled, listScheduled') /\ Ordered(d, wakeup)
      /\ \A u \in On(c) \ {t} : From(c, u) \ {t} \subseteq From(d, u)
  BY <1>2, <1>4 DEF Left
<1>6. Listed(d)' /\ fresh' \intersect registered' = {} /\ Guarded'
  BY <1>1, <1>5 DEF Listed, Inv, Guarded
<1>7. ASSUME pc = "running"
      PROVE  /\ scheduled \in On(d)
             /\ scheduledNext \in (On(d) \ {scheduled}) \union {NULL}
             /\ owed' \subseteq From(d, scheduledNext) \ {scheduled}
  <2>1. /\ scheduled \in On(c) /\ t # scheduled /\ t # scheduledNext
        /\ scheduledNext \in (On(c) \ {scheduled}) \union {NULL}
        /\ owed \subseteq From(c, scheduledNext) \ {scheduled}
    BY <1>1, <1>7 DEF Inv, Passing
  <2>2. CASE scheduledNext \in On(c)
    BY <1>1, <1>2, <1>5, <2>1, <2>2
  <2>3. CASE scheduledNext \notin On(c)
    <3>1. From(c, scheduledNext) = {}
      BY <2>3 DEF From, On
    <3> QED
      BY <1>1, <1>2, <1>5, <2>1, <2>3, <3>1
  <2> QED
    BY <2>2, <2>3
<1>8. Passing(d)'
  <2>1. \A u \in owed' : isWakeupTime(u)'
    BY <1>1 DEF Inv, Passing, isWakeupTime
  <2>2. pc = "idle" => owed' = {}
    BY <1>1 DEF Inv, Passing
  <2>3. pc # "loop"
    BY <1>1
  <2> QED
    BY <1>1, <1>7, <2>1, <2>2, <2>3 DEF Passing
<1>9. ASSUME Careful' PROVE Tidy(d)'
  <2>1. Careful /\ Tidy(c)
    BY <1>1, <1>9 DEF Careful, Inv
  <2>2. ASSUME NEW u \in fresh' PROVE listScheduled'.next[u] = NULL
    <3>1. u \in fresh /\ u # t /\ u \notin On(c) /\ u \in Node
      BY <1>1, <1>2, <2>2 DEF Inv
    <3> QED
      BY <1>5, <2>1, <3>1 DEF Apart, Tidy
  <2>3. \A u \in registered' : /\ now + Interval[u] < TimeMod
                               /\ now < wakeup[u] + Interval[u]
    BY <1>1, <2>1 DEF Tidy
  <2>4. ASSUME pc = "running"
        PROVE  isWakeupTime(scheduled)' /\ Begins(d, scheduled, scheduledNext)'
    <3>1. /\ isWakeupTime(scheduled) /\ 1 \in 1 .. Len(c) /\ c[1] = scheduled
          /\ scheduledNext # NULL /\ isWakeupTime(scheduledNext) =>
                2 \in 1 .. Len(c) /\ c[2] = scheduledNext
          /\ t # scheduled /\ t # scheduledNext
      BY <1>1, <2>1, <2>4 DEF Tidy, Begins
    <3>2. 1 < p
      BY <1>2, <1>3, <3>1
    <3>3. 1 \in 1 .. Len(d) /\ d[1] = scheduled
      BY <1>4, <3>1, <3>2
    <3>4. ASSUME scheduledNext # NULL, isWakeupTime(scheduledNext)
          PROVE  2 \in 1 .. Len(d) /\ d[2] = scheduledNext
      <4>1. 2 \in 1 .. Len(c) /\ c[2] = scheduledNext
        BY <3>1, <3>4
      <4>2. p # 2
        BY <1>3, <3>1, <4>1
      <4>3. 2 < p
        BY <3>2, <4>2
      <4> QED
        BY <1>4, <4>1, <4>3
    <3> QED
      BY <1>1, <3>1, <3>3, <3>4 DEF Begins, isWakeupTime
  <2>5. pc' # "loop"
    BY <1>1
  <2> QED
    BY <1>1, <2>2, <2>3, <2>4, <2>5 DEF Tidy
<1>10. d \in Orders
  BY <1>5, PathIsOrder
<1> QED
  BY <1>6, <1>8, <1>9, <1>10 DEF Inv

\* The task that ran is taken out and put in its new place.
LEMMA RescheduleKeeps ==
    ASSUME CharIsSigned, Typed', NEW c \in Orders, Inv(c), executeReschedule
    PROVE  \E d \in Orders : Inv(d)'
<1> DEFINE t == scheduled
           m == ListRemove(listScheduled, t)
<1>1. /\ pc = "running" /\ pc' = "loop" /\ scheduled' = scheduledNext
      /\ wakeup' = [wakeup EXCEPT ![t] = nextWakeup(t, wakeup[t])]
      /\ listScheduled' = schedule(m, wakeup', t)
      /\ UNCHANGED <<debug, now, scheduledNext, registered, fresh, owed>>
  BY DEF executeReschedule
<1>2. /\ Path(c, listScheduled) /\ On(c) = registered /\ Ordered(c, wakeup)
      /\ fresh \subseteq Node /\ registered \subseteq Node /\ debug \in BOOLEAN
      /\ wakeup \in [Node -> Time] /\ wakeup' \in [Node -> Time] /\ Len(c) \in Nat
      /\ \A i, j \in 1 .. Len(c) : c[i] = c[j] => i = j
  BY DEF Inv, Listed, Typed, TypeOK, Path
<1>3. /\ t \in On(c) /\ t \in Node
      /\ scheduledNext \in (On(c) \ {t}) \union {NULL}
      /\ owed \subseteq From(c, scheduledNext) \ {t}
      /\ \A u \in owed : isWakeupTime(u)
  BY <1>1, <1>2 DEF Inv, Passing
<1>4. PICK p \in 1 .. Len(c) : c[p] = t
  BY <1>3 DEF On
<1> DEFINE e == Without(c, p)
<1>5. /\ Left(c, e, listScheduled, m, t)
      /\ \A k \in 1 .. Len(c) : p < k => k - 1 \in 1 .. Len(e) /\ e[k - 1] = c[k]
      /\ p = 1 => m.next[t] = NULL
  BY <1>2, <1>4, RemoveLeaves
<1> HIDE DEF e, m
<1>6. /\ Path(e, m) /\ On(e) = On(c) \ {t} /\ Apart(c, t, listScheduled, m)
      /\ Ordered(e, wakeup)
      /\ \A u \in On(c) \ {t} : From(c, u) \ {t} \subseteq From(e, u)
  BY <1>2, <1>5 DEF Left
<1>7. \A u \in Node : u # t => wakeup'[u] = wakeup[u]
  BY <1>1, <1>2
<1>8. Ordered(e, wakeup')
  <2>1. \A u \in On(e) : wakeup'[u] = wakeup[u]
    BY <1>2, <1>6, <1>7
  <2> QED
    BY <1>6, <2>1, OrderKept
<1>9. ~ debug => Careful /\ Tidy(c)
  BY DEF Inv, Guarded, Careful
<1>10. Careful => Tidy(c)
  BY DEF Inv
<1>11. Careful => 1 \in 1 .. Len(c) /\ c[1] = t /\ p = 1
  BY <1>1, <1>2, <1>4, <1>10 DEF Tidy, Begins
<1>12. debug \/ m.next[t] = NULL
  BY <1>2, <1>5, <1>9, <1>11
<1>13. \E d : Entered(e, d, m, listScheduled', wakeup', t)
  <2> DEFINE w == wakeup'
             s == scheduled
  <2>1. w \in [Node -> Time] /\ Ordered(e, w) /\ s \in Node /\ s \notin On(e)
    BY <1>2, <1>3, <1>6, <1>8
  <2>2. debug \/ m.next[s] = NULL
    BY <1>12
  <2> HIDE DEF w, s
  <2>3. \E d : Entered(e, d, m, schedule(m, w, s), w, s)
    BY <1>2, <1>6, <2>1, <2>2, ScheduleEnters
  <2> QED
    BY <1>1, <2>3 DEF w, s
<1>14. PICK d : Entered(e, d, m, listScheduled', wakeup', t)
  BY <1>13
<1>15. /\ Path(d, listScheduled') /\ On(d) = On(e) \union {t}
       /\ Apart(e, t, m, listScheduled') /\ Ordered(d, wakeup')
       /\ \A u \in On(e) : From(e, u) \subseteq From(d, u)
       /\ \A k \in 1 .. Len(e) :
            wakeup'[e[k]] < wakeup'[t] => k \in 1 .. Len(d) /\ d[k] = e[k]
  BY <1>14 DEF Entered
<1>16. On(d) = registered
  BY <1>2, <1>3, <1>6, <1>15
<1>17. Listed(d)' /\ fresh' \intersect registered' = {} /\ Guarded'
  BY <1>1, <1>15, <1>16 DEF Listed, Inv, Guarded
<1>18. Passing(d)'
  <2>1. scheduledNext \in On(d) \union {NULL}
    BY <1>2, <1>3, <1>16
  <2>2. owed \subseteq From(d, scheduledNext)
    <3>1. CASE scheduledNext \in On(c)
      <4>1. scheduledNext # NULL
        BY <1>2, <3>1, PathIsShort
      <4>2. scheduledNext \in On(c) \ {t}
        BY <1>3, <4>1
      <4>3. From(c, scheduledNext) \ {t} \subseteq From(e, scheduledNext)
        BY <1>6, <4>2
      <4>4. scheduledNext \in On(e)
        BY <1>6, <4>2
      <4>5. From(e, scheduledNext) \subseteq From(d, scheduledNext)
        BY <1>15, <4>4
      <4> QED
        BY <1>3, <4>3, <4>5
    <3>2. CASE scheduledNext \notin On(c)
      BY <1>3, <3>2 DEF From, On
    <3> QED
      BY <3>1, <3>2
  <2>3. ASSUME NEW u \in owed PROVE isWakeupTime(u)'
    <3>1. u # t /\ u \in Node /\ isWakeupTime(u)
      BY <1>2, <1>3, <2>3 DEF From
    <3> QED
      BY <1>1, <1>7, <3>1 DEF isWakeupTime
  <2> QED
    BY <1>1, <2>1, <2>2, <2>3 DEF Passing
<1>19. ASSUME Careful' PROVE Tidy(d)'
  <2>1. Careful /\ Tidy(c) /\ p = 1 /\ c[1] = t
    BY <1>1, <1>10, <1>11, <1>19 DEF Careful
  <2>2. /\ now \in Nat /\ TimeMod \in Nat
        /\ \A u \in Node : wakeup[u] \in Nat /\ Interval[u] \in Nat /\ 0 < Interval[u]
    BY Numbers DEF Inv
  <2>3. /\ wakeup[t] <= now
        /\ now + Interval[t] < TimeMod /\ now < wakeup[t] + Interval[t]
    BY <1>1, <1>2, <1>3, <2>1 DEF Tidy, isWakeupTime
  <2>4. wakeup'[t] = wakeup[t] + Interval[t]
    <3>1. wakeup[t] \in Nat /\ wakeup[t] + Interval[t] < TimeMod
      BY <1>3, <2>2, <2>3
    <3>2. nextWakeup(t, wakeup[t]) = wakeup[t] + Interval[t]
      BY <1>3, <3>1, NoWrap
    <3> QED
      BY <1>1, <1>2, <1>3, <3>2
  <2>5. ASSUME NEW u \in fresh' PROVE listScheduled'.next[u] = NULL
    <3>1. u \in fresh /\ u \notin On(c) /\ u # t /\ u \notin On(e) /\ u \in Node
      BY <1>1, <1>2, <1>3, <1>6, <2>5 DEF Inv
    <3>2. listScheduled.next[u] = NULL
      BY <2>1, <3>1 DEF Tidy
    <3> QED
      BY <1>6, <1>15, <3>1, <3>2 DEF Apart
  <2>6. ASSUME NEW u \in registered'
        PROVE  now + Interval[u] < TimeMod /\ now < wakeup'[u] + Interval[u]
    <3>1. u \in registered /\ u \in Node
      BY <1>1, <1>2, <2>6
    <3>2. now + Interval[u] < TimeMod /\ now < wakeup[u] + Interval[u]
      BY <2>1, <3>1 DEF Tidy
    <3>3. CASE u = t
      BY <1>3, <2>2, <2>3, <2>4, <3>2, <3>3
    <3>4. CASE u # t
      BY <1>7, <3>1, <3>2, <3>4
    <3> QED
      BY <3>3, <3>4
  <2>7. ASSUME scheduledNext # NULL, now >= wakeup'[scheduledNext]
        PROVE  1 \in 1 .. Len(d) /\ d[1] = scheduledNext
    <3>1. scheduledNext \in On(c) /\ scheduledNext # t /\ scheduledNext \in Node
      BY <1>2, <1>3, <2>7
    <3>2. wakeup'[scheduledNext] = wakeup[scheduledNext]
      BY <1>7, <3>1
    <3>3. isWakeupTime(scheduledNext)
      BY <2>7, <3>2 DEF isWakeupTime
    <3>4. 2 \in 1 .. Len(c) /\ c[2] = scheduledNext
      BY <1>1, <2>1, <2>7, <3>3 DEF Tidy, Begins
    <3>5. 1 \in 1 .. Len(e) /\ e[1] = scheduledNext
      <4>1. p < 2 /\ 2 - 1 = 1
        BY <2>1
      <4> QED
        BY <1>5, <3>4, <4>1
    <3>6. wakeup'[e[1]] < wakeup'[t]
      BY <1>3, <2>2, <2>3, <2>4, <2>7, <3>1, <3>2, <3>5
    <3> QED
      BY <1>15, <3>5, <3>6
  <2>8. pc' # "running"
    BY <1>1
  <2> QED
    BY <1>1, <2>5, <2>6, <2>7, <2>8 DEF Tidy, isWakeupTime
<1>20. d \in Orders
  BY <1>15, PathIsOrder
<1> QED
  BY <1>17, <1>18, <1>19, <1>20 DEF Inv

--------------------------------------------------------------------------------
\* An empty list, and no pass.
LEMMA Fresh ==
    ASSUME CarefulClient \/ DebugBuilds \subseteq {TRUE}, Init, Typed
    PROVE  IInv
<1> DEFINE c == << >>
<1>1. /\ debug \in DebugBuilds /\ listScheduled = EmptyList /\ pc = "idle"
      /\ registered = {} /\ owed = {}
  BY DEF Init
<1>2. Path(c, listScheduled) /\ On(c) = {} /\ Ordered(c, wakeup)
  BY <1>1 DEF Path, On, Ordered, EmptyList, List
<1>3. c \in Orders
  BY <1>2, PathIsOrder
<1>4. Guarded
  BY <1>1 DEF Guarded
<1>5. Passing(c)
  BY <1>1 DEF Passing
<1>6. Tidy(c)
  <2>1. \A t \in Node : listScheduled.next[t] = NULL
    BY <1>1 DEF EmptyList
  <2> QED
    BY <1>1, <2>1 DEF Tidy, Typed, TypeOK
<1> HIDE DEF c
<1>7. Inv(c)
  BY <1>1, <1>2, <1>4, <1>5, <1>6 DEF Inv, Listed
<1> QED
  BY <1>3, <1>7 DEF IInv

\* Every step.
LEMMA Step ==
    ASSUME CharIsSigned, IInv, Typed', [Next]_vars
    PROVE  IInv'
<1> PICK c \in Orders : Inv(c)
  BY DEF IInv
<1> SUFFICES \E d \in Orders : Inv(d)'
  BY DEF IInv
<1>1. CASE Tick
  BY <1>1, TickKeeps
<1>2. ASSUME NEW t \in Node, add(t) PROVE \E d \in Orders : Inv(d)'
  BY <1>2, AddKeeps
<1>3. ASSUME NEW t \in Node, remove(t) PROVE \E d \in Orders : Inv(d)'
  BY <1>3, RemoveKeeps
<1>4. CASE executeBegin
  BY <1>4, BeginKeeps
<1>5. CASE executeTask
  BY <1>5, TaskKeeps
<1>6. CASE executeReschedule
  BY <1>6, RescheduleKeeps
<1>7. CASE executeEnd
  BY <1>7, EndKeeps
<1>8. CASE UNCHANGED vars
  <2>1. Inv(c)'
    BY <1>8 DEF vars, Inv, Guarded, Careful, Listed, Passing, Tidy, Begins, isWakeupTime
  <2> QED
    BY <2>1
<1> QED
  BY <1>1, <1>2, <1>3, <1>4, <1>5, <1>6, <1>7, <1>8 DEF Next, Pass

--------------------------------------------------------------------------------
(***************************************************************************)
(* The list has its path throughout, where char is signed and the client   *)
(* of a release build is careful.                                          *)
(***************************************************************************)
THEOREM AlwaysListed ==
    ASSUME CharIsSigned, CarefulClient \/ DebugBuilds \subseteq {TRUE}
    PROVE  Spec => []IInv
<1>1. Init /\ Typed => IInv
  BY Fresh
<1>2. IInv /\ Typed' /\ [Next]_vars => IInv'
  BY Step
<1> QED
  BY <1>1, <1>2, AlwaysTyped, PTL DEF Spec

(***************************************************************************)
(* Nothing is lost: the list that the pass, the clock, and the client's    *)
(* additions and removals leave behind ends, and holds exactly the tasks   *)
(* that are registered (ListRemove and ListInsert of execute(), and of a   *)
(* task that is running).                                                  *)
(***************************************************************************)
THEOREM NothingIsLost ==
    ASSUME CharIsSigned, CarefulClient \/ DebugBuilds \subseteq {TRUE}
    PROVE  Spec => []ListHoldsRegistered
<1>1. IInv => ListHoldsRegistered
  <2> SUFFICES ASSUME NEW c \in Orders, Inv(c) PROVE ListHoldsRegistered
    BY DEF IInv
  <2>1. Path(c, listScheduled) /\ On(c) = registered
    BY DEF Inv, Listed
  <2> QED
    BY <2>1, PathIs DEF ListHoldsRegistered
<1> QED
  BY <1>1, AlwaysListed, PTL

(***************************************************************************)
(* findNodeOnOrJustAfter puts every task, added or put back, where its     *)
(* wake-up time belongs.                                                   *)
(***************************************************************************)
THEOREM Sorted ==
    ASSUME CharIsSigned, CarefulClient \/ DebugBuilds \subseteq {TRUE}
    PROVE  Spec => []SortedByWakeup
<1>1. IInv => SortedByWakeup
  <2> SUFFICES ASSUME NEW c \in Orders, Inv(c) PROVE SortedByWakeup
    BY DEF IInv
  <2>1. /\ Path(c, listScheduled)
        /\ \A i, j \in 1 .. Len(c) : i < j => wakeup[c[i]] <= wakeup[c[j]]
    BY DEF Inv, Listed, Ordered
  <2>2. /\ Members(listScheduled) = On(c)
        /\ \A i, j \in 1 .. Len(c) : Before(listScheduled, c[i], c[j]) <=> i < j
    BY <2>1, PathIs
  <2> SUFFICES ASSUME NEW t \in On(c), NEW u \in On(c), Before(listScheduled, t, u)
               PROVE  wakeup[t] <= wakeup[u]
    BY <2>2 DEF SortedByWakeup
  <2>3. PICK i \in 1 .. Len(c) : c[i] = t
    BY DEF On
  <2>4. PICK j \in 1 .. Len(c) : c[j] = u
    BY DEF On
  <2>5. i < j
    BY <2>2, <2>3, <2>4
  <2> QED
    BY <2>1, <2>3, <2>4, <2>5
<1> QED
  BY <1>1, AlwaysListed, PTL

(***************************************************************************)
(* One call of execute() runs every task that was due when it began and is *)
(* still registered, although the tasks it runs add and remove others: the *)
(* ones it owes lie ahead of the pointers it holds.                        *)
(***************************************************************************)
THEOREM EveryDueTaskIsServed ==
    ASSUME CharIsSigned, CarefulClient \/ DebugBuilds \subseteq {TRUE}
    PROVE  Spec => []PassServesEveryDueTask
<1>1. IInv => PassServesEveryDueTask
  BY DEF IInv, Inv, Passing, PassServesEveryDueTask
<1> QED
  BY <1>1, AlwaysListed, PTL

================================================================================
