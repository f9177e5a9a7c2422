---------------------------- MODULE EventManagerProofs -------------------------
(***************************************************************************)
(* Proofs about the events' chains: that they stay apart, that a walk      *)
(* meets all it should and nobody twice, and that the pool of handles      *)
(* implements separate lists of subscribers.                               *)
(***************************************************************************)
EXTENDS EventManager, Induction, SequenceTheorems, TLAPS

(***************************************************************************)
(* c is the path of the links nx from h to the end, without repetitions.   *)
(***************************************************************************)
Path(c, h, nx) ==
    /\ c \in Seq(Handle)
    /\ \A i, j \in 1 .. Len(c) : c[i] = c[j] => i = j
    /\ Len(c) = 0 => h = nullHandle
    /\ Len(c) > 0 => h = c[1]
    /\ \A k \in 1 .. Len(c) : k < Len(c) => nx[c[k]] = c[k + 1]
    /\ Len(c) > 0 => nx[c[Len(c)]] = nullHandle

\* Links and ChainFrom for any links nx.
LinksBy(nx, h) ==
    LET at[k \in 1 .. Capacity + 1] ==
            IF k = 1 THEN h
            ELSE IF at[k - 1] = nullHandle THEN nullHandle ELSE nx[at[k - 1]]
    IN  at

\* What ChainFrom makes of them.
ChainBy(nx, h) ==
    [k \in 1 .. Cardinality({j \in 1 .. Capacity + 1 : LinksBy(nx, h)[j] # nullHandle}) |->
        LinksBy(nx, h)[k]]

\* The chain in the state at hand.
LEMMA ChainIsBy == \A h : ChainFrom(h) = ChainBy(next, h)
BY DEF ChainFrom, ChainBy, Links, LinksBy

\* A path has no more handles than the pool.
LEMMA PathIsShort ==
    ASSUME NEW c, NEW h, NEW nx, Path(c, h, nx)
    PROVE  Len(c) \in 0 .. Capacity
<1>1. Len(c) \in Nat /\ c \in [1 .. Len(c) -> Handle]
  BY DEF Path
<1>2. c \in Injection(1 .. Len(c), Handle)
  BY <1>1 DEF Path, Injection, IsInjective
<1>3. Capacity \in Nat \ {0}
  BY PoolAssumption
<1>4. IsFiniteSet(Handle) /\ Cardinality(Handle) = Capacity
  BY <1>3, FS_Interval DEF Handle
<1>5. Cardinality(1 .. Len(c)) = Len(c)
  BY <1>1, FS_Interval
<1>6. Cardinality(1 .. Len(c)) <= Cardinality(Handle)
  BY <1>2, <1>4, FS_Injection
<1> QED
  BY <1>1, <1>3, <1>4, <1>5, <1>6

(***************************************************************************)
(* The links met from h on are those of the path, and nothing behind it.   *)
(***************************************************************************)
LEMMA ChainIsPath ==
    ASSUME NEW c, NEW h, NEW nx, Path(c, h, nx)
    PROVE  ChainBy(nx, h) = c
<1> DEFINE n == Len(c)
           D == 1 .. Capacity + 1
           step(f, k) == IF k = 1 THEN h
                         ELSE IF f[k - 1] = nullHandle THEN nullHandle ELSE nx[f[k - 1]]
           Unfolds(f) == f = [k \in D |-> step(f, k)]
           g == [k \in D |-> IF k <= n THEN c[k] ELSE nullHandle]
<1>1. /\ n \in Nat /\ n <= Capacity /\ Capacity \in Nat
      /\ \A k \in 1 .. n : c[k] \in Handle /\ c[k] # nullHandle
      /\ c = [k \in 1 .. n |-> c[k]]
  <2>1. n \in 0 .. Capacity /\ Capacity \in Nat \ {0}
    BY PathIsShort, PoolAssumption
  <2> QED
    BY <2>1 DEF Path, Handle, nullHandle
<1>2. ASSUME NEW k \in D PROVE g[k] = step(g, k)
  <2>1. CASE k = 1
    BY <1>1, <2>1 DEF Path
  <2>2. CASE k # 1 /\ k <= n
    <3>1. k - 1 \in 1 .. n /\ k - 1 \in D /\ k - 1 < n /\ (k - 1) + 1 = k
      BY <1>1, <2>2
    <3>2. g[k - 1] = c[k - 1] /\ g[k] = c[k]
      BY <2>2, <3>1
    <3>3. nx[c[k - 1]] = c[k]
      BY <3>1 DEF Path
    <3> QED
      BY <1>1, <2>2, <3>1, <3>2, <3>3
  <2>3. CASE k # 1 /\ ~ (k <= n)
    <3>1. k - 1 \in D /\ g[k] = nullHandle
      BY <1>1, <2>3
    <3>2. CASE k - 1 <= n
      <4>1. k - 1 = n /\ n > 0
        BY <1>1, <2>3, <3>2
      <4>2. g[k - 1] = c[n] /\ nx[c[n]] = nullHandle
        BY <3>1, <4>1 DEF Path
      <4> QED
        BY <2>3, <3>1, <4>2
    <3>3. CASE ~ (k - 1 <= n)
      BY <2>3, <3>1, <3>3
    <3> QED
      BY <3>2, <3>3
  <2> QED
    BY <2>1, <2>2, <2>3
<1>3. Unfolds(g)
  <2>1. g = [k \in D |-> g[k]]
    OBVIOUS
  <2> HIDE DEF g
  <2> QED
    BY <1>2, <2>1
<1>4. ASSUME NEW f, Unfolds(f) PROVE f = g
  <2> DEFINE T == {k \in D : f[k] # g[k]}
  <2>1. ASSUME T # {} PROVE FALSE
    <3> HIDE DEF g
    <3>1. PICK k \in T : \A j \in T : k <= j
      <4>1. T \in SUBSET Nat
        OBVIOUS
      <4> HIDE DEF T
      <4> QED
        BY <2>1, <4>1, Least
    <3>2. k \in D /\ f[k] = step(f, k) /\ g[k] = step(g, k)
      BY <1>2, <1>4
    <3>3. k # 1 => k - 1 \in D /\ k - 1 \notin T
      BY <1>1, <3>1
    <3>4. k # 1 => f[k - 1] = g[k - 1]
      BY <3>3
    <3>5. f[k] = g[k]
      BY <3>2, <3>4
    <3> QED
      BY <3>1, <3>5
  <2>2. \A k \in D : f[k] = g[k]
    BY <2>1
  <2>3. f = [k \in D |-> f[k]] /\ g = [k \in D |-> g[k]]
    BY <1>4
  <2> HIDE DEF g
  <2> QED
    BY <2>2, <2>3
<1>5. LinksBy(nx, h) = CHOOSE f : Unfolds(f)
  BY DEF LinksBy
<1>6. LinksBy(nx, h) = g
  <2> HIDE DEF Unfolds
  <2>1. Unfolds(CHOOSE f : Unfolds(f))
    BY <1>3
  <2> QED
    BY <1>4, <1>5, <2>1
<1>7. {j \in D : g[j] # nullHandle} = 1 .. n
  BY <1>1
<1>8. Cardinality(1 .. n) = n
  <2>1. n \in Int /\ n \in Nat /\ 1 \in Int
    BY <1>1
  <2> HIDE DEF n
  <2>2. Cardinality(1 .. n) = IF 1 > n THEN 0 ELSE n - 1 + 1
    BY <2>1, FS_Interval
  <2> QED
    BY <2>1, <2>2
<1>9. ChainBy(nx, h) = [k \in 1 .. n |-> g[k]]
  <2> HIDE DEF g, n
  <2> QED
    BY <1>6, <1>7, <1>8 DEF ChainBy
<1>10. \A k \in 1 .. n : g[k] = c[k]
  BY <1>1
<1> HIDE DEF g, n
<1> QED
  BY <1>1, <1>9, <1>10

(***************************************************************************)
(* What links to links, steps, appended and left out do to a path.         *)
(***************************************************************************)

\* A path is the same where the links are.
LEMMA PathKept ==
    ASSUME NEW c, NEW h, NEW nx, Path(c, h, nx),
           NEW mx, \A i \in HandlesOf(c) : mx[i] = nx[i]
    PROVE  Path(c, h, mx)
<1>1. Len(c) \in Nat
  BY DEF Path
<1>2. \A k \in 1 .. Len(c) : mx[c[k]] = nx[c[k]]
  BY DEF HandlesOf
<1>3. \A k \in 1 .. Len(c) : k < Len(c) => mx[c[k]] = c[k + 1]
  BY <1>2 DEF Path
<1>4. Len(c) > 0 => mx[c[Len(c)]] = nullHandle
  BY <1>1, <1>2 DEF Path
<1> QED
  BY <1>3, <1>4 DEF Path

\* A handle linked behind the last.
LEMMA PathAppend ==
    ASSUME NEW c, NEW h, NEW nx, Path(c, h, nx), NEW i \in Handle, i \notin HandlesOf(c),
           NEW mx, mx[i] = nullHandle,
           \A k \in 1 .. Len(c) : mx[c[k]] = IF k = Len(c) THEN i ELSE nx[c[k]],
           NEW g, g = IF Len(c) = 0 THEN i ELSE h
    PROVE  /\ Path(Append(c, i), g, mx)
           /\ HandlesOf(Append(c, i)) = HandlesOf(c) \union {i}
<1> DEFINE n == Len(c)
           d == Append(c, i)
<1>1. /\ n \in Nat /\ c \in Seq(Handle)
  BY DEF Path
<1>2. /\ d \in Seq(Handle) /\ Len(d) = n + 1 /\ d[n + 1] = i
      /\ \A k \in 1 .. n : d[k] = c[k]
  BY <1>1
<1> HIDE DEF d
<1>3. \A k \in 1 .. n + 1 : k = n + 1 \/ k \in 1 .. n
  BY <1>1
<1>4. HandlesOf(d) = HandlesOf(c) \union {i}
  <2>1. \A k \in 1 .. n : k \in 1 .. n + 1
    BY <1>1
  <2>2. n + 1 \in 1 .. n + 1
    BY <1>1
  <2> HIDE DEF n
  <2>3. HandlesOf(d) = {d[k] : k \in 1 .. n + 1} /\ HandlesOf(c) = {c[k] : k \in 1 .. n}
    BY <1>2 DEF HandlesOf, n
  <2> QED
    BY <1>2, <1>3, <2>1, <2>2, <2>3
<1>5. ASSUME NEW k \in 1 .. n + 1, NEW j \in 1 .. n + 1, d[k] = d[j] PROVE k = j
  <2>1. \A l \in 1 .. n : c[l] # i
    BY DEF HandlesOf
  <2> QED
    BY <1>2, <1>3, <1>5, <2>1 DEF Path
<1>6. ASSUME NEW k \in 1 .. n + 1, k < n + 1 PROVE mx[d[k]] = d[k + 1]
  <2>1. k \in 1 .. n /\ d[k] = c[k]
    BY <1>1, <1>2, <1>6
  <2>2. CASE k = n
    BY <1>2, <2>1, <2>2
  <2>3. CASE k < n
    BY <1>1, <1>2, <2>1, <2>3 DEF Path
  <2> QED
    BY <1>1, <2>1, <2>2, <2>3
<1>7. g = d[1]
  <2>1. CASE n = 0
    BY <1>2, <2>1
  <2>2. CASE n > 0
    BY <1>1, <1>2, <2>2 DEF Path
  <2> QED
    BY <1>1, <2>1, <2>2
<1>8. Path(d, g, mx)
  <2> HIDE DEF n
  <2>1. /\ Len(d) = n + 1 /\ n + 1 > 0 /\ n + 1 # 0
    BY <1>1, <1>2 DEF n
  <2> QED
    BY <1>2, <1>5, <1>6, <1>7, <2>1 DEF Path
<1> QED
  BY <1>4, <1>8 DEF d

\* c without its j-th element.
Without(c, j) == [k \in 1 .. Len(c) - 1 |-> IF k < j THEN c[k] ELSE c[k + 1]]

\* The elements that are left.
LEMMA WithoutIs ==
    ASSUME NEW c, NEW h, NEW nx, Path(c, h, nx), NEW j \in 1 .. Len(c)
    PROVE  /\ Without(c, j) \in Seq(Handle) /\ Len(Without(c, j)) = Len(c) - 1
           /\ \A k \in 1 .. Len(c) - 1 :
                 Without(c, j)[k] = IF k < j THEN c[k] ELSE c[k + 1]
           /\ HandlesOf(Without(c, j)) = HandlesOf(c) \ {c[j]}
<1> DEFINE n == Len(c) - 1
           d == Without(c, j)
<1>1. n \in Nat /\ c \in Seq(Handle) /\ Len(c) = n + 1
  BY DEF Path
<1>2. d = [k \in 1 .. n |-> IF k < j THEN c[k] ELSE c[k + 1]]
  BY DEF Without
<1>3. \A k \in 1 .. n : d[k] \in Handle /\ d[k] = IF k < j THEN c[k] ELSE c[k + 1]
  BY <1>1, <1>2
<1> HIDE DEF d, n
<1>4. d \in Seq(Handle) /\ Len(d) = n
  BY <1>1, <1>2, <1>3
<1>5. HandlesOf(d) = {d[k] : k \in 1 .. n} /\ HandlesOf(c) = {c[k] : k \in 1 .. n + 1}
  BY <1>1, <1>4 DEF HandlesOf
<1>6. ASSUME NEW k \in 1 .. n PROVE \E l \in 1 .. n + 1 : l # j /\ d[k] = c[l]
  <2>1. CASE k < j
    <3>1. k \in 1 .. n + 1 /\ k # j
      BY <1>1, <2>1
    <3> QED
      BY <1>3, <2>1, <3>1
  <2>2. CASE ~ (k < j)
    <3>1. k + 1 \in 1 .. n + 1 /\ k + 1 # j
      BY <1>1, <2>2
    <3> QED
      BY <1>3, <2>2, <3>1
  <2> QED
    BY <2>1, <2>2
<1>7. ASSUME NEW l \in 1 .. n + 1, l # j PROVE \E k \in 1 .. n : d[k] = c[l]
  <2>1. CASE l < j
    <3>1. l \in 1 .. n
      BY <1>1, <2>1
    <3> QED
      BY <1>3, <2>1, <3>1
  <2>2. CASE l > j
    <3>1. l - 1 \in 1 .. n /\ ~ (l - 1 < j) /\ (l - 1) + 1 = l
      BY <1>1, <2>2
    <3> QED
      BY <1>3, <3>1
  <2> QED
    BY <1>1, <1>7, <2>1, <2>2
<1>8. \A l \in 1 .. n + 1 : c[l] = c[j] => l = j
  BY <1>1 DEF Path
<1>9. HandlesOf(d) = HandlesOf(c) \ {c[j]}
  <2>1. HandlesOf(d) \subseteq HandlesOf(c) \ {c[j]}
    BY <1>5, <1>6, <1>8
  <2>2. HandlesOf(c) \ {c[j]} \subseteq HandlesOf(d)
    BY <1>5, <1>7
  <2> QED
    BY <2>1, <2>2
<1> QED
  BY <1>1, <1>3, <1>4, <1>9 DEF d, n

\* The link to a handle goes to its successor instead.
LEMMA PathWithout ==
    ASSUME NEW c, NEW h, NEW nx, Path(c, h, nx), NEW j \in 2 .. Len(c),
           NEW mx, mx[c[j - 1]] = nx[c[j]],
           \A i \in HandlesOf(c) \ {c[j - 1]} : mx[i] = nx[i]
    PROVE  Path(Without(c, j), h, mx)
<1> DEFINE n == Len(c) - 1
           d == Without(c, j)
<1>1. /\ n \in Nat /\ Len(c) = n + 1 /\ j - 1 \in 1 .. n /\ j \in 1 .. n + 1
      /\ j - 1 \in 1 .. n + 1
  BY DEF Path
<1>2. /\ d \in Seq(Handle) /\ Len(d) = n
      /\ \A k \in 1 .. n : d[k] = IF k < j THEN c[k] ELSE c[k + 1]
  BY <1>1, WithoutIs
<1> HIDE DEF d, n
<1>3. ASSUME NEW k \in 1 .. n + 1, k # j - 1 PROVE mx[c[k]] = nx[c[k]]
  <2>1. c[k] # c[j - 1] /\ c[k] \in HandlesOf(c)
    BY <1>1, <1>3 DEF Path, HandlesOf
  <2> QED
    BY <2>1
<1>4. ASSUME NEW k \in 1 .. n, NEW l \in 1 .. n, d[k] = d[l] PROVE k = l
  <2> DEFINE p(x) == IF x < j THEN x ELSE x + 1
  <2>1. p(k) \in 1 .. n + 1 /\ p(l) \in 1 .. n + 1
    BY <1>1
  <2>2. c[p(k)] = c[p(l)]
    BY <1>2, <1>4
  <2>3. p(k) = p(l)
    <3> HIDE DEF p
    <3> QED
      BY <1>1, <2>1, <2>2 DEF Path
  <2> QED
    BY <1>1, <2>3
<1>5. n > 0 => h = d[1]
  <2>1. 1 \in 1 .. n /\ 1 < j
    BY <1>1
  <2> QED
    BY <1>1, <1>2, <2>1 DEF Path
<1>6. ASSUME NEW k \in 1 .. n, k < n PROVE mx[d[k]] = d[k + 1]
  <2>1. k + 1 \in 1 .. n /\ k + 1 \in 1 .. n + 1 /\ (k + 1) + 1 = k + 2 /\ k + 2 \in 1 .. n + 1
    BY <1>1, <1>6
  <2>2. CASE k < j - 1
    <3>1. d[k] = c[k] /\ d[k + 1] = c[k + 1]
      BY <1>1, <1>2, <2>1, <2>2
    <3>2. mx[c[k]] = nx[c[k]] /\ nx[c[k]] = c[k + 1]
      BY <1>1, <1>3, <2>2 DEF Path
    <3> QED
      BY <3>1, <3>2
  <2>3. CASE k = j - 1
    <3>1. d[k] = c[j - 1] /\ d[k + 1] = c[j + 1] /\ j < n + 1
      BY <1>1, <1>2, <1>6, <2>1, <2>3
    <3>2. nx[c[j]] = c[j + 1]
      BY <1>1, <3>1 DEF Path
    <3> QED
      BY <3>1, <3>2
  <2>4. CASE k >= j
    <3>1. d[k] = c[k + 1] /\ d[k + 1] = c[k + 2]
      BY <1>1, <1>2, <2>1, <2>4
    <3>2. mx[c[k + 1]] = nx[c[k + 1]]
      BY <1>1, <1>3, <2>1, <2>4
    <3>3. k + 1 < n + 1
      BY <1>1, <1>6
    <3>4. nx[c[k + 1]] = c[k + 2]
      BY <1>1, <2>1, <3>3 DEF Path
    <3> QED
      BY <3>1, <3>2, <3>4
  <2> QED
    BY <1>1, <2>2, <2>3, <2>4
<1>7. n > 0 => mx[d[n]] = nullHandle
  <2> SUFFICES ASSUME n > 0 PROVE mx[d[n]] = nullHandle
    OBVIOUS
  <2>1. nx[c[n + 1]] = nullHandle /\ n \in 1 .. n /\ n + 1 \in 1 .. n + 1
    BY <1>1 DEF Path
  <2>2. CASE j = n + 1
    BY <1>1, <1>2, <2>1, <2>2
  <2>3. CASE j < n + 1
    <3>1. d[n] = c[n + 1]
      BY <1>1, <1>2, <2>1, <2>3
    <3>2. mx[c[n + 1]] = nx[c[n + 1]]
      BY <1>1, <1>3, <2>1, <2>3
    <3> QED
      BY <2>1, <3>1, <3>2
  <2> QED
    BY <1>1, <2>2, <2>3
<1>8. n > 0
  BY <1>1
<1> QED
  BY <1>1, <1>2, <1>4, <1>5, <1>6, <1>7, <1>8 DEF Path, d

\* The path from the second handle.
LEMMA PathBehind ==
    ASSUME NEW c, NEW h \in Handle, NEW nx, Path(c, h, nx)
    PROVE  Len(c) > 0 /\ Path(Without(c, 1), nx[h], nx)
<1> DEFINE n == Len(c) - 1
           d == Without(c, 1)
<1>1. /\ n \in Nat /\ Len(c) = n + 1 /\ 1 \in 1 .. n + 1 /\ h = c[1]
  BY DEF Path, Handle, nullHandle
<1>2. /\ d \in Seq(Handle) /\ Len(d) = n
      /\ \A k \in 1 .. n : d[k] = IF k < 1 THEN c[k] ELSE c[k + 1]
  BY <1>1, WithoutIs
<1> HIDE DEF d, n
<1>3. \A k \in 1 .. n : d[k] = c[k + 1] /\ k + 1 \in 1 .. n + 1
  BY <1>1, <1>2
<1>4. ASSUME NEW k \in 1 .. n, NEW l \in 1 .. n, d[k] = d[l] PROVE k = l
  <2>1. k + 1 = l + 1
    BY <1>1, <1>3, <1>4 DEF Path
  <2> QED
    BY <2>1
<1>5. n = 0 => nx[h] = nullHandle
  BY <1>1 DEF Path
<1>6. n > 0 => nx[h] = d[1]
  <2> SUFFICES ASSUME n > 0 PROVE nx[h] = d[1]
    OBVIOUS
  <2>1. 1 \in 1 .. n /\ 1 < n + 1
    BY <1>1
  <2> QED
    BY <1>1, <1>3, <2>1 DEF Path
<1>7. ASSUME NEW k \in 1 .. n, k < n PROVE nx[d[k]] = d[k + 1]
  <2>1. k + 1 \in 1 .. n /\ k + 1 \in 1 .. n + 1 /\ k + 1 < n + 1
    BY <1>1, <1>7
  <2>2. nx[c[k + 1]] = c[(k + 1) + 1]
    BY <1>1, <2>1 DEF Path
  <2> QED
    BY <1>3, <2>1, <2>2
<1>8. n > 0 => nx[d[n]] = nullHandle
  <2> SUFFICES ASSUME n > 0 PROVE nx[d[n]] = nullHandle
    OBVIOUS
  <2>1. n \in 1 .. n /\ nx[c[n + 1]] = nullHandle
    BY <1>1 DEF Path
  <2> QED
    BY <1>3, <2>1
<1> QED
  BY <1>1, <1>2, <1>4, <1>5, <1>6, <1>7, <1>8 DEF Path, d

--------------------------------------------------------------------------------
\* The handles from h on.
On(nx, h) == HandlesOf(ChainBy(nx, h))

(***************************************************************************)
(* Every event's handle begins a path through handles that are taken, and  *)
(* no two of them meet.                                                    *)
(***************************************************************************)
Linked(dt, nx, hd) ==
    /\ dt \in [Handle -> Callback \union {NULL}]
    /\ nx \in [Handle -> Handle \union {nullHandle}]
    /\ hd \in [Event -> Handle \union {nullHandle}]
    /\ \A e \in Event : /\ Path(ChainBy(nx, hd[e]), hd[e], nx)
                        /\ \A i \in On(nx, hd[e]) : dt[i] # NULL
    /\ \A e, f \in Event : e # f => On(nx, hd[e]) \intersect On(nx, hd[f]) = {}

(***************************************************************************)
(* A walk stands on a path, which may have left the chain, of handles that *)
(* it has seen: those are taken, and no other event has them.  It has      *)
(* called none that lies ahead, and all pending lie ahead.                 *)
(***************************************************************************)
Sound(w, dt, nx, hd) ==
    /\ Path(ChainBy(nx, w.h), w.h, nx)
    /\ w.h \in w.called /\ w.called \subseteq w.seen
    /\ On(nx, w.h) \subseteq w.seen
    /\ \A i \in On(nx, w.h) : i \in w.called => i = w.h
    /\ w.pending \subseteq On(nx, w.h) \ {w.h}
    /\ \A i \in w.seen : dt[i] # NULL
    /\ \A f \in Event \ {w.event} : w.seen \intersect On(nx, hd[f]) = {}

\* The chains in the state at hand.
Chained == Linked(data, next, handle)

\* Every invocation under way is sound.
Walking ==
    /\ walks \in Seq(Walk)
    /\ \A k \in 1 .. Len(walks) : Sound(walks[k], data, next, handle)

\* Paths from the events' handles that are taken and do not meet are the chains.
LEMMA LinkedBy ==
    ASSUME NEW dt \in [Handle -> Callback \union {NULL}],
           NEW nx \in [Handle -> Handle \union {nullHandle}],
           NEW hd \in [Event -> Handle \union {nullHandle}],
           NEW ch, \A e \in Event : Path(ch[e], hd[e], nx),
           \A e \in Event : \A i \in HandlesOf(ch[e]) : dt[i] # NULL,
           \A e, f \in Event :
                e # f => HandlesOf(ch[e]) \intersect HandlesOf(ch[f]) = {}
    PROVE  Linked(dt, nx, hd) /\ \A e \in Event : ChainBy(nx, hd[e]) = ch[e]
<1>1. \A e \in Event : ChainBy(nx, hd[e]) = ch[e]
  BY ChainIsPath
<1> QED
  BY <1>1 DEF Linked, On

\* The handles of a path are handles of the pool.
LEMMA PathHandles ==
    ASSUME NEW c, NEW h, NEW nx, Path(c, h, nx)
    PROVE  /\ HandlesOf(c) \subseteq Handle /\ nullHandle \notin HandlesOf(c)
           /\ h # nullHandle => h \in HandlesOf(c)
           /\ (h = nullHandle) <=> (Len(c) = 0)
           /\ \A k \in 1 .. Len(c) : c[k] \in HandlesOf(c)
<1>1. Len(c) \in Nat /\ \A k \in 1 .. Len(c) : c[k] \in Handle /\ c[k] # nullHandle
  <2>1. Len(c) \in Nat /\ \A k \in 1 .. Len(c) : c[k] \in Handle
    BY DEF Path
  <2>2. \A i \in Handle : i # nullHandle
    BY DEF Handle, nullHandle
  <2> QED
    BY <2>1, <2>2
<1>2. \A k \in 1 .. Len(c) : c[k] \in HandlesOf(c)
  BY DEF HandlesOf
<1>3. HandlesOf(c) \subseteq Handle /\ nullHandle \notin HandlesOf(c)
  BY <1>1 DEF HandlesOf
<1>4. Len(c) > 0 => 1 \in 1 .. Len(c)
  BY <1>1
<1>5. Len(c) > 0 => h = c[1] /\ h \in HandlesOf(c)
  BY <1>2, <1>4 DEF Path
<1>6. Len(c) = 0 => h = nullHandle
  BY DEF Path
<1>7. Len(c) = 0 \/ Len(c) > 0
  BY <1>1
<1> QED
  BY <1>2, <1>3, <1>5, <1>6, <1>7

\* What alloc returns.
LEMMA AllocIs ==
    ASSUME Chained
    PROVE  /\ available = 0 => alloc = nullHandle /\ \A i \in Handle : data[i] # NULL
           /\ available # 0 => alloc \in Handle /\ data[alloc] = NULL
<1> DEFINE free == {i \in Handle : data[i] = NULL}
           First(i) == data[i] = NULL /\ \A j \in 1 .. i - 1 : data[j] # NULL
<1>1. Capacity \in Nat /\ Handle \in SUBSET Nat
  BY PoolAssumption DEF Handle
<1>2. IsFiniteSet(free)
  <2>1. IsFiniteSet(Handle)
    BY <1>1, FS_Interval DEF Handle
  <2>2. free \in SUBSET Handle
    OBVIOUS
  <2> HIDE DEF free
  <2> QED
    BY <2>1, <2>2, FS_Subset
<1>3. available = 0 <=> free = {}
  <2>1. available = Cardinality(free)
    BY DEF available
  <2> HIDE DEF free
  <2> QED
    BY <1>2, <2>1, FS_EmptySet
<1>4. ASSUME free # {} PROVE \E i \in Handle : First(i)
  <2>1. free \in SUBSET Nat
    BY <1>1
  <2>2. PICK i \in free : \A j \in free : i <= j
    <3> HIDE DEF free
    <3> QED
      BY <1>4, <2>1, Least
  <2>3. \A j \in 1 .. i - 1 : j \in Handle /\ ~ (i <= j)
    BY <1>1, <2>2 DEF Handle
  <2> QED
    BY <2>2, <2>3
<1>5. ASSUME available # 0 PROVE alloc \in Handle /\ data[alloc] = NULL
  <2>1. alloc = CHOOSE i \in Handle : First(i)
    BY <1>5 DEF alloc
  <2>2. \E i \in Handle : First(i)
    BY <1>3, <1>4, <1>5
  <2>3. alloc \in Handle /\ First(alloc)
    <3> HIDE DEF First
    <3> QED
      BY <2>1, <2>2
  <2> QED
    BY <2>3
<1>6. available = 0 => alloc = nullHandle /\ \A i \in Handle : data[i] # NULL
  BY <1>3 DEF alloc
<1> QED
  BY <1>5, <1>6

\* With no handle free, a subscription is dropped.
LEMMA AddDropped ==
    ASSUME Chained, walks \in Seq(Walk), NEW e \in Event, NEW c \in Callback, add(e, c),
           available = 0
    PROVE  UNCHANGED vars
<1> DEFINE chain == Chain(e)
<1>1. alloc = nullHandle
  BY AllocIs
<1>2. chain = ChainBy(next, handle[e]) /\ Path(chain, handle[e], next)
  BY ChainIsBy DEF Chain, Chained, Linked
<1>3. \A i \in Handle : i # nullHandle
  BY DEF Handle, nullHandle
<1>4. data' = data
  <2>1. data' = [i \in Handle |-> IF i = nullHandle THEN c ELSE data[i]]
    BY <1>1 DEF add
  <2> QED
    BY <1>3, <2>1 DEF Chained, Linked
<1>5. next' = next
  <2>1. next' = [i \in Handle |->
                   IF i = nullHandle THEN nullHandle
                   ELSE IF chain # << >> /\ i = chain[Len(chain)] THEN nullHandle
                   ELSE next[i]]
    BY <1>1 DEF add
  <2>2. chain # << >> => next[chain[Len(chain)]] = nullHandle
    <3>1. chain # << >> => Len(chain) > 0
      BY <1>2 DEF Path
    <3> QED
      BY <1>2, <3>1 DEF Path
  <2> HIDE DEF chain
  <2>3. \A i \in Handle : next'[i] = next[i]
    BY <1>3, <2>1, <2>2
  <2> QED
    BY <2>1, <2>3 DEF Chained, Linked
<1>6. handle' = handle
  <2>1. handle' = [handle EXCEPT ![e] = IF @ = nullHandle THEN nullHandle ELSE @]
    BY <1>1 DEF add
  <2> QED
    BY <2>1 DEF Chained, Linked
<1>7. walks' = walks
  <2>1. walks' = [k \in DOMAIN walks |->
                    IF walks[k].event = e
                    THEN [walks[k] EXCEPT !.seen = @ \union ({nullHandle} \ {nullHandle})]
                    ELSE walks[k]]
    BY <1>1 DEF add
  <2>2. ASSUME NEW w \in Walk
        PROVE  [w EXCEPT !.seen = @ \union ({nullHandle} \ {nullHandle})] = w
    <3>1. w.seen \union ({nullHandle} \ {nullHandle}) = w.seen
      OBVIOUS
    <3>2. [w EXCEPT !.seen = w.seen] = w
      BY DEF Walk
    <3> QED
      BY <3>1, <3>2
  <2>3. /\ DOMAIN walks = 1 .. Len(walks) /\ walks = [k \in DOMAIN walks |-> walks[k]]
        /\ \A k \in DOMAIN walks : walks[k] \in Walk
    OBVIOUS
  <2> QED
    BY <2>1, <2>2, <2>3
<1> QED
  BY <1>4, <1>5, <1>6, <1>7 DEF vars

\* The chains of this state and of the next.
LEMMA ChainsBy ==
    \A e \in Event : /\ Chain(e) = ChainBy(next, handle[e])
                     /\ Chain(e)' = ChainBy(next', handle'[e])
BY DEF Chain, ChainFrom, ChainBy, Links, LinksBy

\* Handle i, which was free, is linked behind the last of e's.
Appends(e, c, i) ==
    /\ i \in Handle /\ data[i] = NULL
    /\ data' = [data EXCEPT ![i] = c]
    /\ next'[i] = nullHandle
    /\ \A j \in Handle \ {i} :
          next'[j] = IF Chain(e) # << >> /\ j = Chain(e)[Len(Chain(e))] THEN i ELSE next[j]
    /\ Chain(e)' = Append(Chain(e), i)
    /\ \A f \in Event \ {e} : Chain(f)' = Chain(f)
    /\ \A f \in Event \ {e} : On(next', handle'[f]) = On(next, handle[f])
    /\ On(next', handle'[e]) = On(next, handle[e]) \union {i}
    /\ walks' = [k \in DOMAIN walks |->
                    IF walks[k].event = e
                    THEN [walks[k] EXCEPT !.seen = @ \union ({i} \ {nullHandle})]
                    ELSE walks[k]]

\* A subscription that finds a handle.
LEMMA AddLinks ==
    ASSUME Chained, NEW e \in Event, NEW c \in Callback, add(e, c), available # 0
    PROVE  Chained' /\ Appends(e, c, alloc)
<1> DEFINE i == alloc
           chain == Chain(e)
           ch == [f \in Event |-> IF f = e THEN Append(chain, i) ELSE Chain(f)]
<1>1. i \in Handle /\ data[i] = NULL /\ i # nullHandle
  <2>1. \A j \in Handle : j # nullHandle
    BY DEF Handle, nullHandle
  <2> QED
    BY <2>1, AllocIs
<1>2. /\ data' = [j \in Handle |-> IF j = i THEN c ELSE data[j]]
      /\ next' = [j \in Handle |->
                     IF j = i THEN nullHandle
                     ELSE IF chain # << >> /\ j = chain[Len(chain)] THEN i
                     ELSE next[j]]
      /\ handle' = [handle EXCEPT ![e] = IF @ = nullHandle THEN i ELSE @]
      /\ walks' = [k \in DOMAIN walks |->
                    IF walks[k].event = e
                    THEN [walks[k] EXCEPT !.seen = @ \union ({i} \ {nullHandle})]
                    ELSE walks[k]]
  BY DEF add
<1>3. /\ \A f \in Event : /\ Chain(f) = ChainBy(next, handle[f])
                          /\ Path(Chain(f), handle[f], next)
                          /\ On(next, handle[f]) = HandlesOf(Chain(f))
                          /\ i \notin HandlesOf(Chain(f))
                          /\ HandlesOf(Chain(f)) \subseteq Handle
                          /\ \A j \in HandlesOf(Chain(f)) : data[j] # NULL
      /\ \A f, g \in Event :
            f # g => HandlesOf(Chain(f)) \intersect HandlesOf(Chain(g)) = {}
  BY <1>1, ChainsBy, PathHandles DEF Chained, Linked, On
<1> HIDE DEF i, chain
<1>4. /\ data' \in [Handle -> Callback \union {NULL}]
      /\ next' \in [Handle -> Handle \union {nullHandle}]
      /\ handle' \in [Event -> Handle \union {nullHandle}]
      /\ data' = [data EXCEPT ![i] = c]
  BY <1>1, <1>2 DEF Chained, Linked
<1>5. /\ next'[i] = nullHandle
      /\ \A j \in Handle \ {i} :
            next'[j] = IF chain # << >> /\ j = chain[Len(chain)] THEN i ELSE next[j]
  BY <1>1, <1>2
<1>6. /\ Path(chain, handle[e], next) /\ i \notin HandlesOf(chain)
      /\ HandlesOf(chain) \subseteq Handle
  BY <1>3 DEF chain
<1>7. Path(Append(chain, i), handle'[e], next')
      /\ HandlesOf(Append(chain, i)) = HandlesOf(chain) \union {i}
  <2>1. ASSUME NEW k \in 1 .. Len(chain)
        PROVE  next'[chain[k]] = IF k = Len(chain) THEN i ELSE next[chain[k]]
    <3>1. chain[k] \in Handle \ {i}
      BY <1>6, PathHandles
    <3>2. chain # << >> /\ Len(chain) \in 1 .. Len(chain)
      BY <1>6 DEF Path
    <3>3. chain[k] = chain[Len(chain)] => k = Len(chain)
      BY <1>6, <3>2 DEF Path
    <3> QED
      BY <1>5, <3>1, <3>2, <3>3
  <2>2. handle'[e] = IF handle[e] = nullHandle THEN i ELSE handle[e]
    BY <1>2 DEF Chained, Linked
  <2>3. (handle[e] = nullHandle) <=> (Len(chain) = 0)
    BY <1>6, PathHandles
  <2>4. handle'[e] = IF Len(chain) = 0 THEN i ELSE handle[e]
    BY <2>2, <2>3
  <2> QED
    BY <1>1, <1>5, <1>6, <2>1, <2>4, PathAppend
<1>8. ASSUME NEW f \in Event, f # e PROVE Path(Chain(f), handle'[f], next')
  <2>1. handle'[f] = handle[f]
    BY <1>2, <1>8 DEF Chained, Linked
  <2>2. chain # << >> => chain[Len(chain)] \in HandlesOf(chain)
    BY <1>6 DEF Path, HandlesOf
  <2>3. HandlesOf(chain) \intersect HandlesOf(Chain(f)) = {}
    BY <1>3, <1>8 DEF chain
  <2>4. \A j \in HandlesOf(Chain(f)) : next'[j] = next[j]
    BY <1>3, <1>5, <2>2, <2>3
  <2> QED
    BY <1>3, <2>1, <2>4, PathKept
<1>9. /\ \A f \in Event : Path(ch[f], handle'[f], next')
      /\ ch[e] = Append(chain, i)
      /\ \A f \in Event \ {e} : ch[f] = Chain(f)
  BY <1>7, <1>8
<1> HIDE DEF ch
<1>10. ASSUME NEW f \in Event, NEW j \in HandlesOf(ch[f])
       PROVE  data'[j] # NULL
  <2>1. c # NULL
    BY PoolAssumption
  <2>2. j = i \/ j \in HandlesOf(Chain(f))
    BY <1>7, <1>9, <1>10 DEF chain
  <2> QED
    BY <1>1, <1>2, <1>3, <2>1, <2>2
<1>11. \A f, g \in Event : f # g => HandlesOf(ch[f]) \intersect HandlesOf(ch[g]) = {}
  <2>1. \A f \in Event : /\ f # e => HandlesOf(ch[f]) = HandlesOf(Chain(f))
                         /\ f = e => HandlesOf(ch[f]) = HandlesOf(Chain(f)) \union {i}
    BY <1>7, <1>9 DEF chain
  <2> SUFFICES ASSUME NEW f \in Event, NEW g \in Event, f # g
               PROVE  HandlesOf(ch[f]) \intersect HandlesOf(ch[g]) = {}
    OBVIOUS
  <2>2. /\ HandlesOf(Chain(f)) \intersect HandlesOf(Chain(g)) = {}
        /\ i \notin HandlesOf(Chain(f)) /\ i \notin HandlesOf(Chain(g))
    BY <1>3
  <2>3. CASE f = e
    <3>1. /\ HandlesOf(ch[f]) = HandlesOf(Chain(f)) \union {i}
          /\ HandlesOf(ch[g]) = HandlesOf(Chain(g))
      BY <2>1, <2>3
    <3> QED
      BY <2>2, <3>1
  <2>4. CASE g = e
    <3>1. /\ HandlesOf(ch[g]) = HandlesOf(Chain(g)) \union {i}
          /\ HandlesOf(ch[f]) = HandlesOf(Chain(f))
      BY <2>1, <2>4
    <3> QED
      BY <2>2, <3>1
  <2>5. CASE f # e /\ g # e
    BY <2>1, <2>2, <2>5
  <2> QED
    BY <2>3, <2>4, <2>5
<1>12. Linked(data', next', handle') /\ \A f \in Event : ChainBy(next', handle'[f]) = ch[f]
  <2>1. \A f \in Event : Path(ch[f], handle'[f], next')
    BY <1>9
  <2>2. \A f \in Event : \A j \in HandlesOf(ch[f]) : data'[j] # NULL
    BY <1>10
  <2>3. /\ data' \in [Handle -> Callback \union {NULL}]
        /\ next' \in [Handle -> Handle \union {nullHandle}]
        /\ handle' \in [Event -> Handle \union {nullHandle}]
    BY <1>4
  <2> QED
    BY <1>11, <2>1, <2>2, <2>3, LinkedBy
<1>13. /\ \A f \in Event \ {e} : Chain(f)' = Chain(f)
       /\ Chain(e)' = Append(chain, i)
  BY <1>9, <1>12, ChainsBy
<1>14. /\ \A f \in Event \ {e} : On(next', handle'[f]) = On(next, handle[f])
       /\ On(next', handle'[e]) = On(next, handle[e]) \union {i}
  BY <1>3, <1>7, <1>9, <1>12 DEF On, chain
<1>15. Chained'
  BY <1>12 DEF Chained
<1> QED
  BY <1>1, <1>2, <1>4, <1>5, <1>13, <1>14, <1>15 DEF Appends, i, chain

\* What a walk meets is what it met before, and the new handle when it met the last.
LEMMA AddWalks ==
    ASSUME Chained, Walking, NEW e \in Event, NEW c \in Callback, NEW i, Appends(e, c, i)
    PROVE  Walking'
<1> DEFINE chain == Chain(e)
<1>1. /\ walks \in Seq(Walk) /\ DOMAIN walks = 1 .. Len(walks) /\ Len(walks) \in Nat
      /\ i \in Handle /\ i # nullHandle
  BY DEF Walking, Appends, Handle, nullHandle
<1>2. /\ Path(chain, handle[e], next) /\ On(next, handle[e]) = HandlesOf(chain)
      /\ Len(chain) \in Nat
  BY ChainsBy DEF Chained, Linked, On, Path
<1> HIDE DEF chain
<1>3. ASSUME NEW w \in Walk, Sound(w, data, next, handle), NEW v,
             v = IF w.event = e THEN [w EXCEPT !.seen = @ \union ({i} \ {nullHandle})] ELSE w
      PROVE  v \in Walk /\ Sound(v, data', next', handle')
  <2> DEFINE t == ChainBy(next, w.h)
  <2>1. /\ v \in Walk /\ v.event = w.event /\ v.h = w.h /\ v.called = w.called
        /\ v.pending = w.pending
        /\ v.seen = IF w.event = e THEN w.seen \union {i} ELSE w.seen
    <3>1. {i} \ {nullHandle} = {i} /\ w.seen \subseteq Handle /\ w.seen \union {i} \subseteq Handle
      BY <1>1 DEF Walk
    <3> DEFINE more == w.seen \union {i}
    <3>2. v = IF w.event = e THEN [w EXCEPT !.seen = more] ELSE w
      BY <1>3, <3>1
    <3>3. more \in SUBSET Handle
      BY <3>1
    <3> HIDE DEF more
    <3>4. CASE w.event = e
      <4>1. v = [w EXCEPT !.seen = more]
        BY <3>2, <3>4
      <4>2. /\ v \in Walk /\ v.event = w.event /\ v.h = w.h /\ v.called = w.called
            /\ v.pending = w.pending /\ v.seen = more
        BY <3>3, <4>1 DEF Walk
      <4> QED
        BY <3>4, <4>2 DEF more
    <3>5. CASE w.event # e
      BY <3>2, <3>5
    <3> QED
      BY <3>4, <3>5
  <2>2. Path(t, w.h, next) /\ HandlesOf(t) \subseteq Handle /\ Len(t) \in Nat
    <3>1. Path(t, w.h, next)
      BY <1>3 DEF Sound
    <3> HIDE DEF t
    <3>2. Len(t) \in Nat
      BY <3>1 DEF Path
    <3> QED
      BY <3>1, <3>2, PathHandles
  <2>3. /\ w.h \in w.called /\ w.called \subseteq w.seen
        /\ HandlesOf(t) \subseteq w.seen
        /\ \A j \in HandlesOf(t) : j \in w.called => j = w.h
        /\ w.pending \subseteq HandlesOf(t) \ {w.h}
        /\ \A j \in w.seen : data[j] # NULL
        /\ \A f \in Event \ {w.event} : w.seen \intersect On(next, handle[f]) = {}
    BY <1>3 DEF Sound, On
  <2>4. w.seen \subseteq Handle /\ w.h \in Handle /\ w.event \in Event
    BY DEF Walk
  <2> HIDE DEF t
  <2>5. i \notin w.seen
    BY <2>3 DEF Appends
  <2>6. \E u : /\ Path(u, w.h, next')
               /\ \/ HandlesOf(u) = HandlesOf(t)
                  \/ w.event = e /\ HandlesOf(u) = HandlesOf(t) \union {i}
    <3> DEFINE last == chain[Len(chain)]
    <3>1. CASE chain # << >> /\ last \in HandlesOf(t)
      <4>1. Len(chain) > 0 /\ last \in HandlesOf(chain) /\ next[last] = nullHandle
        BY <1>2, <3>1 DEF Path, HandlesOf
      <4>2. w.event = e
        BY <1>2, <2>3, <2>4, <3>1, <4>1
      <4>3. PICK n \in 1 .. Len(t) : last = t[n]
        BY <3>1 DEF HandlesOf
      <4>4. n = Len(t)
        <5>1. n < Len(t) => next[t[n]] = t[n + 1] /\ n + 1 \in 1 .. Len(t)
          BY <2>2 DEF Path
        <5>2. \A k \in 1 .. Len(t) : t[k] # nullHandle
          BY <2>2, PathHandles
        <5> QED
          BY <2>2, <4>1, <4>3, <5>1, <5>2
      <4>5. ASSUME NEW k \in 1 .. Len(t)
            PROVE  next'[t[k]] = IF k = Len(t) THEN i ELSE next[t[k]]
        <5>1. t[k] \in Handle \ {i}
          BY <2>2, <2>3, <2>5, PathHandles
        <5>2. t[k] = last <=> k = Len(t)
          BY <2>2, <4>3, <4>4 DEF Path
        <5> HIDE DEF last
        <5>3. next'[t[k]] = IF t[k] = last THEN i ELSE next[t[k]]
          BY <3>1, <5>1 DEF Appends, chain, last
        <5> QED
          BY <5>2, <5>3
      <4>6. next'[i] = nullHandle /\ i \notin HandlesOf(t)
        BY <2>3, <2>5 DEF Appends
      <4>7. Len(t) > 0
        BY <2>2, <4>3
      <4>8. w.h = IF Len(t) = 0 THEN i ELSE w.h
        BY <4>7
      <4>9. /\ Path(Append(t, i), w.h, next')
            /\ HandlesOf(Append(t, i)) = HandlesOf(t) \union {i}
        BY <1>1, <2>2, <4>5, <4>6, <4>8, PathAppend
      <4> QED
        BY <4>2, <4>9
    <3>2. CASE ~ (chain # << >> /\ last \in HandlesOf(t))
      <4>1. \A j \in HandlesOf(t) : next'[j] = next[j]
        BY <2>2, <2>3, <2>5, <3>2 DEF Appends, chain
      <4> QED
        BY <2>2, <4>1, PathKept
    <3> QED
      BY <3>1, <3>2
  <2>7. PICK u : /\ Path(u, w.h, next')
                 /\ \/ HandlesOf(u) = HandlesOf(t)
                    \/ w.event = e /\ HandlesOf(u) = HandlesOf(t) \union {i}
    BY <2>6
  <2>8. ChainBy(next', w.h) = u
    BY <2>7, ChainIsPath
  <2>9. \A j \in v.seen : data'[j] # NULL
    <3>1. c # NULL
      BY PoolAssumption
    <3>2. \A j \in Handle : data'[j] = IF j = i THEN c ELSE data[j]
      BY DEF Appends, Chained, Linked
    <3> QED
      BY <1>1, <2>1, <2>3, <2>4, <3>1, <3>2
  <2>10. ASSUME NEW f \in Event \ {v.event}
         PROVE  v.seen \intersect On(next', handle'[f]) = {}
    <3>1. w.seen \intersect On(next, handle[f]) = {}
      BY <2>1, <2>3
    <3>2. CASE f = e
      <4>1. v.seen = w.seen /\ On(next', handle'[f]) = On(next, handle[f]) \union {i}
        BY <2>1, <3>2 DEF Appends
      <4> QED
        BY <2>5, <3>1, <4>1
    <3>3. CASE f # e
      <4>1. On(next', handle'[f]) = On(next, handle[f])
        BY <3>3 DEF Appends
      <4>2. i \notin On(next, handle[f])
        BY DEF Appends, Chained, Linked
      <4> QED
        BY <2>1, <3>1, <4>1, <4>2
    <3> QED
      BY <3>2, <3>3
  <2>11. /\ HandlesOf(u) \subseteq v.seen
         /\ \A j \in HandlesOf(u) : j \in v.called => j = v.h
         /\ v.pending \subseteq HandlesOf(u) \ {v.h}
         /\ v.h \in v.called /\ v.called \subseteq v.seen
    BY <2>1, <2>3, <2>5, <2>7
  <2> QED
    BY <2>1, <2>7, <2>8, <2>9, <2>10, <2>11 DEF Sound, On
<1>4. /\ DOMAIN walks' = 1 .. Len(walks)
      /\ \A k \in 1 .. Len(walks) : /\ walks'[k] \in Walk
                                    /\ Sound(walks'[k], data', next', handle')
  <2>1. walks' = [k \in 1 .. Len(walks) |->
                    IF walks[k].event = e
                    THEN [walks[k] EXCEPT !.seen = @ \union ({i} \ {nullHandle})]
                    ELSE walks[k]]
    BY <1>1 DEF Appends
  <2>2. ASSUME NEW k \in 1 .. Len(walks)
        PROVE  walks'[k] \in Walk /\ Sound(walks'[k], data', next', handle')
    <3>1. walks[k] \in Walk /\ Sound(walks[k], data, next, handle)
      BY DEF Walking
    <3>2. walks'[k] = IF walks[k].event = e
                      THEN [walks[k] EXCEPT !.seen = @ \union ({i} \ {nullHandle})]
                      ELSE walks[k]
      BY <2>1
    <3> QED
      BY <1>3, <3>1, <3>2
  <2> QED
    BY <2>1, <2>2
<1>5. walks' \in Seq(Walk) /\ Len(walks') = Len(walks)
  <2>1. walks' = [k \in 1 .. Len(walks) |-> walks'[k]]
    BY <1>1 DEF Appends
  <2> QED
    BY <1>1, <1>4, <2>1
<1> QED
  BY <1>4, <1>5 DEF Walking

\* What FirstMatch returns.
LEMMA FirstMatchIs ==
    ASSUME NEW s \in Seq(Handle), NEW c, \E i \in HandlesOf(s) : data[i] = c
    PROVE  /\ FirstMatch(s, c) \in 1 .. Len(s) /\ data[s[FirstMatch(s, c)]] = c
           /\ \A j \in 1 .. FirstMatch(s, c) - 1 : data[s[j]] # c
<1> DEFINE D == 1 .. Len(s)
           M == {k \in D : data[s[k]] = c}
           First(k) == data[s[k]] = c /\ \A j \in 1 .. k - 1 : data[s[j]] # c
<1>1. M \in SUBSET Nat /\ M # {} /\ Len(s) \in Nat
  BY DEF HandlesOf
<1>2. PICK k \in M : \A j \in M : k <= j
  <2> HIDE DEF M
  <2> QED
    BY <1>1, Least
<1>3. \A j \in 1 .. k - 1 : j \in D /\ ~ (k <= j)
  BY <1>1, <1>2
<1>4. k \in D /\ First(k)
  BY <1>2, <1>3
<1>5. FirstMatch(s, c) = CHOOSE l \in D : First(l)
  BY DEF FirstMatch
<1> HIDE DEF First, D
<1>6. FirstMatch(s, c) \in D /\ First(FirstMatch(s, c))
  BY <1>4, <1>5
<1> QED
  BY <1>6 DEF First, D

\* The k-th handle of e's chain, whose callback is c, leaves it.
Leaves(e, c, k) ==
    /\ k \in 1 .. Len(Chain(e)) /\ data[Chain(e)[k]] = c
    /\ \A j \in 1 .. k - 1 : data[Chain(e)[j]] # c
    /\ data' = data
    /\ next' = IF k = 1 THEN next
               ELSE [next EXCEPT ![Chain(e)[k - 1]] = next[Chain(e)[k]]]
    /\ Chain(e)' = Without(Chain(e), k)
    /\ \A f \in Event \ {e} : Chain(f)' = Chain(f)
    /\ \A f \in Event : On(next', handle'[f]) \subseteq On(next, handle[f])
    /\ Forget(e, Chain(e)[k])

\* A callback unsubscribes.
LEMMA RemoveLinks ==
    ASSUME Chained, NEW e \in Event, NEW c \in Callback, remove(e, c)
    PROVE  Chained' /\ \E k \in 1 .. Len(Chain(e)) : Leaves(e, c, k)
<1> DEFINE chain == Chain(e)
           k == FirstMatch(chain, c)
           i == chain[k]
           ch == [f \in Event |-> IF f = e THEN Without(chain, k) ELSE Chain(f)]
<1>1. /\ \A f \in Event : /\ Chain(f) = ChainBy(next, handle[f])
                          /\ Path(Chain(f), handle[f], next)
                          /\ On(next, handle[f]) = HandlesOf(Chain(f))
                          /\ HandlesOf(Chain(f)) \subseteq Handle
                          /\ \A j \in HandlesOf(Chain(f)) : data[j] # NULL
      /\ \A f, g \in Event :
            f # g => HandlesOf(Chain(f)) \intersect HandlesOf(Chain(g)) = {}
  BY ChainsBy, PathHandles DEF Chained, Linked, On
<1>2. chain \in Seq(Handle) /\ Len(chain) \in Nat /\ Path(chain, handle[e], next)
  BY <1>1 DEF Path
<1>3. /\ k \in 1 .. Len(chain) /\ data[i] = c /\ \A j \in 1 .. k - 1 : data[chain[j]] # c
  <2>1. \E j \in HandlesOf(chain) : data[j] = c
    BY DEF remove
  <2> HIDE DEF chain
  <2> QED
    BY <1>2, <2>1, FirstMatchIs
<1>4. /\ data' = data
      /\ k = 1 => next' = next /\ handle' = [handle EXCEPT ![e] = next[i]]
      /\ k # 1 => /\ next' = [next EXCEPT ![chain[k - 1]] = next[i]]
                  /\ handle' = handle
      /\ Forget(e, i)
  BY DEF remove
<1> HIDE DEF k, chain
<1>5. /\ i \in Handle /\ i \in HandlesOf(chain) /\ next[i] \in Handle \union {nullHandle}
      /\ k # 1 => /\ k - 1 \in 1 .. Len(chain) /\ k \in 2 .. Len(chain)
                  /\ chain[k - 1] \in Handle /\ chain[k - 1] \in HandlesOf(chain)
  <2>1. \A j \in 1 .. Len(chain) : chain[j] \in HandlesOf(chain) /\ chain[j] \in Handle
    BY <1>2, PathHandles
  <2>2. k # 1 => k - 1 \in 1 .. Len(chain) /\ k \in 2 .. Len(chain)
    BY <1>2, <1>3
  <2> QED
    BY <1>3, <2>1, <2>2 DEF Chained, Linked
<1> HIDE DEF i
<1>6. /\ data' \in [Handle -> Callback \union {NULL}]
      /\ next' \in [Handle -> Handle \union {nullHandle}]
      /\ handle' \in [Event -> Handle \union {nullHandle}]
  BY <1>4, <1>5 DEF Chained, Linked
<1>7. Path(Without(chain, k), handle'[e], next')
  <2>1. CASE k = 1
    <3>1. handle[e] \in Handle /\ handle[e] = i
      BY <1>2, <1>3, <1>5, <2>1 DEF Path, i
    <3>2. handle'[e] = next[i] /\ next' = next
      BY <1>4, <2>1 DEF Chained, Linked
    <3> QED
      BY <1>2, <2>1, <3>1, <3>2, PathBehind
  <2>2. CASE k # 1
    <3>1. handle'[e] = handle[e]
      BY <1>4, <2>2
    <3>2. /\ next'[chain[k - 1]] = next[chain[k]]
          /\ \A j \in HandlesOf(chain) \ {chain[k - 1]} : next'[j] = next[j]
      BY <1>1, <1>4, <1>5, <2>2 DEF Chained, Linked, chain, i
    <3> QED
      BY <1>2, <1>5, <2>2, <3>1, <3>2, PathWithout
  <2> QED
    BY <2>1, <2>2
<1>8. HandlesOf(Without(chain, k)) = HandlesOf(chain) \ {i}
  BY <1>2, <1>3, WithoutIs DEF i
<1>9. ASSUME NEW f \in Event, f # e PROVE Path(Chain(f), handle'[f], next')
  <2>1. handle'[f] = handle[f]
    BY <1>4, <1>9 DEF Chained, Linked
  <2>2. HandlesOf(chain) \intersect HandlesOf(Chain(f)) = {}
    BY <1>1, <1>9 DEF chain
  <2>3. \A j \in HandlesOf(Chain(f)) : next'[j] = next[j]
    BY <1>1, <1>4, <1>5, <2>2 DEF Chained, Linked
  <2> QED
    BY <1>1, <2>1, <2>3, PathKept
<1>10. /\ \A f \in Event : Path(ch[f], handle'[f], next')
       /\ ch[e] = Without(chain, k)
       /\ \A f \in Event \ {e} : ch[f] = Chain(f)
  BY <1>7, <1>9
<1> HIDE DEF ch
<1>11. \A f \in Event : HandlesOf(ch[f]) \subseteq HandlesOf(Chain(f))
  BY <1>8, <1>10 DEF chain
<1>12. /\ \A f \in Event : \A j \in HandlesOf(ch[f]) : data'[j] # NULL
       /\ \A f, g \in Event : f # g => HandlesOf(ch[f]) \intersect HandlesOf(ch[g]) = {}
  <2>1. \A f \in Event : \A j \in HandlesOf(ch[f]) : data'[j] # NULL
    BY <1>1, <1>4, <1>11
  <2>2. ASSUME NEW f \in Event, NEW g \in Event, f # g
        PROVE  HandlesOf(ch[f]) \intersect HandlesOf(ch[g]) = {}
    <3>1. /\ HandlesOf(Chain(f)) \intersect HandlesOf(Chain(g)) = {}
          /\ HandlesOf(ch[f]) \subseteq HandlesOf(Chain(f))
          /\ HandlesOf(ch[g]) \subseteq HandlesOf(Chain(g))
      BY <1>1, <1>11, <2>2
    <3> QED
      BY <3>1
  <2> QED
    BY <2>1, <2>2
<1>13. Linked(data', next', handle') /\ \A f \in Event : ChainBy(next', handle'[f]) = ch[f]
  <2>1. \A f \in Event : Path(ch[f], handle'[f], next')
    BY <1>10
  <2> QED
    BY <1>6, <1>12, <2>1, LinkedBy
<1>14. /\ \A f \in Event \ {e} : Chain(f)' = Chain(f)
       /\ Chain(e)' = Without(chain, k)
       /\ \A f \in Event : On(next', handle'[f]) \subseteq On(next, handle[f])
  BY <1>1, <1>10, <1>11, <1>13, ChainsBy DEF On
<1>15. Chained'
  BY <1>13 DEF Chained
<1>16. next' = IF k = 1 THEN next ELSE [next EXCEPT ![chain[k - 1]] = next[chain[k]]]
  BY <1>4 DEF i
<1> QED
  BY <1>3, <1>4, <1>14, <1>15, <1>16 DEF Leaves, i, chain

\* A walk meets what it met before, except for the handle that left.
LEMMA RemoveWalks ==
    ASSUME Chained, Walking, NEW e \in Event, NEW c, NEW k, Leaves(e, c, k)
    PROVE  Walking'
<1> DEFINE chain == Chain(e)
           i == chain[k]
           p == chain[k - 1]
<1>1. /\ walks \in Seq(Walk) /\ DOMAIN walks = 1 .. Len(walks) /\ Len(walks) \in Nat
  BY DEF Walking
<1>2. /\ Path(chain, handle[e], next) /\ On(next, handle[e]) = HandlesOf(chain)
      /\ Len(chain) \in Nat
  BY ChainsBy DEF Chained, Linked, On, Path
<1>3. /\ k \in 1 .. Len(chain) /\ data' = data
      /\ next' = IF k = 1 THEN next ELSE [next EXCEPT ![p] = next[i]]
  BY DEF Leaves
<1> HIDE DEF chain
<1>4. /\ i \in HandlesOf(chain) /\ i \in Handle
      /\ k # 1 => /\ p \in HandlesOf(chain) /\ p \in Handle /\ next[p] = i
  <2>1. \A j \in 1 .. Len(chain) : chain[j] \in HandlesOf(chain) /\ chain[j] \in Handle
    BY <1>2, PathHandles
  <2>2. k # 1 => k - 1 \in 1 .. Len(chain) /\ k - 1 < Len(chain) /\ (k - 1) + 1 = k
    BY <1>2, <1>3
  <2>3. k # 1 => next[p] = i
    BY <1>2, <2>2 DEF Path
  <2> QED
    BY <1>3, <2>1, <2>2, <2>3
<1> HIDE DEF i, p
<1>5. \A j \in Handle : next'[j] = IF k # 1 /\ j = p THEN next[i] ELSE next[j]
  BY <1>3, <1>4 DEF Chained, Linked
<1>6. ASSUME NEW w \in Walk, Sound(w, data, next, handle), NEW v,
             v = IF w.event = e THEN [w EXCEPT !.pending = @ \ {i}] ELSE w
      PROVE  v \in Walk /\ Sound(v, data', next', handle')
  <2> DEFINE t == ChainBy(next, w.h)
  <2>1. /\ v \in Walk /\ v.event = w.event /\ v.h = w.h /\ v.called = w.called
        /\ v.seen = w.seen
        /\ v.pending = IF w.event = e THEN w.pending \ {i} ELSE w.pending
    <3> DEFINE rest == w.pending \ {i}
    <3>1. rest \in SUBSET Handle
      BY DEF Walk
    <3>2. v = IF w.event = e THEN [w EXCEPT !.pending = rest] ELSE w
      BY <1>6
    <3> HIDE DEF rest
    <3>3. CASE w.event = e
      <4>1. v = [w EXCEPT !.pending = rest]
        BY <3>2, <3>3
      <4>2. /\ v \in Walk /\ v.event = w.event /\ v.h = w.h /\ v.called = w.called
            /\ v.seen = w.seen /\ v.pending = rest
        BY <3>1, <4>1 DEF Walk
      <4> QED
        BY <3>3, <4>2 DEF rest
    <3>4. CASE w.event # e
      BY <3>2, <3>4
    <3> QED
      BY <3>3, <3>4
  <2>2. Path(t, w.h, next) /\ HandlesOf(t) \subseteq Handle /\ Len(t) \in Nat
    <3>1. Path(t, w.h, next)
      BY <1>6 DEF Sound
    <3> HIDE DEF t
    <3>2. Len(t) \in Nat
      BY <3>1 DEF Path
    <3> QED
      BY <3>1, <3>2, PathHandles
  <2>3. /\ w.h \in w.called /\ w.called \subseteq w.seen
        /\ HandlesOf(t) \subseteq w.seen
        /\ \A j \in HandlesOf(t) : j \in w.called => j = w.h
        /\ w.pending \subseteq HandlesOf(t) \ {w.h}
        /\ \A j \in w.seen : data[j] # NULL
        /\ \A f \in Event \ {w.event} : w.seen \intersect On(next, handle[f]) = {}
    BY <1>6 DEF Sound, On
  <2>4. w.seen \subseteq Handle /\ w.h \in Handle /\ w.event \in Event
    BY DEF Walk
  <2> HIDE DEF t
  <2>5. w.event # e => i \notin HandlesOf(t)
    BY <1>2, <1>4, <2>3, <2>4
  <2>6. \E u : /\ Path(u, w.h, next')
               /\ HandlesOf(t) \ {i} \subseteq HandlesOf(u)
               /\ HandlesOf(u) \subseteq HandlesOf(t)
    <3>1. CASE k # 1 /\ p \in HandlesOf(t)
      <4>1. PICK n \in 1 .. Len(t) : p = t[n]
        BY <3>1 DEF HandlesOf
      <4>2. n < Len(t) /\ t[n + 1] = i
        <5>1. i # nullHandle
          BY <1>4 DEF Handle, nullHandle
        <5> QED
          BY <1>4, <2>2, <3>1, <4>1, <5>1 DEF Path
      <4> DEFINE j == n + 1
      <4>3. j \in 2 .. Len(t) /\ j \in 1 .. Len(t) /\ j - 1 = n
        BY <2>2, <4>2
      <4>4. next'[t[j - 1]] = next[t[j]]
        BY <1>4, <1>5, <3>1, <4>1, <4>2, <4>3
      <4>5. \A l \in HandlesOf(t) \ {t[j - 1]} : next'[l] = next[l]
        BY <1>5, <2>2, <4>1, <4>3
      <4>6. t[j] = i
        BY <4>2
      <4> HIDE DEF j
      <4>7. Path(Without(t, j), w.h, next')
        BY <2>2, <4>3, <4>4, <4>5, PathWithout
      <4>8. HandlesOf(Without(t, j)) = HandlesOf(t) \ {i}
        BY <2>2, <4>3, <4>6, WithoutIs
      <4> QED
        BY <4>7, <4>8
    <3>2. CASE ~ (k # 1 /\ p \in HandlesOf(t))
      <4>1. \A j \in HandlesOf(t) : next'[j] = next[j]
        BY <1>5, <2>2, <3>2
      <4> QED
        BY <2>2, <4>1, PathKept
    <3> QED
      BY <3>1, <3>2
  <2>7. PICK u : /\ Path(u, w.h, next')
                 /\ HandlesOf(t) \ {i} \subseteq HandlesOf(u)
                 /\ HandlesOf(u) \subseteq HandlesOf(t)
    BY <2>6
  <2>8. ChainBy(next', w.h) = u
    BY <2>7, ChainIsPath
  <2>9. ASSUME NEW f \in Event \ {v.event}
        PROVE  v.seen \intersect On(next', handle'[f]) = {}
    BY <2>1, <2>3 DEF Leaves
  <2>10. v.pending \subseteq HandlesOf(u) \ {v.h}
    BY <2>1, <2>3, <2>5, <2>7
  <2>11. /\ HandlesOf(u) \subseteq v.seen
         /\ \A j \in HandlesOf(u) : j \in v.called => j = v.h
         /\ v.h \in v.called /\ v.called \subseteq v.seen
         /\ \A j \in v.seen : data'[j] # NULL
    BY <1>3, <2>1, <2>3, <2>7
  <2> QED
    BY <2>1, <2>7, <2>8, <2>9, <2>10, <2>11 DEF Sound, On
<1>7. walks' = [l \in 1 .. Len(walks) |->
                  IF walks[l].event = e THEN [walks[l] EXCEPT !.pending = @ \ {i}]
                  ELSE walks[l]]
  BY <1>1 DEF Leaves, Forget, i, chain
<1>8. ASSUME NEW l \in 1 .. Len(walks)
      PROVE  walks'[l] \in Walk /\ Sound(walks'[l], data', next', handle')
  <2>1. walks[l] \in Walk /\ Sound(walks[l], data, next, handle)
    BY DEF Walking
  <2>2. walks'[l] = IF walks[l].event = e THEN [walks[l] EXCEPT !.pending = @ \ {i}]
                    ELSE walks[l]
    BY <1>7
  <2> QED
    BY <1>6, <2>1, <2>2
<1>9. walks' \in Seq(Walk) /\ Len(walks') = Len(walks)
  <2>1. DOMAIN walks' = 1 .. Len(walks) /\ walks' = [l \in 1 .. Len(walks) |-> walks'[l]]
    BY <1>7
  <2> QED
    BY <1>1, <1>8, <2>1
<1> QED
  BY <1>8, <1>9 DEF Walking

\* The handles of e are freed, and the other chains stay as they are.
Frees(e) ==
    /\ data' = [i \in Handle |-> IF i \in HandlesOf(Chain(e)) THEN NULL ELSE data[i]]
    /\ \A i \in Handle \ HandlesOf(Chain(e)) : next'[i] = next[i]
    /\ Chain(e)' = << >>
    /\ \A f \in Event \ {e} : Chain(f)' = Chain(f)
    /\ \A f \in Event : On(next', handle'[f]) \subseteq On(next, handle[f])
    /\ \A k \in DOMAIN walks : walks[k].event # e
    /\ walks' = walks

\* An event is cleared.
LEMMA ClearLinks ==
    ASSUME Chained, NEW e \in Event, clear(e)
    PROVE  Chained' /\ Frees(e)
<1> DEFINE chain == Chain(e)
           ch == [f \in Event |-> IF f = e THEN << >> ELSE Chain(f)]
<1>1. /\ \A f \in Event : /\ Chain(f) = ChainBy(next, handle[f])
                          /\ Path(Chain(f), handle[f], next)
                          /\ On(next, handle[f]) = HandlesOf(Chain(f))
                          /\ HandlesOf(Chain(f)) \subseteq Handle
                          /\ \A j \in HandlesOf(Chain(f)) : data[j] # NULL
      /\ \A f, g \in Event :
            f # g => HandlesOf(Chain(f)) \intersect HandlesOf(Chain(g)) = {}
  BY ChainsBy, PathHandles DEF Chained, Linked, On
<1>2. /\ data' = [i \in Handle |-> IF i \in HandlesOf(chain) THEN NULL ELSE data[i]]
      /\ next' = [i \in Handle |-> IF i \in HandlesOf(chain) THEN nullHandle ELSE next[i]]
      /\ handle' = [handle EXCEPT ![e] = nullHandle]
      /\ walks' = walks /\ \A k \in DOMAIN walks : walks[k].event # e
  BY DEF clear
<1> HIDE DEF chain
<1>3. /\ data' \in [Handle -> Callback \union {NULL}]
      /\ next' \in [Handle -> Handle \union {nullHandle}]
      /\ handle' \in [Event -> Handle \union {nullHandle}]
  BY <1>2 DEF Chained, Linked
<1>4. handle'[e] = nullHandle /\ \A f \in Event \ {e} : handle'[f] = handle[f]
  BY <1>2 DEF Chained, Linked
<1>5. Path(<< >>, handle'[e], next') /\ HandlesOf(<< >>) = {}
  BY <1>4 DEF Path, HandlesOf
<1>6. ASSUME NEW f \in Event, f # e PROVE Path(Chain(f), handle'[f], next')
  <2>1. HandlesOf(chain) \intersect HandlesOf(Chain(f)) = {}
    BY <1>1, <1>6 DEF chain
  <2>2. \A j \in HandlesOf(Chain(f)) : next'[j] = next[j]
    BY <1>1, <1>2, <2>1
  <2> QED
    BY <1>1, <1>4, <1>6, <2>2, PathKept
<1>7. /\ \A f \in Event : Path(ch[f], handle'[f], next')
      /\ ch[e] = << >>
      /\ \A f \in Event \ {e} : ch[f] = Chain(f)
  BY <1>5, <1>6
<1> HIDE DEF ch
<1>8. \A f \in Event : HandlesOf(ch[f]) \subseteq HandlesOf(Chain(f))
  BY <1>5, <1>7
<1>9. ASSUME NEW f \in Event, NEW j \in HandlesOf(ch[f]) PROVE data'[j] # NULL
  <2>1. f # e
    BY <1>5, <1>7
  <2>2. j \in HandlesOf(Chain(f)) /\ j \notin HandlesOf(chain)
    BY <1>1, <1>7, <2>1 DEF chain
  <2> QED
    BY <1>1, <1>2, <2>2
<1>10. ASSUME NEW f \in Event, NEW g \in Event, f # g
       PROVE  HandlesOf(ch[f]) \intersect HandlesOf(ch[g]) = {}
  <2>1. /\ HandlesOf(Chain(f)) \intersect HandlesOf(Chain(g)) = {}
        /\ HandlesOf(ch[f]) \subseteq HandlesOf(Chain(f))
        /\ HandlesOf(ch[g]) \subseteq HandlesOf(Chain(g))
    BY <1>1, <1>8, <1>10
  <2> QED
    BY <2>1
<1>11. Linked(data', next', handle') /\ \A f \in Event : ChainBy(next', handle'[f]) = ch[f]
  <2>1. /\ \A f \in Event : Path(ch[f], handle'[f], next')
        /\ \A f \in Event : \A j \in HandlesOf(ch[f]) : data'[j] # NULL
        /\ \A f, g \in Event : f # g => HandlesOf(ch[f]) \intersect HandlesOf(ch[g]) = {}
    BY <1>7, <1>9, <1>10
  <2> QED
    BY <1>3, <2>1, LinkedBy
<1>12. /\ \A f \in Event \ {e} : Chain(f)' = Chain(f)
       /\ Chain(e)' = << >>
       /\ \A f \in Event : On(next', handle'[f]) \subseteq On(next, handle[f])
  BY <1>1, <1>7, <1>8, <1>11, ChainsBy DEF On
<1>13. Chained'
  BY <1>11 DEF Chained
<1> QED
  BY <1>2, <1>12, <1>13 DEF Frees, chain

\* No walk meets a handle that is freed.
LEMMA ClearWalks ==
    ASSUME Chained, Walking, NEW e \in Event, Frees(e)
    PROVE  Walking'
<1>1. /\ walks \in Seq(Walk) /\ DOMAIN walks = 1 .. Len(walks) /\ walks' = walks
  BY DEF Walking, Frees
<1>2. ASSUME NEW w \in Walk, Sound(w, data, next, handle), w.event # e
      PROVE  Sound(w, data', next', handle')
  <2> DEFINE t == ChainBy(next, w.h)
  <2>1. Path(t, w.h, next)
    BY <1>2 DEF Sound
  <2>2. /\ w.h \in w.called /\ w.called \subseteq w.seen
        /\ HandlesOf(t) \subseteq w.seen
        /\ \A j \in HandlesOf(t) : j \in w.called => j = w.h
        /\ w.pending \subseteq HandlesOf(t) \ {w.h}
        /\ \A j \in w.seen : data[j] # NULL
        /\ \A f \in Event \ {w.event} : w.seen \intersect On(next, handle[f]) = {}
    BY <1>2 DEF Sound, On
  <2> HIDE DEF t
  <2>3. \A j \in w.seen : j \in Handle /\ j \notin HandlesOf(Chain(e))
    BY <1>2, <2>2, ChainsBy DEF Walk, On
  <2>4. /\ \A j \in w.seen : data'[j] # NULL
        /\ \A j \in HandlesOf(t) : next'[j] = next[j]
    BY <2>2, <2>3 DEF Frees
  <2>5. Path(t, w.h, next')
    BY <2>1, <2>4, PathKept
  <2>6. ChainBy(next', w.h) = t
    BY <2>5, ChainIsPath
  <2>7. ASSUME NEW f \in Event \ {w.event}
        PROVE  w.seen \intersect On(next', handle'[f]) = {}
    BY <2>2 DEF Frees
  <2> QED
    BY <2>2, <2>4, <2>5, <2>6, <2>7 DEF Sound, On
<1>3. \A k \in 1 .. Len(walks) : walks[k] \in Walk /\ walks[k].event # e
  BY <1>1 DEF Frees
<1>4. \A k \in 1 .. Len(walks) : Sound(walks[k], data', next', handle')
  BY <1>2, <1>3 DEF Walking
<1> QED
  BY <1>1, <1>4 DEF Walking

\* A walk begins on the chain of its event.
LEMMA InvokeWalks ==
    ASSUME Chained, Walking, NEW e \in Event, invoke(e)
    PROVE  Chained' /\ Walking'
<1> DEFINE h == handle[e]
           H == HandlesOf(Chain(e))
           w == [event |-> e, h |-> h, called |-> {h}, seen |-> H, pending |-> H \ {h}]
<1>1. /\ UNCHANGED <<data, next, handle>> /\ walks' = Append(walks, w) /\ h # nullHandle
  BY DEF invoke
<1>2. /\ Chain(e) = ChainBy(next, h) /\ Path(Chain(e), h, next)
      /\ \A i \in H : data[i] # NULL
      /\ \A f \in Event \ {e} : H \intersect On(next, handle[f]) = {}
  BY ChainsBy DEF Chained, Linked, On
<1>3. H \subseteq Handle /\ h \in H
  BY <1>1, <1>2, PathHandles
<1>4. On(next, h) = H
  BY <1>2 DEF On
<1>5. walks \in Seq(Walk) /\ Len(walks) \in Nat
  BY DEF Walking
<1> HIDE DEF h, H
<1>6. /\ w \in Walk /\ w.event = e /\ w.h = h /\ w.called = {h} /\ w.seen = H
      /\ w.pending = H \ {h}
  BY <1>3 DEF Walk
<1> HIDE DEF w
<1>7. Sound(w, data, next, handle)
  BY <1>2, <1>3, <1>4, <1>6 DEF Sound
<1>8. /\ walks' \in Seq(Walk) /\ Len(walks') = Len(walks) + 1
      /\ walks'[Len(walks) + 1] = w
      /\ \A k \in 1 .. Len(walks) : walks'[k] = walks[k]
  BY <1>1, <1>5, <1>6
<1>9. ASSUME NEW k \in 1 .. Len(walks') PROVE Sound(walks'[k], data, next, handle)
  <2>1. k = Len(walks) + 1 \/ k \in 1 .. Len(walks)
    BY <1>5, <1>8
  <2> QED
    BY <1>7, <1>8, <2>1 DEF Walking
<1> QED
  BY <1>1, <1>8, <1>9 DEF Chained, Walking

\* A walk goes on, or ends.
LEMMA NextWalks ==
    ASSUME Chained, Walking, invokeNext
    PROVE  Chained' /\ Walking'
<1> DEFINE n == Len(walks)
           w == walks[n]
           h == next[w.h]
<1>1. /\ UNCHANGED <<data, next, handle>> /\ walks # << >>
      /\ h = nullHandle => walks' = SubSeq(walks, 1, n - 1)
      /\ h # nullHandle => walks' = [walks EXCEPT ![n].h = h,
                                                  ![n].called = @ \union {h},
                                                  ![n].pending = @ \ {h}]
  BY DEF invokeNext
<1>2. walks \in Seq(Walk) /\ n \in Nat \ {0} /\ n \in 1 .. n
  BY <1>1 DEF Walking
<1>3. w \in Walk /\ Sound(w, data, next, handle)
  BY <1>2 DEF Walking
<1>4. Chained'
  BY <1>1 DEF Chained
<1> HIDE DEF w, h
<1>5. CASE h = nullHandle
  <2> DEFINE m == n - 1
             s == SubSeq(walks, 1, m)
  <2>1. m \in Nat /\ m \in Int /\ 1 \in Int /\ m <= n /\ m < n
    BY <1>2
  <2>2. \A k \in 1 .. m : walks[k] \in Walk
    BY <1>2
  <2> HIDE DEF m
  <2>3. /\ s \in Seq(Walk) /\ Len(s) = (IF 1 <= m THEN m - 1 + 1 ELSE 0)
        /\ \A k \in 1 .. m - 1 + 1 : s[k] = walks[1 + k - 1]
    BY <2>1, <2>2, SubSeqProperties
  <2> HIDE DEF s
  <2>4. Len(s) = m /\ \A k \in 1 .. m : s[k] = walks[k]
    BY <2>1, <2>3
  <2>5. walks' = s
    BY <1>1, <1>5 DEF s, m
  <2>6. \A k \in 1 .. m : k \in 1 .. n
    BY <1>2, <2>1
  <2>7. \A k \in 1 .. m : Sound(s[k], data, next, handle)
    BY <2>4, <2>6 DEF Walking
  <2> QED
    BY <1>1, <1>4, <2>3, <2>4, <2>5, <2>7 DEF Walking
<1>6. CASE h # nullHandle
  <2> DEFINE C == w.called \union {h}
             P == w.pending \ {h}
             v == [event |-> w.event, h |-> h, called |-> C, seen |-> w.seen,
                   pending |-> P]
             t == ChainBy(next, w.h)
             u == Without(t, 1)
  <2>1. /\ w.h \in Handle /\ w.event \in Event /\ w.called \subseteq Handle
        /\ w.seen \subseteq Handle /\ w.pending \subseteq Handle
    BY <1>3 DEF Walk
  <2>2. h \in Handle
    BY <1>6, <2>1 DEF Chained, Linked, h
  <2>3. Path(t, w.h, next)
    BY <1>3 DEF Sound
  <2>4. /\ w.h \in w.called /\ w.called \subseteq w.seen
        /\ HandlesOf(t) \subseteq w.seen
        /\ \A j \in HandlesOf(t) : j \in w.called => j = w.h
        /\ w.pending \subseteq HandlesOf(t) \ {w.h}
        /\ \A j \in w.seen : data[j] # NULL
        /\ \A f \in Event \ {w.event} : w.seen \intersect On(next, handle[f]) = {}
    BY <1>3 DEF Sound, On
  <2> HIDE DEF t
  <2>5. Len(t) > 0 /\ Path(u, h, next)
    BY <2>1, <2>3, PathBehind DEF h
  <2>6. HandlesOf(u) = HandlesOf(t) \ {w.h}
    <3>1. t[1] = w.h /\ 1 \in 1 .. Len(t)
      BY <2>3, <2>5 DEF Path
    <3> QED
      BY <2>3, <3>1, WithoutIs
  <2>7. h \in HandlesOf(u)
    BY <1>6, <2>5, PathHandles
  <2>8. ChainBy(next, h) = u
    BY <2>5, ChainIsPath
  <2> HIDE DEF u
  <2>9. C \subseteq Handle /\ P \subseteq Handle
    BY <2>1, <2>2
  <2>10. /\ C \subseteq w.seen /\ h \in C /\ HandlesOf(u) \subseteq w.seen
         /\ \A j \in HandlesOf(u) : j \in C => j = h
         /\ P \subseteq HandlesOf(u) \ {h}
    BY <2>4, <2>6, <2>7
  <2> HIDE DEF C, P
  <2>11. /\ v \in Walk /\ v.event = w.event /\ v.h = h /\ v.called = C
         /\ v.seen = w.seen /\ v.pending = P
    BY <2>1, <2>2, <2>9 DEF Walk
  <2> HIDE DEF v
  <2>12. Sound(v, data, next, handle)
    BY <2>4, <2>5, <2>8, <2>10, <2>11 DEF Sound, On
  <2>13. walks' = [walks EXCEPT ![n] = v]
    <3>1. [w EXCEPT !.h = h, !.called = C, !.pending = P] = v
      <4> DEFINE a == [w EXCEPT !.h = h]
                 b == [a EXCEPT !.called = C]
      <4>1. /\ a \in Walk /\ a.event = w.event /\ a.h = h /\ a.called = w.called
            /\ a.seen = w.seen /\ a.pending = w.pending
        BY <1>3, <2>2 DEF Walk
      <4>2. [w EXCEPT !.h = h, !.called = C, !.pending = P] = [b EXCEPT !.pending = P]
        OBVIOUS
      <4> HIDE DEF a
      <4>3. /\ b \in Walk /\ b.event = w.event /\ b.h = h /\ b.called = C
            /\ b.seen = w.seen /\ b.pending = w.pending
        BY <4>1, <2>9 DEF Walk
      <4> HIDE DEF b
      <4>4. [b EXCEPT !.pending = P]
              = [event |-> b.event, h |-> b.h, called |-> b.called,
                 seen |-> b.seen, pending |-> P]
        BY <4>3 DEF Walk
      <4> QED
        BY <4>2, <4>3, <4>4 DEF v
    <3>2. walks' = [walks EXCEPT ![n] = [w EXCEPT !.h = h, !.called = C, !.pending = P]]
      BY <1>1, <1>2, <1>6 DEF w, C, P
    <3> QED
      BY <3>1, <3>2
  <2>14. /\ walks' \in Seq(Walk) /\ Len(walks') = n
         /\ \A k \in 1 .. n : walks'[k] = IF k = n THEN v ELSE walks[k]
    BY <1>2, <2>11, <2>13
  <2>15. \A k \in 1 .. n : Sound(walks'[k], data, next, handle)
    BY <2>12, <2>14 DEF Walking
  <2> QED
    BY <1>1, <1>4, <2>14, <2>15 DEF Walking
<1> QED
  BY <1>5, <1>6

--------------------------------------------------------------------------------
\* A fresh pool has no chains, and nothing walks.
LEMMA Fresh == Init => Chained /\ Walking /\ \A e \in Event : Chain(e) = << >>
<1> SUFFICES ASSUME Init PROVE Chained /\ Walking /\ \A e \in Event : Chain(e) = << >>
  OBVIOUS
<1> DEFINE ch == [e \in Event |-> << >>]
<1>1. /\ data \in [Handle -> Callback \union {NULL}]
      /\ next \in [Handle -> Handle \union {nullHandle}]
      /\ handle \in [Event -> Handle \union {nullHandle}]
      /\ walks = << >>
      /\ \A e \in Event : handle[e] = nullHandle
  BY DEF Init
<1>2. \A e \in Event : ch[e] = << >>
  OBVIOUS
<1> HIDE DEF ch
<1>3. Path(<< >>, nullHandle, next) /\ HandlesOf(<< >>) = {}
  BY DEF Path, HandlesOf
<1>4. /\ \A e \in Event : Path(ch[e], handle[e], next)
      /\ \A e \in Event : \A i \in HandlesOf(ch[e]) : data[i] # NULL
      /\ \A e, f \in Event :
            e # f => HandlesOf(ch[e]) \intersect HandlesOf(ch[f]) = {}
  BY <1>1, <1>2, <1>3
<1>5. Linked(data, next, handle) /\ \A e \in Event : ChainBy(next, handle[e]) = ch[e]
  BY <1>1, <1>4, LinkedBy
<1>6. Walking
  BY <1>1 DEF Walking
<1> QED
  BY <1>2, <1>5, <1>6, ChainsBy DEF Chained

\* Whatever the events and the walks do.
LEMMA Step == Chained /\ Walking /\ [Next]_vars => Chained' /\ Walking'
<1> SUFFICES ASSUME Chained, Walking, [Next]_vars PROVE Chained' /\ Walking'
  OBVIOUS
<1>1. ASSUME UNCHANGED vars PROVE Chained' /\ Walking'
  BY <1>1 DEF vars, Chained, Walking
<1>2. ASSUME NEW e \in Event, NEW c \in Callback, add(e, c) PROVE Chained' /\ Walking'
  <2>1. CASE available = 0
    BY <1>1, <1>2, <2>1, AddDropped DEF Walking
  <2>2. CASE available # 0
    BY <1>2, <2>2, AddLinks, AddWalks
  <2> QED
    BY <2>1, <2>2
<1>3. ASSUME NEW e \in Event, NEW c \in Callback, remove(e, c) PROVE Chained' /\ Walking'
  BY <1>3, RemoveLinks, RemoveWalks
<1>4. ASSUME NEW e \in Event, clear(e) PROVE Chained' /\ Walking'
  BY <1>4, ClearLinks, ClearWalks
<1>5. ASSUME NEW e \in Event, invoke(e) PROVE Chained' /\ Walking'
  BY <1>5, InvokeWalks
<1>6. ASSUME invokeNext PROVE Chained' /\ Walking'
  BY <1>6, NextWalks
<1> QED
  BY <1>1, <1>2, <1>3, <1>4, <1>5, <1>6 DEF Next

(***************************************************************************)
(* In every behaviour the events' chains are paths that do not meet, and   *)
(* the walks are sound.                                                    *)
(***************************************************************************)
THEOREM AlwaysSound == Spec => [](Chained /\ Walking)
BY Fresh, Step, PTL DEF Spec

(***************************************************************************)
(* HandleManager, EventManager and the invocations keep their types.       *)
(***************************************************************************)
THEOREM TypeCorrect == Spec => []TypeOK
<1>1. Chained /\ Walking => TypeOK
  BY DEF Chained, Linked, Walking, TypeOK
<1> QED
  BY <1>1, AlwaysSound, PTL

(***************************************************************************)
(* The chains coexist in the pool: for any number of events, callbacks and *)
(* handles, and any nesting of invocations.                                *)
(***************************************************************************)
THEOREM Apart == Spec => []ChainsApart
<1>1. Chained => ChainsApart
  <2> SUFFICES ASSUME Chained PROVE ChainsApart
    OBVIOUS
  <2>1. \A e \in Event : HandlesOf(Chain(e)) = On(next, handle[e])
    BY ChainsBy DEF On
  <2> QED
    BY <2>1 DEF Chained, Linked, ChainsApart
<1> QED
  BY <1>1, AlwaysSound, PTL

\* What lies ahead of a walk.
LEMMA AheadIs ==
    ASSUME NEW w \in Walk, Sound(w, data, next, handle)
    PROVE  Ahead(w) = On(next, w.h) \ {w.h}
<1> DEFINE t == ChainBy(next, w.h)
<1>1. w.h \in Handle /\ Path(t, w.h, next)
  BY DEF Walk, Sound
<1>2. Len(t) > 0 /\ Path(Without(t, 1), next[w.h], next)
  BY <1>1, PathBehind
<1>3. t[1] = w.h /\ 1 \in 1 .. Len(t)
  BY <1>1, <1>2 DEF Path
<1>4. HandlesOf(Without(t, 1)) = HandlesOf(t) \ {w.h}
  BY <1>1, <1>3, WithoutIs
<1>5. ChainFrom(next[w.h]) = Without(t, 1)
  BY <1>2, ChainIsBy, ChainIsPath
<1> QED
  BY <1>4, <1>5 DEF Ahead, On

(***************************************************************************)
(* No callback that is to be called is passed over, whatever the callbacks *)
(* before it did to the chain.                                             *)
(***************************************************************************)
THEOREM NobodyIsPassedOver == Spec => []PendingLiesAhead
<1>1. Chained /\ Walking => PendingLiesAhead
  <2> SUFFICES ASSUME Chained, Walking, NEW k \in DOMAIN walks
               PROVE  walks[k].pending \subseteq Ahead(walks[k])
    BY DEF PendingLiesAhead
  <2>1. walks[k] \in Walk /\ Sound(walks[k], data, next, handle)
    BY DEF Walking
  <2> QED
    BY <2>1, AheadIs DEF Sound
<1> QED
  BY <1>1, AlwaysSound, PTL

(***************************************************************************)
(* An invocation calls nobody twice and nobody of another event.           *)
(***************************************************************************)
THEOREM NobodyElseIsCalled == Spec => []WalkKeepsToItsEvent
<1>1. Chained /\ Walking => WalkKeepsToItsEvent
  <2> SUFFICES ASSUME Chained, Walking, NEW k \in DOMAIN walks
               PROVE  Ahead(walks[k]) \subseteq walks[k].seen \ walks[k].called
    BY DEF WalkKeepsToItsEvent
  <2>1. walks[k] \in Walk /\ Sound(walks[k], data, next, handle)
    BY DEF Walking
  <2> QED
    BY <2>1, AheadIs DEF Sound
<1> QED
  BY <1>1, AlwaysSound, PTL

--------------------------------------------------------------------------------
\* The callbacks of e's chain.
Calls(e) == [k \in 1 .. Len(Chain(e)) |-> data[Chain(e)[k]]]

\* A chain and its callbacks.
LEMMA CallsAre ==
    ASSUME Chained, NEW e \in Event
    PROVE  /\ Chain(e) \in Seq(Handle) /\ Path(Chain(e), handle[e], next)
           /\ On(next, handle[e]) = HandlesOf(Chain(e))
           /\ \A i \in HandlesOf(Chain(e)) : i \in Handle /\ data[i] # NULL
           /\ \A k \in 1 .. Len(Chain(e)) : Chain(e)[k] \in HandlesOf(Chain(e))
           /\ Calls(e) \in Seq(Callback) /\ Len(Calls(e)) = Len(Chain(e))
           /\ \A k \in 1 .. Len(Chain(e)) : Calls(e)[k] = data[Chain(e)[k]]
<1> DEFINE s == Chain(e)
           n == Len(s)
<1>1. /\ Path(s, handle[e], next) /\ On(next, handle[e]) = HandlesOf(s)
      /\ \A i \in HandlesOf(s) : data[i] # NULL
  BY ChainsBy DEF Chained, Linked, On
<1>2. Calls(e) = [k \in 1 .. n |-> data[s[k]]]
  BY DEF Calls
<1> HIDE DEF s
<1>3. /\ s \in Seq(Handle) /\ n \in Nat /\ HandlesOf(s) \subseteq Handle
      /\ \A k \in 1 .. n : s[k] \in HandlesOf(s)
  <2>1. s \in Seq(Handle) /\ n \in Nat
    BY <1>1 DEF Path
  <2>2. HandlesOf(s) \subseteq Handle /\ \A k \in 1 .. n : s[k] \in HandlesOf(s)
    BY <1>1, PathHandles
  <2> QED
    BY <2>1, <2>2
<1> HIDE DEF n
<1>4. \A k \in 1 .. n : data[s[k]] \in Callback
  BY <1>1, <1>3 DEF Chained, Linked
<1>5. Calls(e) \in Seq(Callback) /\ Len(Calls(e)) = n
  BY <1>2, <1>3, <1>4
<1> QED
  BY <1>1, <1>2, <1>3, <1>5 DEF s, n

\* The same in the next state.
LEMMA CallsWillBe ==
    ASSUME Chained', NEW e \in Event
    PROVE  /\ Chain(e)' \in Seq(Handle)
           /\ \A i \in HandlesOf(Chain(e)') : i \in Handle /\ data'[i] # NULL
           /\ \A k \in 1 .. Len(Chain(e)') : Chain(e)'[k] \in HandlesOf(Chain(e)')
           /\ Calls(e)' \in Seq(Callback) /\ Len(Calls(e)') = Len(Chain(e)')
           /\ \A k \in 1 .. Len(Chain(e)') : Calls(e)'[k] = data'[Chain(e)'[k]]
<1> DEFINE s == Chain(e)'
           n == Len(s)
<1>1. /\ Path(s, handle'[e], next')
      /\ \A i \in HandlesOf(s) : data'[i] # NULL
  BY ChainsBy DEF Chained, Linked, On
<1>2. Calls(e)' = [k \in 1 .. n |-> data'[s[k]]]
  BY DEF Calls
<1> HIDE DEF s
<1>3. /\ s \in Seq(Handle) /\ n \in Nat /\ HandlesOf(s) \subseteq Handle
      /\ \A k \in 1 .. n : s[k] \in HandlesOf(s)
  <2>1. s \in Seq(Handle) /\ n \in Nat
    BY <1>1 DEF Path
  <2>2. HandlesOf(s) \subseteq Handle /\ \A k \in 1 .. n : s[k] \in HandlesOf(s)
    BY <1>1, PathHandles
  <2> QED
    BY <2>1, <2>2
<1> HIDE DEF n
<1>4. \A k \in 1 .. n : data'[s[k]] \in Callback
  BY <1>1, <1>3 DEF Chained, Linked
<1>5. Calls(e)' \in Seq(Callback) /\ Len(Calls(e)') = n
  BY <1>2, <1>3, <1>4
<1> QED
  BY <1>1, <1>2, <1>3, <1>5 DEF s, n

\* The callbacks of a chain that keeps its handles and what they hold.
LEMMA CallsKept ==
    ASSUME Chained, Chained', NEW f \in Event, Chain(f)' = Chain(f),
           \A i \in HandlesOf(Chain(f)) : data'[i] = data[i]
    PROVE  Calls(f)' = Calls(f)
<1> DEFINE s == Calls(f)
           t == Calls(f)'
           n == Len(Chain(f))
<1>1. /\ s \in Seq(Callback) /\ t \in Seq(Callback) /\ Len(s) = n /\ Len(t) = n
      /\ \A k \in 1 .. n : s[k] = t[k]
  BY CallsAre, CallsWillBe
<1> HIDE DEF s, t, n
<1>2. s = t
  BY <1>1, SeqEqual
<1> QED
  BY <1>2 DEF s, t

\* What each event calls.
Told == [e \in Event |-> Calls(e)]

\* One event calls others than before.
LEMMA Tells ==
    ASSUME NEW e \in Event, NEW s, Calls(e)' = s,
           \A f \in Event \ {e} : Calls(f)' = Calls(f)
    PROVE  Told' = [Told EXCEPT ![e] = s]
<1>1. Told' = [f \in Event |-> Calls(f)'] /\ Told = [f \in Event |-> Calls(f)]
  BY DEF Told
<1> QED
  BY <1>1

\* The free handles are finitely many.
LEMMA FreeIsFinite ==
    /\ IsFiniteSet({i \in Handle : data[i] = NULL}) /\ available \in Nat
    /\ IsFiniteSet(Handle) /\ Cardinality(Handle) = Capacity
<1>1. IsFiniteSet(Handle) /\ Cardinality(Handle) = Capacity
  BY PoolAssumption, FS_Interval DEF Handle
<1> DEFINE free == {i \in Handle : data[i] = NULL}
<1>2. free \in SUBSET Handle /\ available = Cardinality(free)
  BY DEF available
<1> HIDE DEF free
<1>3. IsFiniteSet(free) /\ available \in Nat
  BY <1>1, <1>2, FS_Subset, FS_CardinalityType
<1> QED
  BY <1>1, <1>3 DEF free

\* A subscription takes room and comes last.
LEMMA AddSubscribes ==
    ASSUME Chained, Chained', NEW e \in Event, NEW c \in Callback, NEW i,
           Appends(e, c, i), available # 0
    PROVE  /\ available > 0 /\ available' = available - 1
           /\ Told' = [Told EXCEPT ![e] = Append(@, c)]
<1> DEFINE s == Chain(e)
           n == Len(s)
<1>1. /\ i \in Handle /\ data[i] = NULL /\ data' = [data EXCEPT ![i] = c]
      /\ Chain(e)' = Append(s, i) /\ data \in [Handle -> Callback \union {NULL}]
      /\ \A f \in Event \ {e} : Chain(f)' = Chain(f)
  BY DEF Appends, Chained, Linked
<1>2. /\ data'[i] = c /\ c # NULL
      /\ \A j \in Handle \ {i} : data'[j] = data[j]
  BY <1>1, PoolAssumption
<1>3. ASSUME NEW f \in Event \ {e} PROVE Calls(f)' = Calls(f)
  <2>1. \A j \in HandlesOf(Chain(f)) : data'[j] = data[j]
    BY <1>1, <1>2, CallsAre
  <2> QED
    BY <1>1, <2>1, CallsKept
<1>4. Calls(e)' = Append(Calls(e), c)
  <2> DEFINE u == Calls(e)
             v == Calls(e)'
             w == Append(u, c)
             t == Append(s, i)
  <2>1. /\ s \in Seq(Handle) /\ n \in Nat /\ u \in Seq(Callback) /\ Len(u) = n
        /\ \A k \in 1 .. n : s[k] \in Handle /\ data[s[k]] # NULL /\ u[k] = data[s[k]]
    BY CallsAre
  <2>2. /\ v \in Seq(Callback) /\ Len(v) = Len(t)
        /\ \A k \in 1 .. Len(t) : v[k] = data'[t[k]]
    BY <1>1, CallsWillBe
  <2> HIDE DEF u, v, s, n
  <2>3. /\ w \in Seq(Callback) /\ Len(w) = n + 1 /\ w[n + 1] = c
        /\ \A k \in 1 .. n : w[k] = u[k]
    BY <2>1, AppendProperties
  <2>4. /\ Len(t) = n + 1 /\ t[n + 1] = i
        /\ \A k \in 1 .. n : t[k] = s[k]
    BY <1>1, <2>1, AppendProperties DEF n
  <2> HIDE DEF t, w
  <2>5. ASSUME NEW k \in 1 .. n + 1 PROVE v[k] = w[k]
    <3>1. CASE k = n + 1
      BY <1>2, <2>1, <2>2, <2>3, <2>4, <3>1
    <3>2. CASE k \in 1 .. n
      BY <1>1, <1>2, <2>1, <2>2, <2>3, <2>4, <3>2
    <3> QED
      BY <2>1, <3>1, <3>2
  <2>6. v = w
    BY <2>1, <2>2, <2>3, <2>4, <2>5, SeqEqual
  <2> QED
    BY <2>6 DEF u, v, w
<1>5. Told' = [Told EXCEPT ![e] = Append(@, c)]
  <2>1. Told[e] = Calls(e)
    BY DEF Told
  <2> QED
    BY <1>3, <1>4, <2>1, Tells
<1>6. available > 0 /\ available' = available - 1
  <2> DEFINE free == {j \in Handle : data[j] = NULL}
             left == {j \in Handle : data'[j] = NULL}
  <2>1. left = free \ {i} /\ i \in free
    BY <1>1, <1>2
  <2>2. available = Cardinality(free) /\ available' = Cardinality(left)
    BY DEF available
  <2>3. IsFiniteSet(free) /\ available \in Nat /\ available # 0
    BY FreeIsFinite
  <2> HIDE DEF free, left
  <2>4. Cardinality(left) = Cardinality(free) - 1
    BY <2>1, <2>3, FS_RemoveElement
  <2>5. Cardinality(free) > 0
    BY <2>1, <2>2, <2>3
  <2> QED
    BY <2>2, <2>4, <2>5
<1> QED
  BY <1>5, <1>6

\* A sequence without its k-th element.
LEMMA Cut ==
    ASSUME NEW C, NEW s \in Seq(C), NEW k \in 1 .. Len(s)
    PROVE  /\ SubSeq(s, 1, k - 1) \o SubSeq(s, k + 1, Len(s)) \in Seq(C)
           /\ Len(SubSeq(s, 1, k - 1) \o SubSeq(s, k + 1, Len(s))) = Len(s) - 1
           /\ \A l \in 1 .. Len(s) - 1 :
                (SubSeq(s, 1, k - 1) \o SubSeq(s, k + 1, Len(s)))[l]
                    = IF l < k THEN s[l] ELSE s[l + 1]
<1> DEFINE a == k - 1
           b == k + 1
           n == Len(s)
           front == SubSeq(s, 1, a)
           rest == SubSeq(s, b, n)
           r == front \o rest
<1>1. n \in Nat /\ a \in Int /\ b \in Int /\ a = k - 1 /\ b = k + 1 /\ k \in 1 .. n
  OBVIOUS
<1>2. /\ \A l \in 1 .. a : s[l] \in C
      /\ \A l \in b .. n : s[l] \in C
  BY <1>1
<1> HIDE DEF a, b, n
<1>3. /\ front \in Seq(C) /\ Len(front) = (IF 1 <= a THEN a - 1 + 1 ELSE 0)
      /\ \A l \in 1 .. a - 1 + 1 : front[l] = s[1 + l - 1]
  BY <1>1, <1>2, SubSeqProperties
<1>4. /\ rest \in Seq(C) /\ Len(rest) = (IF b <= n THEN n - b + 1 ELSE 0)
      /\ \A l \in 1 .. n - b + 1 : rest[l] = s[b + l - 1]
  BY <1>1, <1>2, SubSeqProperties
<1> HIDE DEF front, rest
<1>5. /\ Len(front) = a /\ \A l \in 1 .. a : front[l] = s[l]
      /\ Len(rest) = n - k /\ \A l \in 1 .. n - k : rest[l] = s[k + l]
  BY <1>1, <1>3, <1>4
<1>6. /\ r \in Seq(C) /\ Len(r) = Len(front) + Len(rest)
      /\ \A l \in 1 .. Len(front) + Len(rest) :
            r[l] = IF l <= Len(front) THEN front[l] ELSE rest[l - Len(front)]
  BY <1>3, <1>4, ConcatProperties
<1> HIDE DEF r
<1>7. Len(front) + Len(rest) = n - 1
  BY <1>1, <1>5
<1>8. ASSUME NEW l \in 1 .. n - 1 PROVE r[l] = IF l < k THEN s[l] ELSE s[l + 1]
  <2>1. CASE l < k
    <3>1. l \in 1 .. a /\ l <= a
      BY <1>1, <2>1
    <3> QED
      BY <1>5, <1>6, <1>7, <2>1, <3>1
  <2>2. CASE ~ (l < k)
    <3>1. ~ (l <= a) /\ l - a \in 1 .. n - k /\ k + (l - a) = l + 1
      BY <1>1, <2>2
    <3> QED
      BY <1>5, <1>6, <1>7, <2>2, <3>1
  <2> QED
    BY <2>1, <2>2
<1>9. r \in Seq(C) /\ Len(r) = n - 1
  BY <1>6, <1>7
<1> QED
  BY <1>8, <1>9 DEF a, b, n, front, rest, r

\* The first of a callback's subscriptions is withdrawn, and no room is gained.
LEMMA RemoveUnsubscribes ==
    ASSUME Chained, Chained', NEW e \in Event, NEW c, NEW k, Leaves(e, c, k)
    PROVE  /\ k \in 1 .. Len(Calls(e)) /\ Calls(e)[k] = c
           /\ \A j \in 1 .. k - 1 : Calls(e)[j] # c
           /\ Told' = [Told EXCEPT ![e] =
                          SubSeq(@, 1, k - 1) \o SubSeq(@, k + 1, Len(@))]
           /\ available' = available
<1> DEFINE s == Chain(e)
           n == Len(s)
           u == Calls(e)
           v == Calls(e)'
           w == SubSeq(u, 1, k - 1) \o SubSeq(u, k + 1, Len(u))
           t == Without(s, k)
<1>1. /\ data' = data /\ Chain(e)' = t /\ k \in 1 .. n /\ data[s[k]] = c
      /\ \A j \in 1 .. k - 1 : data[s[j]] # c
      /\ \A f \in Event \ {e} : Chain(f)' = Chain(f)
  BY DEF Leaves
<1>2. /\ Path(s, handle[e], next) /\ n \in Nat /\ u \in Seq(Callback) /\ Len(u) = n
      /\ \A l \in 1 .. n : u[l] = data[s[l]]
  BY CallsAre
<1>3. /\ v \in Seq(Callback) /\ Len(v) = Len(t)
      /\ \A l \in 1 .. Len(t) : v[l] = data'[t[l]]
  BY <1>1, CallsWillBe
<1> HIDE DEF s, u, v
<1>4. Len(t) = n - 1 /\ \A l \in 1 .. n - 1 : t[l] = IF l < k THEN s[l] ELSE s[l + 1]
  BY <1>1, <1>2, WithoutIs
<1>5. k \in 1 .. Len(u)
  BY <1>1, <1>2
<1>6. /\ w \in Seq(Callback) /\ Len(w) = Len(u) - 1
      /\ \A l \in 1 .. Len(u) - 1 : w[l] = IF l < k THEN u[l] ELSE u[l + 1]
  BY <1>2, <1>5, Cut
<1> HIDE DEF t, w, n
<1>7. ASSUME NEW l \in 1 .. n - 1 PROVE v[l] = w[l]
  <2>1. l \in 1 .. n /\ l + 1 \in 1 .. n
    BY <1>2
  <2> QED
    BY <1>1, <1>2, <1>3, <1>4, <1>6, <2>1
<1>8. v = w
  BY <1>2, <1>3, <1>4, <1>6, <1>7, SeqEqual
<1>9. \A f \in Event \ {e} : Calls(f)' = Calls(f)
  BY <1>1, CallsKept
<1>10. Told[e] = u
  BY DEF Told, u
<1>11. Told' = [Told EXCEPT ![e] = w]
  BY <1>8, <1>9, Tells DEF v
<1>12. Told' = [Told EXCEPT ![e] = SubSeq(@, 1, k - 1) \o SubSeq(@, k + 1, Len(@))]
  BY <1>10, <1>11 DEF w
<1>13. \A j \in 1 .. k - 1 : u[j] # c
  <2>1. \A j \in 1 .. k - 1 : j \in 1 .. n
    BY <1>1, <1>2
  <2> QED
    BY <1>1, <1>2, <2>1
<1>14. u[k] = c
  BY <1>1, <1>2
<1>15. available' = available
  BY <1>1 DEF available
<1> QED
  BY <1>5, <1>12, <1>13, <1>14, <1>15 DEF u

\* A path has as many handles as it is long.
LEMMA PathCounts ==
    ASSUME NEW c, NEW h, NEW nx, Path(c, h, nx)
    PROVE  IsFiniteSet(HandlesOf(c)) /\ Cardinality(HandlesOf(c)) = Len(c)
<1> DEFINE n == Len(c)
           H == HandlesOf(c)
<1>1. /\ n \in Nat /\ c \in [1 .. n -> Handle]
      /\ \A i, j \in 1 .. n : c[i] = c[j] => i = j
  BY DEF Path
<1>2. /\ \A k \in 1 .. n : c[k] \in H
      /\ \A i \in H : \E k \in 1 .. n : c[k] = i
  BY DEF HandlesOf
<1> HIDE DEF n, H
<1>3. c \in [1 .. n -> H]
  BY <1>1, <1>2
<1>4. c \in Bijection(1 .. n, H)
  BY <1>1, <1>2, <1>3 DEF Bijection, Injection, IsInjective, Surjection
<1>5. ExistsBijection(1 .. n, H)
  BY <1>4 DEF ExistsBijection
<1>6. IsFiniteSet(1 .. n) /\ Cardinality(1 .. n) = n
  BY <1>1, FS_Interval
<1>7. IsFiniteSet(H) /\ Cardinality(H) = n
  BY <1>5, <1>6, FS_Bijection
<1> QED
  BY <1>7 DEF n, H

\* A cleared event has no callbacks, and their room is free.
LEMMA ClearClears ==
    ASSUME Chained, Chained', NEW e \in Event, Frees(e)
    PROVE  /\ Told' = [Told EXCEPT ![e] = << >>]
           /\ available' = available + Len(Calls(e))
<1> DEFINE H == HandlesOf(Chain(e))
           n == Len(Chain(e))
           free == {i \in Handle : data[i] = NULL}
           more == {i \in Handle : data'[i] = NULL}
<1>1. /\ data' = [i \in Handle |-> IF i \in H THEN NULL ELSE data[i]]
      /\ Chain(e)' = << >> /\ \A f \in Event \ {e} : Chain(f)' = Chain(f)
  BY DEF Frees
<1>2. ASSUME NEW f \in Event \ {e} PROVE Calls(f)' = Calls(f)
  <2>1. HandlesOf(Chain(f)) \intersect H = {}
    BY ChainsBy DEF Chained, Linked, On
  <2>2. \A i \in HandlesOf(Chain(f)) : data'[i] = data[i]
    BY <1>1, <2>1, CallsAre
  <2> QED
    BY <1>1, <2>2, CallsKept
<1>3. Calls(e)' = << >>
  <2> DEFINE v == Calls(e)'
  <2>1. v \in Seq(Callback) /\ Len(v) = 0
    BY <1>1, CallsWillBe
  <2> HIDE DEF v
  <2>2. v = << >>
    BY <2>1
  <2> QED
    BY <2>2 DEF v
<1>4. Told' = [Told EXCEPT ![e] = << >>]
  BY <1>2, <1>3, Tells
<1>5. IsFiniteSet(H) /\ Cardinality(H) = n /\ Len(Calls(e)) = n
  BY CallsAre, PathCounts
<1>6. /\ available = Cardinality(free) /\ available' = Cardinality(more)
      /\ IsFiniteSet(free) /\ available \in Nat
  BY FreeIsFinite DEF available
<1>7. more = free \union H /\ free \intersect H = {}
  BY <1>1, CallsAre
<1>8. n \in Nat
  BY CallsAre
<1> HIDE DEF H, n, free, more
<1>9. Cardinality(free \union H)
          = Cardinality(free) + Cardinality(H) - Cardinality(free \intersect H)
  BY <1>5, <1>6, FS_Union
<1>10. Cardinality(free \intersect H) = 0
  BY <1>7, FS_EmptySet
<1> QED
  BY <1>4, <1>5, <1>6, <1>7, <1>8, <1>9, <1>10

(***************************************************************************)
(* The pool of chained handles implements separate lists of subscribers,   *)
(* each with its first callback first: subscribing comes last and takes    *)
(* room, and is dropped where there is none; unsubscribing takes the first *)
(* match out and gives no room back; clearing gives back all.              *)
(***************************************************************************)
THEOREM Refinement == Spec => ImplementsSubscriptions
<1> USE DEF S!vars
<1>1. Init => S!Init
  <2> SUFFICES ASSUME Init PROVE S!Init
    OBVIOUS
  <2>1. Chained /\ \A e \in Event : Chain(e) = << >>
    BY Fresh
  <2>2. \A e \in Event : Calls(e) = << >>
    BY <2>1 DEF Calls
  <2>3. Told = [e \in Event |-> << >>]
    BY <2>2 DEF Told
  <2>4. {i \in Handle : data[i] = NULL} = Handle
    BY DEF Init
  <2>5. available = Capacity
    BY <2>4, FreeIsFinite DEF available
  <2> QED
    BY <2>3, <2>5 DEF S!Init, Told, Calls
<1>2. Chained /\ Walking /\ Chained' /\ [Next]_vars => [S!Next]_(S!vars)
  <2> SUFFICES ASSUME Chained, Walking, Chained', [Next]_vars
               PROVE  S!Next \/ UNCHANGED <<Told, available>>
    BY DEF Told, Calls
  <2>1. CASE UNCHANGED <<data, next, handle>>
    <3>1. \A e \in Event : Chain(e)' = Chain(e) /\ Calls(e)' = Calls(e)
      BY <2>1, ChainsBy, CallsKept
    <3>2. Told' = Told
      BY <3>1 DEF Told
    <3>3. available' = available
      BY <2>1 DEF available
    <3> QED
      BY <3>2, <3>3
  <2>2. ASSUME NEW e \in Event, NEW c \in Callback, add(e, c), available # 0
        PROVE  S!Next
    <3>1. /\ available > 0 /\ available' = available - 1
          /\ Told' = [Told EXCEPT ![e] = Append(@, c)]
      BY <2>2, AddLinks, AddSubscribes
    <3>2. S!Subscribe(e, c)
      BY <3>1 DEF S!Subscribe, Told, Calls
    <3> QED
      BY <3>2 DEF S!Next
  <2>3. ASSUME NEW e \in Event, NEW c \in Callback, add(e, c), available = 0
        PROVE  UNCHANGED <<data, next, handle>>
    BY <2>3, AddDropped DEF vars, Walking
  <2>4. ASSUME NEW e \in Event, NEW c \in Callback, remove(e, c) PROVE S!Next
    <3>1. PICK k \in 1 .. Len(Chain(e)) : Leaves(e, c, k)
      BY <2>4, RemoveLinks
    <3>2. /\ k \in 1 .. Len(Told[e]) /\ Told[e][k] = c
          /\ \A j \in 1 .. k - 1 : Told[e][j] # c
          /\ Told' = [Told EXCEPT ![e] =
                          SubSeq(@, 1, k - 1) \o SubSeq(@, k + 1, Len(@))]
          /\ available' = available
      <4>1. Told[e] = Calls(e)
        BY DEF Told
      <4>2. /\ k \in 1 .. Len(Calls(e)) /\ Calls(e)[k] = c
            /\ \A j \in 1 .. k - 1 : Calls(e)[j] # c
            /\ Told' = [Told EXCEPT ![e] =
                            SubSeq(@, 1, k - 1) \o SubSeq(@, k + 1, Len(@))]
            /\ available' = available
        BY <3>1, RemoveUnsubscribes
      <4> QED
        BY <4>1, <4>2
    <3>3. S!Unsubscribe(e, c)
      BY <3>2 DEF S!Unsubscribe, Told, Calls
    <3> QED
      BY <3>3 DEF S!Next
  <2>5. ASSUME NEW e \in Event, clear(e) PROVE S!Next
    <3>1. /\ Told' = [Told EXCEPT ![e] = << >>]
          /\ available' = available + Len(Told[e])
      <4>1. Told[e] = Calls(e)
        BY DEF Told
      <4> QED
        BY <2>5, <4>1, ClearLinks, ClearClears
    <3>2. S!Clear(e)
      BY <3>1 DEF S!Clear, Told, Calls
    <3> QED
      BY <3>2 DEF S!Next
  <2> QED
    BY <2>1, <2>2, <2>3, <2>4, <2>5 DEF Next, vars, invoke, invokeNext
<1> QED
  BY <1>1, <1>2, AlwaysSound, PTL DEF Spec, ImplementsSubscriptions, S!Spec
================================================================================
