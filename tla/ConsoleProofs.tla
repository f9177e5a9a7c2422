------------------------------- MODULE ConsoleProofs ---------------------------
(***************************************************************************)
(* Proofs about the console: for any menu, properties and typing, the line *)
(* that it edits is the one that was meant, and is on the screen.          *)
(***************************************************************************)
EXTENDS Console, Induction, SequenceTheorems, TLAPS

\* The least of a set of numbers, and the largest of one with a bound.
LEMMA MinIs ==
    ASSUME NEW S \in SUBSET Nat, S # {}
    PROVE  Min(S) \in S /\ \A y \in S : Min(S) <= y
BY Least DEF Min

\* The other end of a bounded set.
LEMMA MaxIs ==
    ASSUME NEW n \in Nat, NEW S \in SUBSET (0 .. n), S # {}
    PROVE  Max(S) \in S /\ \A y \in S : Max(S) >= y
<1> DEFINE T == {k \in Nat : n - k \in S}
<1>1. PICK x \in S : TRUE
  OBVIOUS
<1>2. n - x \in Nat /\ n - (n - x) = x
  BY <1>1
<1>3. n - x \in T
  BY <1>1, <1>2
<1>4. PICK k \in T : \A j \in T : k <= j
  <2> HIDE DEF T
  <2> QED
    BY <1>3, Least DEF T
<1>5. n - k \in S
  BY <1>4
<1>6. ASSUME NEW y \in S PROVE n - k >= y
  <2>1. n - y \in Nat /\ n - (n - y) = y
    OBVIOUS
  <2>2. n - y \in T
    BY <2>1
  <2>3. k <= n - y
    BY <1>4, <2>2
  <2> QED
    BY <2>1, <2>3
<1> HIDE DEF T
<1>7. \E m \in S : \A y \in S : m >= y
  BY <1>5, <1>6
<1> QED
  BY <1>7 DEF Max

--------------------------------------------------------------------------------
(***************************************************************************)
(* FoldLeft takes the numbers of the elements out of their set, the last   *)
(* one first.  There is a function that does so.                           *)
(***************************************************************************)
Folds(f, base, T, n) ==
    f = [s \in SUBSET (1 .. n) |->
            IF s = {} THEN base ELSE T[<<f[s \ {Max(s)}], Max(s)>>]]

\* Without its last, a set of numbers up to n + 1 is one up to n.
LEMMA WithoutLast ==
    ASSUME NEW n \in Nat, NEW s \in SUBSET (1 .. n + 1), s # {}
    PROVE  Max(s) \in s /\ s \ {Max(s)} \in SUBSET (1 .. n)
<1>1. s \in SUBSET (0 .. n + 1) /\ n + 1 \in Nat
  OBVIOUS
<1>2. Max(s) \in s /\ \A y \in s : Max(s) >= y
  BY <1>1, MaxIs
<1> DEFINE m == Max(s)
<1> HIDE DEF m
<1>3. m \in s /\ \A y \in s : y <= m
  BY <1>2 DEF m
<1>4. \A y \in s : y # m => y \in 1 .. n
  BY <1>3
<1> QED
  BY <1>3, <1>4 DEF m

\* A function with the equation of a fold over an interval exists: what CHOOSE picks solves it.
LEMMA FoldExists ==
    ASSUME NEW n \in Nat, NEW A, NEW base \in A, NEW T \in [A \X (1 .. n) -> A]
    PROVE  \E f \in [SUBSET (1 .. n) -> A] : Folds(f, base, T, n)
<1> DEFINE D(m) == SUBSET (1 .. m)
           Step(f, s) == IF s = {} THEN base ELSE T[<<f[s \ {Max(s)}], Max(s)>>]
           Solves(f, m) == f \in [D(m) -> A] /\ f = [s \in D(m) |-> Step(f, s)]
           M == {m \in Nat : m <= n => \E f : Solves(f, m)}
<1>1. 0 \in M
  <2> DEFINE f == [s \in D(0) |-> base]
  <2>1. \A s \in D(0) : s = {}
    OBVIOUS
  <2>2. Solves(f, 0)
    BY <2>1
  <2> HIDE DEF Solves, f
  <2> QED
    BY <2>2
<1>2. ASSUME NEW m \in Nat, m \in M PROVE m + 1 \in M
  <2>0. m + 1 \in Nat /\ (m + 1 <= n => m <= n)
    OBVIOUS
  <2> HIDE DEF Solves
  <2> SUFFICES ASSUME m + 1 <= n PROVE  \E g : Solves(g, m + 1)
    BY <2>0
  <2> USE DEF Solves
  <2>1. PICK f : Solves(f, m)
    <3> HIDE DEF Solves
    <3> QED
      BY <1>2, <2>0
  <2> DEFINE g == [s \in D(m + 1) |-> Step(f, s)]
  <2>2. \A s \in D(m) : s \in D(m + 1) /\ g[s] = f[s]
    <3>1. \A s \in D(m) : s \in D(m + 1)
      OBVIOUS
    <3>2. \A s \in D(m) : f[s] = Step(f, s)
      BY <2>1, Zenon
    <3> HIDE DEF D, Step
    <3> QED
      BY <3>1, <3>2
  <2>3. ASSUME NEW s \in D(m + 1) PROVE Step(g, s) = Step(f, s) /\ Step(f, s) \in A
    <3>1. CASE s = {}
      BY <3>1
    <3>2. CASE s # {}
      <4>1. s \ {Max(s)} \in D(m) /\ Max(s) \in 1 .. n
        <5>1. Max(s) \in s /\ s \ {Max(s)} \in SUBSET (1 .. m)
          BY <3>2, WithoutLast
        <5>2. s \in SUBSET (1 .. n)
          OBVIOUS
        <5> QED
          BY <5>1, <5>2
      <4>2. g[s \ {Max(s)}] = f[s \ {Max(s)}] /\ f[s \ {Max(s)}] \in A
        BY <2>1, <2>2, <4>1
      <4>3. <<f[s \ {Max(s)}], Max(s)>> \in A \X (1 .. n)
        BY <4>1, <4>2
      <4>4. T[<<f[s \ {Max(s)}], Max(s)>>] \in A
        BY <4>3
      <4> QED
        BY <3>2, <4>2, <4>4
    <3> QED
      BY <3>1, <3>2
  <2>4. g \in [D(m + 1) -> A] /\ g = [s \in D(m + 1) |-> Step(g, s)]
    BY <2>3
  <2> QED
    BY <2>4
<1> HIDE DEF M, Solves
<1>3. n \in M
  BY <1>1, <1>2, Induct
<1>4. PICK f : Solves(f, n)
  BY <1>3 DEF M
<1>5. f \in [SUBSET (1 .. n) -> A] /\ Folds(f, base, T, n)
  BY <1>4, Zenon DEF Solves, Folds
<1> QED
  BY <1>5

(***************************************************************************)
(* What such a function makes of the first k elements.                     *)
(***************************************************************************)
LEMMA FoldSteps ==
    ASSUME NEW n \in Nat, NEW f, NEW base, NEW T, Folds(f, base, T, n)
    PROVE  /\ f[1 .. 0] = base
           /\ \A k \in 1 .. n : f[1 .. k] = T[<<f[1 .. k - 1], k>>]
<1>1. 1 .. 0 = {} /\ 1 .. 0 \in SUBSET (1 .. n)
  OBVIOUS
<1>2. ASSUME NEW k \in 1 .. n PROVE f[1 .. k] = T[<<f[1 .. k - 1], k>>]
  <2>1. 1 .. k # {} /\ 1 .. k \in SUBSET (1 .. n) /\ 1 .. k \in SUBSET (0 .. n)
    OBVIOUS
  <2>2. Max(1 .. k) = k
    <3>1. Max(1 .. k) \in 1 .. k /\ \A y \in 1 .. k : Max(1 .. k) >= y
      BY <2>1, MaxIs
    <3> QED
      BY <3>1
  <2>3. (1 .. k) \ {k} = 1 .. k - 1
    OBVIOUS
  <2> QED
    BY <2>1, <2>2, <2>3 DEF Folds
<1> QED
  BY <1>1, <1>2 DEF Folds


\* The first k numbers, their last, and the others.
LEMMA FirstOnes ==
    ASSUME NEW n \in Nat, NEW k \in 1 .. n
    PROVE  /\ 1 .. k # {} /\ 1 .. k \in SUBSET (1 .. n)
           /\ Max(1 .. k) = k /\ (1 .. k) \ {k} = 1 .. k - 1
<1>1. 1 .. k # {} /\ 1 .. k \in SUBSET (1 .. n) /\ 1 .. k \in SUBSET (0 .. n)
  OBVIOUS
<1>2. Max(1 .. k) = k
  <2>1. Max(1 .. k) \in 1 .. k /\ \A y \in 1 .. k : Max(1 .. k) >= y
    BY <1>1, MaxIs
  <2> QED
    BY <2>1
<1> QED
  BY <1>1, <1>2

--------------------------------------------------------------------------------
\* What fits into inputLine.
Lines == {l \in Seq(STRING) : Len(l) < InputMax}

\* The names of the menu.
LEMMA NamesAreLines ==
    /\ DOMAIN Commands = 1 .. Len(Commands) /\ Len(Commands) \in Nat
    /\ \A i \in DOMAIN Commands : Commands[i].name \in Lines
    /\ << >> \in Lines
<1>1. /\ Commands \in Seq(ToSet(Commands))
      /\ \A c \in ToSet(Commands) : c.name \in Lines
      /\ InputMax \in Nat \ {0}
  BY ConsoleAssumption DEF Lines
<1>2. \A i \in DOMAIN Commands : Commands[i] \in ToSet(Commands)
  BY DEF ToSet
<1>3. << >> \in Lines
  BY <1>1 DEF Lines
<1> QED
  BY <1>1, <1>2, <1>3

\* What is appended.
LEMMA AppendIs ==
    ASSUME NEW S, NEW s \in Seq(S), NEW c \in S
    PROVE  /\ Append(s, c) \in Seq(S) /\ Len(Append(s, c)) = Len(s) + 1
           /\ Len(s) \in Nat
           /\ \A i \in 1 .. Len(s) : Append(s, c)[i] = s[i]
           /\ Append(s, c)[Len(s) + 1] = c
OBVIOUS

\* What is left of a sequence behind its first a elements.
LEMMA BehindIs ==
    ASSUME NEW S, NEW s \in Seq(S), NEW a \in Nat, a <= Len(s),
           NEW b, b = SubSeq(s, a + 1, Len(s))
    PROVE  /\ b \in Seq(S) /\ Len(b) = Len(s) - a
           /\ \A i \in 1 .. Len(s) - a : b[i] = s[a + i]
<1>1. \A i \in a + 1 .. Len(s) : s[i] \in S
  OBVIOUS
<1>2. SubSeq(s, a + 1, Len(s)) \in Seq(S)
  BY <1>1, SubSeqProperties
<1>3. Len(SubSeq(s, a + 1, Len(s))) = Len(s) - a
  OBVIOUS
<1>4. \A i \in 1 .. Len(s) - a : SubSeq(s, a + 1, Len(s))[i] = s[a + i]
  OBVIOUS
<1> QED
  BY <1>2, <1>3, <1>4, Zenon

\* A key that is pressed leaves a line.
LEMMA PressedIsLine ==
    ASSUME NEW line \in Lines, NEW c \in STRING
    PROVE  Pressed(line, c) \in Lines
<1>1. CASE c = Tab
  <2>1. \A i \in Fits(line) : Commands[i].name \in Lines
    BY NamesAreLines DEF Fits
  <2>2. Cardinality(Fits(line)) = 1 => Fits(line) # {}
    BY FS_EmptySet
  <2> QED
    BY <1>1, <2>1, <2>2 DEF Pressed
<1>2. CASE c # Tab
  <2>1. line \in Seq(STRING)
    BY DEF Lines
  <2>2. /\ Len(line) \in Nat /\ Len(Append(line, c)) = Len(line) + 1
        /\ Append(line, c) \in Seq(STRING)
    BY <2>1, AppendIs
  <2> QED
    BY <1>2, <2>2 DEF Pressed, Lines
<1> QED
  BY <1>1, <1>2

\* The line that some keys are meant to make.
Pressing(keys) == FoldLeft(Pressed, << >>, keys)

\* The equation of its fold.
PressingFolds(f, keys) ==
    f = [s \in SUBSET DOMAIN keys |->
            IF s = {} THEN << >>
            ELSE LET x == Max(s) IN Pressed(f[s \ {x}], keys[x])]

\* The lines that the first keys make.
Presses(h, keys) ==
    /\ h \in [0 .. Len(keys) -> Lines]
    /\ h[0] = << >>
    /\ \A k \in 1 .. Len(keys) : h[k] = Pressed(h[k - 1], keys[k])
    /\ Pressing(keys) = h[Len(keys)]

\* Pressing is reached key by key, each time with what the keys so far have made of the line.
LEMMA PressingIs ==
    ASSUME NEW keys \in Seq(STRING)
    PROVE  \E h : Presses(h, keys)
<1> DEFINE n == Len(keys)
           T == [x \in Lines \X (1 .. n) |-> Pressed(x[1], keys[x[2]])]
<1>1. n \in Nat /\ DOMAIN keys = 1 .. n /\ \A k \in 1 .. n : keys[k] \in STRING
  OBVIOUS
<1>2. T \in [Lines \X (1 .. n) -> Lines] /\ << >> \in Lines
  BY <1>1, PressedIsLine, NamesAreLines
<1>3. \A a \in Lines, k \in 1 .. n : T[<<a, k>>] = Pressed(a, keys[k])
  OBVIOUS
<1> HIDE DEF T
<1>4. PICK f \in [SUBSET (1 .. n) -> Lines] : Folds(f, << >>, T, n)
  BY <1>1, <1>2, FoldExists
<1>5. PressingFolds(f, keys)
  <2>1. ASSUME NEW s \in SUBSET (1 .. n), s # {}
        PROVE  T[<<f[s \ {Max(s)}], Max(s)>>] = Pressed(f[s \ {Max(s)}], keys[Max(s)])
    <3>1. s \in SUBSET (0 .. n)
      BY <1>1
    <3>2. Max(s) \in 1 .. n
      BY <1>1, <2>1, <3>1, MaxIs
    <3>3. f[s \ {Max(s)}] \in Lines
      BY <1>4
    <3> QED
      BY <1>3, <3>2, <3>3
  <2> QED
    BY <1>1, <1>4, <2>1 DEF Folds, PressingFolds
<1> DEFINE c == CHOOSE g : PressingFolds(g, keys)
<1>6. PressingFolds(c, keys)
  BY <1>5
<1>7. Pressing(keys) = c[DOMAIN keys]
  BY Zenon DEF Pressing, FoldLeft, MapThenFoldSet, PressingFolds
<1> HIDE DEF c
<1> DEFINE h == [k \in 0 .. n |-> c[1 .. k]]
<1>8. h[0] = << >>
  <2>1. 1 .. 0 = {} /\ {} \in SUBSET DOMAIN keys
    OBVIOUS
  <2> QED
    BY <1>1, <1>6, <2>1 DEF PressingFolds
<1>9. ASSUME NEW k \in 1 .. n PROVE h[k] = Pressed(h[k - 1], keys[k])
  <2>1. /\ 1 .. k # {} /\ 1 .. k \in SUBSET (1 .. n)
        /\ Max(1 .. k) = k /\ (1 .. k) \ {k} = 1 .. k - 1
    BY <1>1, FirstOnes
  <2>2. c[1 .. k] = Pressed(c[1 .. k - 1], keys[k])
    BY <1>1, <1>6, <2>1 DEF PressingFolds
  <2> QED
    BY <1>1, <2>2
<1> DEFINE K == {k \in Nat : k <= n => h[k] \in Lines}
<1> HIDE DEF h
<1>10. 0 \in K
  BY <1>2, <1>8
<1>11. ASSUME NEW k \in Nat, k \in K PROVE k + 1 \in K
  <2> SUFFICES ASSUME k + 1 <= n PROVE h[k + 1] \in Lines
    OBVIOUS
  <2>1. k + 1 \in 1 .. n /\ (k + 1) - 1 = k /\ k <= n
    BY <1>1
  <2>2. h[k + 1] = Pressed(h[k], keys[k + 1])
    BY <1>9, <2>1
  <2>3. h[k] \in Lines /\ keys[k + 1] \in STRING
    BY <1>1, <1>11, <2>1
  <2> QED
    BY <2>2, <2>3, PressedIsLine
<1> HIDE DEF K
<1>12. Nat \subseteq K
  BY <1>10, <1>11, Induct
<1>13. h \in [0 .. n -> Lines]
  <2>1. \A k \in 0 .. n : h[k] \in Lines
    BY <1>1, <1>12 DEF K
  <2>2. h = [k \in 0 .. n |-> h[k]]
    BY DEF h
  <2> QED
    BY <2>1, <2>2
<1>14. Pressing(keys) = h[n]
  BY <1>1, <1>7 DEF h
<1>15. \E g : Presses(g, keys)
  BY <1>8, <1>9, <1>13, <1>14 DEF Presses
<1> QED
  BY <1>15


\* Functions that begin alike and go on alike.
LEMMA GoOnAlike ==
    ASSUME NEW n \in Nat, NEW g, NEW h, g[0] = h[0],
           \A k \in 1 .. n : g[k - 1] = h[k - 1] => g[k] = h[k]
    PROVE  g[n] = h[n]
<1> DEFINE K == {k \in Nat : k <= n => g[k] = h[k]}
<1>1. 0 \in K
  OBVIOUS
<1>2. ASSUME NEW k \in Nat, k \in K PROVE k + 1 \in K
  <2> SUFFICES ASSUME k + 1 <= n PROVE g[k + 1] = h[k + 1]
    OBVIOUS
  <2>1. k + 1 \in 1 .. n /\ (k + 1) - 1 = k /\ k <= n
    OBVIOUS
  <2> QED
    BY <1>2, <2>1
<1> HIDE DEF K
<1>3. n \in K
  BY <1>1, <1>2, Induct
<1> QED
  BY <1>3 DEF K

\* No keys, and one key more.
LEMMA PressingGoesOn ==
    /\ Pressing(<< >>) = << >>
    /\ \A keys \in Seq(STRING), c \in STRING :
          /\ Pressing(keys) \in Lines
          /\ Pressing(Append(keys, c)) = Pressed(Pressing(keys), c)
<1>1. Pressing(<< >>) = << >>
  <2>1. << >> \in Seq(STRING) /\ Len(<< >>) = 0
    OBVIOUS
  <2>2. PICK h : Presses(h, << >>)
    BY <2>1, PressingIs
  <2> QED
    BY <2>1, <2>2 DEF Presses
<1>2. ASSUME NEW keys \in Seq(STRING), NEW c \in STRING
      PROVE  /\ Pressing(keys) \in Lines
             /\ Pressing(Append(keys, c)) = Pressed(Pressing(keys), c)
  <2> DEFINE more == Append(keys, c)
             n == Len(keys)
  <2>1. /\ more \in Seq(STRING) /\ Len(more) = n + 1 /\ n \in Nat
        /\ more[n + 1] = c
        /\ \A i \in 1 .. n : more[i] = keys[i]
    <3>1. Append(keys, c) \in Seq(STRING) /\ Len(Append(keys, c)) = Len(keys) + 1
      BY AppendIs
    <3>2. Len(keys) \in Nat
      OBVIOUS
    <3>3. \A i \in 1 .. Len(keys) : Append(keys, c)[i] = keys[i]
      OBVIOUS
    <3>4. Append(keys, c)[Len(keys) + 1] = c
      BY AppendIs, Zenon
    <3> QED
      BY <3>1, <3>2, <3>3, <3>4
  <2> HIDE DEF more, n
  <2>2. PICK h : Presses(h, keys)
    BY PressingIs
  <2>3. PICK g : Presses(g, more)
    BY <2>1, PressingIs
  <2>4. /\ g[0] = h[0]
        /\ \A k \in 1 .. n : g[k - 1] = h[k - 1] => g[k] = h[k]
    <3>1. g[0] = << >> /\ h[0] = << >>
      BY <2>2, <2>3 DEF Presses
    <3>2. ASSUME NEW k \in 1 .. n, g[k - 1] = h[k - 1] PROVE g[k] = h[k]
      <4>1. k \in 1 .. Len(more) /\ more[k] = keys[k]
        BY <2>1
      <4>2. g[k] = Pressed(g[k - 1], keys[k])
        BY <2>3, <4>1 DEF Presses
      <4>3. h[k] = Pressed(h[k - 1], keys[k])
        BY <2>2 DEF Presses, n
      <4> QED
        BY <3>2, <4>2, <4>3
    <3> QED
      BY <3>1, <3>2
  <2>5. g[n] = h[n]
    BY <2>1, <2>4, GoOnAlike
  <2>6. g[n + 1] = Pressed(g[n], c)
    <3>1. n + 1 \in 1 .. Len(more) /\ (n + 1) - 1 = n
      BY <2>1
    <3> QED
      BY <2>1, <2>3, <3>1 DEF Presses
  <2>7. h[n] \in Lines
    BY <2>1, <2>2 DEF Presses, n
  <2> QED
    BY <2>1, <2>2, <2>3, <2>5, <2>6, <2>7 DEF Presses, more, n
<1> QED
  BY <1>1, <1>2

--------------------------------------------------------------------------------
(***************************************************************************)
(* Numbers: the fold of atoi is over digits, and makes a number.           *)
(***************************************************************************)
NumberFolds(f, s) ==
    f = [X \in SUBSET DOMAIN s |->
            IF X = {} THEN 0
            ELSE LET x == Max(X) IN plusDigit(f[X \ {x}], s[x])]

\* Every sequence of digits is one.
LEMMA DigitsAreNumber ==
    ASSUME NEW s \in Seq(DOMAIN Digit)
    PROVE  FoldLeft(plusDigit, 0, s) \in Nat
<1> DEFINE n == Len(s)
           T == [x \in Nat \X (1 .. n) |-> plusDigit(x[1], s[x[2]])]
<1>1. n \in Nat /\ DOMAIN s = 1 .. n /\ \A k \in 1 .. n : s[k] \in DOMAIN Digit
  OBVIOUS
<1>2. ASSUME NEW a \in Nat, NEW k \in 1 .. n PROVE plusDigit(a, s[k]) \in Nat
  <2>1. Digit[s[k]] \in Nat
    BY <1>1, ConsoleAssumption
  <2> QED
    BY <2>1 DEF plusDigit
<1>3. /\ T \in [Nat \X (1 .. n) -> Nat] /\ 0 \in Nat
      /\ \A a \in Nat, k \in 1 .. n : T[<<a, k>>] = plusDigit(a, s[k])
  BY <1>2
<1> HIDE DEF T
<1>4. PICK f \in [SUBSET (1 .. n) -> Nat] : Folds(f, 0, T, n)
  BY <1>1, <1>3, FoldExists
<1>5. NumberFolds(f, s)
  <2>1. ASSUME NEW X \in SUBSET (1 .. n), X # {}
        PROVE  T[<<f[X \ {Max(X)}], Max(X)>>] = plusDigit(f[X \ {Max(X)}], s[Max(X)])
    <3>1. X \in SUBSET (0 .. n)
      BY <1>1
    <3>2. Max(X) \in 1 .. n
      BY <1>1, <2>1, <3>1, MaxIs
    <3>3. f[X \ {Max(X)}] \in Nat
      BY <1>4
    <3> QED
      BY <1>3, <3>2, <3>3
  <2> QED
    BY <1>1, <1>4, <2>1 DEF Folds, NumberFolds
<1> DEFINE c == CHOOSE g : NumberFolds(g, s)
<1>6. NumberFolds(c, s)
  BY <1>5
<1>7. FoldLeft(plusDigit, 0, s) = c[DOMAIN s]
  BY Zenon DEF FoldLeft, MapThenFoldSet, NumberFolds
<1> HIDE DEF c
<1> DEFINE K == {k \in Nat : k <= n => c[1 .. k] \in Nat}
<1>8. 0 \in K
  <2>1. 1 .. 0 = {} /\ {} \in SUBSET DOMAIN s
    OBVIOUS
  <2>2. c[{}] = 0
    BY <1>6, <2>1 DEF NumberFolds
  <2> QED
    BY <2>1, <2>2
<1>9. ASSUME NEW k \in Nat, k \in K PROVE k + 1 \in K
  <2> SUFFICES ASSUME k + 1 <= n PROVE c[1 .. k + 1] \in Nat
    OBVIOUS
  <2> DEFINE j == k + 1
  <2>1. j \in 1 .. n /\ j - 1 = k /\ k <= n
    BY <1>1
  <2> HIDE DEF j
  <2>2. /\ 1 .. j # {} /\ 1 .. j \in SUBSET (1 .. n)
        /\ Max(1 .. j) = j /\ (1 .. j) \ {j} = 1 .. j - 1
    BY <1>1, <2>1, FirstOnes
  <2>3. c[1 .. j] = plusDigit(c[1 .. k], s[j])
    BY <1>1, <1>6, <2>1, <2>2 DEF NumberFolds
  <2>4. c[1 .. k] \in Nat
    BY <1>9, <2>1
  <2> QED
    BY <1>2, <2>1, <2>3, <2>4 DEF j
<1> HIDE DEF K
<1>10. n \in K
  BY <1>1, <1>8, <1>9, Induct
<1> QED
  BY <1>1, <1>7, <1>10 DEF K

\* The characters of parameters, and the mark of one that was never set.
Letter == STRING \union {"unset"}

\* Whatever the parameter, the conversions make numbers of it.
LEMMA ConversionsAreNumbers ==
    ASSUME NEW s \in Seq(Letter)
    PROVE  atoi(s) \in Nat /\ fromString(s) \in 0 .. ByteMax - 1
<1> DEFINE S == {k \in 0 .. Len(s) : IsDigits(SubSeq(s, 1, k))}
           n == Max(S)
<1>1. Len(s) \in Nat /\ \A k \in 0 .. Len(s) :
          /\ SubSeq(s, 1, k) \in Seq(Letter)
          /\ DOMAIN SubSeq(s, 1, k) = 1 .. k /\ Len(SubSeq(s, 1, k)) = k
  OBVIOUS
<1>2. 0 \in S
  <2>1. 0 \in 0 .. Len(s) /\ DOMAIN SubSeq(s, 1, 0) = 1 .. 0
    BY <1>1
  <2> QED
    BY <2>1 DEF IsDigits
<1>3. S \in SUBSET (0 .. Len(s))
  OBVIOUS
<1> HIDE DEF S
<1>4. n \in S
  BY <1>1, <1>2, <1>3, MaxIs
<1> HIDE DEF n
<1> DEFINE d == SubSeq(s, 1, n)
<1>5. d \in Seq(DOMAIN Digit)
  <2>1. n \in 0 .. Len(s) /\ IsDigits(d)
    BY <1>4 DEF S
  <2>2. Len(d) = n /\ DOMAIN d = 1 .. n /\ d \in Seq(Letter)
    BY <1>1, <2>1
  <2>3. \A i \in 1 .. n : d[i] \in DOMAIN Digit
    BY <2>1, <2>2 DEF IsDigits
  <2> HIDE DEF d
  <2> QED
    BY <2>1, <2>2, <2>3
<1>6. atoi(s) = FoldLeft(plusDigit, 0, d)
  BY Zenon DEF atoi, d, n, S
<1>7. atoi(s) \in Nat
  BY <1>5, <1>6, DigitsAreNumber
<1>8. ByteMax \in Nat \ {0}
  BY ConsoleAssumption
<1> QED
  BY <1>7, <1>8 DEF fromString


--------------------------------------------------------------------------------
\* What the variables of the properties hold, and the calls in the queue.
Values == [Var -> 0 .. ByteMax - 1]
Calls == [func : {"restart"}, param1 : {c.of : c \in ToSet(Commands)}]

\* The properties are in their sequence, and their variables among Var.
LEMMA PropertiesAre ==
    /\ Len(Properties) \in Nat /\ DOMAIN Properties = 1 .. Len(Properties)
    /\ \A i \in 1 .. Len(Properties) : Properties[i].var \in Var
<1>1. Properties \in Seq(ToSet(Properties))
  BY ConsoleAssumption
<1>2. Len(Properties) \in Nat /\ DOMAIN Properties = 1 .. Len(Properties)
  BY <1>1
<1> QED
  BY <1>2 DEF Var

(***************************************************************************)
(* Effects of a part of the loop of SetPropertyMenuCommand: what it has    *)
(* changed is the variable of a property of that name, and the value one   *)
(* that its validation lets pass.                                          *)
(***************************************************************************)
Passes(v, x, name, s) ==
    /\ validateString(s)
    /\ \E i \in DOMAIN Properties : /\ Properties[i].name = name
                                    /\ Properties[i].var = v
                                    /\ x \in Properties[i].accepts

\* The effects of "set": it sets, has nothing to set, or refuses; the queue stays as it is.
SetEffects == [queue : {queue}, value : Values,
               invoked : [what : {"nothing", "set", "invalid"}, arg : {<< >>}]]

\* Those in which a value changed only if a property of that name takes the new one.
Sets(name, s) ==
    {e \in SetEffects :
        \A v \in Var : e.value[v] # value[v] => Passes(v, e.value[v], name, s)}

\* One turn of the loop.
LEMMA SetItemSets ==
    ASSUME value \in Values, NEW name, NEW s \in Seq(Letter), NEW e \in Sets(name, s),
           NEW i \in 1 .. Len(Properties)
    PROVE  setItem(e, Properties[i], name, s) \in Sets(name, s)
<1> DEFINE item == Properties[i]
           r == setItem(e, item, name, s)
           x == fromString(s)
<1>1. /\ e.queue = queue /\ e.value \in Values
      /\ \A v \in Var : e.value[v] # value[v] => Passes(v, e.value[v], name, s)
  BY DEF Sets, SetEffects
<1>2. item.var \in Var /\ i \in DOMAIN Properties
  BY PropertiesAre
<1>3. x \in 0 .. ByteMax - 1
  BY ConversionsAreNumbers
<1>4. CASE ~ isNamed(item, name) \/ e.invoked.what = "invalid"
  BY <1>4 DEF setItem
<1>5. CASE isNamed(item, name) /\ e.invoked.what # "invalid" /\ validate(item, s)
  <2>1. r = [queue |-> queue, value |-> [e.value EXCEPT ![item.var] = x],
             invoked |-> [what |-> "set", arg |-> << >>]]
    BY <1>5 DEF setItem, Effect, set
  <2>2. Passes(item.var, x, name, s)
    BY <1>2, <1>5 DEF validate, isNamed, Passes
  <2> HIDE DEF x, item, r
  <2>3. r.value \in Values /\ r.value[item.var] = x
        /\ \A v \in Var : v # item.var => r.value[v] = e.value[v]
    BY <1>1, <1>2, <1>3, <2>1 DEF Values
  <2>4. \A v \in Var : r.value[v] # value[v] => Passes(v, r.value[v], name, s)
    BY <1>1, <2>2, <2>3
  <2>5. r \in SetEffects
    BY <2>1, <2>3 DEF SetEffects
  <2>6. r \in Sets(name, s)
    BY <2>4, <2>5 DEF Sets
  <2> QED
    BY <2>6 DEF r, item
<1>6. CASE isNamed(item, name) /\ e.invoked.what # "invalid" /\ ~ validate(item, s)
  <2>1. r = [queue |-> queue, value |-> e.value,
             invoked |-> [what |-> "invalid", arg |-> << >>]]
    BY <1>6 DEF setItem, Effect
  <2> HIDE DEF r
  <2>2. r \in SetEffects /\ r.value = e.value
    BY <1>1, <2>1 DEF SetEffects
  <2>3. r \in Sets(name, s)
    BY <1>1, <2>2 DEF Sets
  <2> QED
    BY <2>3 DEF r
<1> QED
  BY <1>4, <1>5, <1>6

\* The equation of the loop's fold.
SetFolds(f, name, s) ==
    f = [X \in SUBSET DOMAIN Properties |->
            IF X = {} THEN NoEffect("nothing")
            ELSE LET x == Max(X) IN setItem(f[X \ {x}], Properties[x], name, s)]

\* The whole loop.
LEMMA LoopSets ==
    ASSUME value \in Values, NEW name, NEW s \in Seq(Letter)
    PROVE  FoldLeft(LAMBDA e, item : setItem(e, item, name, s),
                    NoEffect("nothing"), Properties) \in Sets(name, s)
<1> DEFINE n == Len(Properties)
           A == Sets(name, s)
           base == NoEffect("nothing")
           T == [x \in A \X (1 .. n) |-> setItem(x[1], Properties[x[2]], name, s)]
<1>1. n \in Nat /\ DOMAIN Properties = 1 .. n
  BY PropertiesAre
<1>2. \A a \in A, k \in 1 .. n : setItem(a, Properties[k], name, s) \in A
  BY SetItemSets
<1>3. base \in A
  <2>1. base = [queue |-> queue, value |-> value,
                invoked |-> [what |-> "nothing", arg |-> << >>]]
    BY DEF NoEffect, Effect
  <2> HIDE DEF base
  <2>2. base.value = value /\ base \in SetEffects
    BY <2>1 DEF SetEffects
  <2> QED
    BY <2>2 DEF Sets
<1> HIDE DEF A, base
<1>4. /\ T \in [A \X (1 .. n) -> A]
      /\ \A a \in A, k \in 1 .. n : T[<<a, k>>] = setItem(a, Properties[k], name, s)
  BY <1>2
<1> HIDE DEF T
<1>5. PICK f \in [SUBSET (1 .. n) -> A] : Folds(f, base, T, n)
  BY <1>1, <1>3, <1>4, FoldExists
<1>6. SetFolds(f, name, s)
  <2>1. ASSUME NEW X \in SUBSET (1 .. n), X # {}
        PROVE  T[<<f[X \ {Max(X)}], Max(X)>>]
                   = setItem(f[X \ {Max(X)}], Properties[Max(X)], name, s)
    <3>1. X \in SUBSET (0 .. n)
      BY <1>1
    <3>2. Max(X) \in 1 .. n
      BY <1>1, <2>1, <3>1, MaxIs
    <3>3. f[X \ {Max(X)}] \in A
      BY <1>5
    <3> QED
      BY <1>4, <3>2, <3>3
  <2> QED
    BY <1>1, <1>5, <2>1 DEF Folds, SetFolds, base
<1> DEFINE c == CHOOSE g : SetFolds(g, name, s)
<1>7. SetFolds(c, name, s)
  BY <1>6
<1>8. FoldLeft(LAMBDA e, item : setItem(e, item, name, s),
               NoEffect("nothing"), Properties) = c[DOMAIN Properties]
  BY Zenon DEF FoldLeft, MapThenFoldSet, SetFolds
<1> HIDE DEF c
<1> DEFINE K == {k \in Nat : k <= n => c[1 .. k] \in A}
<1>9. 0 \in K
  <2>1. 1 .. 0 = {} /\ {} \in SUBSET DOMAIN Properties
    OBVIOUS
  <2>2. c[{}] = base
    BY <1>7, <2>1 DEF SetFolds, base
  <2> QED
    BY <1>3, <2>1, <2>2
<1>10. ASSUME NEW k \in Nat, k \in K PROVE k + 1 \in K
  <2> SUFFICES ASSUME k + 1 <= n PROVE c[1 .. k + 1] \in A
    OBVIOUS
  <2> DEFINE j == k + 1
  <2>1. j \in 1 .. n /\ j - 1 = k /\ k <= n
    BY <1>1
  <2> HIDE DEF j
  <2>2. /\ 1 .. j # {} /\ 1 .. j \in SUBSET (1 .. n)
        /\ Max(1 .. j) = j /\ (1 .. j) \ {j} = 1 .. j - 1
    BY <1>1, <2>1, FirstOnes
  <2>3. c[1 .. j] = setItem(c[1 .. k], Properties[j], name, s)
    BY <1>1, <1>7, <2>1, <2>2 DEF SetFolds
  <2>4. c[1 .. k] \in A
    BY <1>10, <2>1
  <2> QED
    BY <1>2, <2>1, <2>3, <2>4 DEF j
<1> HIDE DEF K
<1>11. n \in K
  BY <1>1, <1>9, <1>10, Induct
<1>12. c[DOMAIN Properties] \in A
  BY <1>1, <1>11 DEF K
<1> QED
  BY <1>8, <1>12, Zenon DEF A


--------------------------------------------------------------------------------
(***************************************************************************)
(* A function that each step makes from the one before.                    *)
(***************************************************************************)
Follows(h, base, T, n) ==
    h[0] = base /\ \A k \in 1 .. n : h[k] = T[<<h[k - 1], k>>]

\* It exists for every step.
LEMMA StepsExist ==
    ASSUME NEW n \in Nat, NEW A, NEW base \in A, NEW T \in [A \X (1 .. n) -> A]
    PROVE  \E h \in [0 .. n -> A] : Follows(h, base, T, n)
<1>1. PICK f \in [SUBSET (1 .. n) -> A] : Folds(f, base, T, n)
  BY FoldExists
<1>2. f[1 .. 0] = base /\ \A k \in 1 .. n : f[1 .. k] = T[<<f[1 .. k - 1], k>>]
  BY <1>1, FoldSteps
<1> DEFINE h == [k \in 0 .. n |-> f[1 .. k]]
<1>3. \A k \in 0 .. n : 1 .. k \in SUBSET (1 .. n)
  OBVIOUS
<1>4. h \in [0 .. n -> A]
  BY <1>3
<1>5. h[0] = base
  BY <1>2
<1>6. \A k \in 1 .. n : k - 1 \in 0 .. n /\ k \in 0 .. n
  OBVIOUS
<1>7. \A k \in 1 .. n : h[k] = T[<<h[k - 1], k>>]
  BY <1>2, <1>6
<1> HIDE DEF h
<1>8. Follows(h, base, T, n)
  BY <1>5, <1>7 DEF Follows
<1> QED
  BY <1>4, <1>8

\* What a blank, the i-th character, adds to the pointers.
Begin(line, i) == IF i < Len(line) THEN i + 1 ELSE 0

\* The loop's turns.
Turns(h, line) ==
    /\ h \in [0 .. Len(line) -> Seq(Nat)]
    /\ h[0] = <<1>>
    /\ \A i \in 1 .. Len(line) :
          h[i] = IF line[i] # Blank THEN h[i - 1]
                 ELSE Append(h[i - 1], Begin(line, i))

\* The equation of begins.
Unfolds(h, line) ==
    h = [i \in 0 .. Len(line) |->
            IF i = 0 THEN <<1>>
            ELSE IF line[i] # Blank THEN h[i - 1]
            ELSE Append(h[i - 1], IF i < Len(line) THEN i + 1 ELSE 0)]

\* begins is what the loop's turns over the line's characters make.
LEMMA BeginsTurns ==
    ASSUME NEW line \in Seq(STRING)
    PROVE  \E h : Turns(h, line) /\ begins(line) = h[Len(line)]
<1> DEFINE n == Len(line)
           T == [x \in Seq(Nat) \X (1 .. n) |->
                    IF line[x[2]] # Blank THEN x[1] ELSE Append(x[1], Begin(line, x[2]))]
<1>1. n \in Nat /\ <<1>> \in Seq(Nat)
  OBVIOUS
<1>2. ASSUME NEW a \in Seq(Nat), NEW k \in 1 .. n
      PROVE  (IF line[k] # Blank THEN a ELSE Append(a, Begin(line, k))) \in Seq(Nat)
  <2>1. Begin(line, k) \in Nat
    BY <1>1 DEF Begin
  <2>2. Append(a, Begin(line, k)) \in Seq(Nat)
    BY <2>1, AppendIs
  <2> QED
    BY <2>2
<1>3. T \in [Seq(Nat) \X (1 .. n) -> Seq(Nat)]
  BY <1>2
<1>4. \A a \in Seq(Nat), k \in 1 .. n :
         T[<<a, k>>] = IF line[k] # Blank THEN a ELSE Append(a, Begin(line, k))
  OBVIOUS
<1> HIDE DEF T, n
<1>5. PICK f \in [0 .. n -> Seq(Nat)] :
         f[0] = <<1>> /\ \A k \in 1 .. n : f[k] = T[<<f[k - 1], k>>]
  <2> DEFINE A == Seq(Nat)
             base == <<1>>
  <2>1. base \in A /\ T \in [A \X (1 .. n) -> A]
    BY <1>1, <1>3
  <2> HIDE DEF A, base
  <2>2. PICK f \in [0 .. n -> A] : Follows(f, base, T, n)
    BY <1>1, <2>1, StepsExist
  <2> QED
    BY <2>2 DEF A, base, Follows
<1>6. Unfolds(f, line)
  <2>1. ASSUME NEW i \in 0 .. n
        PROVE  f[i] = IF i = 0 THEN <<1>>
                      ELSE IF line[i] # Blank THEN f[i - 1]
                      ELSE Append(f[i - 1], IF i < Len(line) THEN i + 1 ELSE 0)
    <3>1. CASE i = 0
      BY <1>5, <3>1
    <3>2. CASE i # 0
      <4>1. i \in 1 .. n /\ i - 1 \in 0 .. n
        BY <1>1, <3>2
      <4>2. f[i - 1] \in Seq(Nat) /\ f[i] = T[<<f[i - 1], i>>]
        BY <1>5, <4>1
      <4> QED
        BY <1>4, <3>2, <4>1, <4>2 DEF Begin
    <3> QED
      BY <3>1, <3>2
  <2> QED
    BY <2>1 DEF Unfolds, n
<1> DEFINE h == CHOOSE g : Unfolds(g, line)
<1>7. Unfolds(h, line)
  BY <1>6
<1>8. begins(line) = h[n]
  BY Zenon DEF begins, Unfolds, n
<1> HIDE DEF h
<1>9. h[0] = <<1>>
  BY <1>1, <1>7 DEF Unfolds, n
<1>10. ASSUME NEW i \in 1 .. n
       PROVE  h[i] = IF line[i] # Blank THEN h[i - 1]
                     ELSE Append(h[i - 1], Begin(line, i))
  <2>1. i \in 0 .. n /\ i # 0
    BY <1>1
  <2> QED
    BY <1>7, <2>1 DEF Unfolds, n, Begin
<1> DEFINE K == {k \in Nat : k <= n => h[k] \in Seq(Nat)}
<1>11. 0 \in K
  BY <1>1, <1>9
<1>12. ASSUME NEW k \in Nat, k \in K PROVE k + 1 \in K
  <2> SUFFICES ASSUME k + 1 <= n PROVE h[k + 1] \in Seq(Nat)
    OBVIOUS
  <2> DEFINE j == k + 1
  <2>1. j \in 1 .. n /\ j - 1 = k /\ k <= n
    BY <1>1
  <2> HIDE DEF j
  <2>2. h[k] \in Seq(Nat)
    BY <1>12, <2>1
  <2>3. h[j] = IF line[j] # Blank THEN h[k] ELSE Append(h[k], Begin(line, j))
    BY <1>10, <2>1
  <2> QED
    BY <1>2, <2>1, <2>2, <2>3 DEF j
<1> HIDE DEF K
<1>13. Nat \subseteq K
  BY <1>11, <1>12, Induct
<1>14. h \in [0 .. n -> Seq(Nat)]
  <2>1. \A k \in 0 .. n : h[k] \in Seq(Nat)
    BY <1>1, <1>13 DEF K
  <2>2. h = [i \in 0 .. n |-> h[i]]
    BY <1>7 DEF Unfolds, n
  <2> QED
    BY <2>1, <2>2
<1>15. Turns(h, line)
  BY <1>9, <1>10, <1>14 DEF Turns, n
<1> QED
  BY <1>8, <1>15 DEF n


--------------------------------------------------------------------------------
(***************************************************************************)
(* Where the pointers are after a turn of the loop: each is behind the     *)
(* first blank behind the one before, and only the last may be unset.      *)
(***************************************************************************)
Behind(line, from, next) ==
    zero(line, from) \in 1 .. Len(line) /\ next = Begin(line, zero(line, from))

\* So they are after i turns; while the line goes on, the last is where a token begins.
Pointed(p, line, i) ==
    /\ p \in Seq(Nat) /\ Len(p) >= 1 /\ p[1] = 1
    /\ \A k \in 1 .. Len(p) - 1 : /\ p[k] \in 1 .. Len(line)
                                 /\ Behind(line, p[k], p[k + 1])
    /\ i < Len(line) => /\ p[Len(p)] \in 1 .. i + 1
                        /\ \A j \in p[Len(p)] .. i : line[j] # Blank
    /\ p[Len(p)] \in 0 .. Len(line) + 1

\* The string that begins at `from` ends at the first blank behind it.
LEMMA ZeroIs ==
    ASSUME NEW line \in Seq(STRING), NEW from \in 1 .. Len(line) + 1
    PROVE  /\ zero(line, from) \in from .. Len(line) + 1
           /\ zero(line, from) = Len(line) + 1 \/ line[zero(line, from)] = Blank
           /\ \A i \in from .. Len(line) :
                 line[i] = Blank => zero(line, from) <= i
           /\ zero(line, from) = parseToken(line, from)
<1> DEFINE n == Len(line)
           Z == {i \in from .. n + 1 : i = n + 1 \/ line[i] = Blank}
<1>1. n \in Nat
  OBVIOUS
<1>2. zero(line, from) = Min(Z)
  BY DEF zero
<1>3. n + 1 \in Z /\ Z \in SUBSET Nat
  BY <1>1
<1>4. Min(Z) \in Z /\ \A y \in Z : Min(Z) <= y
  <2> HIDE DEF Z
  <2> QED
    BY <1>3, MinIs
<1>5. Z = {i \in from .. n + 1 : isDelimiter(line, i)}
  BY ConsoleAssumption DEF isDelimiter
<1>6. zero(line, from) = parseToken(line, from)
  <2> HIDE DEF Z
  <2> QED
    BY <1>2, <1>5 DEF parseToken
<1> DEFINE z == zero(line, from)
<1>7. z \in Z /\ \A y \in Z : z <= y
  BY <1>2, <1>4
<1> HIDE DEF z
<1> QED
  BY <1>1, <1>6, <1>7 DEF z

\* Where it ends, when that is known.
LEMMA ZeroAt ==
    ASSUME NEW line \in Seq(STRING), NEW from \in 1 .. Len(line) + 1,
           NEW i \in from .. Len(line), line[i] = Blank,
           \A j \in from .. i - 1 : line[j] # Blank
    PROVE  zero(line, from) = i
<1> DEFINE z == zero(line, from)
<1>1. /\ z \in from .. Len(line) + 1
      /\ z = Len(line) + 1 \/ line[z] = Blank
      /\ z <= i
  BY ZeroIs
<1> HIDE DEF z
<1>2. line[z] = Blank /\ z \notin from .. i - 1 /\ Len(line) \in Nat
  BY <1>1
<1>3. z = i
  BY <1>1, <1>2
<1> QED
  BY <1>3 DEF z

\* A blank that is met adds a pointer.
LEMMA BlankIsMet ==
    ASSUME NEW line \in Seq(STRING), NEW i \in 1 .. Len(line), NEW p,
           Pointed(p, line, i - 1), line[i] = Blank
    PROVE  Pointed(Append(p, Begin(line, i)), line, i)
<1> DEFINE m == Len(p)
           b == Begin(line, i)
           q == Append(p, b)
<1>1. /\ p \in Seq(Nat) /\ m \in Nat /\ m >= 1 /\ p[1] = 1
      /\ \A k \in 1 .. m - 1 : p[k] \in 1 .. Len(line) /\ Behind(line, p[k], p[k + 1])
      /\ p[m] \in 1 .. i /\ \A j \in p[m] .. i - 1 : line[j] # Blank
      /\ Len(line) \in Nat
  <2>1. i - 1 < Len(line) /\ (i - 1) + 1 = i
    OBVIOUS
  <2> QED
    BY <2>1 DEF Pointed
<1>2. b \in Nat /\ b = IF i < Len(line) THEN i + 1 ELSE 0
  BY DEF Begin
<1> HIDE DEF b
<1>3. /\ q \in Seq(Nat) /\ Len(q) = m + 1 /\ q[m + 1] = b
      /\ \A k \in 1 .. m : q[k] = p[k]
  BY <1>1, <1>2, AppendIs
<1> HIDE DEF q, m
<1>4. zero(line, p[m]) = i
  <2>1. p[m] \in 1 .. Len(line) + 1 /\ i \in p[m] .. Len(line)
    BY <1>1
  <2> QED
    BY <1>1, <2>1, ZeroAt
<1>5. Behind(line, p[m], b)
  BY <1>4 DEF Behind, b
<1>6. ASSUME NEW k \in 1 .. m PROVE q[k] \in 1 .. Len(line) /\ Behind(line, q[k], q[k + 1])
  <2>1. CASE k = m
    BY <1>1, <1>3, <1>5, <2>1
  <2>2. CASE k # m
    <3>1. k \in 1 .. m - 1 /\ k + 1 \in 1 .. m
      BY <1>1, <2>2
    <3> QED
      BY <1>1, <1>3, <3>1
  <2> QED
    BY <2>1, <2>2
<1>7. i < Len(line) => b \in 1 .. i + 1 /\ \A j \in b .. i : line[j] # Blank
  BY <1>1, <1>2
<1>8. b \in 0 .. Len(line) + 1
  BY <1>1, <1>2
<1>9. Len(q) >= 1 /\ q[1] = 1 /\ Len(q) - 1 = m
  BY <1>1, <1>3
<1>10. Pointed(q, line, i)
  BY <1>3, <1>6, <1>7, <1>8, <1>9 DEF Pointed
<1> QED
  BY <1>10 DEF q, b

\* Another character adds none.
LEMMA OtherIsMet ==
    ASSUME NEW line \in Seq(STRING), NEW i \in 1 .. Len(line), NEW p,
           Pointed(p, line, i - 1), line[i] # Blank
    PROVE  Pointed(p, line, i)
<1>1. i - 1 < Len(line) /\ (i - 1) + 1 = i
  OBVIOUS
<1>2. Len(p) \in Nat /\ p[Len(p)] \in 1 .. i
      /\ \A j \in p[Len(p)] .. i - 1 : line[j] # Blank
  BY <1>1 DEF Pointed
<1>3. p[Len(p)] \in 1 .. i + 1 /\ \A j \in p[Len(p)] .. i : line[j] # Blank
  BY <1>2
<1> QED
  BY <1>3 DEF Pointed

\* The pointers of handler().
LEMMA BeginsArePointed ==
    ASSUME NEW line \in Seq(STRING)
    PROVE  Pointed(begins(line), line, Len(line))
<1> DEFINE n == Len(line)
<1>1. PICK h : Turns(h, line) /\ begins(line) = h[n]
  BY BeginsTurns
<1>2. n \in Nat
  OBVIOUS
<1> DEFINE K == {k \in Nat : k <= n => Pointed(h[k], line, k)}
<1>3. 0 \in K
  <2> DEFINE p == <<1>>
  <2>1. p \in Seq(Nat) /\ Len(p) = 1 /\ p[1] = 1
    OBVIOUS
  <2>2. h[0] = p
    BY <1>1 DEF Turns
  <2> HIDE DEF p
  <2>3. Pointed(p, line, 0)
    BY <1>2, <2>1 DEF Pointed
  <2> QED
    BY <2>2, <2>3
<1>4. ASSUME NEW k \in Nat, k \in K PROVE k + 1 \in K
  <2> SUFFICES ASSUME k + 1 <= n PROVE Pointed(h[k + 1], line, k + 1)
    OBVIOUS
  <2> DEFINE j == k + 1
  <2>1. j \in 1 .. n /\ j - 1 = k /\ k <= n
    BY <1>2
  <2> HIDE DEF j
  <2>2. Pointed(h[k], line, j - 1)
    BY <1>4, <2>1
  <2>3. h[j] = IF line[j] # Blank THEN h[k] ELSE Append(h[k], Begin(line, j))
    BY <1>1, <2>1 DEF Turns
  <2>4. Pointed(h[j], line, j)
    BY <2>1, <2>2, <2>3, BlankIsMet, OtherIsMet
  <2> QED
    BY <2>4 DEF j
<1> HIDE DEF K
<1>5. n \in K
  BY <1>2, <1>3, <1>4, Induct
<1> QED
  BY <1>1, <1>2, <1>5 DEF K


\* A part of a line.
LEMMA PartsAreStrings ==
    ASSUME NEW line \in Seq(STRING), NEW a \in 1 .. Len(line) + 1,
           NEW b \in 0 .. Len(line)
    PROVE  SubSeq(line, a, b) \in Seq(Letter)
<1>1. Len(line) \in Nat /\ \A i \in 1 .. Len(line) : line[i] \in Letter
  BY DEF Letter
<1>2. line \in Seq(Letter)
  BY <1>1
<1> HIDE DEF Letter
<1>3. \A i \in a .. b : i \in 1 .. Len(line)
  BY <1>1
<1> QED
  BY <1>1, <1>2, <1>3

\* The parameters: strings, of which only the last may be one that was not set.
LEMMA ParametersAre ==
    ASSUME NEW line \in Seq(STRING)
    PROVE  LET from == begins(line)
               p == parameters(line)
               n == Len(from)
           IN  /\ n \in Nat \ {0} /\ p \in Seq(Seq(Letter)) /\ Len(p) = n
               /\ from[1] = 1
               /\ \A k \in 1 .. n - 1 : from[k] \in 1 .. Len(line)
                                       /\ Behind(line, from[k], from[k + 1])
               /\ \A k \in 1 .. n :
                     /\ from[k] \in 0 .. Len(line) + 1
                     /\ from[k] = 0 => p[k] = Unset
                     /\ from[k] # 0 =>
                           p[k] = SubSeq(line, from[k], zero(line, from[k]) - 1)
<1> DEFINE from == begins(line)
           p == parameters(line)
           n == Len(from)
<1>1. Pointed(from, line, Len(line))
  BY BeginsArePointed
<1>2. /\ from \in Seq(Nat) /\ n \in Nat \ {0} /\ DOMAIN from = 1 .. n
      /\ from[1] = 1
      /\ \A k \in 1 .. n - 1 : from[k] \in 1 .. Len(line)
                              /\ Behind(line, from[k], from[k + 1])
      /\ from[n] \in 0 .. Len(line) + 1
  <2> HIDE DEF from
  <2>1. from \in Seq(Nat) /\ Len(from) >= 1
    BY <1>1 DEF Pointed
  <2>2. Len(from) \in Nat /\ DOMAIN from = 1 .. Len(from)
    BY <2>1
  <2> QED
    BY <1>1, <2>1, <2>2 DEF Pointed
<1>3. p = [k \in 1 .. n |-> IF from[k] = 0 THEN Unset
                            ELSE SubSeq(line, from[k], zero(line, from[k]) - 1)]
  <2>1. p = [k \in DOMAIN from |-> IF from[k] = 0 THEN Unset
                            ELSE SubSeq(line, from[k], zero(line, from[k]) - 1)]
    BY DEF parameters
  <2> QED
    BY <1>2, <2>1
<1> HIDE DEF from, p, n
<1>0. n \in Nat /\ n = Len(from)
  BY <1>2 DEF n
<1>4. ASSUME NEW k \in 1 .. n PROVE from[k] \in 0 .. Len(line) + 1
  <2>1. CASE k = n
    BY <1>2, <2>1
  <2>2. CASE k # n
    <3>1. k \in 1 .. n - 1
      BY <1>0, <2>2
    <3>2. from[k] \in 1 .. Len(line)
      BY <1>2, <3>1
    <3> QED
      BY <3>2
  <2> QED
    BY <2>1, <2>2
<1>5. ASSUME NEW k \in 1 .. n, from[k] # 0
      PROVE  SubSeq(line, from[k], zero(line, from[k]) - 1) \in Seq(Letter)
  <2>1. from[k] \in 1 .. Len(line) + 1 /\ Len(line) \in Nat
    BY <1>4, <1>5
  <2>2. zero(line, from[k]) - 1 \in 0 .. Len(line)
    <3>1. zero(line, from[k]) \in from[k] .. Len(line) + 1
      BY <2>1, ZeroIs
    <3> QED
      BY <2>1, <3>1
  <2> QED
    BY <2>1, <2>2, PartsAreStrings
<1>6. Unset \in Seq(Letter)
  <2>1. \A S : \A x \in S : <<x>> \in Seq(S)
    OBVIOUS
  <2>2. "unset" \in Letter
    BY DEF Letter
  <2> QED
    BY <2>1, <2>2, Zenon DEF Unset
<1>7. \A k \in 1 .. n : p[k] \in Seq(Letter)
  BY <1>3, <1>5, <1>6
<1>8. p \in Seq(Seq(Letter)) /\ Len(p) = n
  <2> DEFINE A == Seq(Letter)
  <2>1. \A k \in 1 .. n : p[k] \in A
    BY <1>7
  <2> HIDE DEF A
  <2>2. p \in [1 .. n -> A]
    BY <1>3, <2>1
  <2>3. p \in Seq(A) /\ Len(p) = n
    BY <1>0, <2>2
  <2> QED
    BY <2>3, Zenon DEF A
<1>9. \A k \in 1 .. n :
         /\ from[k] = 0 => p[k] = Unset
         /\ from[k] # 0 => p[k] = SubSeq(line, from[k], zero(line, from[k]) - 1)
  BY <1>3
<1> QED
  BY <1>2, <1>4, <1>8, <1>9 DEF from, p, n

--------------------------------------------------------------------------------
\* The command that is found, if one is.
LEMMA CommandIsFound ==
    ASSUME NEW word
    PROVE  LET i == canHandle(word)
           IN  \/ i = 0 /\ \A j \in DOMAIN Commands : Commands[j].name # word
               \/ i \in DOMAIN Commands /\ Commands[i].name = word
<1> DEFINE I == {i \in 1 .. Len(Commands) : matches(Commands[i], word)}
<1>1. DOMAIN Commands = 1 .. Len(Commands) /\ Len(Commands) \in Nat
  BY NamesAreLines
<1>2. canHandle(word) = IF I = {} THEN 0 ELSE Min(I)
  BY Zenon DEF canHandle, SelectInSeq
<1>3. CASE I = {}
  BY <1>1, <1>2, <1>3 DEF matches
<1>4. CASE I # {}
  <2>1. I \in SUBSET Nat
    OBVIOUS
  <2>2. Min(I) \in I
    <3> HIDE DEF I
    <3> QED
      BY <1>4, <2>1, MinIs
  <2> QED
    BY <1>1, <1>2, <1>4, <2>2 DEF matches
<1> QED
  BY <1>3, <1>4

\* The branches of Menu::handleCommand.
LEMMA Branches ==
    ASSUME NEW p
    PROVE  LET i == canHandle(p[1])
               e == handleCommand(p)
               rest == Tail(p)
           IN  \/ i = 0 /\ p[1] = Help /\ e = NoEffect("help")
               \/ /\ i = 0 /\ p[1] # Help /\ e = NoEffect("unrecognized")
                  /\ \A j \in DOMAIN Commands : Commands[j].name # p[1]
               \/ /\ i \in DOMAIN Commands
                  /\ Commands[i] \in ToSet(Commands)
                  /\ Commands[i].name = p[1]
                  /\ \/ e = restartCommand(Commands[i].of)
                     \/ e = functionCommand(Commands[i], rest)
                     \/ e = getCommand(rest)
                     \/ e = setCommand(rest)
<1> DEFINE i == canHandle(p[1])
           e == handleCommand(p)
<1>1. 0 \notin DOMAIN Commands /\ \A j \in DOMAIN Commands : Commands[j] \in ToSet(Commands)
  BY NamesAreLines DEF ToSet
<1>2. \/ i = 0 /\ \A j \in DOMAIN Commands : Commands[j].name # p[1]
      \/ i \in DOMAIN Commands /\ Commands[i].name = p[1]
  BY CommandIsFound
<1>3. CASE i = 0
  BY <1>1, <1>2, <1>3 DEF handleCommand, showHelp
<1>4. CASE i # 0
  <2>1. Commands[i].kind \in {"restart", "function", "get", "set"}
    BY <1>1, <1>2, <1>4, ConsoleAssumption
  <2> DEFINE k == Commands[i].kind
  <2>2. e = CASE k = "restart" -> restartCommand(Commands[i].of)
              [] k = "function" -> functionCommand(Commands[i], Tail(p))
              [] k = "get" -> getCommand(Tail(p))
              [] k = "set" -> setCommand(Tail(p))
    BY <1>4 DEF handleCommand, inc
  <2> HIDE DEF k, e, i
  <2>3. \/ e = restartCommand(Commands[i].of)
        \/ e = functionCommand(Commands[i], Tail(p))
        \/ e = getCommand(Tail(p))
        \/ e = setCommand(Tail(p))
    BY <2>1, <2>2 DEF k
  <2> QED
    BY <1>1, <1>2, <1>4, <2>3 DEF e, i
<1> QED
  BY <1>3, <1>4

\* A queue with room for a call, or that drops its oldest.
LEMMA PutIs ==
    ASSUME NEW S, NEW q \in Seq(S), Len(q) <= QueueSize, NEW c \in S
    PROVE  put(q, c) \in Seq(S) /\ Len(put(q, c)) <= QueueSize
<1>1. QueueSize \in Nat \ {0} /\ Len(q) \in Nat
  BY ConsoleAssumption
<1>2. CASE Len(q) < QueueSize
  <2>1. Append(q, c) \in Seq(S) /\ Len(Append(q, c)) = Len(q) + 1
    BY AppendIs
  <2> QED
    BY <1>1, <1>2, <2>1 DEF put
<1>3. CASE ~ (Len(q) < QueueSize)
  <2>1. q # << >> /\ Len(q) # 0
    BY <1>1, <1>3
  <2> DEFINE r == Tail(q)
  <2>2. r \in Seq(S) /\ Len(r) = Len(q) - 1
    BY <2>1
  <2> HIDE DEF r
  <2>3. Append(r, c) \in Seq(S) /\ Len(Append(r, c)) = Len(r) + 1
    BY <2>2, AppendIs
  <2>4. put(q, c) = Append(r, c)
    BY <1>3 DEF put, r
  <2> QED
    BY <1>1, <1>3, <2>2, <2>3, <2>4
<1> QED
  BY <1>2, <1>3

\* The parameters behind the command.
LEMMA RestIs ==
    ASSUME NEW S, NEW p \in Seq(S), Len(p) \in Nat \ {0}
    PROVE  /\ Tail(p) \in Seq(S) /\ Len(Tail(p)) = Len(p) - 1
           /\ \A k \in 1 .. Len(p) - 1 : Tail(p)[k] = p[k + 1] /\ p[k + 1] \in S
OBVIOUS

\* An effect that leaves the queue and the variables alone.
LEMMA NoEffectIs ==
    ASSUME NEW what, NEW arg
    PROVE  LET e == Effect(queue, value, what, arg)
           IN  e.queue = queue /\ e.value = value
               /\ e.invoked.what = what /\ e.invoked.arg = arg
BY DEF Effect

(***************************************************************************)
(* Whatever the parameters: the queue is not overrun, and a variable       *)
(* changes only to a number that its property lets pass.                   *)
(***************************************************************************)
LEMMA Handling ==
    ASSUME value \in Values, queue \in Seq(Calls), Len(queue) <= QueueSize,
           NEW p \in Seq(Seq(Letter)), Len(p) \in Nat \ {0}
    PROVE  LET e == handleCommand(p)
           IN  /\ e.queue \in Seq(Calls) /\ Len(e.queue) <= QueueSize
               /\ e.value \in Values
               /\ \A v \in Var : e.value[v] # value[v] =>
                     Len(p) = 3 /\ Passes(v, e.value[v], p[2], p[3])
<1> DEFINE e == handleCommand(p)
           i == canHandle(p[1])
           rest == Tail(p)
<1>1. /\ rest \in Seq(Seq(Letter)) /\ Len(rest) = Len(p) - 1
      /\ \A k \in 1 .. Len(p) - 1 : rest[k] = p[k + 1] /\ p[k + 1] \in Seq(Letter)
  <2> DEFINE S == Seq(Letter)
  <2> HIDE DEF S
  <2>1. p \in Seq(S)
    BY DEF S
  <2>2. /\ Tail(p) \in Seq(S) /\ Len(Tail(p)) = Len(p) - 1
        /\ \A k \in 1 .. Len(p) - 1 : Tail(p)[k] = p[k + 1] /\ p[k + 1] \in S
    BY <2>1, RestIs
  <2> QED
    BY <2>2 DEF S
<1>2. \/ e = NoEffect("help") \/ e = NoEffect("unrecognized")
      \/ Commands[i] \in ToSet(Commands) /\ e = restartCommand(Commands[i].of)
      \/ e = functionCommand(Commands[i], rest)
      \/ e = getCommand(rest)
      \/ e = setCommand(rest)
  BY Branches
<1> HIDE DEF e, rest, i
<1>3. ASSUME e.queue = queue, e.value = value
      PROVE  /\ e.queue \in Seq(Calls) /\ Len(e.queue) <= QueueSize
             /\ e.value \in Values
             /\ \A v \in Var : e.value[v] # value[v] =>
                   Len(p) = 3 /\ Passes(v, e.value[v], p[2], p[3])
  BY <1>3
<1>4. CASE e = NoEffect("help") \/ e = NoEffect("unrecognized")
  <2>1. e.queue = queue /\ e.value = value
    BY <1>4 DEF NoEffect, Effect
  <2> QED
    BY <1>3, <2>1 DEF e
<1>5. CASE Commands[i] \in ToSet(Commands) /\ e = restartCommand(Commands[i].of)
  <2> DEFINE call == create("restart", Commands[i].of)
  <2>1. call \in Calls
    BY <1>5 DEF create, Calls
  <2>2. e.queue = put(queue, call) /\ e.value = value
    BY <1>5 DEF restartCommand, Effect
  <2> HIDE DEF call
  <2>3. put(queue, call) \in Seq(Calls) /\ Len(put(queue, call)) <= QueueSize
    BY <2>1, PutIs
  <2> QED
    BY <2>2, <2>3 DEF e
<1>6. CASE e = functionCommand(Commands[i], rest)
  <2>1. e.queue = queue /\ e.value = value
    BY <1>6 DEF functionCommand, NoEffect, Effect
  <2> QED
    BY <1>3, <2>1 DEF e
<1>7. CASE e = getCommand(rest)
  <2>1. e.queue = queue /\ e.value = value
    <3>1. CASE Len(rest) # 1
      BY <1>7, <3>1 DEF getCommand, NoEffect, Effect
    <3>2. CASE Len(rest) = 1
      <4> DEFINE got == FoldLeft(LAMBDA shown, item : getItem(shown, item, rest[1]),
                                 << >>, Properties)
      <4>1. e = Effect(queue, value, "get", got)
        BY <1>7, <3>2, Zenon DEF getCommand
      <4> HIDE DEF got
      <4> QED
        BY <4>1, NoEffectIs
    <3> QED
      BY <3>1, <3>2
  <2> QED
    BY <1>3, <2>1 DEF e
<1>8. CASE e = setCommand(rest)
  <2>1. CASE Len(rest) # 2
    <3>1. e.queue = queue /\ e.value = value
      BY <1>8, <2>1 DEF setCommand, NoEffect, Effect
    <3> QED
      BY <1>3, <3>1 DEF e
  <2>2. CASE Len(rest) = 2
    <3>1. rest[1] = p[2] /\ rest[2] = p[3] /\ p[3] \in Seq(Letter) /\ Len(p) = 3
      <4> DEFINE n == Len(p)
      <4>0. n \in Nat /\ n - 1 = 2
        BY <1>1, <2>2
      <4> HIDE DEF n
      <4>1. 1 \in 1 .. n - 1 /\ 2 \in 1 .. n - 1 /\ n = 3
        BY <4>0
      <4> QED
        BY <1>1, <4>1 DEF n
    <3>2. e = FoldLeft(LAMBDA x, item : setItem(x, item, rest[1], rest[2]),
                       NoEffect("nothing"), Properties)
      BY <1>8, <2>2, Zenon DEF setCommand
    <3>3. e \in Sets(rest[1], rest[2])
      <4>1. rest[2] \in Seq(Letter)
        BY <3>1
      <4> QED
        BY <3>2, <4>1, LoopSets, Zenon
    <3>4. /\ e.queue = queue /\ e.value \in Values
          /\ \A v \in Var : e.value[v] # value[v] => Passes(v, e.value[v], p[2], p[3])
      BY <3>1, <3>3 DEF Sets, SetEffects
    <3> QED
      BY <3>1, <3>4 DEF e
  <2> QED
    BY <2>1, <2>2
<1> QED
  BY <1>2, <1>4, <1>5, <1>6, <1>7, <1>8 DEF e

--------------------------------------------------------------------------------
\* A sequence that begins with another, and its rest.
LEMMA PrefixIs ==
    ASSUME NEW S, NEW s \in Seq(S), NEW t \in Seq(S)
    PROVE  /\ IsPrefix(s, t) <=> Len(t) >= Len(s) /\ SubSeq(t, 1, Len(s)) = s
           /\ IsPrefix(s, t) => s \o SubSeq(t, Len(s) + 1, Len(t)) = t
<1> DEFINE n == Len(s)
           rest == SubSeq(t, n + 1, Len(t))
<1>1. n \in Nat /\ Len(t) \in Nat
  OBVIOUS
<1>2. IsPrefix(s, t) <=> n <= Len(t) /\ SubSeq(s, 1, n) = SubSeq(t, 1, n)
  BY DEF IsPrefix
<1>3. SubSeq(s, 1, n) = s
  OBVIOUS
<1>4. IsPrefix(s, t) <=> Len(t) >= n /\ SubSeq(t, 1, n) = s
  BY <1>1, <1>2, <1>3
<1>5. ASSUME IsPrefix(s, t) PROVE s \o rest = t
  <2>1. n <= Len(t) /\ SubSeq(t, 1, n) = s
    BY <1>4, <1>5
  <2>2. \A k \in 1 .. n : t[k] = s[k]
    <3>1. \A k \in 1 .. n : SubSeq(t, 1, n)[k] = t[k]
      BY <1>1, <2>1
    <3> QED
      BY <2>1, <3>1
  <2>3. /\ rest \in Seq(S) /\ Len(rest) = Len(t) - n
        /\ \A k \in 1 .. Len(t) - n : rest[k] = t[n + k]
    BY <1>1, <2>1
  <2> HIDE DEF rest
  <2>4. /\ s \o rest \in Seq(S) /\ Len(s \o rest) = n + Len(rest)
        /\ \A k \in 1 .. Len(s \o rest) :
              (s \o rest)[k] = IF k <= n THEN s[k] ELSE rest[k - n]
    BY <1>1, <2>3
  <2>5. Len(s \o rest) = Len(t)
    BY <1>1, <2>3, <2>4
  <2>6. ASSUME NEW k \in 1 .. Len(t) PROVE (s \o rest)[k] = t[k]
    <3>1. CASE k <= n
      BY <1>1, <2>2, <2>4, <2>5, <3>1
    <3>2. CASE ~ (k <= n)
      <4>1. k - n \in 1 .. Len(t) - n /\ n + (k - n) = k
        BY <1>1, <3>2
      <4>2. rest[k - n] = t[k]
        BY <2>3, <4>1
      <4> QED
        BY <2>4, <2>5, <3>2, <4>2
    <3> QED
      BY <3>1, <3>2
  <2> HIDE DEF n
  <2> QED
    BY <2>4, <2>5, <2>6, SeqEqual
<1> QED
  BY <1>4, <1>5

\* A tab completes the line as it is meant to, and shows it.
LEMMA Completion ==
    ASSUME NEW line \in Lines
    PROVE  /\ processTab(line, line).line = Pressed(line, Tab)
           /\ processTab(line, line).shown = Pressed(line, Tab)
<1>1. Candidates(line) = Fits(line)
  <2>1. ASSUME NEW i \in DOMAIN Commands
        PROVE  IsPrefix(line, Commands[i].name)
                  <=> /\ Len(Commands[i].name) >= Len(line)
                      /\ SubSeq(Commands[i].name, 1, Len(line)) = line
    BY NamesAreLines, PrefixIs DEF Lines
  <2> QED
    BY <2>1 DEF Candidates, Fits
<1> DEFINE i == CHOOSE j \in Fits(line) : TRUE
           name == Commands[i].name
           suffix == SubSeq(name, Len(line) + 1, Len(name))
<1>2. CASE Cardinality(Fits(line)) = 1
  <2>1. i \in Fits(line)
    BY <1>2, FS_EmptySet
  <2>2. i \in DOMAIN Commands /\ name \in Seq(STRING) /\ line \in Seq(STRING)
    BY <2>1, NamesAreLines DEF Fits, Lines
  <2>3. IsPrefix(line, name)
    BY <1>1, <2>1 DEF Candidates
  <2>4. line \o suffix = name
    BY <2>2, <2>3, PrefixIs
  <2>5. processTab(line, line) = [line |-> line \o suffix, shown |-> line \o suffix]
    BY <1>1, <1>2 DEF processTab, appendToInputLine, Edited
  <2>6. Pressed(line, Tab) = name
    BY <1>2 DEF Pressed
  <2> HIDE DEF suffix, name
  <2> QED
    BY <2>4, <2>5, <2>6
<1>3. CASE Cardinality(Fits(line)) # 1
  <2>1. showPrompt \o line = line
    BY DEF showPrompt, Lines
  <2>2. processTab(line, line) = [line |-> line, shown |-> line]
    BY <1>1, <1>3, <2>1 DEF processTab, Edited
  <2>3. Pressed(line, Tab) = line
    BY <1>3 DEF Pressed
  <2> QED
    BY <2>2, <2>3
<1> QED
  BY <1>2, <1>3

--------------------------------------------------------------------------------
\* What was typed and not yet taken by the console.
Unread == (IF stream.cache = NoChar THEN << >> ELSE <<stream.cache>>) \o stream.device

\* The keys, without the one that ends a line.
Keystroke == Char \ {Newline}

\* The blanks among the first i characters of a line.
Blanks(line, i) == {j \in 1 .. i : line[j] = Blank}

\* As many words can be cut out of the one as out of the other, or fewer.
Fewer(line, keys) ==
    Cardinality(Blanks(line, Len(line))) <= Cardinality(Blanks(keys, Len(keys)))

\* A blank that is appended counts once.
IsBlank(c) == IF c = Blank THEN 1 ELSE 0

LEMMA BlanksAppended ==
    ASSUME NEW A, NEW s \in Seq(A), NEW c \in A
    PROVE  /\ Cardinality(Blanks(s, Len(s))) \in Nat
           /\ IsBlank(c) \in Nat
           /\ Cardinality(Blanks(Append(s, c), Len(Append(s, c))))
                 = Cardinality(Blanks(s, Len(s))) + IsBlank(c)
<1> DEFINE n == Len(s)
           a == Append(s, c)
           b == Blanks(s, n)
           d == Blanks(a, n + 1)
<1>1. n \in Nat /\ Len(a) = n + 1
  BY AppendIs
<1>2. (\A i \in 1 .. n : a[i] = s[i]) /\ a[n + 1] = c
  BY AppendIs
<1>3. IsFiniteSet(b) /\ Cardinality(b) \in Nat /\ n + 1 \notin b
  <2>1. IsFiniteSet(1 .. n) /\ b \subseteq 1 .. n
    BY <1>1, FS_Interval DEF Blanks
  <2>2. n + 1 \notin 1 .. n
    BY <1>1
  <2> HIDE DEF b
  <2> QED
    BY <2>1, <2>2, FS_Subset, FS_CardinalityType
<1> HIDE DEF a
<1>4. \A i : i \in 1 .. n + 1 <=> i \in 1 .. n \/ i = n + 1
  BY <1>1
<1> HIDE DEF n
<1>5. IsBlank(c) \in Nat
  BY DEF IsBlank
<1>6. Cardinality(d) = Cardinality(b) + IsBlank(c)
  <2>1. CASE c = Blank
    <3>1. d = b \union {n + 1} /\ IsBlank(c) = 1
      BY <1>2, <1>4, <2>1 DEF Blanks, IsBlank
    <3> HIDE DEF b, d
    <3> QED
      BY <1>3, <3>1, FS_AddElement
  <2>2. CASE c # Blank
    <3>1. d = b /\ IsBlank(c) = 0
      BY <1>2, <1>4, <2>2 DEF Blanks, IsBlank
    <3> HIDE DEF b, d
    <3> QED
      BY <1>3, <3>1
  <2> QED
    BY <2>1, <2>2
<1> QED
  BY <1>1, <1>3, <1>5, <1>6, Zenon DEF a, b, d, n

\* An empty line, and a name of the menu, have no blank.
LEMMA NoBlanks ==
    /\ Cardinality(Blanks(<< >>, Len(<< >>))) = 0
    /\ \A i \in DOMAIN Commands :
          LET name == Commands[i].name IN Cardinality(Blanks(name, Len(name))) = 0
<1>1. Blanks(<< >>, Len(<< >>)) = {}
  BY DEF Blanks
<1>2. ASSUME NEW i \in DOMAIN Commands
      PROVE  Blanks(Commands[i].name, Len(Commands[i].name)) = {}
  <2> DEFINE name == Commands[i].name
  <2>1. Commands[i] \in ToSet(Commands)
    BY DEF ToSet
  <2>2. name \in Seq(STRING) /\ Blank \notin ToSet(name)
    BY <2>1, ConsoleAssumption
  <2>3. \A j \in 1 .. Len(name) : name[j] \in ToSet(name)
    BY <2>2 DEF ToSet
  <2> QED
    BY <2>2, <2>3 DEF Blanks
<1> QED
  BY <1>1, <1>2, FS_EmptySet

\* Completion adds no blank, and a full line loses some.
LEMMA PressedHasFewer ==
    ASSUME NEW line \in Lines, NEW keys \in Seq(STRING), NEW c \in STRING,
           Fewer(line, keys)
    PROVE  Fewer(Pressed(line, c), Append(keys, c))
<1> DEFINE count(l) == Cardinality(Blanks(l, Len(l)))
<1>1. line \in Seq(STRING)
  BY DEF Lines
<1>2. /\ count(line) \in Nat /\ count(keys) \in Nat /\ count(line) <= count(keys)
      /\ IsBlank(c) \in Nat
      /\ count(Append(line, c)) = count(line) + IsBlank(c)
      /\ count(Append(keys, c)) = count(keys) + IsBlank(c)
  BY <1>1, BlanksAppended DEF Fewer
<1>3. Pressed(line, c) = line \/ Pressed(line, c) = Append(line, c)
        \/ \E i \in DOMAIN Commands : Pressed(line, c) = Commands[i].name
  <2>1. CASE c = Tab /\ Cardinality(Fits(line)) = 1
    <3> DEFINE i == CHOOSE j \in Fits(line) : TRUE
    <3>1. Fits(line) # {}
      <4>1. Cardinality(Fits(line)) = 1
        BY <2>1
      <4>2. Cardinality({}) # 1
        BY FS_EmptySet
      <4> QED
        BY <4>1, <4>2, Zenon
    <3>2. i \in Fits(line) /\ Fits(line) \subseteq DOMAIN Commands
      BY <3>1 DEF Fits
    <3>3. Pressed(line, c) = Commands[i].name
      BY <2>1 DEF Pressed
    <3> HIDE DEF i
    <3> QED
      BY <3>2, <3>3
  <2>2. CASE c = Tab /\ Cardinality(Fits(line)) # 1
    BY <2>2, Zenon DEF Pressed
  <2>3. CASE c # Tab
    BY <2>3, Zenon DEF Pressed
  <2> QED
    BY <2>1, <2>2, <2>3
<1>4. ASSUME NEW i \in DOMAIN Commands PROVE count(Commands[i].name) = 0
  BY NoBlanks
<1> DEFINE l == count(line)
           k == count(keys)
           p == count(Pressed(line, c))
           b == IsBlank(c)
<1>5. l \in Nat /\ k \in Nat /\ l <= k /\ b \in Nat
  BY <1>2
<1>6. p = l \/ p = l + b \/ p = 0
  BY <1>2, <1>3, <1>4
<1>7. count(Append(keys, c)) = k + b
  BY <1>2
<1> HIDE DEF l, k, p, b
<1>8. p <= k + b
  BY <1>5, <1>6
<1> QED
  BY <1>7, <1>8 DEF p, Fewer

(***************************************************************************)
(* The types.  The cache holds a character exactly while handler() is      *)
(* between looking at it and taking it.                                    *)
(***************************************************************************)
Typed ==
    /\ stream \in [device : Seq(Char), cache : Char \union {NoChar}]
    /\ pc \in {"peek", "get", "calls"}
    /\ pc = "get" <=> stream.cache # NoChar
    /\ inputLine \in Lines
    /\ screen = inputLine
    /\ queue \in Seq(Calls) /\ Len(queue) <= QueueSize
    /\ value \in Values
    /\ sent \in Seq(Char)

(***************************************************************************)
(* Of what was typed since the last line, the console has taken some keys, *)
(* and the line is what they are meant to make, with no more blanks than   *)
(* they have; the rest it has not read.                                    *)
(***************************************************************************)
Taken(keys) ==
    /\ sent = keys \o Unread /\ inputLine = Pressing(keys)
    /\ Fewer(inputLine, keys)

Reading == \E keys \in Seq(Keystroke) : Taken(keys)

\* The inductive invariant: the types, the screen, and where reading has got to.
Inv == Typed /\ Reading

\* Sequences over a smaller set are sequences over a larger one.
LEMMA SeqsOf == ASSUME NEW A, NEW B, A \subseteq B PROVE Seq(A) \subseteq Seq(B)
OBVIOUS

\* The characters are strings.
LEMMA CharsAreStrings ==
    Char \subseteq STRING /\ NoChar \notin Char /\ Seq(Keystroke) \subseteq Seq(STRING)
<1>1. ASSUME NEW s \in Sessions PROVE ToSet(s) \subseteq STRING
  <2>1. s \in Seq(STRING)
    BY ConsoleAssumption
  <2> QED
    BY <2>1 DEF ToSet
<1>2. Char \subseteq STRING
  BY <1>1 DEF Char
<1> DEFINE K == Keystroke
<1>3. K \subseteq STRING
  BY <1>2 DEF Keystroke
<1> HIDE DEF K
<1>4. Seq(K) \subseteq Seq(STRING)
  BY <1>3, SeqsOf
<1> QED
  BY <1>2, <1>4, ConsoleAssumption DEF K

\* What is appended to the second of two sequences is appended to both.
AppendsBehind(a, b, c) == Append(a \o b, c) = a \o Append(b, c)

\* It does.
LEMMA AppendedBehind ==
    ASSUME NEW S, NEW a \in Seq(S), NEW b \in Seq(S), NEW c \in S
    PROVE  AppendsBehind(a, b, c)
BY DEF AppendsBehind

\* Sequences that are put together and taken apart.
LEMMA Concatenated ==
    ASSUME NEW S, NEW a \in Seq(S), NEW b \in Seq(S), NEW c \in S
    PROVE  /\ a \o (<<c>> \o b) = Append(a, c) \o b
           /\ << >> \o b = b /\ a \o << >> = a
           /\ b # << >> => << >> \o b = <<Head(b)>> \o Tail(b)
           /\ <<c>> \o b \in Seq(S) /\ a \o b \in Seq(S)
<1>2. a \o (<<c>> \o b) = Append(a, c) \o b
  OBVIOUS
<1>3. << >> \o b = b /\ a \o << >> = a
  OBVIOUS
<1>4. b # << >> => << >> \o b = <<Head(b)>> \o Tail(b)
  OBVIOUS
<1>5. <<c>> \o b \in Seq(S) /\ a \o b \in Seq(S)
  OBVIOUS
<1> QED
  BY <1>2, <1>3, <1>4, <1>5

\* What stands behind the first a elements is all that is left.
LEMMA RestOfSentIs ==
    ASSUME NEW S, NEW s \in Seq(S), NEW rest \in Seq(S), NEW a \in Nat,
           Len(s) = a + Len(rest),
           \A i \in 1 .. Len(rest) : s[a + i] = rest[i]
    PROVE  SubSeq(s, a + 1, Len(s)) = rest
<1>1. Len(rest) \in Nat /\ a <= Len(s) /\ Len(s) - a = Len(rest)
  OBVIOUS
<1>2. PICK r : r = SubSeq(s, a + 1, Len(s))
  OBVIOUS
<1>3. r \in Seq(S) /\ Len(r) = Len(s) - a
  BY <1>1, <1>2, BehindIs
<1>4. \A i \in 1 .. Len(s) - a : r[i] = s[a + i]
  BY <1>1, <1>2, BehindIs
<1>5. \A i \in 1 .. Len(rest) : r[i] = rest[i]
  BY <1>1, <1>4
<1>6. r = rest
  BY <1>1, <1>3, <1>5, SeqEqual
<1> QED
  BY <1>2, <1>6

\* A line that is read: the keys up to the first newline, and the rest.
LEMMA LineIs ==
    ASSUME NEW keys \in Seq(Keystroke), NEW rest \in Seq(Char), Newline \in Char,
           sent = keys \o (<<Newline>> \o rest)
    PROVE  /\ FirstLine = Append(keys, Newline)
           /\ SubSeq(sent, Len(FirstLine) + 1, Len(sent)) = rest
           /\ FirstLine # << >> /\ Front(FirstLine) = keys
<1> DEFINE n == Len(keys)
           N == {i \in DOMAIN sent : sent[i] = Newline}
           first == SubSeq(sent, 1, n + 1)
<1>1. keys \in Seq(Char) /\ n \in Nat /\ Len(rest) \in Nat
      /\ \A i \in 1 .. n : keys[i] # Newline
  <2>1. \A i \in 1 .. Len(keys) : keys[i] \in Keystroke
    OBVIOUS
  <2>2. \A i \in 1 .. Len(keys) : keys[i] \in Char /\ keys[i] # Newline
    BY <2>1 DEF Keystroke
  <2>3. keys \in [1 .. Len(keys) -> Char] /\ Len(keys) \in Nat
    BY <2>2
  <2> QED
    BY <2>2, <2>3
<1>2. sent = Append(keys, Newline) \o rest
  BY <1>1, Concatenated
<1>3. /\ sent \in Seq(Char) /\ Len(sent) = n + 1 + Len(rest)
      /\ DOMAIN sent = 1 .. n + 1 + Len(rest)
      /\ \A i \in 1 .. n : sent[i] = keys[i]
      /\ sent[n + 1] = Newline
      /\ \A i \in 1 .. Len(rest) : sent[n + 1 + i] = rest[i]
  <2> DEFINE a == Append(keys, Newline)
  <2>1. /\ a \in Seq(Char) /\ Len(a) = n + 1 /\ a[n + 1] = Newline
        /\ \A i \in 1 .. n : a[i] = keys[i]
    BY <1>1, AppendIs
  <2> HIDE DEF a
  <2>2. sent = a \o rest
    BY <1>2 DEF a
  <2> QED
    BY <1>1, <2>1, <2>2
<1>4. Min(N) = n + 1
  <2>1. n + 1 \in N /\ N \in SUBSET Nat /\ \A i \in N : i \in Nat /\ ~ (i \in 1 .. n) /\ i >= 1
    BY <1>1, <1>3
  <2> HIDE DEF N
  <2>2. Min(N) \in N /\ \A y \in N : Min(N) <= y
    BY <2>1, MinIs
  <2> DEFINE m == Min(N)
  <2>3. m \in Nat /\ ~ (m \in 1 .. n) /\ m >= 1 /\ m <= n + 1
    BY <2>1, <2>2
  <2> HIDE DEF m, n
  <2>4. n \in Nat
    BY <1>1
  <2>5. m = n + 1
    BY <2>3, <2>4
  <2> QED
    BY <2>5 DEF m
<1>5. FirstLine = first
  BY <1>4, Zenon DEF FirstLine
<1>6. /\ first \in Seq(Char) /\ Len(first) = n + 1
      /\ \A i \in 1 .. n + 1 : first[i] = sent[i]
  BY <1>1, <1>3
<1> HIDE DEF first, n
<1>7. first = Append(keys, Newline)
  <2> DEFINE a == Append(keys, Newline)
  <2>1. /\ a \in Seq(Char) /\ Len(a) = n + 1 /\ a[n + 1] = Newline
        /\ \A i \in 1 .. n : a[i] = keys[i]
    BY <1>1, AppendIs DEF n
  <2> HIDE DEF a
  <2>2. \A i \in 1 .. n + 1 : first[i] = a[i]
    <3>1. ASSUME NEW i \in 1 .. n + 1 PROVE i \in 1 .. n \/ i = n + 1
      BY <1>1
    <3> QED
      BY <1>3, <1>6, <2>1, <3>1
  <2>3. first = a
    BY <1>6, <2>1, <2>2, SeqEqual
  <2> QED
    BY <2>3 DEF a
<1>8. SubSeq(sent, n + 2, Len(sent)) = rest
  <2> DEFINE s == sent
             a == n + 1
  <2>1. s \in Seq(Char) /\ a \in Nat /\ Len(s) = a + Len(rest) /\ a + 1 = n + 2
    BY <1>1, <1>3
  <2>2. \A i \in 1 .. Len(rest) : s[a + i] = rest[i]
    BY <1>3
  <2> HIDE DEF s, a
  <2>3. SubSeq(s, a + 1, Len(s)) = rest
    BY <2>1, <2>2, RestOfSentIs
  <2> QED
    BY <2>1, <2>3 DEF s
<1>9. SubSeq(sent, Len(FirstLine) + 1, Len(sent)) = rest
  BY <1>1, <1>5, <1>6, <1>8
<1>10. Front(first) = keys
  <2> DEFINE f == Front(first)
  <2>1. f = SubSeq(first, 1, Len(first) - 1)
    BY DEF Front
  <2>2. Len(first) - 1 = n
    BY <1>1, <1>6
  <2>3. f \in Seq(Char) /\ Len(f) = n /\ \A i \in 1 .. n : f[i] = first[i]
    BY <1>1, <1>6, <2>1, <2>2
  <2> HIDE DEF f
  <2>4. \A i \in 1 .. n : f[i] = keys[i]
    BY <1>1, <1>3, <1>6, <2>3
  <2>5. f = keys
    BY <1>1, <2>3, <2>4, SeqEqual DEF n
  <2> QED
    BY <2>5 DEF f
<1>11. first # << >>
  BY <1>1, <1>6
<1> QED
  BY <1>5, <1>7, <1>9, <1>10, <1>11

--------------------------------------------------------------------------------
\* It begins with nothing typed.
LEMMA InitInv == Init => Inv
<1> SUFFICES ASSUME Init PROVE Inv
  OBVIOUS
<1>1. Typed
  <2>1. stream = [device |-> << >>, cache |-> NoChar]
    BY DEF Init, EmptyStream
  <2>2. stream \in [device : Seq(Char), cache : Char \union {NoChar}]
        /\ stream.cache = NoChar
    BY <2>1
  <2>3. value \in Values
    <3>1. 0 \in 0 .. ByteMax - 1
      BY ConsoleAssumption
    <3> QED
      BY <3>1 DEF Init, Values
  <2>4. queue \in Seq(Calls) /\ Len(queue) <= QueueSize
    <3>1. Len(<< >>) = 0 /\ QueueSize \in Nat
      BY ConsoleAssumption
    <3> QED
      BY <3>1 DEF Init
  <2>5. inputLine \in Lines /\ screen = inputLine
    BY NamesAreLines DEF Init, showPrompt
  <2>6. pc = "peek" /\ sent \in Seq(Char)
    BY DEF Init
  <2> QED
    BY <2>2, <2>3, <2>4, <2>5, <2>6 DEF Typed
<1>2. Taken(<< >>)
  <2>1. Unread = << >>
    BY DEF Init, EmptyStream, Unread
  <2>2. << >> \o << >> = << >>
    OBVIOUS
  <2> QED
    BY <2>1, <2>2, PressingGoesOn, NoBlanks DEF Init, Taken, Fewer
<1>3. << >> \in Seq(Keystroke)
  OBVIOUS
<1> QED
  BY <1>1, <1>2, <1>3 DEF Inv, Reading

\* What is typed continues one of the sessions.
LEMMA KeysAreChars ==
    ASSUME sent \in Seq(Char)
    PROVE  Keys \subseteq Char
<1> DEFINE n == Len(Unfinished)
           N == {i \in DOMAIN sent : sent[i] = Newline}
<1>1. n \in Nat
  <2>1. CASE N = {}
    BY <2>1 DEF Unfinished
  <2>2. CASE N # {}
    <3>1. Len(sent) \in Nat /\ N \in SUBSET (0 .. Len(sent))
      OBVIOUS
    <3>2. Max(N) \in N
      <4> HIDE DEF N
      <4> QED
        BY <2>2, <3>1, MaxIs
    <3> DEFINE m == Max(N) + 1
    <3>3. m \in 1 .. Len(sent) + 1
      BY <3>1, <3>2
    <3>4. Unfinished = SubSeq(sent, m, Len(sent))
      BY <2>2, Zenon DEF Unfinished
    <3> HIDE DEF m
    <3>5. Len(SubSeq(sent, m, Len(sent))) \in Nat
      BY <3>1, <3>3
    <3> QED
      BY <3>4, <3>5
  <2> QED
    BY <2>1, <2>2
<1> HIDE DEF n
<1>2. ASSUME NEW s \in Sessions, Len(s) > n PROVE s[n + 1] \in Char
  <2>1. s \in Seq(STRING)
    BY ConsoleAssumption
  <2>2. DOMAIN s = 1 .. Len(s) /\ Len(s) \in Nat
    BY <2>1
  <2>3. n + 1 \in DOMAIN s
    BY <1>1, <1>2, <2>2
  <2>4. s[n + 1] \in ToSet(s)
    BY <2>3 DEF ToSet
  <2> QED
    BY <2>4 DEF Char
<1> QED
  BY <1>2 DEF Keys, n

\* A key that is typed is not read yet.
LEMMA TypeInv ==
    ASSUME Inv, NEW c \in Char, Type(c)
    PROVE  Inv'
<1>1. Typed
  BY DEF Inv
<1>2. PICK keys \in Seq(Keystroke) : Taken(keys)
  BY DEF Inv, Reading
<1> DEFINE d == stream.device
<1>3. /\ stream'.device = Append(d, c) /\ stream'.cache = stream.cache
      /\ stream' \in [device : Seq(Char), cache : Char \union {NoChar}]
      /\ d \in Seq(Char)
  <2>1. stream' = [stream EXCEPT !.device = Append(d, c)]
    BY DEF Type
  <2>2. stream \in [device : Seq(Char), cache : Char \union {NoChar}]
    BY <1>1 DEF Typed
  <2>3. d \in Seq(Char) /\ Append(d, c) \in Seq(Char)
    BY <2>2
  <2> HIDE DEF d
  <2> QED
    BY <2>1, <2>2, <2>3
<1>4. Typed'
  <2>1. sent' \in Seq(Char)
    BY <1>1 DEF Typed, Type
  <2>2. UNCHANGED <<pc, inputLine, screen, queue, value>>
    BY DEF Type
  <2> QED
    BY <1>1, <1>3, <2>1, <2>2 DEF Typed
<1>5. Unread \in Seq(Char) /\ Unread' = Append(Unread, c)
  <2> DEFINE a == IF stream.cache = NoChar THEN << >> ELSE <<stream.cache>>
  <2>1. a \in Seq(Char)
    BY <1>1 DEF Typed
  <2>2. Unread = a \o d /\ Unread' = a \o Append(d, c)
    BY <1>3 DEF Unread
  <2> HIDE DEF a, d
  <2>3. Append(a \o d, c) = a \o Append(d, c) /\ a \o d \in Seq(Char)
    <3>1. AppendsBehind(a, d, c)
      BY <1>3, <2>1, AppendedBehind
    <3>2. a \o d \in Seq(Char)
      BY <1>3, <2>1
    <3> QED
      BY <3>1, <3>2 DEF AppendsBehind
  <2> QED
    BY <2>2, <2>3
<1>6. Taken(keys)'
  <2>1. keys \in Seq(Char)
    BY SeqsOf DEF Keystroke
  <2>2. Append(keys \o Unread, c) = keys \o Append(Unread, c)
    <3>1. AppendsBehind(keys, Unread, c)
      BY <1>5, <2>1, AppendedBehind
    <3> QED
      BY <3>1 DEF AppendsBehind
  <2>3. sent' = Append(sent, c) /\ inputLine' = inputLine
    BY DEF Type
  <2> QED
    BY <1>2, <1>5, <2>2, <2>3 DEF Taken
<1> QED
  BY <1>2, <1>4, <1>6 DEF Inv, Reading

\* Looking at a character moves it into the cache.
LEMMA PeekInv ==
    ASSUME Inv, Peek
    PROVE  Inv'
<1>1. Typed
  BY DEF Inv
<1>2. PICK keys \in Seq(Keystroke) : Taken(keys)
  BY DEF Inv, Reading
<1> DEFINE d == stream.device
           S == [device : Seq(Char), cache : Char \union {NoChar}]
<1>3. stream.cache = NoChar /\ pc = "peek" /\ stream \in S /\ d \in Seq(Char)
  BY <1>1 DEF Typed, Peek
<1>4. UNCHANGED <<inputLine, screen, queue, value, sent>>
  BY DEF Peek
<1>5. Unread = d
  <2>1. Unread = << >> \o d
    BY <1>3 DEF Unread
  <2>2. << >> \o d = d
    BY <1>3
  <2> QED
    BY <2>1, <2>2
<1>6. CASE d = << >>
  <2>1. peek(stream) = [stream |-> stream, char |-> NoChar]
    BY <1>3, <1>6 DEF peek, sgetc, in_avail, Got
  <2>2. stream' = stream /\ pc' = "calls"
    BY <2>1 DEF Peek
  <2>3. Typed'
    BY <1>1, <1>3, <1>4, <2>2 DEF Typed
  <2>4. Taken(keys)'
    BY <1>2, <1>4, <2>2 DEF Taken, Unread
  <2> QED
    BY <1>2, <2>3, <2>4 DEF Inv, Reading
<1>7. CASE d # << >>
  <2>1. peek(stream) = [stream |-> [device |-> Tail(d), cache |-> Head(d)],
                        char |-> Head(d)]
    BY <1>3, <1>7 DEF peek, sgetc, in_avail, Got
  <2>2. Head(d) \in Char /\ Tail(d) \in Seq(Char)
    BY <1>3, <1>7
  <2>3. Head(d) # NoChar
    BY <2>2, CharsAreStrings
  <2>4. stream' = [device |-> Tail(d), cache |-> Head(d)] /\ pc' = "get"
    BY <2>1, <2>3 DEF Peek
  <2>5. Typed'
    <3>1. stream' \in S /\ stream'.cache # NoChar
      BY <2>2, <2>3, <2>4
    <3> QED
      BY <1>1, <1>4, <2>4, <3>1 DEF Typed
  <2>6. Unread' = d
    <3>1. Unread' = <<Head(d)>> \o Tail(d)
      BY <2>3, <2>4 DEF Unread
    <3>2. <<Head(d)>> \o Tail(d) = d
      BY <1>3, <1>7, Concatenated, <2>2
    <3> QED
      BY <3>1, <3>2
  <2>7. Taken(keys)'
    BY <1>2, <1>4, <1>5, <2>6 DEF Taken
  <2> QED
    BY <1>2, <2>5, <2>7 DEF Inv, Reading
<1> QED
  BY <1>6, <1>7

(***************************************************************************)
(* Taking a character, the one looked at: it leaves the cache, and is the  *)
(* next of what was typed.                                                 *)
(***************************************************************************)
LEMMA TakeIs ==
    ASSUME Typed, Take, NEW keys \in Seq(Keystroke), Taken(keys)
    PROVE  /\ received \in Char /\ received = stream.cache
           /\ stream' \in [device : Seq(Char), cache : Char \union {NoChar}]
           /\ stream'.cache = NoChar
           /\ Unread' \in Seq(Char)
           /\ sent = keys \o (<<received>> \o Unread')
           /\ sent = Append(keys, received) \o Unread'
<1> DEFINE d == stream.device
           S == [device : Seq(Char), cache : Char \union {NoChar}]
<1>1. /\ stream.cache # NoChar /\ stream \in S /\ d \in Seq(Char)
      /\ stream.cache \in Char
  BY DEF Typed, Take
<1>2. getChar(stream) = [stream |-> [stream EXCEPT !.cache = NoChar],
                         char |-> stream.cache]
  BY <1>1 DEF getChar, sbumpc, Got
<1>3. received = stream.cache /\ stream' = [stream EXCEPT !.cache = NoChar]
  BY <1>2 DEF received, Take
<1>4. stream' \in S /\ stream'.cache = NoChar /\ stream'.device = d
  BY <1>1, <1>3
<1>5. Unread' = d
  <2>1. Unread' = << >> \o d
    BY <1>4 DEF Unread
  <2>2. << >> \o d = d
    BY <1>1
  <2> QED
    BY <2>1, <2>2
<1>6. Unread = <<received>> \o d
  BY <1>1, <1>3 DEF Unread
<1>7. keys \in Seq(Char)
  BY SeqsOf DEF Keystroke
<1> HIDE DEF d, S
<1>8. keys \o (<<received>> \o d) = Append(keys, received) \o d
  BY <1>1, <1>3, <1>7, Concatenated
<1> QED
  BY <1>1, <1>3, <1>4, <1>5, <1>6, <1>8 DEF Taken, S

\* A key that is taken, and makes of the line what it is meant to.
LEMMA KeyInv ==
    ASSUME Inv, Take, received # Newline, inputLine' = Pressed(inputLine, received),
           screen' = inputLine', UNCHANGED <<queue, value, sent>>,
           pc' \in {"peek", "calls"}
    PROVE  Inv'
<1>1. Typed
  BY DEF Inv
<1>2. PICK keys \in Seq(Keystroke) : Taken(keys)
  BY DEF Inv, Reading
<1>3. /\ received \in Char
      /\ stream' \in [device : Seq(Char), cache : Char \union {NoChar}]
      /\ stream'.cache = NoChar
      /\ sent = Append(keys, received) \o Unread'
  BY <1>1, <1>2, TakeIs
<1>4. received \in STRING /\ keys \in Seq(STRING)
  BY <1>3, CharsAreStrings
<1>0. PICK c \in Keystroke : c = received
  BY <1>3 DEF Keystroke
<1>5. Typed'
  <2>1. inputLine' \in Lines
    BY <1>1, <1>4, PressedIsLine DEF Typed
  <2> QED
    BY <1>1, <1>3, <2>1 DEF Typed
<1>6. Pressing(Append(keys, c)) = Pressed(inputLine, c)
  <2>1. inputLine = Pressing(keys)
    BY <1>2 DEF Taken
  <2> QED
    BY <1>0, <1>4, <2>1, PressingGoesOn
<1>7. Append(keys, c) \in Seq(Keystroke)
  BY AppendIs
<1>8. sent' = Append(keys, c) \o Unread' /\ inputLine' = Pressing(Append(keys, c))
  BY <1>0, <1>3, <1>6
<1>9. Fewer(inputLine', Append(keys, c))
  BY <1>0, <1>1, <1>2, <1>4, PressedHasFewer DEF Typed, Taken
<1>10. Taken(Append(keys, c))'
  BY <1>8, <1>9 DEF Taken
<1> QED
  BY <1>5, <1>7, <1>10 DEF Inv, Reading

\* Completion.
LEMMA CompleteInv ==
    ASSUME Inv, Complete
    PROVE  Inv'
<1>1. Typed /\ inputLine \in Lines /\ screen = inputLine
  BY DEF Inv, Typed
<1>2. /\ Take /\ received = Tab /\ pc' = "peek"
      /\ inputLine' = processTab(inputLine, inputLine).line
      /\ screen' = processTab(inputLine, inputLine).shown
      /\ UNCHANGED <<queue, value, sent>>
  BY <1>1 DEF Complete
<1>3. received # Newline
  BY <1>2 DEF Tab, Newline
<1>4. inputLine' = Pressed(inputLine, received) /\ screen' = inputLine'
  BY <1>1, <1>2, Completion
<1> QED
  BY <1>2, <1>3, <1>4, KeyInv

\* A character that goes into the line, or is lost.
LEMMA EchoInv ==
    ASSUME Inv, Echo
    PROVE  Inv'
<1>1. inputLine \in Lines /\ screen = inputLine
  BY DEF Inv, Typed
<1>2. Len(inputLine) \in Nat /\ InputMax \in Nat \ {0} /\ Len(inputLine) < InputMax
  BY <1>1, ConsoleAssumption DEF Lines
<1>3. /\ Take /\ received # Tab /\ received # Newline
      /\ UNCHANGED <<queue, value, sent>>
  BY DEF Echo
<1>4. CASE Len(inputLine) = InputMax - 1
  <2>1. pc' = "calls" /\ inputLine' = inputLine /\ screen' = screen
    BY <1>4 DEF Echo, LineIsFull
  <2>2. Pressed(inputLine, received) = inputLine
    BY <1>2, <1>3, <1>4 DEF Pressed
  <2> QED
    BY <1>1, <1>3, <2>1, <2>2, KeyInv
<1>5. CASE Len(inputLine) # InputMax - 1
  <2>1. /\ pc' = "peek" /\ inputLine' = Append(inputLine, received)
        /\ screen' = Append(screen, received)
    BY <1>5 DEF Echo, LineIsFull
  <2>2. Len(inputLine) + 1 < InputMax
    BY <1>2, <1>5
  <2>3. Pressed(inputLine, received) = Append(inputLine, received)
    BY <1>3, <2>2 DEF Pressed
  <2> QED
    BY <1>1, <1>3, <2>1, <2>3, KeyInv
<1> QED
  BY <1>4, <1>5

(***************************************************************************)
(* A line that is entered: what is executed is what was typed, and what is *)
(* left of it was not read.                                                *)
(***************************************************************************)
LEMMA EnterIs ==
    ASSUME Inv, Enter
    PROVE  /\ submitted' # << >> /\ inputLine = Meant(submitted')
           /\ sent' = Unread' /\ sent' \in Seq(Char)
           /\ stream' \in [device : Seq(Char), cache : Char \union {NoChar}]
           /\ stream'.cache = NoChar
<1>1. Typed
  BY DEF Inv
<1>2. PICK keys \in Seq(Keystroke) : Taken(keys)
  BY DEF Inv, Reading
<1>3. /\ Take /\ received = Newline
      /\ sent' = SubSeq(sent, Len(FirstLine) + 1, Len(sent))
      /\ submitted' = FirstLine
  BY DEF Enter
<1>4. /\ Newline \in Char /\ Unread' \in Seq(Char)
      /\ sent = keys \o (<<Newline>> \o Unread')
      /\ stream' \in [device : Seq(Char), cache : Char \union {NoChar}]
      /\ stream'.cache = NoChar
  BY <1>1, <1>2, <1>3, TakeIs
<1> DEFINE u == Unread'
<1> HIDE DEF u
<1>5. u \in Seq(Char) /\ sent = keys \o (<<Newline>> \o u)
  BY <1>4 DEF u
<1>6. /\ SubSeq(sent, Len(FirstLine) + 1, Len(sent)) = u
      /\ FirstLine # << >> /\ Front(FirstLine) = keys
  BY <1>4, <1>5, LineIs
<1>7. Meant(submitted') = Pressing(keys)
  <2>1. Front(submitted') = keys
    BY <1>3, <1>6
  <2> QED
    BY <2>1, Zenon DEF Meant, Pressing
<1> QED
  BY <1>2, <1>3, <1>4, <1>6, <1>7 DEF Taken, u

\* What is executed when a line is entered.
LEMMA EnterHandles ==
    ASSUME Inv, Enter, inputLine # << >>
    PROVE  LET p == parameters(inputLine)
               e == handleCommand(p)
           IN  /\ p \in Seq(Seq(Letter)) /\ Len(p) \in Nat \ {0}
               /\ queue' = e.queue /\ value' = e.value /\ invoked' = e.invoked
               /\ e.queue \in Seq(Calls) /\ Len(e.queue) <= QueueSize
               /\ e.value \in Values
               /\ \A v \in Var : e.value[v] # value[v] =>
                     Len(p) = 3 /\ Passes(v, e.value[v], p[2], p[3])
<1> DEFINE p == parameters(inputLine)
           e == handleCommand(p)
<1>1. p \in Seq(Seq(Letter)) /\ Len(p) \in Nat \ {0}
  BY ParametersAre DEF Inv, Typed, Lines
<1>2. queue' = e.queue /\ value' = e.value /\ invoked' = e.invoked
  BY DEF Enter
<1> HIDE DEF p
<1>3. /\ e.queue \in Seq(Calls) /\ Len(e.queue) <= QueueSize
      /\ e.value \in Values
      /\ \A v \in Var : e.value[v] # value[v] =>
            Len(p) = 3 /\ Passes(v, e.value[v], p[2], p[3])
  BY <1>1, Handling DEF Inv, Typed
<1> QED
  BY <1>1, <1>2, <1>3 DEF p

\* Enter keeps it: the line is taken up to its newline, and the next one is begun.
LEMMA EnterInv ==
    ASSUME Inv, Enter
    PROVE  Inv'
<1>1. Typed
  BY DEF Inv
<1>2. /\ sent' = Unread' /\ sent' \in Seq(Char)
      /\ stream' \in [device : Seq(Char), cache : Char \union {NoChar}]
      /\ stream'.cache = NoChar
  BY EnterIs
<1>3. inputLine' = << >> /\ screen' = << >>
  BY DEF Enter, showPrompt
<1>4. /\ pc' \in {"peek", "calls"}
      /\ queue' \in Seq(Calls) /\ Len(queue') <= QueueSize /\ value' \in Values
  <2>1. CASE inputLine = << >>
    BY <1>1, <2>1 DEF Enter, Typed
  <2>2. CASE inputLine # << >>
    <3>1. queue' \in Seq(Calls) /\ Len(queue') <= QueueSize /\ value' \in Values
      BY <2>2, EnterHandles
    <3>2. pc' = "peek"
      BY <2>2 DEF Enter
    <3> QED
      BY <3>1, <3>2
  <2> QED
    BY <2>1, <2>2
<1>5. Typed'
  BY <1>2, <1>3, <1>4, NamesAreLines DEF Typed
<1>6. Taken(<< >>)' /\ << >> \in Seq(Keystroke)
  <2> DEFINE u == Unread'
  <2>1. u \in Seq(Char) /\ sent' = u
    BY <1>2
  <2> HIDE DEF u
  <2>2. << >> \o u = u
    BY <2>1
  <2> QED
    BY <1>3, <2>1, <2>2, PressingGoesOn, NoBlanks DEF Taken, Fewer, u
<1> QED
  BY <1>5, <1>6 DEF Inv, Reading

\* The main loop's other steps, which do not touch the stream.
LEMMA LoopInv ==
    ASSUME Inv, MakeCall \/ CallHandler
    PROVE  Inv'
<1>1. Typed
  BY DEF Inv
<1>2. PICK keys \in Seq(Keystroke) : Taken(keys)
  BY DEF Inv, Reading
<1>3. UNCHANGED <<stream, inputLine, screen, value, sent>>
  BY DEF MakeCall, CallHandler
<1>4. pc = "calls" /\ pc' \in {"peek", "calls"}
  BY DEF MakeCall, CallHandler
<1>5. queue' \in Seq(Calls) /\ Len(queue') <= QueueSize
  <2>1. CASE MakeCall
    <3>1. queue # << >> /\ queue' = Tail(queue)
      BY <2>1 DEF MakeCall, MayCall
    <3>2. queue \in Seq(Calls) /\ Len(queue) <= QueueSize /\ QueueSize \in Nat
      BY <1>1, ConsoleAssumption DEF Typed
    <3>3. Tail(queue) \in Seq(Calls) /\ Len(Tail(queue)) = Len(queue) - 1
          /\ Len(queue) \in Nat
      BY <3>1, <3>2
    <3> QED
      BY <3>1, <3>2, <3>3
  <2>2. CASE CallHandler
    BY <1>1, <2>2 DEF CallHandler, Typed
  <2> QED
    BY <2>1, <2>2
<1>6. Typed'
  BY <1>1, <1>3, <1>4, <1>5 DEF Typed
<1>7. Taken(keys)'
  BY <1>2, <1>3 DEF Taken, Unread
<1> QED
  BY <1>2, <1>6, <1>7 DEF Inv, Reading

\* Every action keeps it.
LEMMA NextInv ==
    ASSUME Inv, [Next]_vars
    PROVE  Inv'
<1>1. CASE Peek
  BY <1>1, PeekInv
<1>2. CASE Complete
  BY <1>2, CompleteInv
<1>3. CASE Enter
  BY <1>3, EnterInv
<1>4. CASE Echo
  BY <1>4, EchoInv
<1>5. CASE MakeCall \/ CallHandler
  BY <1>5, LoopInv
<1>6. CASE \E c \in Keys : Type(c)
  BY <1>6, KeysAreChars, TypeInv DEF Inv, Typed
<1>7. CASE UNCHANGED vars
  BY <1>7 DEF vars, Inv, Typed, Reading, Taken, Unread
<1> QED
  BY <1>1, <1>2, <1>3, <1>4, <1>5, <1>6, <1>7 DEF Next, Program

\* The invariant holds of every state that handler and the main loop reach.
THEOREM InvHolds == Spec => []Inv
<1>1. Init => Inv
  BY InitInv
<1>2. Inv /\ [Next]_vars => Inv'
  BY NextInv
<1> QED
  BY <1>1, <1>2, PTL DEF Spec

\* The line leaves room for the zero that handler writes behind it, however typing and
\* completion are mixed, the stream and the values keep their types, and the queue of calls is
\* never overrun.
THEOREM TypeCorrect == Spec => []TypeOK
<1>1. Inv => TypeOK
  BY DEF Inv, Typed, Lines, Values, TypeOK
<1> QED
  BY <1>1, InvHolds, PTL

\* What handler has echoed behind the prompt is the line that Enter will execute, also after
\* characters that completion has put there.
THEOREM LineIsShown == Spec => []ScreenShowsLine
<1>1. Inv => ScreenShowsLine
  BY DEF Inv, Typed, ScreenShowsLine
<1> QED
  BY <1>1, InvHolds, PTL

--------------------------------------------------------------------------------
\* Functions on an interval that begin alike and go on alike.
GoOn(g, h, a, b) ==
    \A k \in a .. b : (k = a \/ g[k - 1] = h[k - 1]) => g[k] = h[k]

\* They are the same function.
LEMMA Alike ==
    ASSUME NEW a \in Nat, NEW b \in Nat, NEW g, NEW h, GoOn(g, h, a, b)
    PROVE  \A k \in a .. b : g[k] = h[k]
<1> DEFINE U == {k \in a .. b : g[k] # h[k]}
<1> SUFFICES ASSUME U # {} PROVE FALSE
  OBVIOUS
<1>1. U \in SUBSET Nat
  OBVIOUS
<1>2. PICK k \in U : \A j \in U : k <= j
  <2> HIDE DEF U
  <2> QED
    BY <1>1, Least
<1>3. k # a
  BY <1>2 DEF GoOn
<1>4. k - 1 \in a .. b /\ k - 1 \notin U
  BY <1>2, <1>3
<1>5. g[k - 1] = h[k - 1]
  BY <1>4
<1> QED
  BY <1>2, <1>5 DEF GoOn

\* A part of a line, and one character more.
LEMMA PartGrows ==
    ASSUME NEW S, NEW line \in Seq(S), NEW a \in 1 .. Len(line), NEW i \in a .. Len(line)
    PROVE  SubSeq(line, a, i) = Append(SubSeq(line, a, i - 1), line[i])
<1> DEFINE s == SubSeq(line, a, i)
           r == SubSeq(line, a, i - 1)
           m == i - a
<1>1. a \in Nat /\ i \in Nat /\ m \in Nat /\ Len(line) \in Nat /\ m + 1 = i - a + 1
  OBVIOUS
<1>2. s \in Seq(S) /\ Len(s) = m + 1 /\ \A k \in 1 .. m + 1 : s[k] = line[a + k - 1]
  OBVIOUS
<1>3. r \in Seq(S) /\ Len(r) = m /\ \A k \in 1 .. m : r[k] = line[a + k - 1]
  OBVIOUS
<1>4. line[i] \in S /\ a + (m + 1) - 1 = i
  OBVIOUS
<1> HIDE DEF s, r, m
<1> DEFINE t == Append(r, line[i])
<1>5. /\ t \in Seq(S) /\ Len(t) = m + 1 /\ t[m + 1] = line[i]
      /\ \A k \in 1 .. m : t[k] = r[k]
  BY <1>3, <1>4, AppendIs
<1> HIDE DEF t
<1>6. \A k \in 1 .. m + 1 : s[k] = t[k]
  <2>1. \A k \in 1 .. m + 1 : k \in 1 .. m \/ k = m + 1
    BY <1>1
  <2>2. m + 1 \in 1 .. m + 1
    BY <1>1
  <2>3. s[m + 1] = line[i]
    BY <1>2, <1>4, <2>2
  <2>4. \A k \in 1 .. m : s[k] = line[a + k - 1]
    BY <1>1, <1>2
  <2> QED
    BY <1>3, <1>5, <2>1, <2>3, <2>4
<1>7. s = t
  BY <1>2, <1>5, <1>6, SeqEqual
<1> QED
  BY <1>7 DEF s, t, r

\* The equations of Tokens, copyToken and CopiedTokens.
Starts(f, line, n) ==
    f = [k \in 1 .. n |-> IF k = 1 THEN 1 ELSE advance(line, f[k - 1])]

Copies(f, line, from, end) ==
    f = [i \in from .. end |-> parse(IF i = from THEN << >> ELSE f[i - 1], line, i)]

\* Where the token behind the one that begins at `from` is looked for.
CopyNext(line, from) == from + copyToken(line, from).length

\* The equation of where each token copied begins.
CopyStarts(f, line, n) ==
    f = [k \in 1 .. n |-> IF k = 1 THEN 1 ELSE CopyNext(line, f[k - 1])]

\* A token that is copied is the part of the line up to the delimiter.
LEMMA CopyIs ==
    ASSUME NEW line \in Seq(STRING), NEW from \in 1 .. Len(line) + 1
    PROVE  LET end == parseToken(line, from)
           IN  /\ copyToken(line, from).token = SubSeq(line, from, end - 1)
               /\ from <= Len(line) => copyToken(line, from).length = end - from + 1
<1> DEFINE end == parseToken(line, from)
           g == [i \in from .. end |-> SubSeq(line, from, IF i < end THEN i ELSE end - 1)]
           copy == CHOOSE f : Copies(f, line, from, end)
<1>1. /\ end \in from .. Len(line) + 1 /\ Len(line) \in Nat /\ end \in Nat /\ from \in Nat
      /\ end = Len(line) + 1 \/ line[end] = Blank
      /\ \A i \in from .. Len(line) : line[i] = Blank => end <= i
  BY ZeroIs
<1>2. \A i \in from .. end : isDelimiter(line, i) <=> i = end
  <2> HIDE DEF end
  <2>1. \A i : isDelimiter(line, i) <=> i = Len(line) + 1 \/ line[i] = Blank
    BY ConsoleAssumption DEF isDelimiter
  <2>2. ASSUME NEW i \in from .. end, i # end PROVE i \in from .. Len(line)
    BY <1>1, <2>2
  <2> QED
    BY <1>1, <2>1, <2>2
<1>3. copyToken(line, from) =
         [token |-> copy[end],
          length |-> IF from = Len(line) + 1 THEN 0 ELSE Len(copy[end]) + 1]
  BY Zenon DEF copyToken, Copies
<1> HIDE DEF end
<1>4. ASSUME NEW i \in from .. end
      PROVE  g[i] = parse(IF i = from THEN << >> ELSE g[i - 1], line, i)
  <2> DEFINE before == IF i = from THEN << >> ELSE g[i - 1]
  <2>1. before = SubSeq(line, from, i - 1)
    <3>1. CASE i = from
      <4>1. SubSeq(line, from, from - 1) = << >>
        BY <1>1
      <4> QED
        BY <3>1, <4>1
    <3>2. CASE i # from
      <4>1. i - 1 \in from .. end /\ i - 1 < end
        BY <1>1, <3>2
      <4> QED
        BY <3>2, <4>1
    <3> QED
      BY <3>1, <3>2
  <2> HIDE DEF before
  <2>2. ASSUME i = end PROVE g[i] = parse(before, line, i)
    <3>1. parse(before, line, i) = before
      BY <1>2, <2>2 DEF parse
    <3>2. g[i] = SubSeq(line, from, i - 1)
      BY <1>1, <2>2
    <3> QED
      BY <2>1, <3>1, <3>2
  <2>3. ASSUME i # end PROVE g[i] = parse(before, line, i)
    <3>1. parse(before, line, i) = Append(before, line[i])
      BY <1>2, <2>3 DEF parse
    <3>2. g[i] = SubSeq(line, from, i)
      BY <1>1, <2>3
    <3>3. SubSeq(line, from, i) = Append(SubSeq(line, from, i - 1), line[i])
      <4>1. i \in from .. Len(line)
        BY <1>1, <2>3
      <4> QED
        BY <1>1, <4>1, PartGrows
    <3> QED
      BY <2>1, <3>1, <3>2, <3>3
  <2> QED
    BY <2>2, <2>3 DEF before
<1>5. Copies(g, line, from, end)
  BY <1>4, Zenon DEF Copies
<1>6. Copies(copy, line, from, end)
  BY <1>5
<1> HIDE DEF copy, g
<1>7. \A i \in from .. end : copy[i] = g[i]
  <2>1. GoOn(copy, g, from, end)
    BY <1>5, <1>6 DEF Copies, GoOn
  <2> QED
    BY <1>1, <2>1, Alike
<1>8. copy[end] = SubSeq(line, from, end - 1)
  <2>1. end \in from .. end /\ ~ (end < end)
    BY <1>1
  <2> QED
    BY <1>7, <2>1 DEF g
<1>9. from <= Len(line) => Len(copy[end]) = end - from
  <2> SUFFICES ASSUME from <= Len(line) PROVE Len(copy[end]) = end - from
    OBVIOUS
  <2>1. Len(SubSeq(line, from, end - 1)) = end - from
    BY <1>1
  <2> QED
    BY <1>8, <2>1
<1>10. /\ copyToken(line, from).token = copy[end]
       /\ from <= Len(line) => copyToken(line, from).length = Len(copy[end]) + 1
  BY <1>1, <1>3
<1> QED
  BY <1>8, <1>9, <1>10 DEF end

\* Where the tokens of a line begin.
Start(line, k) == IF k = 1 THEN 1 ELSE zero(line, begins(line)[k - 1]) + 1

\* They begin at the pointers, or at the end of the line for one that is not set.
LEMMA StartsArePointers ==
    ASSUME NEW line \in Seq(STRING), NEW k \in 1 .. Len(begins(line))
    PROVE  /\ Start(line, k) \in 1 .. Len(line) + 1
           /\ Start(line, k) = IF begins(line)[k] # 0 THEN begins(line)[k]
                               ELSE Len(line) + 1
           /\ k > 1 => /\ Start(line, k - 1) \in 1 .. Len(line)
                       /\ Start(line, k) = zero(line, Start(line, k - 1)) + 1
<1> DEFINE from == begins(line)
           n == Len(from)
           s(j) == Start(line, j)
<1>1. /\ n \in Nat \ {0} /\ from[1] = 1 /\ Len(line) \in Nat
      /\ \A j \in 1 .. n - 1 : from[j] \in 1 .. Len(line) /\ Behind(line, from[j], from[j + 1])
  BY ParametersAre
<1>2. \A j : s(j) = IF j = 1 THEN 1 ELSE zero(line, from[j - 1]) + 1
  BY DEF Start
<1> HIDE DEF from, n, s
<1>3. ASSUME NEW j \in 1 .. n, j # 1
      PROVE  /\ zero(line, from[j - 1]) \in 1 .. Len(line)
             /\ from[j] = Begin(line, zero(line, from[j - 1]))
             /\ from[j - 1] \in 1 .. Len(line)
  <2>1. j - 1 \in 1 .. n - 1 /\ (j - 1) + 1 = j
    BY <1>1, <1>3
  <2> QED
    BY <1>1, <2>1 DEF Behind
<1>4. ASSUME NEW j \in 1 .. n
      PROVE  /\ s(j) \in 1 .. Len(line) + 1
             /\ s(j) = IF from[j] # 0 THEN from[j] ELSE Len(line) + 1
  <2>1. CASE j = 1
    BY <1>1, <1>2, <2>1
  <2>2. CASE j # 1
    <3> DEFINE z == zero(line, from[j - 1])
    <3>1. z \in 1 .. Len(line) /\ from[j] = Begin(line, z) /\ s(j) = z + 1
      BY <1>2, <1>3, <2>2
    <3> HIDE DEF z
    <3>2. from[j] = IF z < Len(line) THEN z + 1 ELSE 0
      BY <3>1 DEF Begin
    <3> QED
      BY <1>1, <3>1, <3>2
  <2> QED
    BY <2>1, <2>2
<1>5. ASSUME k > 1
      PROVE  s(k - 1) \in 1 .. Len(line) /\ s(k) = zero(line, s(k - 1)) + 1
  <2>1. k # 1 /\ k - 1 \in 1 .. n /\ k \in 1 .. n
    BY <1>1, <1>5 DEF n, from
  <2>2. from[k - 1] \in 1 .. Len(line)
    BY <1>3, <2>1
  <2>3. s(k - 1) = from[k - 1]
    BY <1>4, <2>1, <2>2
  <2> QED
    BY <1>2, <2>1, <2>2, <2>3
<1> QED
  BY <1>4, <1>5 DEF s, from, n

\* The starts that Tokens and CopiedTokens find.
LEMMA TokensStart ==
    ASSUME NEW line \in Seq(STRING)
    PROVE  LET n == Len(begins(line))
           IN  \A k \in 1 .. n :
                  /\ Tokens(line, n)[k] = SubSeq(line, Start(line, k),
                                             parseToken(line, Start(line, k)) - 1)
                  /\ CopiedTokens(line, n)[k] = copyToken(line, Start(line, k)).token
<1> DEFINE n == Len(begins(line))
           s == [k \in 1 .. n |-> Start(line, k)]
           f == CHOOSE g : Starts(g, line, n)
           c == CHOOSE g : CopyStarts(g, line, n)
<1>1. n \in Nat \ {0}
  BY ParametersAre
<1>2. Tokens(line, n) =
         [k \in 1 .. n |-> SubSeq(line, f[k], parseToken(line, f[k]) - 1)]
  BY Zenon DEF Tokens, Starts
<1>3. CopiedTokens(line, n) = [k \in 1 .. n |-> copyToken(line, c[k]).token]
  BY Zenon DEF CopiedTokens, CopyStarts, CopyNext
<1>4. ASSUME NEW k \in 1 .. n
      PROVE  /\ s[k] = IF k = 1 THEN 1 ELSE advance(line, s[k - 1])
             /\ s[k] = IF k = 1 THEN 1 ELSE CopyNext(line, s[k - 1])
  <2>1. CASE k = 1
    BY <2>1 DEF Start
  <2>2. CASE k # 1
    <3> DEFINE x == s[k - 1]
               z == zero(line, x)
    <3>1. k > 1 /\ k - 1 \in 1 .. n
      BY <1>1, <2>2
    <3>2. x = Start(line, k - 1) /\ s[k] = Start(line, k)
      BY <3>1
    <3>3. x \in 1 .. Len(line) /\ s[k] = z + 1
      BY <3>1, <3>2, StartsArePointers
    <3> HIDE DEF x, s
    <3>4. x \in 1 .. Len(line) + 1 /\ x <= Len(line) /\ Len(line) \in Nat
      BY <3>3
    <3>5. z = parseToken(line, x) /\ z \in x .. Len(line) + 1
      BY <3>4, ZeroIs
    <3>6. advance(line, x) = z + 1
      BY <3>5 DEF advance
    <3>7. copyToken(line, x).length = parseToken(line, x) - x + 1
      BY <3>4, CopyIs
    <3> HIDE DEF z
    <3>8. CopyNext(line, x) = z + 1
      BY <3>3, <3>4, <3>5, <3>7 DEF CopyNext
    <3> QED
      BY <2>2, <3>3, <3>6, <3>8 DEF x
  <2> QED
    BY <2>1, <2>2
<1> HIDE DEF n
<1>5. s = [k \in 1 .. n |-> s[k]]
  OBVIOUS
<1> HIDE DEF s
<1>6. Starts(s, line, n) /\ CopyStarts(s, line, n)
  <2>1. Starts(s, line, n)
    BY <1>4, <1>5, Zenon DEF Starts
  <2>2. CopyStarts(s, line, n)
    BY <1>4, <1>5, Zenon DEF CopyStarts
  <2> QED
    BY <2>1, <2>2
<1>7. Starts(f, line, n) /\ CopyStarts(c, line, n)
  BY <1>6
<1> HIDE DEF f, c
<1>8. \A k \in 1 .. n : f[k] = s[k]
  <2>1. GoOn(f, s, 1, n)
    BY <1>6, <1>7 DEF Starts, GoOn
  <2> QED
    BY <1>1, <2>1, Alike
<1>9. \A k \in 1 .. n : c[k] = s[k]
  <2>1. GoOn(c, s, 1, n)
    BY <1>6, <1>7 DEF CopyStarts, GoOn
  <2> QED
    BY <1>1, <2>1, Alike
<1>10. ASSUME NEW k \in 1 .. n
       PROVE  /\ Tokens(line, n)[k] = SubSeq(line, Start(line, k),
                                          parseToken(line, Start(line, k)) - 1)
              /\ CopiedTokens(line, n)[k] = copyToken(line, Start(line, k)).token
  <2>1. s[k] = Start(line, k)
    BY DEF s
  <2>2. f[k] = Start(line, k) /\ c[k] = Start(line, k)
    BY <1>8, <1>9, <2>1
  <2>3. /\ Tokens(line, n)[k] = SubSeq(line, f[k], parseToken(line, f[k]) - 1)
        /\ CopiedTokens(line, n)[k] = copyToken(line, c[k]).token
    BY <1>2, <1>3
  <2> QED
    BY <2>2, <2>3
<1> QED
  BY <1>10 DEF n

\* The parameters are the tokens; one that was not set is an empty token.
LEMMA ParametersAreTheTokens ==
    ASSUME NEW line \in Seq(STRING)
    PROVE  LET p == parameters(line)
               n == Len(p)
           IN  \A k \in 1 .. n :
                  \/ p[k] = Tokens(line, n)[k] /\ p[k] = CopiedTokens(line, n)[k]
                  \/ p[k] = Unset /\ Tokens(line, n)[k] = << >> /\ k = n /\ k # 1
<1> DEFINE from == begins(line)
           p == parameters(line)
           n == Len(from)
<1>1. /\ n \in Nat \ {0} /\ Len(p) = n /\ from[1] = 1
      /\ \A k \in 1 .. n - 1 : from[k] \in 1 .. Len(line)
      /\ \A k \in 1 .. n :
            /\ from[k] = 0 => p[k] = Unset
            /\ from[k] # 0 => p[k] = SubSeq(line, from[k], zero(line, from[k]) - 1)
  BY ParametersAre
<1>2. ASSUME NEW k \in 1 .. n
      PROVE  \/ p[k] = Tokens(line, n)[k] /\ p[k] = CopiedTokens(line, n)[k]
             \/ p[k] = Unset /\ Tokens(line, n)[k] = << >> /\ k = n /\ k # 1
  <2> DEFINE s == Start(line, k)
             e == parseToken(line, s)
  <2>1. /\ s \in 1 .. Len(line) + 1
        /\ s = IF from[k] # 0 THEN from[k] ELSE Len(line) + 1
    BY StartsArePointers
  <2>2. /\ Tokens(line, n)[k] = SubSeq(line, s, e - 1)
        /\ CopiedTokens(line, n)[k] = copyToken(line, s).token
    BY TokensStart
  <2>3. copyToken(line, s).token = SubSeq(line, s, e - 1)
    BY <2>1, CopyIs
  <2>4. zero(line, s) = e /\ e \in s .. Len(line) + 1
    BY <2>1, ZeroIs
  <2> HIDE DEF s, e, p, n, from
  <2>5. CASE from[k] # 0
    BY <1>1, <2>1, <2>2, <2>3, <2>4, <2>5
  <2>6. CASE from[k] = 0
    <3>1. k = n /\ k # 1
      <4>1. k \notin 1 .. n - 1 /\ k # 1
        BY <1>1, <2>6
      <4> QED
        BY <1>1, <4>1
    <3>2. s = Len(line) + 1 /\ Len(line) \in Nat
      BY <2>1, <2>6
    <3>3. e = Len(line) + 1
      BY <2>4, <3>2
    <3>4. SubSeq(line, s, e - 1) = << >>
      BY <3>2, <3>3
    <3> QED
      BY <1>1, <2>2, <2>6, <3>1, <3>4
  <2> QED
    BY <2>5, <2>6
<1> QED
  BY <1>1, <1>2

(***************************************************************************)
(* A variable changes only when a line is entered that sets it, since only *)
(* the command that sets one changes any.                                  *)
(***************************************************************************)
Validated(v) ==
    LET words == Tokens(Meant(submitted'), 3)
    IN  /\ \A i \in DOMAIN words[3] : words[3][i] \in DOMAIN Digit
        /\ \E i \in DOMAIN Properties : /\ Properties[i].name = words[2]
                                        /\ Properties[i].var = v
                                        /\ value'[v] \in Properties[i].accepts

\* Enter changes a value only as PropertyMenu's "set" does: to one that was typed and validated.
LEMMA EnterValidates ==
    ASSUME Inv, Enter, NEW v \in Var, value'[v] # value[v]
    PROVE  Validated(v)
<1> DEFINE p == parameters(inputLine)
           t == Tokens(inputLine, 3)
<1>1. inputLine \in Seq(STRING) /\ inputLine = Meant(submitted')
  BY EnterIs DEF Inv, Typed, Lines
<1>2. inputLine # << >>
  BY DEF Enter
<1>3. Len(p) = 3 /\ Passes(v, value'[v], p[2], p[3])
  BY <1>2, EnterHandles
<1>4. /\ p[2] = t[2]
      /\ p[3] = t[3] \/ t[3] = << >>
  <2>1. \A k \in 1 .. 3 :
           \/ p[k] = t[k] \/ (t[k] = << >> /\ k = 3)
    BY <1>1, <1>3, ParametersAreTheTokens
  <2> HIDE DEF p, t
  <2> QED
    BY <2>1
<1> HIDE DEF p, t
<1>5. \A i \in DOMAIN t[3] : t[3][i] \in DOMAIN Digit
  <2>1. CASE t[3] = << >>
    BY <2>1
  <2>2. CASE p[3] = t[3]
    BY <1>3, <2>2 DEF Passes, validateString, IsDigits
  <2> QED
    BY <1>4, <2>1, <2>2
<1>6. \E i \in DOMAIN Properties : /\ Properties[i].name = t[2]
                                   /\ Properties[i].var = v
                                   /\ value'[v] \in Properties[i].accepts
  BY <1>3, <1>4 DEF Passes
<1> QED
  BY <1>1, <1>5, <1>6 DEF Validated, t

\* A property's variable changes only by a line that names the property, to a value that is a
\* number and that the property's validation has let pass.
THEOREM ValuesValidated == Spec => OnlyValidatedValuesAreSet
<1>1. ASSUME Inv, [Next]_vars, NEW v \in Var, value'[v] # value[v]
      PROVE  Validated(v)
  <2>1. CASE Enter
    BY <1>1, <2>1, EnterValidates
  <2>2. ASSUME ~ Enter PROVE value' = value
    BY <1>1, <2>2 DEF Next, Program, Peek, Complete, Echo, MakeCall, CallHandler,
                      Type, vars
  <2> QED
    BY <1>1, <2>1, <2>2
<1>2. Inv /\ [Next]_vars =>
         [\A v \in Var : value'[v] # value[v] =>
             LET words == Tokens(Meant(submitted'), 3)
             IN  /\ \A i \in DOMAIN words[3] : words[3][i] \in DOMAIN Digit
                 /\ \E i \in DOMAIN Properties :
                       /\ Properties[i].name = words[2]
                       /\ Properties[i].var = v
                       /\ value'[v] \in Properties[i].accepts]_vars
  BY <1>1 DEF Validated
<1> QED
  BY <1>2, InvHolds, PTL DEF Spec, OnlyValidatedValuesAreSet

--------------------------------------------------------------------------------
\* A line has one pointer more than it has blanks.
LEMMA PointersCounted ==
    ASSUME NEW line \in Seq(STRING)
    PROVE  Len(begins(line)) = 1 + Cardinality(Blanks(line, Len(line)))
<1> DEFINE n == Len(line)
           b(i) == Blanks(line, i)
<1>1. PICK h : Turns(h, line) /\ begins(line) = h[n]
  BY BeginsTurns
<1>2. n \in Nat
  OBVIOUS
<1>3. \A i \in Nat : IsFiniteSet(b(i)) /\ Cardinality(b(i)) \in Nat
  <2>1. \A i \in Nat : IsFiniteSet(1 .. i)
    BY FS_Interval
  <2>2. \A i \in Nat : b(i) \subseteq 1 .. i
    BY DEF Blanks
  <2> QED
    BY <2>1, <2>2, FS_Subset, FS_CardinalityType
<1> DEFINE K == {k \in Nat : k <= n => h[k] \in Seq(Nat)
                                       /\ Len(h[k]) = 1 + Cardinality(b(k))}
<1>4. 0 \in K
  <2>1. b(0) = {}
    BY DEF Blanks
  <2>2. Cardinality(b(0)) = 0
    BY <2>1, FS_EmptySet
  <2>3. h[0] = <<1>> /\ <<1>> \in Seq(Nat) /\ Len(<<1>>) = 1
    BY <1>1 DEF Turns
  <2> HIDE DEF b
  <2>4. h[0] \in Seq(Nat) /\ Len(h[0]) = 1 + Cardinality(b(0))
    BY <2>2, <2>3
  <2> QED
    BY <2>4
<1>5. ASSUME NEW k \in Nat, k \in K PROVE k + 1 \in K
  <2> SUFFICES ASSUME k + 1 <= n
               PROVE  h[k + 1] \in Seq(Nat) /\ Len(h[k + 1]) = 1 + Cardinality(b(k + 1))
    OBVIOUS
  <2> DEFINE j == k + 1
  <2>1. j \in 1 .. n /\ j - 1 = k /\ k <= n /\ j \in Nat
    BY <1>2
  <2>2. b(j) = IF line[j] = Blank THEN b(k) \union {j} ELSE b(k)
    BY DEF Blanks
  <2>3. j \notin b(k)
    BY DEF Blanks
  <2> HIDE DEF j, b
  <2>4. h[k] \in Seq(Nat) /\ Len(h[k]) = 1 + Cardinality(b(k))
    BY <1>5, <2>1
  <2>5. h[j] = IF line[j] # Blank THEN h[k] ELSE Append(h[k], Begin(line, j))
    BY <1>1, <2>1 DEF Turns
  <2>6. CASE line[j] # Blank
    BY <2>2, <2>4, <2>5, <2>6 DEF j
  <2>7. CASE line[j] = Blank
    <3>1. Begin(line, j) \in Nat
      BY <1>2, <2>1 DEF Begin
    <3>2. Append(h[k], Begin(line, j)) \in Seq(Nat)
          /\ Len(Append(h[k], Begin(line, j))) = Len(h[k]) + 1
      BY <2>4, <3>1, AppendIs
    <3>3. Cardinality(b(k) \union {j}) = Cardinality(b(k)) + 1
      BY <1>3, <2>3, FS_AddElement
    <3>4. Cardinality(b(k)) \in Nat
      BY <1>3
    <3>5. h[j] = Append(h[k], Begin(line, j)) /\ b(j) = b(k) \union {j}
      BY <2>2, <2>5, <2>7
    <3>6. h[j] \in Seq(Nat) /\ Len(h[j]) = 1 + Cardinality(b(j))
      BY <2>4, <3>2, <3>3, <3>4, <3>5
    <3> QED
      BY <3>6 DEF j
  <2> QED
    BY <2>6, <2>7
<1> HIDE DEF K
<1>6. n \in K
  BY <1>2, <1>4, <1>5, Induct
<1> QED
  BY <1>1, <1>2, <1>6 DEF K

--------------------------------------------------------------------------------
(***************************************************************************)
(* A stretch of what was typed, without a newline, is a stretch of one of  *)
(* the sessions.                                                           *)
(***************************************************************************)
Within(t, i, j) ==
    \E x \in Sessions, d \in Int :
        \A k \in i .. j : k + d \in DOMAIN x /\ x[k + d] = t[k]

Sessional ==
    \A i, j \in 1 .. Len(sent) :
        i <= j /\ (\A k \in i .. j : sent[k] # Newline) => Within(sent, i, j)

\* What is typed continues a session that has begun behind the newline at m.
LEMMA KeyContinues ==
    ASSUME sent \in Seq(Char), NEW c \in Keys
    PROVE  \E m \in 0 .. Len(sent), x \in Sessions :
              /\ m # 0 => sent[m] = Newline
              /\ \A k \in m + 1 .. Len(sent) : k - m \in DOMAIN x /\ x[k - m] = sent[k]
              /\ Len(sent) + 1 - m \in DOMAIN x /\ x[Len(sent) + 1 - m] = c
<1> DEFINE l == Len(sent)
           N == {i \in DOMAIN sent : sent[i] = Newline}
           u == Unfinished
           n == Len(u)
<1>1. l \in Nat /\ DOMAIN sent = 1 .. l
  OBVIOUS
<1>2. PICK m \in 0 .. l : /\ m # 0 => sent[m] = Newline
                          /\ n = l - m /\ \A i \in 1 .. n : u[i] = sent[m + i]
  <2>1. CASE N = {}
    <3>1. u = sent
      BY <2>1 DEF Unfinished
    <3>2. n = l /\ \A i \in 1 .. n : 0 + i = i
      BY <1>1, <3>1
    <3> HIDE DEF l, n, u
    <3>3. 0 \in 0 .. l /\ n = l - 0 /\ \A i \in 1 .. n : u[i] = sent[0 + i]
      BY <1>1, <3>1, <3>2
    <3> QED
      BY <3>3
  <2>2. CASE N # {}
    <3>1. N \in SUBSET (0 .. l)
      BY <1>1
    <3>2. Max(N) \in N
      <4> HIDE DEF N
      <4> QED
        BY <1>1, <2>2, <3>1, MaxIs
    <3> DEFINE m == Max(N)
    <3>3. u = SubSeq(sent, m + 1, l)
      BY <2>2, Zenon DEF Unfinished
    <3>4. m \in 1 .. l /\ sent[m] = Newline
      BY <1>1, <3>2
    <3> HIDE DEF m, u
    <3>5. m \in Nat /\ m <= l
      BY <1>1, <3>4
    <3>6. n = l - m /\ \A i \in 1 .. l - m : u[i] = sent[m + i]
      BY <3>3, <3>5, BehindIs
    <3> HIDE DEF n, l
    <3> QED
      BY <1>1, <3>4, <3>6
  <2> QED
    BY <2>1, <2>2
<1>3. PICK x \in Sessions : Len(x) > n /\ SubSeq(x, 1, n) = u /\ c = x[n + 1]
  BY DEF Keys
<1>4. x \in Seq(STRING)
  BY ConsoleAssumption
<1> HIDE DEF u, n, l
<1>5. n \in Nat /\ n + 1 = l + 1 - m
  BY <1>1, <1>2
<1>6. DOMAIN x = 1 .. Len(x) /\ Len(x) \in Nat
  BY <1>4
<1>7. \A i \in 1 .. n : i \in DOMAIN x /\ x[i] = u[i]
  <2>1. \A i \in 1 .. n : SubSeq(x, 1, n)[i] = x[i]
    BY <1>3, <1>4, <1>5, <1>6
  <2> QED
    BY <1>3, <1>5, <1>6, <2>1
<1>8. ASSUME NEW k \in m + 1 .. l PROVE k - m \in DOMAIN x /\ x[k - m] = sent[k]
  <2>1. k - m \in 1 .. n /\ m + (k - m) = k
    BY <1>1, <1>2
  <2> QED
    BY <1>2, <1>7, <2>1
<1>9. n + 1 \in DOMAIN x
  BY <1>3, <1>5, <1>6
<1> QED
  BY <1>2, <1>3, <1>5, <1>8, <1>9 DEF l

\* Typing extends the last stretch.
LEMMA TypeSessional ==
    ASSUME sent \in Seq(Char), Sessional, NEW c \in Keys, Type(c)
    PROVE  Sessional'
<1> DEFINE l == Len(sent)
           t == Append(sent, c)
<1>1. c \in Char /\ sent' = t
  BY KeysAreChars DEF Type
<1>2. /\ l \in Nat /\ Len(t) = l + 1 /\ t[l + 1] = c
      /\ \A i \in 1 .. l : t[i] = sent[i]
  BY <1>1, AppendIs
<1> HIDE DEF t
<1>3. ASSUME NEW i \in 1 .. l + 1, NEW j \in 1 .. l + 1, i <= j,
             \A k \in i .. j : t[k] # Newline
      PROVE  Within(t, i, j)
  <2>1. CASE j # l + 1
    <3>1. i \in 1 .. l /\ j \in 1 .. l /\ \A k \in i .. j : t[k] = sent[k]
      BY <1>2, <1>3, <2>1
    <3>2. Within(sent, i, j)
      BY <1>3, <3>1 DEF Sessional
    <3> QED
      BY <3>1, <3>2 DEF Within
  <2>2. CASE j = l + 1
    <3>1. PICK m \in 0 .. l, x \in Sessions :
              /\ m # 0 => sent[m] = Newline
              /\ \A k \in m + 1 .. l : k - m \in DOMAIN x /\ x[k - m] = sent[k]
              /\ l + 1 - m \in DOMAIN x /\ x[l + 1 - m] = c
      BY KeyContinues
    <3>2. m < i
      <4> SUFFICES ASSUME m >= i PROVE FALSE
        BY <1>2
      <4>1. m \in i .. j /\ m \in 1 .. l /\ m # 0
        BY <1>2, <2>2
      <4> QED
        BY <1>2, <1>3, <3>1, <4>1
    <3>3. ASSUME NEW k \in i .. j
          PROVE  k + (0 - m) \in DOMAIN x /\ x[k + (0 - m)] = t[k]
      <4>1. k + (0 - m) = k - m /\ (k = l + 1 \/ k \in m + 1 .. l)
        BY <1>2, <2>2, <3>2
      <4>2. CASE k = l + 1
        BY <1>2, <3>1, <4>1, <4>2
      <4>3. CASE k \in m + 1 .. l
        <5>1. k \in 1 .. l
          BY <1>2, <4>3
        <5> QED
          BY <1>2, <3>1, <4>1, <4>3, <5>1
      <4> QED
        BY <4>1, <4>2, <4>3
    <3>4. 0 - m \in Int
      BY <1>2
    <3> QED
      BY <3>3, <3>4 DEF Within
  <2> QED
    BY <2>1, <2>2
<1> QED
  BY <1>1, <1>2, <1>3 DEF Sessional

\* Enter leaves the stretches behind its line.
LEMMA EnterSessional ==
    ASSUME Inv, Sessional, Enter
    PROVE  Sessional'
<1> DEFINE l == Len(sent)
           f == Len(FirstLine)
           t == SubSeq(sent, f + 1, l)
<1>1. Typed /\ sent \in Seq(Char) /\ l \in Nat
  BY DEF Inv, Typed
<1>2. PICK keys \in Seq(Keystroke) : Taken(keys)
  BY DEF Inv, Reading
<1>3. Take /\ received = Newline /\ sent' = t
  BY DEF Enter
<1>4. /\ Newline \in Char /\ Unread' \in Seq(Char)
      /\ sent = keys \o (<<Newline>> \o Unread')
      /\ sent = Append(keys, Newline) \o Unread'
  BY <1>1, <1>2, <1>3, TakeIs
<1>5. f \in Nat /\ f <= l
  <2> DEFINE u == Unread'
             a == Append(keys, Newline)
  <2>1. u \in Seq(Char) /\ sent = keys \o (<<Newline>> \o u) /\ sent = a \o u
    BY <1>4
  <2> HIDE DEF u
  <2>2. FirstLine = a
    BY <1>4, <2>1, LineIs
  <2>3. keys \in Seq(Char)
    BY SeqsOf DEF Keystroke
  <2>4. a \in Seq(Char)
    BY <1>4, <2>3
  <2> HIDE DEF a
  <2>5. Len(a) \in Nat /\ Len(a) <= Len(sent)
    BY <2>1, <2>4
  <2> QED
    BY <2>2, <2>5
<1> HIDE DEF f
<1>6. Len(t) = l - f /\ \A k \in 1 .. l - f : t[k] = sent[k + f]
  <2> HIDE DEF t
  <2>1. Len(t) = l - f /\ \A k \in 1 .. l - f : t[k] = sent[f + k]
    BY <1>1, <1>5, BehindIs DEF t
  <2>2. \A k \in 1 .. l - f : k + f = f + k
    BY <1>1, <1>5
  <2> QED
    BY <2>1, <2>2
<1> HIDE DEF l, t
<1>7. ASSUME NEW i \in 1 .. l - f, NEW j \in 1 .. l - f, i <= j,
             \A k \in i .. j : t[k] # Newline
      PROVE  Within(t, i, j)
  <2>1. i + f \in 1 .. l /\ j + f \in 1 .. l /\ i + f <= j + f
    BY <1>1, <1>5, <1>7
  <2>2. ASSUME NEW k \in i + f .. j + f
        PROVE  sent[k] # Newline
    <3>1. k - f \in i .. j /\ k - f \in 1 .. l - f /\ (k - f) + f = k
      BY <1>1, <1>5, <2>1
    <3> QED
      BY <1>6, <1>7, <3>1
  <2>3. PICK x \in Sessions, d \in Int :
            \A k \in i + f .. j + f : k + d \in DOMAIN x /\ x[k + d] = sent[k]
    BY <2>1, <2>2 DEF Sessional, Within, l
  <2>4. ASSUME NEW k \in i .. j
        PROVE  k + (f + d) \in DOMAIN x /\ x[k + (f + d)] = t[k]
    <3>1. k + f \in i + f .. j + f /\ k \in 1 .. l - f /\ (k + f) + d = k + (f + d)
      BY <1>1, <1>5, <2>3
    <3> QED
      BY <1>6, <2>3, <3>1
  <2>5. f + d \in Int
    BY <1>5, <2>3
  <2> QED
    BY <2>4, <2>5 DEF Within
<1> QED
  BY <1>3, <1>6, <1>7 DEF Sessional

\* The console reads nothing but stretches of the sessions.
LEMMA NextSessional ==
    ASSUME Inv, Sessional, [Next]_vars
    PROVE  Sessional'
<1>1. CASE Enter
  BY <1>1, EnterSessional
<1>2. CASE \E c \in Keys : Type(c)
  BY <1>2, TypeSessional DEF Inv, Typed
<1>3. CASE UNCHANGED sent
  BY <1>3 DEF Sessional
<1> QED
  BY <1>1, <1>2, <1>3
  DEF Next, Program, Peek, Complete, Echo, MakeCall, CallHandler, vars

(***************************************************************************)
(* The blanks of a stretch of a session are among those of the session, of *)
(* which there are fewer than MaxParameter.                                *)
(***************************************************************************)
LEMMA StretchIsBounded ==
    ASSUME NEW keys \in Seq(STRING), Within(keys, 1, Len(keys))
    PROVE  Cardinality(Blanks(keys, Len(keys))) < MaxParameter
<1>1. PICK x \in Sessions, d \in Int :
          \A k \in 1 .. Len(keys) : k + d \in DOMAIN x /\ x[k + d] = keys[k]
  BY DEF Within
<1> DEFINE S == Blanks(keys, Len(keys))
           T == {i \in DOMAIN x : x[i] = Blank}
           f == [k \in S |-> k + d]
<1>2. S \subseteq 1 .. Len(keys) /\ \A k \in S : k \in Int /\ keys[k] = Blank
  BY DEF Blanks
<1>3. IsFiniteSet(T) /\ Cardinality(T) < MaxParameter /\ MaxParameter \in Nat
  <2>1. x \in Seq(STRING) /\ Cardinality(T) < MaxParameter /\ MaxParameter \in Nat
    BY ConsoleAssumption
  <2>2. DOMAIN x = 1 .. Len(x) /\ Len(x) \in Nat
    BY <2>1
  <2>3. IsFiniteSet(1 .. Len(x)) /\ T \subseteq 1 .. Len(x)
    BY <2>2, FS_Interval
  <2> HIDE DEF T
  <2> QED
    BY <2>1, <2>3, FS_Subset
<1>4. f \in [S -> T]
  BY <1>1, <1>2
<1>5. f \in Injection(S, T)
  <2>1. ASSUME NEW a \in S, NEW b \in S, f[a] = f[b] PROVE a = b
    <3>1. a \in Int /\ b \in Int /\ f[a] = a + d /\ f[b] = b + d
      BY <1>2
    <3> HIDE DEF f, S
    <3>2. a + d = b + d
      BY <2>1, <3>1
    <3> QED
      BY <1>1, <3>1, <3>2
  <2> HIDE DEF f, S, T
  <2> QED
    BY <1>4, <2>1 DEF Injection, IsInjective
<1> HIDE DEF f, S, T
<1>6. IsFiniteSet(S) /\ Cardinality(S) <= Cardinality(T)
  BY <1>3, <1>5, FS_Injection
<1>7. Cardinality(S) \in Nat /\ Cardinality(T) \in Nat
  BY <1>3, <1>6, FS_CardinalityType
<1> QED
  BY <1>3, <1>6, <1>7 DEF S

\* Hence a line has no more words than handler() has room for.
LEMMA LineIsBounded ==
    ASSUME Inv, Sessional
    PROVE  Len(begins(inputLine)) <= MaxParameter
<1> DEFINE count(l) == Cardinality(Blanks(l, Len(l)))
<1>1. PICK keys \in Seq(Keystroke) : Taken(keys)
  BY DEF Inv, Reading
<1>2. /\ keys \in Seq(STRING) /\ Len(keys) \in Nat
      /\ \A k \in 1 .. Len(keys) : keys[k] # Newline
  <2>1. \A k \in 1 .. Len(keys) : keys[k] \in Keystroke
    OBVIOUS
  <2> QED
    BY <2>1, CharsAreStrings DEF Keystroke
<1>3. MaxParameter \in Nat \ {0}
  BY ConsoleAssumption
<1>4. count(keys) < MaxParameter
  <2>1. CASE keys = << >>
    BY <1>3, <2>1, NoBlanks
  <2>2. CASE keys # << >>
    <3>1. /\ Unread \in Seq(Char) /\ sent \in Seq(Char) /\ sent = keys \o Unread
      <4>1. Typed
        BY DEF Inv
      <4>2. Unread \in Seq(Char)
        BY <4>1 DEF Typed, Unread
      <4> QED
        BY <1>1, <4>1, <4>2 DEF Typed, Taken
    <3> DEFINE n == Len(keys)
               r == Unread
    <3> HIDE DEF r
    <3>2. n \in 1 .. Len(sent) /\ 1 \in 1 .. Len(sent) /\ 1 <= n
          /\ \A k \in 1 .. n : sent[k] = keys[k]
      <4>1. r \in Seq(Char) /\ sent = keys \o r /\ keys \in Seq(Char)
        BY <3>1, SeqsOf DEF r, Keystroke
      <4> QED
        BY <1>2, <2>2, <4>1
    <3>3. Within(sent, 1, n)
      BY <1>2, <3>2 DEF Sessional
    <3>4. Within(keys, 1, n)
      BY <3>2, <3>3 DEF Within
    <3> QED
      BY <1>2, <3>4, StretchIsBounded
  <2> QED
    BY <2>1, <2>2
<1>5. inputLine \in Seq(STRING) /\ count(inputLine) <= count(keys)
  BY <1>1 DEF Inv, Typed, Lines, Taken, Fewer
<1>6. Len(begins(inputLine)) = 1 + count(inputLine)
  BY <1>5, PointersCounted
<1>7. count(inputLine) \in Nat /\ count(keys) \in Nat
  <2>1. ASSUME NEW l \in Seq(STRING) PROVE count(l) \in Nat
    <3> DEFINE n == Len(l)
               b == Blanks(l, n)
    <3>1. IsFiniteSet(1 .. n) /\ b \subseteq 1 .. n
      BY FS_Interval DEF Blanks
    <3> HIDE DEF b
    <3>2. Cardinality(b) \in Nat
      BY <3>1, FS_Subset, FS_CardinalityType
    <3> QED
      BY <3>2 DEF b
  <2> QED
    BY <1>2, <1>5, <2>1
<1> HIDE DEF count
<1> QED
  BY <1>3, <1>4, <1>5, <1>6, <1>7

(***************************************************************************)
(* The parameters that Console::handler cuts out of a line are the tokens  *)
(* that parseToken and copyToken find in it, but for a last one whose      *)
(* pointer was never set; and no pointer is stored behind the array.  It   *)
(* has any size, and what is typed between two newlines fewer blanks       *)
(* (ConsoleAssumption): the code does not look.                            *)
(***************************************************************************)
THEOREM ParametersCorrect == Spec => []ParametersAreTokens
<1>1. Init => Sessional
  BY DEF Init, Sessional
<1>2. Inv /\ Sessional /\ [Next]_vars => Sessional'
  BY NextSessional
<1>3. Inv /\ Sessional => ParametersAreTokens
  <2> SUFFICES ASSUME Inv, Sessional PROVE ParametersAreTokens
    OBVIOUS
  <2>1. inputLine \in Seq(STRING)
    BY DEF Inv, Typed, Lines
  <2>2. Len(parameters(inputLine)) = Len(begins(inputLine))
    BY <2>1, ParametersAre
  <2> QED
    BY <2>1, <2>2, LineIsBounded, ParametersAreTheTokens DEF ParametersAreTokens
<1> QED
  BY <1>1, <1>2, <1>3, InvHolds, PTL DEF Spec

(***************************************************************************)
(* What "get" shows: the values of the properties of that name.            *)
(***************************************************************************)
Named(name, k) == {i \in 1 .. k : Properties[i].name = name}

\* The equation of the loop of "get" over the properties.
GetFolds(f, name) ==
    f = [X \in SUBSET DOMAIN Properties |->
            IF X = {} THEN << >>
            ELSE LET x == Max(X) IN getItem(f[X \ {x}], Properties[x], name)]

\* One turn of it adds the property's value if that is its name, and nothing otherwise.
LEMMA GetItemShows ==
    ASSUME value \in Values, NEW name, NEW shown \in Seq(0 .. ByteMax - 1),
           NEW i \in 1 .. Len(Properties)
    PROVE  /\ getItem(shown, Properties[i], name) \in Seq(0 .. ByteMax - 1)
           /\ ToSet(getItem(shown, Properties[i], name)) =
                 ToSet(shown) \union
                 (IF Properties[i].name = name THEN {value[Properties[i].var]} ELSE {})
<1> DEFINE S == 0 .. ByteMax - 1
           x == value[Properties[i].var]
<1>1. x \in S
  BY PropertiesAre DEF Values
<1> HIDE DEF S, x
<1>2. shown \in Seq(S)
  BY DEF S
<1>3. CASE Properties[i].name = name
  <2>1. getItem(shown, Properties[i], name) = Append(shown, x)
    BY <1>3 DEF getItem, isNamed, x
  <2> DEFINE t == Append(shown, x)
  <2>2. /\ t \in Seq(S) /\ Len(t) = Len(shown) + 1 /\ Len(shown) \in Nat
        /\ DOMAIN t = 1 .. Len(shown) + 1 /\ DOMAIN shown = 1 .. Len(shown)
        /\ \A k \in 1 .. Len(shown) : t[k] = shown[k]
        /\ t[Len(shown) + 1] = x
    BY <1>1, <1>2, AppendIs
  <2> HIDE DEF t
  <2>3. ToSet(t) = ToSet(shown) \union {x}
    <3>1. \A k \in 1 .. Len(shown) + 1 : k \in 1 .. Len(shown) \/ k = Len(shown) + 1
      BY <2>2
    <3>2. \A k \in 1 .. Len(shown) : k \in 1 .. Len(shown) + 1
      BY <2>2
    <3>3. Len(shown) + 1 \in 1 .. Len(shown) + 1
      BY <2>2
    <3> QED
      BY <2>2, <3>1, <3>2, <3>3 DEF ToSet
  <2> QED
    BY <1>3, <2>1, <2>2, <2>3 DEF t, x, S
<1>4. CASE Properties[i].name # name
  BY <1>4 DEF getItem, isNamed
<1> QED
  BY <1>3, <1>4

\* The loop shows the values of all properties of that name.
LEMMA LoopShows ==
    ASSUME value \in Values, NEW name
    PROVE  ToSet(FoldLeft(LAMBDA shown, item : getItem(shown, item, name),
                          << >>, Properties))
              = {value[Properties[i].var] :
                    i \in {j \in DOMAIN Properties : Properties[j].name = name}}
<1> DEFINE n == Len(Properties)
           A == Seq(0 .. ByteMax - 1)
           base == << >>
           T == [x \in A \X (1 .. n) |-> getItem(x[1], Properties[x[2]], name)]
<1>1. n \in Nat /\ DOMAIN Properties = 1 .. n
  BY PropertiesAre
<1>2. \A a \in A, k \in 1 .. n :
         /\ getItem(a, Properties[k], name) \in A
         /\ ToSet(getItem(a, Properties[k], name)) = ToSet(a) \union
               (IF Properties[k].name = name THEN {value[Properties[k].var]} ELSE {})
  BY GetItemShows
<1>3. base \in A /\ ToSet(base) = {}
  BY DEF ToSet
<1> HIDE DEF A, base
<1>4. /\ T \in [A \X (1 .. n) -> A]
      /\ \A a \in A, k \in 1 .. n : T[<<a, k>>] = getItem(a, Properties[k], name)
  BY <1>2
<1> HIDE DEF T
<1>5. PICK f \in [SUBSET (1 .. n) -> A] : Folds(f, base, T, n)
  BY <1>1, <1>3, <1>4, FoldExists
<1>6. GetFolds(f, name)
  <2>1. ASSUME NEW X \in SUBSET (1 .. n), X # {}
        PROVE  T[<<f[X \ {Max(X)}], Max(X)>>]
                   = getItem(f[X \ {Max(X)}], Properties[Max(X)], name)
    <3>1. X \in SUBSET (0 .. n)
      BY <1>1
    <3>2. Max(X) \in 1 .. n
      BY <1>1, <2>1, <3>1, MaxIs
    <3>3. f[X \ {Max(X)}] \in A
      BY <1>5
    <3> QED
      BY <1>4, <3>2, <3>3
  <2> QED
    BY <1>1, <1>5, <2>1 DEF Folds, GetFolds, base
<1> DEFINE c == CHOOSE g : GetFolds(g, name)
           got(k) == {value[Properties[i].var] : i \in Named(name, k)}
<1>7. GetFolds(c, name)
  BY <1>6
<1>8. FoldLeft(LAMBDA shown, item : getItem(shown, item, name), << >>, Properties)
         = c[DOMAIN Properties]
  BY Zenon DEF FoldLeft, MapThenFoldSet, GetFolds
<1> HIDE DEF c
<1> DEFINE K == {k \in Nat : k <= n => c[1 .. k] \in A /\ ToSet(c[1 .. k]) = got(k)}
<1>9. 0 \in K
  <2>1. 1 .. 0 = {} /\ {} \in SUBSET DOMAIN Properties
    OBVIOUS
  <2>2. c[{}] = base
    BY <1>7, <2>1 DEF GetFolds, base
  <2>3. got(0) = {}
    BY DEF Named
  <2> QED
    BY <1>3, <2>1, <2>2, <2>3
<1>10. ASSUME NEW k \in Nat, k \in K PROVE k + 1 \in K
  <2> SUFFICES ASSUME k + 1 <= n
               PROVE  c[1 .. k + 1] \in A /\ ToSet(c[1 .. k + 1]) = got(k + 1)
    OBVIOUS
  <2> DEFINE j == k + 1
  <2>1. j \in 1 .. n /\ j - 1 = k /\ k <= n
    BY <1>1
  <2>2. Named(name, j) = Named(name, k) \union
                         (IF Properties[j].name = name THEN {j} ELSE {})
    BY DEF Named
  <2> HIDE DEF j
  <2>3. got(j) = got(k) \union
           (IF Properties[j].name = name THEN {value[Properties[j].var]} ELSE {})
    BY <2>2
  <2>4. /\ 1 .. j # {} /\ 1 .. j \in SUBSET (1 .. n)
        /\ Max(1 .. j) = j /\ (1 .. j) \ {j} = 1 .. j - 1
    BY <1>1, <2>1, FirstOnes
  <2>5. c[1 .. j] = getItem(c[1 .. k], Properties[j], name)
    BY <1>1, <1>7, <2>1, <2>4 DEF GetFolds
  <2> HIDE DEF got
  <2>6. c[1 .. k] \in A /\ ToSet(c[1 .. k]) = got(k)
    BY <1>10, <2>1
  <2>7. c[1 .. j] \in A /\ ToSet(c[1 .. j]) = got(j)
    BY <1>2, <2>1, <2>3, <2>5, <2>6
  <2> QED
    BY <2>7 DEF j
<1> HIDE DEF K
<1>11. n \in K
  BY <1>1, <1>9, <1>10, Induct
<1>12. ToSet(c[DOMAIN Properties]) = got(n)
  BY <1>1, <1>11 DEF K
<1>13. Named(name, n) = {j \in DOMAIN Properties : Properties[j].name = name}
  BY <1>1 DEF Named
<1> QED
  BY <1>8, <1>12, <1>13, Zenon

\* What was never set counts as the number that an empty string counts as.
LEMMA UnsetIsZero == atoi(Unset) = atoi(<< >>)
<1> DEFINE S(s) == {k \in 0 .. Len(s) : IsDigits(SubSeq(s, 1, k))}
<1>1. /\ Unset \in Seq(Letter) /\ Len(Unset) = 1 /\ Unset[1] = "unset"
      /\ SubSeq(Unset, 1, 0) = << >> /\ DOMAIN SubSeq(Unset, 1, 1) = 1 .. 1
      /\ SubSeq(Unset, 1, 1)[1] = "unset"
  BY DEF Unset, Letter
<1>2. Len(<< >>) = 0 /\ SubSeq(<< >>, 1, 0) = << >> /\ DOMAIN << >> = 1 .. 0
  OBVIOUS
<1>3. IsDigits(<< >>)
  BY <1>2 DEF IsDigits
<1>4. ~ IsDigits(SubSeq(Unset, 1, 1))
  BY <1>1, ConsoleAssumption DEF IsDigits
<1>5. \A k \in 0 .. 1 : k = 0 \/ k = 1
  OBVIOUS
<1>6. S(Unset) = {0}
  <2>1. S(Unset) = {k \in 0 .. 1 : IsDigits(SubSeq(Unset, 1, k))}
    BY <1>1
  <2>2. IsDigits(SubSeq(Unset, 1, 0))
    BY <1>1, <1>3
  <2> HIDE DEF S
  <2> QED
    BY <1>4, <1>5, <2>1, <2>2
<1>7. S(<< >>) = {0}
  <2> DEFINE e == << >>
  <2>1. S(e) = {k \in 0 .. 0 : IsDigits(SubSeq(e, 1, k))}
    BY <1>2
  <2>2. IsDigits(SubSeq(e, 1, 0))
    BY <1>2, <1>3
  <2> HIDE DEF S, e
  <2>3. S(e) = {0}
    BY <2>1, <2>2
  <2> QED
    BY <2>3 DEF e
<1>8. Max({0}) = 0
  <2>1. {0} \in SUBSET (0 .. 0) /\ {0} # {}
    OBVIOUS
  <2>2. Max({0}) \in {0}
    BY <2>1, MaxIs
  <2> QED
    BY <2>2
<1>9. \A s : atoi(s) = FoldLeft(plusDigit, 0, SubSeq(s, 1, Max(S(s))))
  BY Zenon DEF atoi
<1> HIDE DEF S
<1>10. SubSeq(Unset, 1, Max(S(Unset))) = SubSeq(<< >>, 1, Max(S(<< >>)))
  BY <1>1, <1>2, <1>6, <1>7, <1>8
<1> QED
  BY <1>9, <1>10, Zenon

(***************************************************************************)
(* That what was invoked, with the values behind it, is what the words of  *)
(* a line say: the body of ExecutedIsTyped.                                *)
(***************************************************************************)
Fulfils(did, v, line, words) ==
    /\ did.what = "restart" =>
          \E i \in DOMAIN Commands : Commands[i].name = words[1]
                                     /\ <<Commands[i].of>> = did.arg
    /\ did.what = "function" =>
          /\ \E i \in DOMAIN Commands : Commands[i].name = words[1]
                                        /\ Commands[i].of = Len(words) - 1
          /\ did.arg = [k \in 1 .. Len(words) - 1 |-> atoi(words[k + 1])]
    /\ did.what = "get" =>
          ToSet(did.arg) = {v[Properties[i].var] :
              i \in {j \in DOMAIN Properties : Properties[j].name = words[2]}}
    /\ did.what = "unrecognized" <=>
          /\ line # << >> /\ words[1] # Help
          /\ ~ \E i \in DOMAIN Commands : Commands[i].name = words[1]

\* The words are the parameters, but for one that was not set.
Stands(words, p) ==
    /\ words[1] = p[1] /\ Len(words) = Len(p) /\ Len(p) \in Nat \ {0}
    /\ \A k \in 1 .. Len(p) : words[k] = p[k] \/ (words[k] = << >> /\ p[k] = Unset)

\* What set's loop invoked.
LEMMA SetInvokes ==
    ASSUME value \in Values, NEW rest \in Seq(Seq(Letter))
    PROVE  setCommand(rest).invoked.what \in {"nothing", "set", "invalid"}
<1>1. CASE Len(rest) # 2
  BY <1>1 DEF setCommand, NoEffect, Effect
<1>2. CASE Len(rest) = 2
  <2>1. rest[2] \in Seq(Letter)
    <3> DEFINE S == Seq(Letter)
    <3> HIDE DEF S
    <3>1. rest \in Seq(S)
      BY DEF S
    <3>2. rest[2] \in S
      BY <1>2, <3>1
    <3> QED
      BY <3>2 DEF S
  <2>2. setCommand(rest) = FoldLeft(LAMBDA x, item : setItem(x, item, rest[1], rest[2]),
                                    NoEffect("nothing"), Properties)
    BY <1>2, Zenon DEF setCommand
  <2>3. setCommand(rest) \in Sets(rest[1], rest[2])
    BY <2>1, <2>2, LoopSets, Zenon
  <2> QED
    BY <2>3 DEF Sets, SetEffects
<1> QED
  BY <1>1, <1>2

\* What a function is called with.
LEMMA FunctionFulfils ==
    ASSUME NEW p \in Seq(Seq(Letter)), NEW words, Stands(words, p), NEW line,
           NEW i \in DOMAIN Commands, Commands[i].name = p[1]
    PROVE  Fulfils(functionCommand(Commands[i], Tail(p)).invoked, value, line, words)
<1> DEFINE e == functionCommand(Commands[i], Tail(p))
           n == Len(p)
           rest == Tail(p)
<1>1. /\ n \in Nat \ {0} /\ Len(rest) = n - 1 /\ DOMAIN rest = 1 .. n - 1
      /\ \A k \in 1 .. n - 1 : rest[k] = p[k + 1]
  <2>1. n \in Nat \ {0}
    BY DEF Stands
  <2> DEFINE S == Seq(Letter)
  <2> HIDE DEF S
  <2>2. p \in Seq(S)
    BY DEF S
  <2> QED
    BY <2>1, <2>2
<1>2. /\ words[1] = p[1] /\ Len(words) = n
      /\ \A k \in 1 .. n : words[k] = p[k] \/ (words[k] = << >> /\ p[k] = Unset)
  BY DEF Stands
<1> HIDE DEF n, rest
<1>3. CASE Len(rest) # Commands[i].of
  <2>1. e.invoked.what = "parameterError"
    BY <1>3 DEF functionCommand, NoEffect, Effect, invokeParamCount, rest
  <2> HIDE DEF e
  <2>2. \E j \in DOMAIN Commands : Commands[j].name = words[1]
    BY <1>2
  <2> QED
    BY <2>1, <2>2 DEF Fulfils, e
<1>4. CASE Len(rest) = Commands[i].of
  <2>1. e.invoked.what = "function" /\ e.invoked.arg = invoke(rest)
    BY <1>4 DEF functionCommand, Effect, invokeParamCount, rest
  <2>2. ASSUME NEW k \in 1 .. n - 1 PROVE atoi(rest[k]) = atoi(words[k + 1])
    <3>1. k + 1 \in 1 .. n
      BY <1>1
    <3>2. rest[k] = p[k + 1]
      BY <1>1
    <3>3. \/ words[k + 1] = p[k + 1]
          \/ words[k + 1] = << >> /\ p[k + 1] = Unset
      BY <1>2, <3>1
    <3> QED
      BY <3>2, <3>3, UnsetIsZero, Zenon
  <2>3. invoke(rest) = [k \in 1 .. Len(words) - 1 |-> atoi(words[k + 1])]
    <3>1. invoke(rest) = [k \in 1 .. n - 1 |-> atoi(rest[k])]
      BY <1>1, Zenon DEF invoke
    <3> QED
      BY <1>2, <2>2, <3>1
  <2>4. \E j \in DOMAIN Commands : Commands[j].name = words[1]
                                   /\ Commands[j].of = Len(words) - 1
    BY <1>1, <1>2, <1>4
  <2> HIDE DEF e
  <2>5. Fulfils(e.invoked, value, line, words)
    BY <2>1, <2>3, <2>4 DEF Fulfils
  <2> QED
    BY <2>5 DEF e
<1> QED
  BY <1>3, <1>4

\* What "get" shows.
LEMMA GetFulfils ==
    ASSUME value \in Values,
           NEW p \in Seq(Seq(Letter)), NEW words, Stands(words, p), NEW line,
           NEW i \in DOMAIN Commands, Commands[i].name = p[1]
    PROVE  Fulfils(getCommand(Tail(p)).invoked, value, line, words)
<1> DEFINE e == getCommand(Tail(p))
           rest == Tail(p)
           got == FoldLeft(LAMBDA shown, item : getItem(shown, item, rest[1]),
                           << >>, Properties)
<1>1. \E j \in DOMAIN Commands : Commands[j].name = words[1]
  BY DEF Stands
<1>2. CASE Len(rest) # 1
  <2>1. e.invoked.what \in {"names", "nothing"}
    BY <1>2 DEF getCommand, NoEffect, Effect
  <2> HIDE DEF e
  <2> QED
    BY <1>1, <2>1 DEF Fulfils, e
<1>3. CASE Len(rest) = 1
  <2>1. e = Effect(queue, value, "get", got)
    BY <1>3, Zenon DEF getCommand
  <2>2. e.invoked.what = "get" /\ e.invoked.arg = got
    <3> HIDE DEF got, e
    <3> QED
      BY <2>1, NoEffectIs
  <2>3. Len(p) = 2 /\ rest[1] = p[2] /\ (words[2] = p[2] \/ (words[2] = << >> /\ p[2] = Unset))
    <3> DEFINE S == Seq(Letter)
    <3> HIDE DEF S
    <3>1. p \in Seq(S) /\ Len(p) \in Nat \ {0}
      BY DEF S, Stands
    <3>2. Len(Tail(p)) = Len(p) - 1 /\ \A k \in 1 .. Len(p) - 1 : Tail(p)[k] = p[k + 1]
      BY <3>1, RestIs
    <3>3. Len(p) = 2
      BY <1>3, <3>1, <3>2
    <3>4. 1 \in 1 .. Len(p) - 1 /\ 2 \in 1 .. Len(p) /\ 1 + 1 = 2
      BY <3>3
    <3>5. Tail(p)[1] = p[2]
      BY <3>2, <3>4
    <3>6. words[2] = p[2] \/ (words[2] = << >> /\ p[2] = Unset)
      BY <3>4 DEF Stands
    <3> QED
      BY <3>3, <3>5, <3>6
  <2>4. {j \in DOMAIN Properties : Properties[j].name = rest[1]}
           = {j \in DOMAIN Properties : Properties[j].name = words[2]}
    <3>1. \A j \in DOMAIN Properties :
             Properties[j].name # << >> /\ Properties[j].name # Unset
      BY ConsoleAssumption DEF ToSet
    <3> HIDE DEF rest
    <3>2. CASE words[2] = p[2]
      BY <2>3, <3>2
    <3>3. CASE words[2] = << >> /\ p[2] = Unset
      BY <2>3, <3>1, <3>3
    <3> QED
      BY <2>3, <3>2, <3>3
  <2>5. ToSet(got) = {value[Properties[j].var] :
                         j \in {m \in DOMAIN Properties : Properties[m].name = rest[1]}}
    BY LoopShows
  <2> HIDE DEF e, got, rest
  <2>6. Fulfils(e.invoked, value, line, words)
    BY <1>1, <2>2, <2>4, <2>5 DEF Fulfils
  <2> QED
    BY <2>6 DEF e, rest
<1> QED
  BY <1>2, <1>3

\* Whatever the parameters, what is invoked is what their words say.
LEMMA HandlingFulfils ==
    ASSUME value \in Values, NEW p \in Seq(Seq(Letter)), NEW words, Stands(words, p),
           NEW line, line # << >>
    PROVE  LET e == handleCommand(p)
           IN  Fulfils(e.invoked, e.value, line, words)
<1> DEFINE e == handleCommand(p)
           i == canHandle(p[1])
           rest == Tail(p)
<1>1. words[1] = p[1] /\ Len(p) \in Nat \ {0} /\ rest \in Seq(Seq(Letter))
  <2> DEFINE S == Seq(Letter)
  <2> HIDE DEF S
  <2>1. p \in Seq(S) /\ Len(p) \in Nat \ {0} /\ words[1] = p[1]
    BY DEF S, Stands
  <2>2. Tail(p) \in Seq(S)
    BY <2>1, RestIs
  <2> QED
    BY <2>1, <2>2 DEF S
<1>2. \/ i = 0 /\ p[1] = Help /\ e = NoEffect("help")
      \/ /\ i = 0 /\ p[1] # Help /\ e = NoEffect("unrecognized")
         /\ \A j \in DOMAIN Commands : Commands[j].name # p[1]
      \/ /\ i \in DOMAIN Commands
         /\ Commands[i].name = p[1]
         /\ \/ e = restartCommand(Commands[i].of)
            \/ e = functionCommand(Commands[i], rest)
            \/ e = getCommand(rest)
            \/ e = setCommand(rest)
  BY Branches
<1> HIDE DEF e, i, rest
<1>3. CASE i = 0 /\ p[1] = Help /\ e = NoEffect("help")
  <2>1. e.invoked.what = "help"
    BY <1>3 DEF NoEffect, Effect
  <2> QED
    BY <1>1, <1>3, <2>1 DEF Fulfils, e
<1>4. CASE /\ i = 0 /\ p[1] # Help /\ e = NoEffect("unrecognized")
           /\ \A j \in DOMAIN Commands : Commands[j].name # p[1]
  <2>1. e.invoked.what = "unrecognized"
    BY <1>4 DEF NoEffect, Effect
  <2> QED
    BY <1>1, <1>4, <2>1 DEF Fulfils, e
<1>5. CASE i \in DOMAIN Commands /\ Commands[i].name = p[1]
           /\ e = restartCommand(Commands[i].of)
  <2>1. e.invoked.what = "restart" /\ e.invoked.arg = <<Commands[i].of>>
    BY <1>5 DEF restartCommand, Effect
  <2> QED
    BY <1>1, <1>5, <2>1 DEF Fulfils, e
<1>6. CASE i \in DOMAIN Commands /\ Commands[i].name = p[1]
           /\ e = functionCommand(Commands[i], rest)
  <2>1. Fulfils(e.invoked, value, line, words)
    BY <1>6, FunctionFulfils DEF rest
  <2>2. e.value = value
    BY <1>6 DEF functionCommand, NoEffect, Effect
  <2>3. Fulfils(e.invoked, e.value, line, words)
    BY <2>1, <2>2
  <2> QED
    BY <2>3 DEF e
<1>7. CASE i \in DOMAIN Commands /\ Commands[i].name = p[1] /\ e = getCommand(rest)
  <2>1. Fulfils(e.invoked, value, line, words)
    BY <1>7, GetFulfils DEF rest
  <2>2. e.value = value
    <3>1. CASE Len(rest) # 1
      BY <1>7, <3>1 DEF getCommand, NoEffect, Effect
    <3>2. CASE Len(rest) = 1
      <4> DEFINE got == FoldLeft(LAMBDA shown, item : getItem(shown, item, rest[1]),
                                 << >>, Properties)
      <4>1. e = Effect(queue, value, "get", got)
        BY <1>7, <3>2, Zenon DEF getCommand
      <4> HIDE DEF got
      <4> QED
        BY <4>1, NoEffectIs
    <3> QED
      BY <3>1, <3>2
  <2>3. Fulfils(e.invoked, e.value, line, words)
    BY <2>1, <2>2
  <2> QED
    BY <2>3 DEF e
<1>8. CASE i \in DOMAIN Commands /\ Commands[i].name = p[1] /\ e = setCommand(rest)
  <2>1. e.invoked.what \in {"nothing", "set", "invalid"}
    BY <1>1, <1>8, SetInvokes
  <2>2. \E j \in DOMAIN Commands : Commands[j].name = words[1]
    BY <1>1, <1>8
  <2>3. e.invoked.what \notin {"restart", "function", "get", "unrecognized"}
    BY <2>1
  <2> QED
    BY <2>2, <2>3 DEF Fulfils, e
<1> QED
  BY <1>2, <1>3, <1>4, <1>5, <1>6, <1>7, <1>8

\* The words of a line that is entered stand for its parameters.
LEMMA WordsStand ==
    ASSUME NEW line \in Seq(STRING)
    PROVE  Stands(Tokens(line, 1 + Cardinality({i \in DOMAIN line : line[i] = Blank})),
                  parameters(line))
<1> DEFINE n == Len(parameters(line))
           t == Tokens(line, n)
<1>1. n \in Nat \ {0} /\ n = Len(begins(line))
  BY ParametersAre
<1>2. {i \in DOMAIN line : line[i] = Blank} = Blanks(line, Len(line))
  BY DEF Blanks
<1>3. n = 1 + Cardinality({i \in DOMAIN line : line[i] = Blank})
  BY <1>1, <1>2, PointersCounted
<1>4. \A k \in 1 .. n :
         \/ parameters(line)[k] = t[k]
         \/ parameters(line)[k] = Unset /\ t[k] = << >> /\ k # 1
  BY ParametersAreTheTokens
<1>5. Len(t) = n
  <2> DEFINE f == CHOOSE g : Starts(g, line, n)
  <2>1. t = [k \in 1 .. n |-> SubSeq(line, f[k], parseToken(line, f[k]) - 1)]
    BY Zenon DEF Tokens, Starts
  <2> HIDE DEF t, f, n
  <2> QED
    BY <1>1, <2>1
<1>6. parameters(line)[1] = t[1]
  <2>1. 1 \in 1 .. n
    BY <1>1
  <2> QED
    BY <1>4, <2>1
<1>7. Stands(t, parameters(line))
  <2> HIDE DEF t
  <2> QED
    BY <1>1, <1>4, <1>5, <1>6 DEF Stands
<1> HIDE DEF n
<1> QED
  BY <1>3, <1>7

\* A line that is entered is executed as it was typed.
LEMMA EnterExecutes ==
    ASSUME Inv, Enter
    PROVE  ExecutedIsTyped'
<1> DEFINE line == Meant(submitted')
           words == Tokens(line, 1 + Cardinality({i \in DOMAIN line : line[i] = Blank}))
<1>1. line = inputLine /\ line \in Seq(STRING) /\ value \in Values
  BY EnterIs DEF Inv, Typed, Lines
<1>2. Fulfils(invoked', value', line, words)
  <2>1. CASE line = << >>
    <3>1. invoked'.what = "nothing"
      BY <1>1, <2>1 DEF Enter, Nothing
    <3> HIDE DEF line, words
    <3> QED
      BY <2>1, <3>1 DEF Fulfils
  <2>2. CASE line # << >>
    <3> DEFINE p == parameters(line)
               e == handleCommand(p)
    <3>1. /\ p \in Seq(Seq(Letter))
          /\ value' = e.value /\ invoked' = e.invoked
      BY <1>1, <2>2, EnterHandles
    <3> HIDE DEF line
    <3>2. Stands(words, p)
      BY <1>1, WordsStand
    <3> HIDE DEF words, p
    <3>3. Fulfils(e.invoked, e.value, line, words)
      BY <1>1, <2>2, <3>1, <3>2, HandlingFulfils
    <3> QED
      BY <3>1, <3>3
  <2> QED
    BY <2>1, <2>2
<1> QED
  BY <1>2 DEF ExecutedIsTyped, Fulfils

\* What handler executed when it last saw a newline is what the keys typed since the newline
\* before were meant to be, for any menu, any line and any order of typing and reading.
THEOREM ExecutedCorrect == Spec => []ExecutedIsTyped
<1>1. Init => ExecutedIsTyped
  BY DEF Init, ExecutedIsTyped
<1>2. ASSUME Inv, ExecutedIsTyped, [Next]_vars
      PROVE  ExecutedIsTyped'
  <2>1. CASE Enter
    BY <1>2, <2>1, EnterExecutes
  <2>2. CASE submitted' = << >>
    BY <2>2 DEF ExecutedIsTyped
  <2>3. CASE UNCHANGED vars
    BY <1>2, <2>3 DEF ExecutedIsTyped, vars
  <2>4. Enter \/ submitted' = << >> \/ UNCHANGED vars
    BY <1>2 DEF Next, Program, Peek, Complete, Echo, MakeCall, CallHandler, Type, Quiet
  <2> QED
    BY <2>1, <2>2, <2>3, <2>4
<1> QED
  BY <1>1, <1>2, InvHolds, PTL DEF Spec
================================================================================
