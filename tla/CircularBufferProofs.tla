-------------------------- MODULE CircularBufferProofs -------------------------
(***************************************************************************)
(* Proofs about CircularBuffer, for every size and every set of elements:  *)
(* the indices stay in range, a reference returned by get() stays good     *)
(* until the buffer is full again, and the buffer implements a FIFO that   *)
(* drops its oldest element when full.                                     *)
(***************************************************************************)
EXTENDS CircularBuffer, SequenceTheorems, TLAPS

(***************************************************************************)
(* The read index is a slot: the computation of getPositionGet never       *)
(* leaves the array, whatever the two counters of TypeOK are.              *)
(***************************************************************************)
LEMMA ReadIndexIsSlot ==
    ASSUME TypeOK
    PROVE  getPositionGet \in Slot
BY SizeAssumption DEF TypeOK, Slot, getPositionGet

(***************************************************************************)
(* The slot of each unread element is a slot of the array.                 *)
(***************************************************************************)
LEMMA SlotOfIsSlot ==
    ASSUME TypeOK, NEW i \in 1 .. currentCapacity
    PROVE  SlotOf(i) \in Slot
BY SizeAssumption DEF TypeOK, Slot, SlotOf, getPositionGet

(***************************************************************************)
(* Every operation keeps the indices and the counters in range.            *)
(***************************************************************************)
THEOREM TypeCorrect == Spec => []TypeOK
<1>1. Init => TypeOK
  BY SizeAssumption DEF Init, TypeOK, Slot
<1>2. TypeOK /\ [Next]_vars => TypeOK'
  <2> SUFFICES ASSUME TypeOK, [Next]_vars
               PROVE  TypeOK'
    OBVIOUS
  <2> USE SizeAssumption DEF TypeOK, Slot
  <2>1. CASE \E v \in Value : put(v)
    BY <2>1 DEF put, incrementPosition
  <2>2. CASE \E v \in Value : peekLast(v)
    BY <2>2 DEF peekLast, available
  <2>3. CASE commit
    BY <2>3 DEF commit, incrementPosition
  <2>4. CASE get
    BY <2>4, ReadIndexIsSlot DEF get, available, peek
  <2>5. CASE reset
    BY <2>5 DEF reset
  <2>6. CASE UNCHANGED vars
    BY <2>6 DEF vars
  <2>7. QED
    BY <2>1, <2>2, <2>3, <2>4, <2>5, <2>6 DEF Next
<1>3. QED
  BY <1>1, <1>2, PTL DEF Spec

--------------------------------------------------------------------------------

(***************************************************************************)
(* What makes a held reference good: as long as a free slot is left, the   *)
(* slot it points to is the one just before the read index, which is the   *)
(* last slot a put reaches; and only a buffer with room is filled in place.*)
(***************************************************************************)
PreviousSlot(s) == IF s = 0 THEN Size - 1 ELSE s - 1

HeldIsLastFree ==
    held # NoSlot /\ available + filling < Size
        => /\ held = PreviousSlot(getPositionGet)
           /\ array[held] = out

IInv ==
    /\ TypeOK
    /\ filling = 1 => available < Size
    /\ HeldIsLastFree

(***************************************************************************)
(* Storing at the write index leaves the slot before the read index alone  *)
(* while more than one slot is free.                                       *)
(***************************************************************************)
LEMMA LastFreeIsNotNext ==
    ASSUME TypeOK, available + 1 < Size
    PROVE  PreviousSlot(getPositionGet) # position
BY SizeAssumption DEF TypeOK, Slot, available, getPositionGet, PreviousSlot

(***************************************************************************)
(* An element entering a buffer with room leaves the read index in place.  *)
(***************************************************************************)
LEMMA IncrementKeepsReadIndex ==
    ASSUME TypeOK, incrementPosition, currentCapacity < Size
    PROVE  /\ getPositionGet' = getPositionGet
           /\ available' = available + 1
BY SizeAssumption DEF TypeOK, Slot, incrementPosition, available, getPositionGet

(***************************************************************************)
(* An element entering a full buffer leaves it full and moves the read     *)
(* index along with the write index.                                       *)
(***************************************************************************)
LEMMA IncrementWhenFull ==
    ASSUME TypeOK, incrementPosition, currentCapacity = Size
    PROVE  /\ available' = available
           /\ position' = NextSlot(position)
           /\ getPositionGet' = NextSlot(getPositionGet)
BY SizeAssumption DEF TypeOK, Slot, incrementPosition, available, getPositionGet,
                      NextSlot

(***************************************************************************)
(* Reading moves the read index to the following slot, so that the slot    *)
(* just read is the one before it.                                         *)
(***************************************************************************)
LEMMA GetMovesReadIndex ==
    ASSUME TypeOK, get
    PROVE  /\ getPositionGet' = NextSlot(getPositionGet)
           /\ PreviousSlot(getPositionGet') = getPositionGet
           /\ available' = available - 1
           /\ available' \in 0 .. Size - 1
BY SizeAssumption DEF TypeOK, Slot, get, available, getPositionGet, NextSlot,
                      PreviousSlot

(***************************************************************************)
(* A reference returned by get() shows the element it returned until the   *)
(* elements arriving since have used up every slot (rpc::CallQueue::get()  *)
(* relies on it while it makes the call).                                  *)
(***************************************************************************)
THEOREM HeldReferenceStaysGood == Spec => []HeldElementIntact
<1>1. Init => IInv
  BY SizeAssumption DEF Init, IInv, TypeOK, Slot, HeldIsLastFree
<1>2. IInv /\ TypeOK' /\ [Next]_vars => IInv'
  <2> SUFFICES ASSUME IInv, TypeOK', [Next]_vars
               PROVE  IInv'
    OBVIOUS
  <2>0. TypeOK /\ HeldIsLastFree /\ (filling = 1 => available < Size)
    BY DEF IInv
  <2>1. ASSUME NEW v \in Value, put(v)
        PROVE  IInv'
    <3>1. incrementPosition /\ filling' = 0 /\ held' = held /\ out' = out
      BY <2>1 DEF put
    <3>2. CASE available < Size
      <4>1. getPositionGet' = getPositionGet /\ available' = available + 1
        BY <2>0, <3>1, <3>2, IncrementKeepsReadIndex DEF available
      <4>2. ASSUME held # NoSlot, available' + filling' < Size
            PROVE  held = PreviousSlot(getPositionGet) /\ array'[held] = out
        <5>1. available + 1 < Size /\ filling = 0
          BY <2>1, <3>1, <4>1, <4>2, <2>0 DEF put, TypeOK, available
        <5>2. held = PreviousSlot(getPositionGet) /\ array[held] = out
          BY <4>2, <5>1, <2>0, SizeAssumption DEF HeldIsLastFree, TypeOK, available
        <5>3. held # position
          BY <5>1, <5>2, <2>0, LastFreeIsNotNext
        <5>4. QED
          BY <2>1, <5>2, <5>3, <2>0 DEF put, TypeOK, Slot
      <4>3. HeldIsLastFree'
        BY <3>1, <4>1, <4>2 DEF HeldIsLastFree, PreviousSlot
      <4>4. QED
        BY <3>1, <4>3 DEF IInv
    <3>3. CASE available = Size
      <4>1. available' + filling' = Size
        BY <2>0, <3>1, <3>3, IncrementWhenFull, SizeAssumption DEF available
      <4>2. QED
        BY <3>1, <4>1, SizeAssumption DEF IInv, HeldIsLastFree
    <3>4. QED
      BY <3>2, <3>3, <2>0, SizeAssumption DEF TypeOK, available
  <2>2. ASSUME NEW v \in Value, peekLast(v)
        PROVE  IInv'
    <3>1. /\ available < Size /\ available' = available
          /\ filling = 0 /\ filling' = 1
          /\ getPositionGet' = getPositionGet
          /\ held' = held /\ out' = out
      BY <2>2 DEF peekLast, available, getPositionGet
    <3>2. ASSUME held # NoSlot, available + 1 < Size
          PROVE  held = PreviousSlot(getPositionGet) /\ array'[held] = out
      <4>1. held = PreviousSlot(getPositionGet) /\ array[held] = out
        BY <3>1, <3>2, <2>0, SizeAssumption DEF HeldIsLastFree, TypeOK, available
      <4>2. held # position
        BY <3>2, <4>1, <2>0, LastFreeIsNotNext
      <4>3. QED
        BY <2>2, <4>1, <4>2, <2>0 DEF peekLast, TypeOK, Slot
    <3>3. HeldIsLastFree'
      BY <3>1, <3>2 DEF HeldIsLastFree, PreviousSlot
    <3>4. QED
      BY <3>1, <3>3 DEF IInv
  <2>3. CASE commit
    <3>1. /\ incrementPosition /\ filling = 1 /\ filling' = 0
          /\ array' = array /\ held' = held /\ out' = out
      BY <2>3 DEF commit
    <3>2. getPositionGet' = getPositionGet /\ available' = available + 1
      BY <2>0, <3>1, IncrementKeepsReadIndex DEF available
    <3>3. HeldIsLastFree'
      BY <2>0, <3>1, <3>2, SizeAssumption
      DEF HeldIsLastFree, PreviousSlot, TypeOK, available
    <3>4. QED
      BY <3>1, <3>3 DEF IInv
  <2>4. CASE get
    <3>1. /\ held' = getPositionGet /\ array' = array /\ filling' = filling
          /\ out' = array[getPositionGet]
      BY <2>4 DEF get, peek
    <3>2. PreviousSlot(getPositionGet)' = getPositionGet
      BY <2>0, <2>4, GetMovesReadIndex DEF PreviousSlot
    <3>3. available' < Size
      BY <2>0, <2>4, GetMovesReadIndex, SizeAssumption
    <3>4. QED
      BY <3>1, <3>2, <3>3 DEF IInv, HeldIsLastFree
  <2>5. CASE reset
    BY <2>5 DEF reset, IInv, HeldIsLastFree
  <2>6. CASE UNCHANGED vars
    BY <2>0, <2>6 DEF vars, IInv, HeldIsLastFree, available, getPositionGet,
                      PreviousSlot
  <2>7. QED
    BY <2>1, <2>2, <2>3, <2>4, <2>5, <2>6 DEF Next
<1>3. IInv => HeldElementIntact
  BY DEF IInv, HeldIsLastFree, HeldElementIntact
<1>4. QED
  BY <1>1, <1>2, <1>3, TypeCorrect, PTL DEF Spec

--------------------------------------------------------------------------------

(***************************************************************************)
(* While a client fills the slot peekLast() gave it, that slot holds no    *)
(* unread element, however often the reader runs meanwhile.                *)
(***************************************************************************)
THEOREM FilledSlotStaysFree == Spec => []FilledSlotIsFree
<1>1. TypeOK /\ (filling = 1 => available < Size) => FilledSlotIsFree
  BY SizeAssumption
  DEF TypeOK, Slot, FilledSlotIsFree, available, SlotOf, getPositionGet
<1>2. Init => (filling = 1 => available < Size)
  BY DEF Init
<1>3. /\ TypeOK
      /\ filling = 1 => available < Size
      /\ [Next]_vars
      => (filling = 1 => available < Size)'
  BY SizeAssumption
  DEF TypeOK, Slot, Next, put, peekLast, commit, get, reset, vars, available
<1>4. QED
  BY <1>1, <1>2, <1>3, TypeCorrect, PTL DEF Spec

(***************************************************************************)
(* The read index that the code derives from the other two counters moves  *)
(* only when an element leaves the buffer.                                 *)
(***************************************************************************)
THEOREM ReadIndexIsStable == Spec => ReadIndexMovesWithReads
<1>1. TypeOK /\ [Next]_vars => [ReadIndexStep]_vars
  <2> SUFFICES ASSUME TypeOK, Next
               PROVE  ReadIndexStep
    BY DEF vars
  <2>1. CASE incrementPosition
    <3>1. CASE currentCapacity < Size
      BY <2>1, <3>1, IncrementKeepsReadIndex DEF ReadIndexStep
    <3>2. CASE currentCapacity = Size
      BY <2>1, <3>2, IncrementWhenFull DEF ReadIndexStep, available
    <3>3. QED
      BY <3>1, <3>2, SizeAssumption DEF TypeOK
  <2>2. CASE get
    BY <2>2, GetMovesReadIndex, SizeAssumption DEF ReadIndexStep, available, TypeOK
  <2>3. CASE reset
    BY <2>3 DEF reset, ReadIndexStep, available
  <2>4. CASE \E v \in Value : peekLast(v)
    BY <2>4 DEF peekLast, ReadIndexStep
  <2>5. QED
    BY <2>1, <2>2, <2>3, <2>4 DEF Next, put, commit
<1>2. QED
  BY <1>1, TypeCorrect, PTL DEF Spec, ReadIndexMovesWithReads

--------------------------------------------------------------------------------

(***************************************************************************)
(* The unread elements form a sequence of elements.                        *)
(***************************************************************************)
LEMMA ContentsIsSequence ==
    ASSUME TypeOK
    PROVE  /\ Contents \in Seq(Value)
           /\ Len(Contents) = currentCapacity
<1>1. \A i \in 1 .. currentCapacity : array[SlotOf(i)] \in Value
  BY SlotOfIsSlot DEF TypeOK
<1>2. currentCapacity \in Nat
  BY SizeAssumption DEF TypeOK
<1>3. QED
  BY <1>1, <1>2 DEF Contents

(***************************************************************************)
(* With room left, the write index is the slot after the last unread one.  *)
(***************************************************************************)
LEMMA WriteIndexFollows ==
    ASSUME TypeOK, currentCapacity < Size
    PROVE  /\ SlotOf(currentCapacity + 1) = position
           /\ \A i \in 1 .. currentCapacity : SlotOf(i) # position
BY SizeAssumption DEF TypeOK, Slot, SlotOf, getPositionGet

(***************************************************************************)
(* A sequence with one more element, written out as a function.            *)
(***************************************************************************)
LEMMA AppendIsFunction ==
    ASSUME NEW S, NEW s \in Seq(S), NEW v \in S
    PROVE  Append(s, v) = [i \in 1 .. Len(s) + 1 |->
                             IF i <= Len(s) THEN s[i] ELSE v]
<1> DEFINE t == [i \in 1 .. Len(s) + 1 |-> IF i <= Len(s) THEN s[i] ELSE v]
<1>1. t \in Seq(S) /\ Len(t) = Len(s) + 1
  OBVIOUS
<1>2. Append(s, v) \in Seq(S) /\ Len(Append(s, v)) = Len(s) + 1
  OBVIOUS
<1>3. \A i \in 1 .. Len(s) + 1 : Append(s, v)[i] = t[i]
  BY AppendProperties
<1> HIDE DEF t
<1>4. Append(s, v) = t
  BY <1>1, <1>2, <1>3, SeqEqual
<1>5. QED
  BY <1>4 DEF t

(***************************************************************************)
(* A sequence without its first element, written out as a function.        *)
(***************************************************************************)
LEMMA TailIsFunction ==
    ASSUME NEW S, NEW s \in Seq(S), s # << >>
    PROVE  Tail(s) = [i \in 1 .. Len(s) - 1 |-> s[i + 1]]
<1> DEFINE t == [i \in 1 .. Len(s) - 1 |-> s[i + 1]]
<1>1. Len(s) \in Nat \ {0}
  OBVIOUS
<1>2. t \in Seq(S) /\ Len(t) = Len(s) - 1
  BY <1>1
<1>3. /\ Tail(s) \in Seq(S) /\ Len(Tail(s)) = Len(s) - 1
      /\ \A i \in 1 .. Len(s) - 1 : Tail(s)[i] = t[i]
  BY HeadTailProperties
<1> HIDE DEF t
<1>4. Tail(s) = t
  BY <1>2, <1>3, SeqEqual
<1>5. QED
  BY <1>4 DEF t

(***************************************************************************)
(* Moving the write index on over a slot that already holds v appends v to *)
(* the contents, dropping the oldest element of a full buffer.  `old` is   *)
(* the storage before v was written.                                       *)
(***************************************************************************)
LEMMA IncrementAppends ==
    ASSUME TypeOK, TypeOK', NEW v \in Value, incrementPosition,
           array' = [array EXCEPT ![position] = v]
    PROVE  Contents' = IF Len(Contents) = Size
                       THEN Append(Tail(Contents), v)
                       ELSE Append(Contents, v)
<1>1. CASE currentCapacity < Size
  <2>1. getPositionGet' = getPositionGet /\ currentCapacity' = currentCapacity + 1
    BY <1>1, IncrementKeepsReadIndex DEF available
  <2>2. \A i : SlotOf(i)' = SlotOf(i)
    BY <2>1 DEF SlotOf
  <2>3. \A i \in 1 .. currentCapacity : array'[SlotOf(i)] = array[SlotOf(i)]
    BY <1>1, WriteIndexFollows, SlotOfIsSlot DEF TypeOK
  <2>4. array'[SlotOf(currentCapacity + 1)] = v
    BY <1>1, WriteIndexFollows DEF TypeOK
  <2>5. Contents' = [i \in 1 .. currentCapacity + 1 |->
                       IF i <= currentCapacity THEN Contents[i] ELSE v]
    <3>1. \A i \in 1 .. currentCapacity + 1 :
             i \in 1 .. currentCapacity \/ i = currentCapacity + 1
      BY SizeAssumption DEF TypeOK
    <3>2. \A i \in 1 .. currentCapacity : Contents[i] = array[SlotOf(i)]
      BY DEF Contents
    <3>3. Contents' = [i \in 1 .. currentCapacity + 1 |-> array'[SlotOf(i)]]
      BY <2>1, <2>2 DEF Contents
    <3>4. \A i \in 1 .. currentCapacity + 1 :
             array'[SlotOf(i)] = IF i <= currentCapacity THEN Contents[i] ELSE v
      BY <2>3, <2>4, <3>1, <3>2, SizeAssumption DEF TypeOK
    <3>5. QED
      BY <3>3, <3>4
  <2>6. Contents' = Append(Contents, v)
    BY <2>5, ContentsIsSequence, AppendIsFunction
  <2>7. QED
    BY <2>6, <1>1, ContentsIsSequence, SizeAssumption DEF TypeOK
<1>2. CASE currentCapacity = Size
  <2>1. /\ getPositionGet = position
        /\ getPositionGet' = NextSlot(position)
        /\ currentCapacity' = Size
    BY <1>2, IncrementWhenFull, SizeAssumption
    DEF available, getPositionGet, TypeOK, Slot
  <2>2. \A i \in 1 .. Size - 1 :
           /\ SlotOf(i)' = SlotOf(i + 1)
           /\ SlotOf(i + 1) \in Slot /\ SlotOf(i + 1) # position
    BY <2>1, SizeAssumption DEF TypeOK, Slot, SlotOf, NextSlot
  <2>3. SlotOf(Size)' = position
    BY <2>1, SizeAssumption DEF TypeOK, Slot, SlotOf, NextSlot
  <2>4. Contents' = [i \in 1 .. Size |->
                       IF i <= Size - 1 THEN array[SlotOf(i + 1)] ELSE v]
    BY <2>1, <2>2, <2>3, SizeAssumption DEF Contents, TypeOK
  <2>5. /\ Tail(Contents) \in Seq(Value)
        /\ Len(Tail(Contents)) = Size - 1
        /\ \A i \in 1 .. Size - 1 : Tail(Contents)[i] = array[SlotOf(i + 1)]
    BY <1>2, ContentsIsSequence, SizeAssumption DEF Contents
  <2>6. Contents' = Append(Tail(Contents), v)
    <3>1. Append(Tail(Contents), v) =
            [i \in 1 .. Size |-> IF i <= Size - 1 THEN Tail(Contents)[i] ELSE v]
      <4>1. Len(Tail(Contents)) + 1 = Size
        BY <2>5, SizeAssumption
      <4> DEFINE rest == Tail(Contents)
      <4>1a. rest \in Seq(Value)
        BY <2>5
      <4> HIDE DEF rest
      <4>1b. Append(rest, v) = [i \in 1 .. Len(rest) + 1 |->
                                 IF i <= Len(rest) THEN rest[i] ELSE v]
        BY <4>1a, AppendIsFunction
      <4>2. Append(Tail(Contents), v) =
              [i \in 1 .. Len(Tail(Contents)) + 1 |->
                 IF i <= Len(Tail(Contents)) THEN Tail(Contents)[i] ELSE v]
        BY <4>1b DEF rest
      <4>3. QED
        BY <2>5, <4>1, <4>2
    <3>2. \A i \in 1 .. Size :
             (IF i <= Size - 1 THEN array[SlotOf(i + 1)] ELSE v)
               = (IF i <= Size - 1 THEN Tail(Contents)[i] ELSE v)
      BY <2>5, SizeAssumption
    <3>3. QED
      BY <2>4, <3>1, <3>2
  <2>7. QED
    BY <2>6, <1>2, ContentsIsSequence DEF TypeOK
<1>3. QED
  BY <1>1, <1>2, SizeAssumption DEF TypeOK

(***************************************************************************)
(* Reading takes the first of the unread elements.                         *)
(***************************************************************************)
LEMMA GetTakesHead ==
    ASSUME TypeOK, get
    PROVE  /\ Contents # << >>
           /\ out' = Head(Contents)
           /\ Contents' = Tail(Contents)
<1>1. currentCapacity > 0 /\ currentCapacity' = currentCapacity - 1
      /\ array' = array /\ position' = position
  BY DEF get, available
<1>2. Contents # << >> /\ Head(Contents) = Contents[1]
  BY <1>1, ContentsIsSequence
<1>3. out' = Contents[1]
  <2>1. SlotOf(1) = getPositionGet
    BY ReadIndexIsSlot, SizeAssumption DEF SlotOf, Slot
  <2>2. 1 \in 1 .. currentCapacity
    BY <1>1, SizeAssumption DEF TypeOK
  <2>3. QED
    BY <2>1, <2>2 DEF get, peek, Contents
<1>4. \A i \in 1 .. currentCapacity - 1 : SlotOf(i)' = SlotOf(i + 1)
  <2>1. getPositionGet' = NextSlot(getPositionGet) /\ getPositionGet \in Slot
    BY GetMovesReadIndex, ReadIndexIsSlot
  <2>2. QED
    BY <2>1, SizeAssumption DEF SlotOf, NextSlot, Slot, TypeOK
<1>5. Contents' = Tail(Contents)
  <2>1. Tail(Contents) = [i \in 1 .. currentCapacity - 1 |-> Contents[i + 1]]
    BY <1>2, ContentsIsSequence, TailIsFunction
  <2>2. \A i \in 1 .. currentCapacity - 1 : Contents[i + 1] = array[SlotOf(i + 1)]
    BY SizeAssumption DEF Contents, TypeOK
  <2>3. Contents' = [i \in 1 .. currentCapacity - 1 |-> array[SlotOf(i)']]
    BY <1>1 DEF Contents
  <2>4. QED
    BY <2>1, <2>2, <2>3, <1>4
<1>6. QED
  BY <1>2, <1>3, <1>5

(***************************************************************************)
(* The buffer implements the overwriting FIFO: messages leave in the order *)
(* they arrived, each at most once, and only the oldest one of a full      *)
(* buffer is lost.                                                         *)
(***************************************************************************)
THEOREM Refinement == Spec => ImplementsFifo
<1>1. Init => Fifo!Init
  BY ContentsIsSequence, SizeAssumption DEF Init, Fifo!Init, Contents
<1>2. TypeOK /\ TypeOK' /\ [Next]_vars => [Fifo!Next]_(Fifo!vars)
  <2> SUFFICES ASSUME TypeOK, TypeOK', [Next]_vars
               PROVE  Fifo!Next \/ UNCHANGED Fifo!vars
    OBVIOUS
  <2>1. ASSUME NEW v \in Value, put(v)
        PROVE  Fifo!Put(v)
    BY <2>1, IncrementAppends DEF put, Fifo!Put
  <2>2. ASSUME NEW v \in Value, peekLast(v)
        PROVE  UNCHANGED Fifo!vars
    <3>1. /\ currentCapacity < Size
          /\ UNCHANGED <<position, currentCapacity, out>>
          /\ array' = [array EXCEPT ![position] = v]
      BY <2>2 DEF peekLast, available
    <3>2. \A i : SlotOf(i)' = SlotOf(i)
      BY <3>1 DEF SlotOf, getPositionGet
    <3>3. \A i \in 1 .. currentCapacity : array'[SlotOf(i)] = array[SlotOf(i)]
      BY <3>1, WriteIndexFollows, SlotOfIsSlot DEF TypeOK
    <3>4. Contents' = Contents
      BY <3>1, <3>2, <3>3 DEF Contents
    <3>5. QED
      BY <3>1, <3>4 DEF Fifo!vars
  <2>3. CASE commit
    <3>1. array' = [array EXCEPT ![position] = array[position]]
      BY <2>3 DEF commit, TypeOK
    <3>2. array[position] \in Value
      BY DEF TypeOK
    <3>3. Fifo!Put(array[position])
      BY <2>3, <3>1, <3>2, IncrementAppends DEF commit, Fifo!Put
    <3>4. QED
      BY <3>2, <3>3 DEF Fifo!Next
  <2>4. CASE get
    BY <2>4, GetTakesHead DEF Fifo!Next, Fifo!Get
  <2>5. CASE reset
    <3>1. Contents' = << >>
      BY <2>5 DEF reset, Contents
    <3>2. QED
      BY <2>5, <3>1 DEF reset, Fifo!Next, Fifo!Reset
  <2>6. CASE UNCHANGED vars
    BY <2>6 DEF vars, Contents, SlotOf, getPositionGet, Fifo!vars
  <2>7. QED
    BY <2>1, <2>2, <2>3, <2>4, <2>5, <2>6 DEF Next, Fifo!Next
<1>3. QED
  BY <1>1, <1>2, TypeCorrect, PTL DEF Spec, ImplementsFifo, Fifo!Spec

================================================================================
