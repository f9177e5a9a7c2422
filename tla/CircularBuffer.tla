----------------------------- MODULE CircularBuffer ----------------------------
(***************************************************************************)
(* CircularBuffer<TArray, T> of fact/CircularBuffer.h.  The buffer keeps   *)
(* only the index of the next put and the number of unread elements; the   *)
(* index of the next get is computed from these two on every access.       *)
(*                                                                         *)
(* An element enters either through put(), or in place: the client takes   *)
(* the slot from peekLast(), fills it and then calls incrementPosition(),  *)
(* and the reader may run between these steps.  get() returns a reference  *)
(* into the storage, which the client keeps while elements go on arriving  *)
(* (rpc::CallQueue::get() hands such a reference out as the call to make). *)
(***************************************************************************)
EXTENDS Naturals, Sequences

CONSTANTS
    Size,           \* array.getSize()
    Value,          \* the elements
    NoValue,        \* `out` before the first get
    NoSlot          \* `held` when the client holds no reference

ASSUME SizeAssumption == Size \in Nat \ {0}
ASSUME NoSlotAssumption == NoSlot \notin Nat

VARIABLES
    array,            \* the underlying storage
    position,         \* where the next put writes
    currentCapacity,  \* how many elements are unread
    filling,          \* slots between peekLast() and incrementPosition(), 0 or 1
    held,             \* the slot the last get() returned a reference to
    out               \* what that slot held when get() returned

vars == <<array, position, currentCapacity, filling, held, out>>

Slot == 0 .. Size - 1

(***************************************************************************)
(* The storage is not cleared by the constructor: it may hold anything.    *)
(***************************************************************************)
Init ==
    /\ array \in [Slot -> Value]
    /\ position = 0
    /\ currentCapacity = 0
    /\ filling = 0
    /\ held = NoSlot
    /\ out = NoValue

available == currentCapacity

\* Mutant: once the write index has wrapped, it is left out.
M_getPositionGet_NoPosition ==
    IF position >= currentCapacity
    THEN position - currentCapacity
    ELSE Size - currentCapacity

getPositionGet ==
    IF position >= currentCapacity
    THEN position - currentCapacity
    ELSE Size - (currentCapacity - position)

\* Mutant: the count goes on growing in a full buffer.
M_incrementPosition_NoLimit ==
    /\ currentCapacity' = currentCapacity + 1
    /\ position' = IF position + 1 >= Size THEN 0 ELSE position + 1

incrementPosition ==
    /\ currentCapacity' = IF currentCapacity < Size
                          THEN currentCapacity + 1
                          ELSE currentCapacity
    /\ position' = IF position + 1 >= Size THEN 0 ELSE position + 1

\* Mutant: the index moves on before the element is stored.
M_put_IncrementFirst(v) ==
    /\ filling = 0
    /\ incrementPosition
    /\ array' = [array EXCEPT ![position'] = v]
    /\ UNCHANGED <<filling, held, out>>

put(v) ==
    /\ filling = 0
    /\ array' = [array EXCEPT ![position] = v]
    /\ incrementPosition
    /\ UNCHANGED <<filling, held, out>>

(***************************************************************************)
(* peekLast() hands out the slot at `position` whatever it holds; a client *)
(* uses it when there is room, and writes v there.                         *)
(***************************************************************************)
peekLast(v) ==
    /\ filling = 0
    /\ available < Size
    /\ array' = [array EXCEPT ![position] = v]
    /\ filling' = 1
    /\ UNCHANGED <<position, currentCapacity, held, out>>

commit ==
    /\ filling = 1
    /\ incrementPosition
    /\ filling' = 0
    /\ UNCHANGED <<array, held, out>>

peek == array[getPositionGet]

(***************************************************************************)
(* get() decrements the count unconditionally: the caller asks available() *)
(* first.  The reference it returns is that of the slot just freed.        *)
(***************************************************************************)
get ==
    /\ available > 0
    /\ held' = getPositionGet
    /\ out' = peek
    /\ currentCapacity' = currentCapacity - 1
    /\ UNCHANGED <<array, position, filling>>

\* A client drops its reference before it resets the buffer.
reset ==
    /\ filling = 0
    /\ position' = 0
    /\ currentCapacity' = 0
    /\ held' = NoSlot
    /\ UNCHANGED <<array, filling, out>>

Next ==
    \/ \E v \in Value : put(v) \/ peekLast(v)
    \/ commit
    \/ get
    \/ reset

Spec == Init /\ [][Next]_vars

--------------------------------------------------------------------------------

\* The slot of the i-th oldest unread element, counting from 1.
SlotOf(i) ==
    IF getPositionGet + i - 1 < Size
    THEN getPositionGet + i - 1
    ELSE getPositionGet + i - 1 - Size

NextSlot(s) == IF s = Size - 1 THEN 0 ELSE s + 1

(***************************************************************************)
(* The indices and the count stay inside the array: position is a slot and *)
(* the count never exceeds the number of slots.                            *)
(***************************************************************************)
TypeOK ==
    /\ array \in [Slot -> Value]
    /\ position \in Slot
    /\ currentCapacity \in 0 .. Size
    /\ filling \in {0, 1}
    /\ held \in Slot \union {NoSlot}
    /\ out \in Value \union {NoValue}

(***************************************************************************)
(* peekLast()'s comment: "Returns empty, freshly available buffer slot for *)
(* a put": while a client fills its slot, whatever the reader does         *)
(* meanwhile, that slot holds no unread element.                           *)
(***************************************************************************)
FilledSlotIsFree ==
    filling = 1 => \A i \in 1 .. available : SlotOf(i) # position

(***************************************************************************)
(* The reference get() returned still shows the element it returned as     *)
(* long as the elements that arrived since then, the one being filled in   *)
(* included, have not used up every slot of the buffer.                    *)
(***************************************************************************)
HeldElementIntact ==
    held # NoSlot /\ available + filling < Size
        => array[held] = out

(***************************************************************************)
(* The derived read index moves only when an element leaves: it stays      *)
(* where it is when an element enters a buffer with room, and goes on to   *)
(* the following slot when the oldest element is read, or is dropped by a  *)
(* put into a full buffer.                                                 *)
(***************************************************************************)
ReadIndexStep ==
    \/ available' = available + 1 /\ getPositionGet' = getPositionGet
    \/ available' + 1 = available /\ getPositionGet' = NextSlot(getPositionGet)
    \/ /\ available = Size /\ available' = Size
       /\ position' = NextSlot(position)
       /\ getPositionGet' = NextSlot(getPositionGet)
    \/ UNCHANGED <<position, currentCapacity>>
    \/ position' = 0 /\ available' = 0

ReadIndexMovesWithReads == [][ReadIndexStep]_vars

(***************************************************************************)
(* The unread elements, oldest first, are the contents of an overwriting   *)
(* FIFO, and get() returns what that FIFO returns: nothing is reordered or *)
(* duplicated, and only the oldest element of a full buffer is ever lost.  *)
(***************************************************************************)
Contents == [i \in 1 .. currentCapacity |-> array[SlotOf(i)]]

Fifo == INSTANCE OverwritingFifo WITH queue <- Contents

ImplementsFifo == Fifo!Spec

================================================================================
