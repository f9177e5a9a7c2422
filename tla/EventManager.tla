------------------------------- MODULE EventManager ----------------------------
(***************************************************************************)
(* HandleManager, EventManager and Event<T> of EventManager.h/.cpp: every  *)
(* event is a list of callbacks, all lists are chained through one pool of *)
(* handles, and an event object keeps the handle of its first callback.    *)
(*                                                                         *)
(* Invoking an event walks its chain, and reads where to go next after the *)
(* callback returned.  A callback may subscribe and unsubscribe anything,  *)
(* itself and the callback after it included, clear another event, and     *)
(* invoke events, so that several walks are under way at a time.           *)
(*                                                                         *)
(* Two calls are the client's to avoid: unsubscribing from an event that   *)
(* has no subscriber makes the code read in front of the pool, and         *)
(* clearing an event from one of its own callbacks frees the handle which  *)
(* the walk stands on.                                                     *)
(***************************************************************************)
EXTENDS Naturals, Sequences, FiniteSets

CONSTANTS
    Event,          \* the event objects
    Callback,       \* the functions that subscribe
    NULL,           \* the data of a free handle
    Capacity,       \* HANDLEMANAGER_CAPACITY
    MaxDepth        \* bound: walks under way at a time

ASSUME PoolAssumption ==
    /\ Capacity \in Nat \ {0}
    /\ NULL \notin Callback

VARIABLES
    data,           \* what each handle of the pool holds
    next,           \* its successor in the chain it belongs to
    handle,         \* of each event, the handle of its first callback
    walks           \* the invocations under way, the innermost last

vars == <<data, next, handle, walks>>

nullHandle == 0
Handle == 1 .. Capacity

(***************************************************************************)
(* An invocation of `event` whose callback at handle h is running.  The    *)
(* other fields are history: the handles it has called, those that were    *)
(* the event's at some time since it began, and those that have been the   *)
(* event's since it began but were not called yet.                         *)
(***************************************************************************)
Walk == [event : Event, h : Handle, called : SUBSET Handle,
         seen : SUBSET Handle, pending : SUBSET Handle]

Init ==
    /\ data = [i \in Handle |-> NULL]
    /\ next = [i \in Handle |-> nullHandle]
    /\ handle = [e \in Event |-> nullHandle]
    /\ walks = << >>

\* The handles met from h on, one after the other, and nullHandle behind them.
Links(h) ==
    LET at[k \in 1 .. Capacity + 1] ==
            IF k = 1 THEN h
            ELSE IF at[k - 1] = nullHandle THEN nullHandle ELSE next[at[k - 1]]
    IN  at

\* The chain that begins at h.  A cyclic one is cut off.
ChainFrom(h) ==
    [k \in 1 .. Cardinality({j \in 1 .. Capacity + 1 : Links(h)[j] # nullHandle}) |->
        Links(h)[k]]

Chain(e) == ChainFrom(handle[e])

HandlesOf(chain) == {chain[k] : k \in 1 .. Len(chain)}

available == Cardinality({i \in Handle : data[i] = NULL})

\* Mutant: one handle too many.
M_alloc_PastEnd ==
    IF available = 0
    THEN Capacity + 1
    ELSE CHOOSE i \in Handle : data[i] = NULL /\ \A j \in 1 .. i - 1 : data[j] # NULL

\* The first free handle, nullHandle when there is none.
alloc ==
    IF available = 0
    THEN nullHandle
    ELSE CHOOSE i \in Handle : data[i] = NULL /\ \A j \in 1 .. i - 1 : data[j] # NULL

(***************************************************************************)
(* event += c.  With the pool exhausted nothing changes, and the caller is *)
(* not told.                                                               *)
(***************************************************************************)
add(e, c) ==
    LET chain == Chain(e)
        new == alloc
    IN  /\ data' = [i \in Handle |-> IF i = new THEN c ELSE data[i]]
        /\ next' = [i \in Handle |->
                      IF i = new THEN nullHandle
                      ELSE IF chain # << >> /\ i = chain[Len(chain)] THEN new
                      ELSE next[i]]
        /\ handle' = [handle EXCEPT ![e] = IF @ = nullHandle THEN new ELSE @]
        /\ walks' = [k \in DOMAIN walks |->
                       IF walks[k].event = e
                       THEN [walks[k] EXCEPT !.seen = @ \union ({new} \ {nullHandle})]
                       ELSE walks[k]]

\* The place in the chain of the first handle that holds c.
FirstMatch(chain, c) ==
    CHOOSE k \in 1 .. Len(chain) :
        data[chain[k]] = c /\ \A j \in 1 .. k - 1 : data[chain[j]] # c

\* What a walk of e remembers after handle i left the chain.
Forget(e, i) ==
    walks' = [k \in DOMAIN walks |->
                IF walks[k].event = e
                THEN [walks[k] EXCEPT !.pending = @ \ {i}]
                ELSE walks[k]]

\* Mutant: the handle is freed when it leaves the chain.
M_remove_Frees(e, c) ==
    LET chain == Chain(e)
        k == FirstMatch(chain, c)
    IN  /\ handle[e] # nullHandle
        /\ \E i \in HandlesOf(chain) : data[i] = c
        /\ IF k = 1
           THEN /\ handle' = [handle EXCEPT ![e] = next[chain[k]]]
                /\ next' = [next EXCEPT ![chain[k]] = nullHandle]
           ELSE /\ next' = [next EXCEPT ![chain[k - 1]] = next[chain[k]],
                                        ![chain[k]] = nullHandle]
                /\ UNCHANGED handle
        /\ data' = [data EXCEPT ![chain[k]] = NULL]
        /\ Forget(e, chain[k])

\* Mutant: the predecessor is linked to the successor of the first node.
M_remove_StartNodesNext(e, c) ==
    LET chain == Chain(e)
        k == FirstMatch(chain, c)
    IN  /\ handle[e] # nullHandle
        /\ \E i \in HandlesOf(chain) : data[i] = c
        /\ IF k = 1
           THEN /\ handle' = [handle EXCEPT ![e] = next[chain[k]]]
                /\ UNCHANGED next
           ELSE /\ next' = [next EXCEPT ![chain[k - 1]] = next[chain[1]]]
                /\ UNCHANGED handle
        /\ UNCHANGED data
        /\ Forget(e, chain[k])

(***************************************************************************)
(* event -= c.  The handle leaves the chain but keeps its data: it is not  *)
(* free, and a walk that stands on it still finds its successor.  Where c  *)
(* is not in the chain, nothing changes.                                   *)
(***************************************************************************)
remove(e, c) ==
    LET chain == Chain(e)
        k == FirstMatch(chain, c)
    IN  /\ handle[e] # nullHandle
        /\ \E i \in HandlesOf(chain) : data[i] = c
        /\ IF k = 1
           THEN /\ handle' = [handle EXCEPT ![e] = next[chain[k]]]
                /\ UNCHANGED next
           ELSE /\ next' = [next EXCEPT ![chain[k - 1]] = next[chain[k]]]
                /\ UNCHANGED handle
        /\ UNCHANGED data
        /\ Forget(e, chain[k])

\* Mutant: the event keeps the handle of the chain it gave up.
M_clear_KeepsHandle(e) ==
    /\ \A k \in DOMAIN walks : walks[k].event # e
    /\ data' = [i \in Handle |-> IF i \in HandlesOf(Chain(e)) THEN NULL ELSE data[i]]
    /\ next' = [i \in Handle |->
                  IF i \in HandlesOf(Chain(e)) THEN nullHandle ELSE next[i]]
    /\ UNCHANGED <<handle, walks>>

\* Mutant: only the first handle of the chain is freed.
M_clear_HeadOnly(e) ==
    /\ \A k \in DOMAIN walks : walks[k].event # e
    /\ data' = [i \in Handle |-> IF i = handle[e] THEN NULL ELSE data[i]]
    /\ next' = [i \in Handle |-> IF i = handle[e] THEN nullHandle ELSE next[i]]
    /\ handle' = [handle EXCEPT ![e] = nullHandle]
    /\ UNCHANGED walks

clear(e) ==
    /\ \A k \in DOMAIN walks : walks[k].event # e
    /\ data' = [i \in Handle |-> IF i \in HandlesOf(Chain(e)) THEN NULL ELSE data[i]]
    /\ next' = [i \in Handle |->
                  IF i \in HandlesOf(Chain(e)) THEN nullHandle ELSE next[i]]
    /\ handle' = [handle EXCEPT ![e] = nullHandle]
    /\ UNCHANGED walks

\* The first callback of e is called.
invoke(e) ==
    /\ Len(walks) < MaxDepth
    /\ handle[e] # nullHandle
    /\ walks' = Append(walks,
                  [event |-> e, h |-> handle[e], called |-> {handle[e]},
                   seen |-> HandlesOf(Chain(e)),
                   pending |-> HandlesOf(Chain(e)) \ {handle[e]}])
    /\ UNCHANGED <<data, next, handle>>

\* The callback of the innermost walk returns, and the walk goes on or ends.
invokeNext ==
    LET last == Len(walks)
        h == next[walks[last].h]
    IN  /\ walks # << >>
        /\ walks' = IF h = nullHandle
                    THEN SubSeq(walks, 1, last - 1)
                    ELSE [walks EXCEPT ![last].h = h,
                                       ![last].called = @ \union {h},
                                       ![last].pending = @ \ {h}]
        /\ UNCHANGED <<data, next, handle>>

Next ==
    \/ \E e \in Event :
         \/ \E c \in Callback : add(e, c) \/ remove(e, c)
         \/ clear(e)
         \/ invoke(e)
    \/ invokeNext

Spec == Init /\ [][Next]_vars

--------------------------------------------------------------------------------

TypeOK ==
    /\ data \in [Handle -> Callback \union {NULL}]
    /\ next \in [Handle -> Handle \union {nullHandle}]
    /\ handle \in [Event -> Handle \union {nullHandle}]
    /\ walks \in Seq(Walk)

(***************************************************************************)
(* "A set of linked lists coexisting in one pool": no handle belongs to    *)
(* two events, and no chain runs through a handle that is free.            *)
(***************************************************************************)
ChainsApart ==
    \A e \in Event :
        /\ \A i \in HandlesOf(Chain(e)) : data[i] # NULL
        /\ \A f \in Event \ {e} :
             HandlesOf(Chain(e)) \intersect HandlesOf(Chain(f)) = {}

Ahead(w) == HandlesOf(ChainFrom(next[w.h]))

(***************************************************************************)
(* Whoever was subscribed when an invocation began and still is will be    *)
(* called: it lies ahead of the walk, whatever the callbacks before it did *)
(* to themselves and to their neighbours.                                  *)
(***************************************************************************)
PendingLiesAhead ==
    \A k \in DOMAIN walks : walks[k].pending \subseteq Ahead(walks[k])

(***************************************************************************)
(* An invocation calls no subscription twice, and none that was not its    *)
(* event's at some time since it began.                                    *)
(***************************************************************************)
WalkKeepsToItsEvent ==
    \A k \in DOMAIN walks :
        Ahead(walks[k]) \subseteq walks[k].seen \ walks[k].called

(***************************************************************************)
(* The pool of chained handles implements separate lists of subscribers.   *)
(***************************************************************************)
S == INSTANCE Subscriptions WITH
        subscribers <- [e \in Event |->
                          [k \in 1 .. Len(Chain(e)) |-> data[Chain(e)[k]]]],
        room <- available

ImplementsSubscriptions == S!Spec

================================================================================
