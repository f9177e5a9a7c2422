------------------------------ MODULE Subscriptions ----------------------------
(***************************************************************************)
(* What events promise: each event has its own list of subscribers, called *)
(* in the order in which they subscribed.  The events share a pool, and    *)
(* while it has no room a subscription is silently dropped.  Clearing an   *)
(* event gives its room back to the pool; unsubscribing does not.          *)
(***************************************************************************)
EXTENDS Naturals, Sequences

CONSTANTS
    Event,
    Callback,
    Capacity

VARIABLES
    subscribers,    \* the subscribers of each event, first to be called first
    room            \* how many subscriptions the pool has room for

vars == <<subscribers, room>>

Init ==
    /\ subscribers = [e \in Event |-> << >>]
    /\ room = Capacity

Subscribe(e, c) ==
    /\ room > 0
    /\ subscribers' = [subscribers EXCEPT ![e] = Append(@, c)]
    /\ room' = room - 1

\* The first of c's subscriptions to e is withdrawn.
Unsubscribe(e, c) ==
    /\ \E k \in 1 .. Len(subscribers[e]) :
         /\ subscribers[e][k] = c
         /\ \A j \in 1 .. k - 1 : subscribers[e][j] # c
         /\ subscribers' = [subscribers EXCEPT ![e] =
                              SubSeq(@, 1, k - 1) \o SubSeq(@, k + 1, Len(@))]
    /\ UNCHANGED room

Clear(e) ==
    /\ subscribers' = [subscribers EXCEPT ![e] = << >>]
    /\ room' = room + Len(subscribers[e])

Next ==
    \E e \in Event :
        \/ \E c \in Callback : Subscribe(e, c) \/ Unsubscribe(e, c)
        \/ Clear(e)

Spec == Init /\ [][Next]_vars

================================================================================
