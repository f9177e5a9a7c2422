----------------------------- MODULE EventParameters ---------------------------
(***************************************************************************)
(* What the callbacks of an event are told (EventManager.h, fact/event.h). *)
(* An Event with EVENT_FEATURE_VA passes a va_list, from which a callback  *)
(* takes as many arguments as it likes; the typed events of fact/event.h   *)
(* hold their parameters on the caller's stack; a PropertyWithEvents fires *)
(* `updated` with itself, so that the callback reads the value when it is  *)
(* called and not when it was set.  Callbacks set, fire and subscribe, so  *)
(* that invocations nest.                                                  *)
(*                                                                         *)
(* EventManager shows that an event is a list of its subscribers; here it  *)
(* is one.  Unsubscribing during an invocation is left to that module.     *)
(***************************************************************************)
EXTENDS Naturals, Sequences, SequencesExt

CONSTANTS
    Callback,
    Values,         \* of the property
    Arguments,      \* the lists of arguments that events are fired with
    Unknown,        \* what a callback knows of the property before it is called
    MaxSubscribers, \* bound: subscribers of an event
    MaxNested       \* bound: invocations under way at a time

\* Assumed of the constants where this module is instantiated.
EventAssumption ==
    /\ Unknown \notin Values /\ MaxNested \in Nat
    /\ \A a \in Arguments : a \in Seq(ToSet(a))

VARIABLES
    value,          \* PropertyWithEvents::value
    subscribers,    \* the callbacks of each event, in order
    walks,          \* the invocations under way, the innermost last
    told            \* the value that each callback of `updated` read last

eventVars == <<value, subscribers, walks, told>>

\* The `updated` of a property, an Event with a va_list, and an Event1 or 2.
Events == {"updated", "variadic", "typed"}

Init ==
    /\ value \in Values
    /\ subscribers = [e \in Events |-> << >>]
    /\ walks = << >>
    /\ told = [c \in Callback |-> Unknown]

\* EventN::operator(): the parameters are passed to a callback at once.
received(event, arguments) == IF event = "typed" THEN arguments ELSE << >>

(***************************************************************************)
(* A walk that calls its at-th callback, whose va_list stands behind       *)
(* `argp` of the arguments, and what the callback has got so far.          *)
(***************************************************************************)
Walk(event, arguments, at, argp) ==
    [event |-> event, arguments |-> arguments, at |-> at, argp |-> argp,
     got |-> received(event, arguments)]

\* The callback at the end of the walks reads the property that calls it.
reads(v, ws) ==
    LET w == Last(ws)
    IN  IF ws # << >> /\ w.event = "updated"
        THEN [told EXCEPT ![subscribers["updated"][w.at]] = v]
        ELSE told

\* Invoke an event; the first callback is called at once.
Invoke(event, arguments) ==
    /\ Len(walks) < MaxNested
    /\ walks' = IF subscribers[event] = << >> THEN walks
                ELSE Append(walks, Walk(event, arguments, 1, 0))

setValue(v) ==
    /\ value' = v
    /\ Invoke("updated", << >>)
    /\ told' = IF walks' = walks THEN told ELSE reads(v, walks')
    /\ UNCHANGED subscribers

\* Event::invoke, also through an EventWrapper, and EventN::operator().
Fire(event, arguments) ==
    /\ Invoke(event, arguments)
    /\ UNCHANGED <<value, subscribers, told>>

\* A callback takes the next argument off its list.
va_arg ==
    LET w == Last(walks)
    IN  /\ walks # << >>
        /\ w.event = "variadic" /\ w.argp < Len(w.arguments)
        /\ walks' = Append(Front(walks),
                [w EXCEPT !.argp = @ + 1, !.got = Append(@, w.arguments[w.argp + 1])])
        /\ UNCHANGED <<value, subscribers, told>>

\* Mutant: the next callback gets the list that the last one took from.
M_copied_Shared(w) == w.argp

\* "we need to constantly copy argp because callbacks can move its pointer".
copied(w) == 0

\* The innermost callback returns, and the next one is called.
invokeNext ==
    LET w == Last(walks)
        outer == Front(walks)
    IN  /\ walks # << >>
        /\ IF w.at < Len(subscribers[w.event])
           THEN /\ walks' = Append(outer,
                        Walk(w.event, w.arguments, w.at + 1, copied(w)))
                /\ told' = reads(value, walks')
           ELSE walks' = outer /\ UNCHANGED told
        /\ UNCHANGED <<value, subscribers>>

\* event += c, or addUpdatedEvent
subscribe(event, c) ==
    /\ Len(subscribers[event]) < MaxSubscribers
    /\ c \notin ToSet(subscribers[event])
    /\ subscribers' = [subscribers EXCEPT ![event] = Append(@, c)]
    /\ told' = IF event = "updated" THEN [told EXCEPT ![c] = Unknown] ELSE told
    /\ UNCHANGED <<value, walks>>

\* event -= c
unsubscribe(event, c) ==
    /\ walks = << >>
    /\ \E at \in DOMAIN subscribers[event] :
          /\ subscribers[event][at] = c
          /\ subscribers' = [subscribers EXCEPT ![event] = RemoveAt(@, at)]
    /\ told' = IF event = "updated" THEN [told EXCEPT ![c] = Unknown] ELSE told
    /\ UNCHANGED <<value, walks>>

EventNext ==
    \/ \E v \in Values : setValue(v)
    \/ \E e \in {"variadic", "typed"}, a \in Arguments : Fire(e, a)
    \/ va_arg
    \/ invokeNext
    \/ \E e \in Events, c \in Callback : subscribe(e, c) \/ unsubscribe(e, c)

--------------------------------------------------------------------------------
(***************************************************************************)
(* Every callback gets the arguments of its own invocation, from the first *)
(* on, whatever the callbacks before it took off the list and whatever was *)
(* invoked meanwhile.                                                      *)
(***************************************************************************)
ArgumentsAsPassed ==
    \A k \in DOMAIN walks :
        IsPrefix(walks[k].got, walks[k].arguments)

(***************************************************************************)
(* Whoever watches a property knows its value once it is set, also when it *)
(* was set again by one of those who were being told.                      *)
(***************************************************************************)
NobodyKnowsAnOldValue ==
    (\A k \in DOMAIN walks : walks[k].event # "updated") =>
        \A c \in ToSet(subscribers["updated"]) : told[c] \in {Unknown, value}

CallbacksAreTold == ArgumentsAsPassed /\ NobodyKnowsAnOldValue

================================================================================
