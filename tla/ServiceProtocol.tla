----------------------------- MODULE ServiceProtocol ----------------------------
(***************************************************************************)
(* What every kind of service promises to whoever watches its state: a     *)
(* start is announced, and comes to an end, which is Started or Error.     *)
(***************************************************************************)
VARIABLE state

Init == state = "Unstarted"

Start == state # "Starting" /\ state' = "Starting"

Conclude == state = "Starting" /\ state' \in {"Started", "Error"}

Stop == state # "Starting" /\ state' = "Unstarted"

Next == Start \/ Conclude \/ Stop

Spec == Init /\ [][Next]_state /\ WF_state(Conclude)

================================================================================
