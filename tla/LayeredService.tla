------------------------------ MODULE LayeredService ----------------------------
(***************************************************************************)
(* The other kinds of service, which know of no dependency to wait for:    *)
(* LightweightService with its start functions, the layers of              *)
(* Service.layer1.h to Service.layer5.cpp, IService under ServiceManager,  *)
(* and the two services that come with the library, WiFi on layer 5 and    *)
(* MQTT on Service, which try several times before they give up.  One      *)
(* service of any kind.                                                    *)
(***************************************************************************)
EXTENDS Naturals

CONSTANTS
    WiFiRetries,    \* 10 in WiFiService::start
    MQTTRetries     \* 3 in MQTT_Service::setup

\* Assumed of the constants where this module is instantiated.
RetriesAssumption == WiFiRetries \in Nat /\ MQTTRetries \in Nat \ {0}

VARIABLES
    kind,       \* the kind of service, which does not change
    pc,         \* "idle", or "starting" in a start function
    state,      \* ServiceState
    told,       \* the state that observers of stateUpdated know of
    retries,    \* attempts left to the start function
    connected   \* the connection to the MQTT broker

serviceVars == <<kind, pc, state, told, retries, connected>>

Kinds == {"basic", "light", "layer1", "layer3", "layer5", "managed", "WiFi", "MQTT"}

\* The kinds that announce their state.
Observable == {"layer3", "layer5", "managed", "WiFi", "MQTT"}

Init ==
    /\ kind \in Kinds
    /\ pc = "idle"
    /\ state = "Unstarted" /\ told = "Unstarted"
    /\ retries = 0
    /\ connected = FALSE

setState(s) ==
    /\ state' = s
    /\ told' = IF kind \in Observable THEN s ELSE told

\* start(), doStart() and restart(); doRestart() calls a stop() of its own first.
Start ==
    /\ pc = "idle"
    /\ pc' = "starting"
    /\ setState("Starting")
    /\ retries' = CASE kind = "WiFi" -> WiFiRetries
                    [] kind = "MQTT" -> MQTTRetries
                    [] OTHER -> 0
    /\ UNCHANGED <<kind, connected>>

--------------------------------------------------------------------------------
(***************************************************************************)
(* How a start ends, given what the start function left: TRUE or FALSE, or *)
(* for the kinds whose start() returns nothing the state that it set.      *)
(***************************************************************************)
\* Mutant: a start() that says nothing is left at Starting.
M_Outcome_SaysNothing(left) ==
    CASE kind = "basic" -> "Started"
      [] kind \in {"light", "layer1", "layer3", "MQTT"} ->
            IF left = "Started" THEN "Started" ELSE "Error"
      [] kind \in {"layer5", "WiFi"} -> left
      [] kind = "managed" -> IF left # "Error" THEN "Started" ELSE "Error"

\* Layer 5 wants a success stated; a managed service wants a failure stated.
Outcome(left) ==
    CASE kind = "basic" -> "Started"
      [] kind \in {"light", "layer1", "layer3", "MQTT"} ->
            IF left = "Started" THEN "Started" ELSE "Error"
      [] kind \in {"layer5", "WiFi"} -> IF left = "Starting" THEN "Error" ELSE left
      [] kind = "managed" -> IF left # "Error" THEN "Started" ELSE "Error"

Conclude(left) ==
    /\ pc' = "idle"
    /\ setState(Outcome(left))

\* The start function of a program.
StartFunction(left) ==
    /\ pc = "starting" /\ kind \notin {"WiFi", "MQTT"}
    /\ Conclude(left)
    /\ UNCHANGED <<kind, retries, connected>>

\* WiFiService::start, `do { ... } while(retries--)`.
PollWiFi(status) ==
    /\ pc = "starting" /\ kind = "WiFi"
    /\ IF status = "WL_CONNECTED"
       THEN Conclude("Started") /\ UNCHANGED retries
       ELSE IF retries = 0
       THEN Conclude("Starting") /\ UNCHANGED retries
       ELSE retries' = retries - 1 /\ UNCHANGED <<pc, state, told>>
    /\ UNCHANGED <<kind, connected>>

\* MQTT_Service::setup, `do { ... } while(--retries)`.
ConnectMQTT(ok) ==
    /\ pc = "starting" /\ kind = "MQTT"
    /\ connected' = ok
    /\ retries' = IF ok THEN retries ELSE retries - 1
    /\ IF ok THEN Conclude("Started")
       ELSE IF retries = 1 THEN Conclude("Error")
       ELSE UNCHANGED <<pc, state, told>>
    /\ UNCHANGED kind

--------------------------------------------------------------------------------
\* IService::doStop; a layer 5 service's doStop leaves the state to its stop().
Stop ==
    /\ pc = "idle" /\ kind = "managed"
    /\ setState("Unstarted")
    /\ UNCHANGED <<kind, pc, retries, connected>>

\* MQTT_Service::keepAlive: a ping that fails starts the service again.  It does not
\* look at the WiFi the service depends on, of which this module knows nothing.
keepAlive ==
    /\ kind = "MQTT" /\ ~ connected
    /\ Start

\* The broker, or the way to it, is gone.
Disconnect ==
    /\ connected
    /\ connected' = FALSE
    /\ UNCHANGED <<kind, pc, state, told, retries>>

InStart ==
    \/ \E left \in {"Starting", "Started", "Error"} : StartFunction(left)
    \/ \E status \in {"WL_CONNECTED", "other"} : PollWiFi(status)
    \/ \E ok \in BOOLEAN : ConnectMQTT(ok)

ServiceNext == Start \/ InStart \/ Stop \/ keepAlive \/ Disconnect

--------------------------------------------------------------------------------
(***************************************************************************)
(* Every kind of service keeps to the protocol, in what its observers are  *)
(* told where it has observers: no start is left at Starting, and no       *)
(* number of failed attempts goes on for ever.                             *)
(***************************************************************************)
Protocol == INSTANCE ServiceProtocol WITH
                state <- IF kind \in Observable THEN told ELSE state

KeepsProtocol == Protocol!Spec

================================================================================
