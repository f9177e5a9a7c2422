------------------------------ MODULE ServiceProofs ----------------------------
(***************************************************************************)
(* Proofs about Service, for any services, dependencies, time limit and    *)
(* bounds on calls and clock.                                              *)
(***************************************************************************)
EXTENDS Service, SequenceTheorems, TLAPS

\* What a called service does to the stack, and one that returns.
LEMMA StackType ==
    ASSUME TypeOK, NEW s \in Svc
    PROVE  /\ Called(s) \in Seq(Svc)
           /\ MayRun(s) => Returned \in Seq(Svc)
<1>1. Called(s) \in Seq(Svc)
  BY DEF Called, TypeOK
<1>2. ASSUME MayRun(s) PROVE Returned \in Seq(Svc)
  <2>1. CASE ~stacked
    BY <2>1 DEF Returned, TypeOK
  <2>2. CASE stacked
    <3>1. stack \in Seq(Svc) /\ Len(stack) \in Nat /\ Len(stack) >= 1
      BY <1>2, <2>2, EmptySeq DEF MayRun, TypeOK
    <3>2. \A i \in 1 .. Len(stack) - 1 : stack[i] \in Svc
      BY <3>1, ElementOfSeq
    <3>3. SubSeq(stack, 1, Len(stack) - 1) \in Seq(Svc)
      BY <3>1, <3>2, SubSeqProperties
    <3> QED
      BY <2>2, <3>3 DEF Returned
  <2> QED
    BY <2>1, <2>2
<1> QED
  BY <1>1, <1>2

\* The poll of a dependency has three outcomes.
LEMMA PollOutcomes ==
    ASSUME TypeOK, NEW s \in Svc, dependsOn[s] # NoService,
           NEW until, pollDependency(s, until)
    PROVE  \/ /\ setQuietly(s, "Waiting", statusMessage[s])
              /\ pc' = [pc EXCEPT ![s] = "awaiting"]
              /\ timeout_absolute' = [timeout_absolute EXCEPT ![s] = until]
           \/ giveUp(s, "Dependency failure")
           \/ beginStart(s) /\ dependsOn[s] # s /\ state[dependsOn[s]] = "Started"
<1>1. dependsOn[s] \in Svc
  BY ServiceAssumption DEF TypeOK
<1> QED
  BY <1>1 DEF pollDependency, Undecided, TypeOK, State, UserState

\* Only s itself moves.
LEMMA PollMoves ==
    ASSUME TypeOK, NEW s \in Svc, dependsOn[s] # NoService,
           NEW until, pollDependency(s, until)
    PROVE  \A t \in Svc \ {s} : pc'[t] = pc[t] /\ state'[t] = state[t]
<1>1. CASE giveUp(s, "Dependency failure")
  BY <1>1 DEF giveUp, setQuietly, set, TypeOK
<1>2. CASE beginStart(s)
  BY <1>2 DEF beginStart, setState, set, TypeOK
<1>3. CASE /\ setQuietly(s, "Waiting", statusMessage[s])
           /\ pc' = [pc EXCEPT ![s] = "awaiting"]
  BY <1>3 DEF setQuietly, set, TypeOK
<1> QED
  BY <1>1, <1>2, <1>3, PollOutcomes

(***************************************************************************)
(* What a step of a service leaves well typed whatever it does: the parts  *)
(* of TypeOK that setState, setQuietly and their callers write.            *)
(***************************************************************************)
StatusOK ==
    /\ state \in [Svc -> State \ UserState]
    /\ statusMessage \in [Svc -> Message]
    /\ unannounced \subseteq Svc
    /\ pc \in [Svc -> {"idle", "awaiting", "starting"}]
    /\ timeout_absolute \in [Svc -> 0 .. LastTick]

\* Setting a state, announced or not, keeps the types; so do the steps of a call below.
LEMMA SetType ==
    ASSUME TypeOK, NEW s \in Svc, NEW st \in State \ UserState, NEW m \in Message,
           setState(s, st, m) \/ setQuietly(s, st, m)
    PROVE  /\ state' \in [Svc -> State \ UserState]
           /\ statusMessage' \in [Svc -> Message]
           /\ unannounced' \subseteq Svc
BY DEF TypeOK, setState, setQuietly, set

\* Beginning a start,
LEMMA BeginStartType ==
    ASSUME TypeOK, NEW s \in Svc, beginStart(s)
    PROVE  StatusOK'
<1>1. "Starting" \in State \ UserState /\ "NULL" \in Message
  BY DEF State, UserState, Message
<1> QED
  BY <1>1, SetType, ServiceAssumption DEF beginStart, StatusOK, TypeOK

\* giving up,
LEMMA GiveUpType ==
    ASSUME TypeOK, NEW s \in Svc, NEW m \in Message, giveUp(s, m)
    PROVE  StatusOK'
<1>1. "Waiting" \in State \ UserState
  BY DEF State, UserState
<1> QED
  BY <1>1, SetType, ServiceAssumption DEF giveUp, StatusOK, TypeOK

\* and a turn of the waiting loop.
LEMMA PollType ==
    ASSUME TypeOK, NEW s \in Svc, dependsOn[s] # NoService,
           NEW until \in 0 .. LastTick, pollDependency(s, until)
    PROVE  StatusOK'
<1>1. "Waiting" \in State \ UserState /\ "Dependency failure" \in Message
      /\ statusMessage[s] \in Message
  BY DEF State, UserState, Message, TypeOK
<1>2. CASE giveUp(s, "Dependency failure")
  BY <1>1, <1>2, GiveUpType
<1>3. CASE beginStart(s)
  BY <1>3, BeginStartType
<1>4. CASE /\ setQuietly(s, "Waiting", statusMessage[s])
           /\ pc' = [pc EXCEPT ![s] = "awaiting"]
           /\ timeout_absolute' = [timeout_absolute EXCEPT ![s] = until]
  BY <1>1, <1>4, SetType DEF StatusOK, TypeOK
<1> QED
  BY <1>2, <1>3, <1>4, PollOutcomes

(***************************************************************************)
(* Type correctness, with what it needs: a service that waits depends on   *)
(* one.                                                                    *)
(***************************************************************************)
AwaitingHasDependency ==
    \A s \in Svc : pc[s] = "awaiting" => dependsOn[s] # NoService

\* The types are inductive together with that.
TypeInv == TypeOK /\ AwaitingHasDependency

\* Every step keeps it.
LEMMA TypeInvStep == TypeInv /\ [Next]_vars => TypeInv'
<1> SUFFICES ASSUME TypeInv, [Next]_vars
             PROVE  TypeInv'
  OBVIOUS
<1> USE DEF TypeInv
<1>1. ASSUME NEW s \in Svc, start(s)
      PROVE  TypeInv'
  <2>1. now + Timeout \in 0 .. LastTick
    BY <1>1, ServiceAssumption DEF start, MayCall, TypeOK
  <2>2. StatusOK'
    BY <1>1, <2>1, BeginStartType, PollType DEF start
  <2>3. calls' \in 0 .. MaxCalls
    BY <1>1, ServiceAssumption DEF start, MayCall, TypeOK
  <2>4. stack' \in Seq(Svc)
    BY <1>1, StackType DEF start, TypeOK
  <2>5. TypeOK'
    BY <1>1, <2>2, <2>3, <2>4 DEF start, StatusOK, TypeOK
  <2>6. \A t \in Svc \ {s} : pc'[t] = pc[t]
    <3>1. CASE dependsOn[s] = NoService
      BY <1>1, <3>1 DEF start, beginStart, TypeOK
    <3>2. CASE dependsOn[s] # NoService
      BY <1>1, <3>2, PollMoves DEF start
    <3> QED
      BY <3>1, <3>2
  <2>7. dependsOn[s] = NoService => pc'[s] = "starting"
    BY <1>1 DEF start, beginStart, TypeOK
  <2>8. AwaitingHasDependency'
    BY <1>1, <2>6, <2>7 DEF AwaitingHasDependency, start
  <2> QED
    BY <2>5, <2>8
<1>2. ASSUME NEW s \in Svc, restart(s)
      PROVE  TypeInv'
  <2>1. StatusOK'
    BY <1>2, BeginStartType DEF restart
  <2>2. calls' \in 0 .. MaxCalls
    BY <1>2, ServiceAssumption DEF restart, MayCall, TypeOK
  <2>3. stack' \in Seq(Svc)
    BY <1>2, StackType DEF restart
  <2>4. TypeOK'
    BY <1>2, <2>1, <2>2, <2>3 DEF restart, StatusOK, TypeOK
  <2>5. AwaitingHasDependency'
    BY <1>2 DEF AwaitingHasDependency, restart, beginStart, TypeOK
  <2> QED
    BY <2>4, <2>5
<1>3. ASSUME NEW s \in Svc, await(s)
      PROVE  TypeInv'
  <2>1. dependsOn[s] # NoService /\ timeout_absolute[s] \in 0 .. LastTick
    BY <1>3 DEF await, AwaitingHasDependency, TypeOK
  <2>2. "Timeout on dependency" \in Message
    BY DEF Message
  <2>3. StatusOK'
    BY <1>3, <2>1, <2>2, GiveUpType, PollType DEF await
  <2>4. stack' \in Seq(Svc)
    BY <1>3, StackType DEF await, TypeOK
  <2>5. TypeOK'
    BY <1>3, <2>3, <2>4 DEF await, StatusOK, TypeOK
  <2>6. \A t \in Svc \ {s} : pc'[t] = pc[t]
    <3>1. CASE now > timeout_absolute[s]
      BY <1>3, <3>1 DEF await, giveUp, TypeOK
    <3>2. CASE ~(now > timeout_absolute[s])
      BY <1>3, <2>1, <3>2, PollMoves DEF await
    <3> QED
      BY <3>1, <3>2
  <2>7. AwaitingHasDependency'
    BY <1>3, <2>1, <2>6 DEF AwaitingHasDependency, await
  <2> QED
    BY <2>5, <2>7
<1>4. ASSUME NEW s \in Svc, startFuncReports(s)
      PROVE  TypeInv'
  <2>1. state[s] \in State \ UserState /\ "custom" \in Message
    BY DEF TypeOK, Message
  <2>2. /\ state' \in [Svc -> State \ UserState]
        /\ statusMessage' \in [Svc -> Message]
        /\ unannounced' \subseteq Svc
    BY <1>4, <2>1, SetType DEF startFuncReports
  <2> QED
    BY <1>4, <2>2 DEF startFuncReports, TypeOK, AwaitingHasDependency
<1>5. ASSUME NEW s \in Svc, startFuncReturns(s)
      PROVE  TypeInv'
  <2>1. /\ "Started" \in State \ UserState /\ "Error" \in State \ UserState /\ "NULL" \in Message
        /\ statusMessage[s] \in Message
    BY DEF TypeOK, State, UserState, Message
  <2>2. /\ state' \in [Svc -> State \ UserState]
        /\ statusMessage' \in [Svc -> Message]
        /\ unannounced' \subseteq Svc
    BY <1>5, <2>1, SetType DEF startFuncReturns, startFuncSucceeds, startFuncFails
  <2>3. stack' \in Seq(Svc) /\ pc' = [pc EXCEPT ![s] = "idle"]
    BY <1>5, StackType DEF startFuncReturns, startFuncSucceeds, startFuncFails
  <2>4. everStarted' \subseteq Svc
    BY <1>5 DEF startFuncReturns, startFuncSucceeds, startFuncFails, TypeOK
  <2>5. TypeOK'
    BY <1>5, <2>2, <2>3, <2>4
       DEF startFuncReturns, startFuncSucceeds, startFuncFails, TypeOK
  <2>6. AwaitingHasDependency'
    BY <1>5, <2>3 DEF startFuncReturns, startFuncSucceeds, startFuncFails, TypeOK,
                      AwaitingHasDependency
  <2> QED
    BY <2>5, <2>6
<1>6. CASE Tick
  BY <1>6, ServiceAssumption DEF Tick, TypeOK, AwaitingHasDependency
<1>7. CASE UNCHANGED vars
  BY <1>7 DEF vars, TypeOK, AwaitingHasDependency
<1> QED
  BY <1>1, <1>2, <1>3, <1>4, <1>5, <1>6, <1>7 DEF Next

\* It holds at first: nothing runs, and every state is Unstarted.
LEMMA TypeInvInit == Init => TypeInv
<1> SUFFICES ASSUME Init
             PROVE  TypeInv
  OBVIOUS
<1>1. << >> \in Seq(Svc)
  BY EmptySeq
<1>2. state \in [Svc -> State \ UserState] /\ statusMessage \in [Svc -> Message]
  BY DEF Init, State, UserState, Message
<1>3. pc \in [Svc -> {"idle", "awaiting", "starting"}]
  BY DEF Init
<1>4. 0 \in 0 .. LastTick /\ 0 \in 0 .. MaxCalls
  BY ServiceAssumption
<1>5. /\ timeout_absolute \in [Svc -> 0 .. LastTick]
      /\ now \in 0 .. LastTick /\ calls \in 0 .. MaxCalls
  BY <1>4 DEF Init
<1>6. AwaitingHasDependency
  BY DEF Init, AwaitingHasDependency
<1> QED
  BY <1>1, <1>2, <1>3, <1>5, <1>6, Zenon DEF Init, TypeInv, TypeOK

\* Every state the services reach is well typed.
THEOREM TypeCorrect == Spec => []TypeOK
<1>1. TypeInv => TypeOK
  BY DEF TypeInv
<1> QED
  BY <1>1, TypeInvInit, TypeInvStep, PTL DEF Spec

--------------------------------------------------------------------------------

(***************************************************************************)
(* DependencyFirst is inductive together with two facts: a service in the  *)
(* state Started has started, and the start function of a service that was *)
(* never restarted is called only once its dependency has.                 *)
(***************************************************************************)
StartedHasStarted ==
    \A s \in Svc : state[s] = "Started" => s \in everStarted

\* A start function that runs on behalf of start() was entered after its dependency had started.
StartingIsEntitled ==
    \A s \in Svc \ restarted :
        pc[s] = "starting" => dependsOn[s] \in everStarted \union {NoService}

\* The inductive invariant for DependencyFirst.
DependencyInv ==
    TypeInv /\ StartedHasStarted /\ StartingIsEntitled /\ DependencyFirst

\* Every step keeps it: the waiting loop lets pass only Started, and Error fails.
LEMMA DependencyInvStep == DependencyInv /\ [Next]_vars => DependencyInv'
<1> SUFFICES ASSUME DependencyInv, [Next]_vars
             PROVE  DependencyInv'
  OBVIOUS
<1> USE DEF DependencyInv
<1>0. TypeInv' /\ TypeOK
  BY TypeInvStep DEF TypeInv
\* A service that begins, or waits on, or gives up.
<1>1. ASSUME NEW s \in Svc,
             UNCHANGED <<everStarted, restarted, dependsOn>>,
             state'[s] # "Started",
             \A t \in Svc \ {s} : pc'[t] = pc[t] /\ state'[t] = state[t],
             pc'[s] = "starting" =>
                 dependsOn[s] \in everStarted \union {NoService}
      PROVE  DependencyInv'
  BY <1>0, <1>1 DEF StartedHasStarted, StartingIsEntitled, DependencyFirst
<1>2. ASSUME NEW s \in Svc, NEW until, dependsOn[s] # NoService,
             pollDependency(s, until)
      PROVE  /\ state'[s] # "Started"
             /\ pc'[s] = "starting" =>
                    dependsOn[s] \in everStarted \union {NoService}
  <2>1. CASE giveUp(s, "Dependency failure")
    BY <1>0, <2>1 DEF giveUp, setQuietly, set, TypeOK
  <2>2. CASE beginStart(s) /\ state[dependsOn[s]] = "Started"
    <3>1. dependsOn[s] \in Svc
      BY <1>0, <1>2, ServiceAssumption DEF TypeOK
    <3> QED
      BY <1>0, <2>2, <3>1 DEF beginStart, setState, set, TypeOK, StartedHasStarted
  <2>3. CASE /\ setQuietly(s, "Waiting", statusMessage[s])
             /\ pc' = [pc EXCEPT ![s] = "awaiting"]
    BY <1>0, <2>3 DEF setQuietly, set, TypeOK
  <2> QED
    BY <1>0, <1>2, <2>1, <2>2, <2>3, PollOutcomes
<1>3. ASSUME NEW s \in Svc, start(s)
      PROVE  DependencyInv'
  <2>1. CASE dependsOn[s] = NoService
    <3>1. beginStart(s)
      BY <1>3, <2>1 DEF start
    <3>2. state'[s] # "Started"
          /\ \A t \in Svc \ {s} : pc'[t] = pc[t] /\ state'[t] = state[t]
      BY <1>0, <3>1 DEF beginStart, setState, set, TypeOK
    <3> QED
      BY <1>1, <1>3, <2>1, <3>2 DEF start
  <2>2. CASE dependsOn[s] # NoService
    <3>1. pollDependency(s, now + Timeout)
      BY <1>3, <2>2 DEF start
    <3> QED
      BY <1>0, <1>1, <1>2, <1>3, <2>2, <3>1, PollMoves DEF start
  <2> QED
    BY <2>1, <2>2
<1>4. ASSUME NEW s \in Svc, await(s)
      PROVE  DependencyInv'
  <2>1. dependsOn[s] # NoService
    BY <1>0, <1>4 DEF await, TypeInv, AwaitingHasDependency
  <2>2. CASE now > timeout_absolute[s]
    <3>1. giveUp(s, "Timeout on dependency")
      BY <1>4, <2>2 DEF await
    <3>2. /\ state'[s] = "Waiting" /\ pc'[s] = "idle"
          /\ \A t \in Svc \ {s} : pc'[t] = pc[t] /\ state'[t] = state[t]
      BY <1>0, <3>1 DEF giveUp, setQuietly, set, TypeOK
    <3> QED
      BY <1>1, <1>4, <3>2 DEF await
  <2>3. CASE ~(now > timeout_absolute[s])
    <3>1. pollDependency(s, timeout_absolute[s])
      BY <1>4, <2>3 DEF await
    <3> QED
      BY <1>0, <1>1, <1>2, <1>4, <2>1, <3>1, PollMoves DEF await
  <2> QED
    BY <2>2, <2>3
<1>5. ASSUME NEW s \in Svc, restart(s)
      PROVE  DependencyInv'
  BY <1>0, <1>5 DEF restart, beginStart, setState, set, TypeOK,
                    StartedHasStarted, StartingIsEntitled, DependencyFirst
<1>6. ASSUME NEW s \in Svc, startFuncReports(s)
      PROVE  DependencyInv'
  BY <1>0, <1>6 DEF startFuncReports, setState, set, TypeOK,
                    StartedHasStarted, StartingIsEntitled, DependencyFirst
<1>7. ASSUME NEW s \in Svc, startFuncSucceeds(s)
      PROVE  DependencyInv'
  BY <1>0, <1>7 DEF startFuncSucceeds, setState, set, TypeOK,
                    StartedHasStarted, StartingIsEntitled, DependencyFirst
<1>8. ASSUME NEW s \in Svc, startFuncFails(s)
      PROVE  DependencyInv'
  BY <1>0, <1>8 DEF startFuncFails, setState, set, TypeOK,
                    StartedHasStarted, StartingIsEntitled, DependencyFirst
<1>9. CASE Tick
  BY <1>0, <1>9 DEF Tick, StartedHasStarted, StartingIsEntitled, DependencyFirst
<1>10. CASE UNCHANGED vars
  BY <1>0, <1>10 DEF vars, StartedHasStarted, StartingIsEntitled, DependencyFirst
<1> QED
  BY <1>3, <1>4, <1>5, <1>6, <1>7, <1>8, <1>9, <1>10 DEF Next, startFuncReturns

(***************************************************************************)
(* For any services and dependencies: a service that was never restarted   *)
(* by hand starts only after the one it depends on.                        *)
(***************************************************************************)
THEOREM DependenciesComeFirst == Spec => []DependencyFirst
<1>1. Init => DependencyInv
  <2> SUFFICES ASSUME Init
               PROVE  DependencyInv
    OBVIOUS
  <2> QED
    BY TypeInvInit DEF Init, DependencyInv, StartedHasStarted,
                       StartingIsEntitled, DependencyFirst
<1>2. DependencyInv => DependencyFirst
  BY DEF DependencyInv
<1> QED
  BY <1>1, <1>2, DependencyInvStep, PTL DEF Spec

--------------------------------------------------------------------------------

(***************************************************************************)
(* OutcomeIsAnnounced needs to know where the states Starting, Started and *)
(* Error are left again: only by a start function that returns, which      *)
(* announces it, or by a wait, which leaves the service Waiting.           *)
(***************************************************************************)
THEOREM OutcomesAreAnnounced == Spec => []OutcomeIsAnnounced
<1> DEFINE Told == TypeInv /\ OutcomeIsAnnounced
<1>1. Init => Told
  BY TypeInvInit DEF Init, OutcomeIsAnnounced
<1>2. Told /\ [Next]_vars => Told'
  <2> SUFFICES ASSUME Told, [Next]_vars
               PROVE  OutcomeIsAnnounced'
    BY TypeInvStep
  <2>0. TypeOK
    BY DEF TypeInv
  <2>1. ASSUME NEW s \in Svc, NEW st, NEW m, setState(s, st, m)
        PROVE  OutcomeIsAnnounced'
    BY <2>0, <2>1 DEF setState, set, OutcomeIsAnnounced, TypeOK
  <2>2. ASSUME NEW s \in Svc, NEW m, setQuietly(s, "Waiting", m)
        PROVE  OutcomeIsAnnounced'
    BY <2>0, <2>2 DEF setQuietly, set, OutcomeIsAnnounced, TypeOK
  <2>3. ASSUME NEW s \in Svc, NEW until, dependsOn[s] # NoService,
               pollDependency(s, until)
        PROVE  OutcomeIsAnnounced'
    BY <2>0, <2>1, <2>2, <2>3, PollOutcomes DEF giveUp, beginStart
  <2>4. ASSUME NEW s \in Svc, start(s)
        PROVE  OutcomeIsAnnounced'
    BY <2>1, <2>3, <2>4 DEF start, beginStart
  <2>5. ASSUME NEW s \in Svc, await(s)
        PROVE  OutcomeIsAnnounced'
    <3>1. dependsOn[s] # NoService
      BY <2>5 DEF await, TypeInv, AwaitingHasDependency
    <3> QED
      BY <2>2, <2>3, <2>5, <3>1 DEF await, giveUp
  <2>6. ASSUME NEW s \in Svc,
               restart(s) \/ startFuncReports(s) \/ startFuncReturns(s)
        PROVE  OutcomeIsAnnounced'
    BY <2>1, <2>6 DEF restart, beginStart, startFuncReports, startFuncReturns,
                      startFuncSucceeds, startFuncFails
  <2>7. CASE Tick
    BY <2>7 DEF Tick, OutcomeIsAnnounced
  <2>8. CASE UNCHANGED vars
    BY <2>8 DEF vars, OutcomeIsAnnounced
  <2> QED
    BY <2>4, <2>5, <2>6, <2>7, <2>8 DEF Next
<1>3. Told => OutcomeIsAnnounced
  OBVIOUS
<1> QED
  BY <1>1, <1>2, <1>3, PTL DEF Spec

================================================================================
