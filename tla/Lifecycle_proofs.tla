-------------------------- MODULE Lifecycle_proofs --------------------------
(***************************************************************************)
(* Proofs about start and shutdown: what is left when the handle resolves, *)
(* that a server has its collector, and why a start may find the store     *)
(* locked.                                                                 *)
(***************************************************************************)
EXTENDS Lifecycle, TLAPS

\* What a call has made so far goes with how far it has come.
PartsFitPhase(i) ==
  /\ phase[i] \in {"uncalled", "locked", "opened", "invalid"} =>
       signal[i] = "none" /\ gc[i] = "none" /\ server[i] = "none" /\ joined[i] = "none"
  /\ phase[i] = "spawned" => signal[i] = "open" /\ server[i] = "none" /\ joined[i] = "none"
  /\ phase[i] = "failed" => signal[i] = "dropped" /\ server[i] = "none" /\ joined[i] = "none"
  /\ phase[i] = "up" => signal[i] # "none" /\ server[i] # "none" /\ joined[i] # "none"

\* A collector that was spawned has an interval it can tick at, and ends only
\* after the signal.
CollectorLasts(i) ==
  /\ phase[i] \in {"spawned", "failed", "up"} => Valid(cfg[i]) /\ (GcAlive(i) \/ gc[i] = "ended")
  /\ gc[i] = "ended" => Resolved(i)

\* What the joining task has waited for is over.
JoinedInTurn(i) ==
  /\ joined[i] \in {"gc", "server", "ok", "err"} => ~ServerAlive(i)
  /\ joined[i] \in {"server", "ok", "err"} => ~GcAlive(i)
  /\ joined[i] = "ok" => server[i] # "failed"
  /\ joined[i] = "err" => server[i] = "failed"

RequestsServed(i) == ~ServerAlive(i) => requests[i] = 0

Sound(i) == PartsFitPhase(i) /\ CollectorLasts(i) /\ JoinedInTurn(i) /\ RequestsServed(i)

\* Calls of start follow each other.
InOrder == \A i \in Calls : phase[i] # "uncalled" => \A j \in 1..(i - 1) : Returned(j)

Inv == TypeOK /\ InOrder /\ \A i \in Calls : Sound(i)

USE DEF Calls

-----------------------------------------------------------------------------

\* A relay that has not been started is in order.
LEMMA InitInv == Init => Inv
BY BoundsAssumption DEF Init, Inv, TypeOK, InOrder, Sound, PartsFitPhase, CollectorLasts,
   JoinedInTurn, RequestsServed, GcAlive, ServerAlive, Resolved, Returned

\* The parts of call i, which only the steps of call i change.
Parts(i) == <<phase[i], cfg[i], signal[i], due[i], gc[i], server[i], requests[i], joined[i]>>

Step(i) == Start(i) \/ Signal(i) \/ Collector(i) \/ Server(i) \/ Join(i)

\* Every step keeps the types.
LEMMA StepKeepsType ==
  ASSUME TypeOK, NEW k \in Calls, Step(k)
  PROVE  TypeOK'
<1> USE BoundsAssumption DEF TypeOK
<1>1. CASE Start(k)
  <2>1. CASE Open(k)
    BY <2>1 DEF Open
  <2>2. CASE Reject(k)
    BY <2>2 DEF Reject
  <2>3. CASE SpawnGc(k)
    BY <2>3 DEF SpawnGc
  <2>4. CASE BuildFails(k)
    BY <2>4 DEF BuildFails
  <2>5. CASE BuildServer(k)
    BY <2>5 DEF BuildServer
  <2> QED
    BY <1>1, <2>1, <2>2, <2>3, <2>4, <2>5 DEF Start
<1>2. CASE Signal(k)
  BY <1>2 DEF Signal
<1>3. CASE Collector(k)
  <2>1. CASE GcInterval(k)
    <3>1. gc' \in [Calls -> {"none", "spawned", "select", "purging", "ended", "panicked"}]
      BY <2>1 DEF GcInterval
    <3>2. due' \in [Calls -> BOOLEAN]
      BY <2>1 DEF GcInterval
    <3> QED
      BY <2>1, <3>1, <3>2 DEF GcInterval
  <2>2. CASE TickDue(k)
    BY <2>2 DEF TickDue
  <2>3. CASE GcPurge(k)
    BY <2>3 DEF GcPurge
  <2>4. CASE GcPurged(k)
    BY <2>4 DEF GcPurged
  <2>5. CASE GcStop(k)
    BY <2>5 DEF GcStop
  <2> QED
    BY <1>3, <2>1, <2>2, <2>3, <2>4, <2>5 DEF Collector
<1>4. CASE Server(k)
  <2>1. CASE Arrive(k)
    <3>1. requests[k] + 1 \in 0..MaxRequests
      BY <2>1 DEF Arrive
    <3> QED
      BY <2>1, <3>1 DEF Arrive
  <2>2. CASE Finish(k)
    <3>1. requests[k] - 1 \in 0..MaxRequests
      BY <2>2 DEF Finish
    <3> QED
      BY <2>2, <3>1 DEF Finish
  <2>3. CASE ServerStops(k)
    BY <2>3 DEF ServerStops
  <2>4. CASE ServerFails(k)
    BY <2>4 DEF ServerFails
  <2> QED
    BY <1>4, <2>1, <2>2, <2>3, <2>4 DEF Server
<1>5. CASE Join(k)
  <2>1. CASE JoinSignal(k)
    BY <2>1 DEF JoinSignal
  <2>2. CASE JoinStop(k)
    BY <2>2 DEF JoinStop
  <2>3. CASE JoinGc(k)
    BY <2>3 DEF JoinGc
  <2>4. CASE JoinServer(k)
    BY <2>4 DEF JoinServer
  <2> QED
    BY <1>5, <2>1, <2>2, <2>3, <2>4 DEF Join
<1> QED
  BY <1>1, <1>2, <1>3, <1>4, <1>5 DEF Step

\* A step of one call leaves the other calls alone.
LEMMA StepIsLocal ==
  ASSUME TypeOK, NEW k \in Calls, Step(k), NEW i \in Calls, i # k
  PROVE  Parts(i)' = Parts(i)
<1> USE DEF TypeOK, Parts
<1>1. CASE Start(k)
  <2>1. CASE Open(k) \/ Reject(k)
    BY <2>1 DEF Open, Reject
  <2>2. CASE SpawnGc(k)
    BY <2>2 DEF SpawnGc
  <2>3. CASE BuildFails(k)
    BY <2>3 DEF BuildFails
  <2>4. CASE BuildServer(k)
    BY <2>4 DEF BuildServer
  <2> QED
    BY <1>1, <2>1, <2>2, <2>3, <2>4 DEF Start
<1>2. CASE Signal(k)
  BY <1>2 DEF Signal
<1>3. CASE Collector(k)
  <2>1. CASE GcInterval(k)
    BY <2>1 DEF GcInterval
  <2>2. CASE TickDue(k)
    BY <2>2 DEF TickDue
  <2>3. CASE GcPurge(k)
    BY <2>3 DEF GcPurge
  <2>4. CASE GcPurged(k)
    BY <2>4 DEF GcPurged
  <2>5. CASE GcStop(k)
    BY <2>5 DEF GcStop
  <2> QED
    BY <1>3, <2>1, <2>2, <2>3, <2>4, <2>5 DEF Collector
<1>4. CASE Server(k)
  <2>1. CASE Arrive(k)
    BY <2>1 DEF Arrive
  <2>2. CASE Finish(k)
    BY <2>2 DEF Finish
  <2>3. CASE ServerStops(k)
    BY <2>3 DEF ServerStops
  <2>4. CASE ServerFails(k)
    BY <2>4 DEF ServerFails
  <2> QED
    BY <1>4, <2>1, <2>2, <2>3, <2>4 DEF Server
<1>5. CASE Join(k)
  <2>1. CASE JoinSignal(k)
    BY <2>1 DEF JoinSignal
  <2>2. CASE JoinStop(k)
    BY <2>2 DEF JoinStop
  <2>3. CASE JoinGc(k)
    BY <2>3 DEF JoinGc
  <2>4. CASE JoinServer(k)
    BY <2>4 DEF JoinServer
  <2> QED
    BY <1>5, <2>1, <2>2, <2>3, <2>4 DEF Join
<1> QED
  BY <1>1, <1>2, <1>3, <1>4, <1>5 DEF Step

\* A sound call is sound after each of its steps.  The interval of a valid
\* configuration is positive, so that the collector does not panic; a server or a
\* collector that has ended does not come back, so that what the joining task has
\* waited for stays over.
LEMMA StepKeepsSound ==
  ASSUME TypeOK, NEW k \in Calls, Step(k), Sound(k)
  PROVE  Sound(k)'
<1> USE DEF TypeOK, Sound, PartsFitPhase, CollectorLasts, JoinedInTurn, RequestsServed,
            GcAlive, ServerAlive, Resolved
<1>1. CASE Start(k)
  <2>1. CASE Open(k) \/ Reject(k)
    BY <2>1 DEF Open, Reject
  <2>2. CASE SpawnGc(k)
    BY <2>2 DEF SpawnGc
  <2>3. CASE BuildFails(k)
    BY <2>3 DEF BuildFails
  <2>4. CASE BuildServer(k)
    BY <2>4 DEF BuildServer
  <2> QED
    BY <1>1, <2>1, <2>2, <2>3, <2>4 DEF Start
<1>2. CASE Signal(k)
  BY <1>2 DEF Signal
<1>3. CASE Collector(k)
  <2>1. CASE GcInterval(k)
    <3>1. Valid(cfg[k])
      BY <2>1 DEF GcInterval
    <3>2. cfg[k].gc_interval_seconds # 0
      BY <3>1, ConfigsAssumption DEF Valid
    <3> QED
      BY <2>1, <3>1, <3>2 DEF GcInterval
  <2>2. CASE TickDue(k) \/ GcPurge(k) \/ GcPurged(k)
    BY <2>2 DEF TickDue, GcPurge, GcPurged
  <2>3. CASE GcStop(k)
    BY <2>3 DEF GcStop
  <2> QED
    BY <1>3, <2>1, <2>2, <2>3 DEF Collector
<1>4. CASE Server(k)
  <2>1. CASE Arrive(k)
    BY <2>1 DEF Arrive
  <2>2. CASE Finish(k)
    BY <2>2 DEF Finish
  <2>3. CASE ServerStops(k)
    BY <2>3 DEF ServerStops
  <2>4. CASE ServerFails(k)
    BY <2>4 DEF ServerFails
  <2> QED
    BY <1>4, <2>1, <2>2, <2>3, <2>4 DEF Server
<1>5. CASE Join(k)
  <2>1. CASE JoinSignal(k)
    BY <2>1 DEF JoinSignal
  <2>2. CASE JoinStop(k)
    BY <2>2 DEF JoinStop
  <2>3. CASE JoinGc(k)
    BY <2>3 DEF JoinGc
  <2>4. CASE JoinServer(k)
    BY <2>4 DEF JoinServer
  <2> QED
    BY <1>5, <2>1, <2>2, <2>3, <2>4 DEF Join
<1> QED
  BY <1>1, <1>2, <1>3, <1>4, <1>5 DEF Step

\* A call returns once, and no call starts before those ahead of it have.
LEMMA StepKeepsOrder ==
  ASSUME TypeOK, InOrder, NEW k \in Calls, Step(k)
  PROVE  InOrder'
<1> USE DEF TypeOK, InOrder, Returned
<1>1. CASE Start(k)
  <2>1. ASSUME NEW i \in Calls, i # k PROVE phase'[i] = phase[i]
    BY <2>1, StepIsLocal DEF Parts
  <2>2. ~Returned(k)
    BY <1>1 DEF Start, Open, Reject, SpawnGc, BuildFails, BuildServer
  <2>3. \A j \in 1..(k - 1) : Returned(j)
    BY <1>1, <2>2 DEF Start, Open, Reject, SpawnGc, BuildFails, BuildServer
  <2>4. \A i \in Calls : Returned(i) => phase'[i] = phase[i]
    BY <2>1, <2>2
  <2>5. ASSUME NEW i \in Calls, phase'[i] # "uncalled", NEW j \in 1..(i - 1)
        PROVE  Returned(j)
    BY <2>1, <2>3, <2>5
  <2> QED
    BY <2>4, <2>5, BoundsAssumption
<1>2. CASE ~Start(k)
  <2>1. UNCHANGED phase
    BY <1>2 DEF Step, Signal, Collector, GcInterval, TickDue, GcPurge, GcPurged, GcStop,
       Server, Arrive, Finish, ServerStops, ServerFails,
       Join, JoinSignal, JoinStop, JoinGc, JoinServer
  <2> QED
    BY <2>1
<1> QED
  BY <1>1, <1>2

\* The invariant is inductive.
LEMMA NextInv == Inv /\ [Next]_vars => Inv'
<1> SUFFICES ASSUME Inv, [Next]_vars PROVE Inv'
  OBVIOUS
<1>1. CASE Next
  <2>1. PICK k \in Calls : Step(k)
    BY <1>1 DEF Next, Step
  <2>2. TypeOK' /\ InOrder'
    BY <2>1, StepKeepsType, StepKeepsOrder DEF Inv
  <2>3. ASSUME NEW i \in Calls PROVE Sound(i)'
    <3>1. CASE i = k
      BY <2>1, <3>1, StepKeepsSound DEF Inv
    <3>2. CASE i # k
      <4>1. Parts(i)' = Parts(i)
        BY <2>1, <3>2, StepIsLocal DEF Inv
      <4>2. Sound(i)
        BY DEF Inv
      <4> QED
        BY <4>1, <4>2 DEF Parts, Sound, PartsFitPhase, CollectorLasts, JoinedInTurn,
           RequestsServed, GcAlive, ServerAlive, Resolved
    <3> QED
      BY <3>1, <3>2
  <2> QED
    BY <2>2, <2>3 DEF Inv
<1>2. CASE UNCHANGED vars
  BY <1>2 DEF vars, Inv, TypeOK, InOrder, Sound, PartsFitPhase, CollectorLasts,
     JoinedInTurn, RequestsServed, GcAlive, ServerAlive, Resolved, Returned
<1> QED
  BY <1>1, <1>2 DEF Next

\* The invariant holds in every state of every behaviour.
LEMMA SpecInv == Spec => []Inv
BY InitInv, NextInv, PTL DEF Spec

-----------------------------------------------------------------------------

\* Every variable of the start and shutdown keeps its type.
THEOREM TypeCorrect == Spec => []TypeOK
<1>1. Inv => TypeOK
  BY DEF Inv
<1> QED
  BY <1>1, SpecInv, PTL

\* For any number of calls and any configurations: when the handle of a relay
\* resolves, nothing of it is left, and its result tells whether the server failed
\* (server.rs:153-161).
THEOREM HandleCorrect == Spec => []NothingLeftBehind
<1>1. Inv => NothingLeftBehind
  BY DEF Inv, Sound, JoinedInTurn, RequestsServed, NothingLeftBehind, Joined
<1> QED
  BY <1>1, SpecInv, PTL

\* For any configurations: a server that has not been told to stop has its
\* collector (config.rs:188, ttl.rs:22).
THEOREM CollectorCorrect == Spec => []CollectedWhileUp
<1>1. Inv => CollectedWhileUp
  BY DEF Inv, TypeOK, Sound, PartsFitPhase, CollectorLasts, CollectedWhileUp, Resolved
<1> QED
  BY <1>1, SpecInv, PTL

\* For any number of calls: a start finds the store locked only if the handle of
\* an earlier call has not resolved, or the collector of a failed one is still
\* there (server.rs:150).
THEOREM LockCorrect == Spec => LockedOnlyByLeftovers
<1> DEFINE Leftover(i) ==
      \E j \in 1..(i - 1) :
        \/ phase[j] = "up" /\ ~Joined(j)
        \/ phase[j] = "failed" /\ GcAlive(j)
           LockedRightly ==
      \A i \in Calls : phase[i] = "uncalled" /\ phase'[i] = "locked" => Leftover(i)
<1>1. ASSUME Inv, [Next]_vars PROVE LockedRightly
  <2> SUFFICES ASSUME NEW i \in Calls, phase[i] = "uncalled", phase'[i] = "locked"
               PROVE  Leftover(i)
    OBVIOUS
  <2>1. Open(i)
    <3>1. PICK k \in Calls : Step(k)
      BY <1>1 DEF Next, Step, vars
    <3>2. k = i
      BY <1>1, <3>1, StepIsLocal DEF Inv, Parts
    <3> QED
      BY <1>1, <3>1, <3>2 DEF Inv, TypeOK, Step, Start, Open, Reject, SpawnGc, BuildFails, BuildServer,
         Signal, Collector, GcInterval, TickDue, GcPurge, GcPurged, GcStop,
         Server, Arrive, Finish, ServerStops, ServerFails,
         Join, JoinSignal, JoinStop, JoinGc, JoinServer
  <2>2. StoreHeld
    BY <1>1, <2>1 DEF Open, Inv, TypeOK
  <2>3. PICK j \in Calls : phase[j] \in {"opened", "spawned"} \/ GcAlive(j) \/ ServerAlive(j)
    BY <2>2 DEF StoreHeld
  <2>4. phase[j] # "uncalled"
    BY <1>1, <2>3 DEF Inv, TypeOK, Sound, PartsFitPhase, GcAlive, ServerAlive
  <2>5. j \in 1..(i - 1)
    <3>1. ~(i < j)
      BY <1>1, <2>4 DEF Inv, InOrder, Returned
    <3> QED
      BY <2>4, <3>1, BoundsAssumption
  <2>6. Returned(j)
    BY <2>1, <2>5 DEF Open
  <2>7. phase[j] \in {"up", "failed"}
    BY <1>1, <2>3, <2>6 DEF Inv, Sound, PartsFitPhase, Returned, GcAlive, ServerAlive
  <2>8. phase[j] = "failed" => GcAlive(j)
    BY <1>1, <2>3 DEF Inv, Sound, PartsFitPhase, ServerAlive
  <2>9. ~Joined(j)
    BY <1>1, <2>3, <2>7 DEF Inv, Sound, PartsFitPhase, JoinedInTurn, Joined
  <2> QED
    BY <2>5, <2>7, <2>8, <2>9
<1>2. Inv /\ [Next]_vars => [LockedRightly]_vars
  BY <1>1
<1> QED
  BY <1>2, SpecInv, PTL DEF Spec, LockedOnlyByLeftovers
=============================================================================
