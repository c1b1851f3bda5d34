---------------------------- MODULE LaunchProofs ----------------------------
(***************************************************************************)
(* Server::start for every set of ports, every budget and every length of  *)
(* a probe: its types, its bound in time, whom it blames, and that every   *)
(* step of it is a step of Start.                                          *)
(***************************************************************************)
EXTENDS Launch, TLAPS

\* Launch.Init: nothing was spawned and no time has passed.
LEMMA InitHolds == Init => LaunchInvariant
<1>. SUFFICES ASSUME Init PROVE LaunchInvariant
  OBVIOUS
<1>. USE LaunchAssumption DEF Init, Attempts, Stranger
<1>1. TypeOK
  <2>1. connected \in BOOLEAN
    BY Zenon
  <2>. QED BY <2>1 DEF TypeOK
<1>2. PlacesHold /\ TimeHolds /\ BlameHolds
  BY DEF PlacesHold, TimeHolds, BlameHolds, Running
<1>3. OwnersHold
  BY DEF OwnersHold
<1>4. UnheardRaceIsRetried
  BY DEF UnheardRaceIsRetried
<1>. QED BY <1>1, <1>2, <1>3, <1>4 DEF LaunchInvariant

----------------------------------------------------------------------------
(* One lemma per action. *)

\* spawn returns an error before there is a process.
LEMMA SpawnFailsKeeps ==
  ASSUME LaunchInvariant, SpawnFails
  PROVE  LaunchInvariant'
<1>. USE LaunchAssumption DEF LaunchInvariant, SpawnFails, Return, world, Attempts, Stranger, TypeOK
<1>1. TypeOK'
  BY DEF Codes, PlacesHold
<1>2. PlacesHold'
  BY DEF PlacesHold, Running
<1>3. TimeHolds'
  BY DEF PlacesHold, TimeHolds
<1>4. OwnersHold'
  BY DEF PlacesHold, OwnersHold, Running
<1>5. BlameHolds'
  BY DEF PlacesHold, OwnersHold, BlameHolds, Codes
<1>6. UnheardRaceIsRetried'
  BY DEF PlacesHold, BlameHolds, UnheardRaceIsRetried, Running
<1>. QED BY <1>1, <1>2, <1>3, <1>4, <1>5, <1>6

\* A server is spawned for a port nobody has.
LEMMA SpawnKeeps ==
  ASSUME LaunchInvariant, NEW p \in Ports, Spawn(p)
  PROVE  LaunchInvariant'
<1>. USE LaunchAssumption DEF LaunchInvariant, Spawn, world, Attempts, Stranger, TypeOK
<1>1. TypeOK'
  BY DEF Codes, PlacesHold
<1>2. PlacesHold'
  BY DEF PlacesHold, Running
<1>3. TimeHolds'
  BY DEF PlacesHold, TimeHolds
<1>4. OwnersHold'
  BY DEF PlacesHold, OwnersHold, Running
<1>5. BlameHolds'
  BY DEF PlacesHold, OwnersHold, BlameHolds, Codes
<1>6. UnheardRaceIsRetried'
  BY DEF PlacesHold, BlameHolds, UnheardRaceIsRetried, Running
<1>. QED BY <1>1, <1>2, <1>3, <1>4, <1>5, <1>6

\* An attempt whose server is gone is dropped, and the first may be retried.
LEMMA CheckExitedKeeps ==
  ASSUME LaunchInvariant, CheckExited
  PROVE  LaunchInvariant'
<1>. USE LaunchAssumption DEF LaunchInvariant, CheckExited, Return, Stop, Unbound, world, Attempts, Stranger, TypeOK
<1>1. TypeOK'
  BY DEF Codes, PlacesHold
<1>2. PlacesHold'
  BY DEF PlacesHold, Running
<1>3. TimeHolds'
  BY DEF PlacesHold, TimeHolds
<1>4. OwnersHold'
  BY DEF PlacesHold, OwnersHold, Running
<1>5. BlameHolds'
  BY DEF PlacesHold, OwnersHold, BlameHolds, Codes
<1>6. UnheardRaceIsRetried'
  <2>. SUFFICES ASSUME result' = "Unavailable", crashed = {}, ~connected
                PROVE  lost = Attempts
    BY DEF UnheardRaceIsRetried
  <2>1. n \in lost
    BY DEF BlameHolds
  <2>2. n # 1
    BY <2>1 DEF BlameHolds, PlacesHold
  <2>3. 1 \in lost /\ 2 \in lost
    BY <2>1, <2>2 DEF BlameHolds
  <2>4. Attempts = {1, 2}
    OBVIOUS
  <2>. QED BY <2>3, <2>4, Zenon
<1>. QED BY <1>1, <1>2, <1>3, <1>4, <1>5, <1>6

\* The liveness check finds the server running.
LEMMA CheckRunningKeeps ==
  ASSUME LaunchInvariant, CheckRunning
  PROVE  LaunchInvariant'
<1>. USE LaunchAssumption DEF LaunchInvariant, CheckRunning, world, Attempts, Stranger, TypeOK
<1>1. TypeOK'
  BY DEF Codes, PlacesHold
<1>2. PlacesHold'
  BY DEF PlacesHold, Running
<1>3. TimeHolds'
  BY DEF PlacesHold, TimeHolds
<1>4. OwnersHold'
  BY DEF PlacesHold, OwnersHold, Running
<1>5. BlameHolds'
  BY DEF PlacesHold, OwnersHold, BlameHolds, Codes
<1>6. UnheardRaceIsRetried'
  BY DEF PlacesHold, BlameHolds, UnheardRaceIsRetried, Running
<1>. QED BY <1>1, <1>2, <1>3, <1>4, <1>5, <1>6

\* A probe, whoever answers it.
LEMMA ProbeKeeps ==
  ASSUME LaunchInvariant, NEW d \in 0..ProbeTicks, Probe(d)
  PROVE  LaunchInvariant'
<1>. USE LaunchAssumption DEF LaunchInvariant, Probe, Return, Health, world, Attempts, Stranger, TypeOK
<1>1. TypeOK'
  <2>1. connected' \in BOOLEAN
    BY Zenon
  <2>2. elapsed' \in Nat /\ total' \in Nat
    OBVIOUS
  <2>. QED BY <2>1, <2>2 DEF PlacesHold
<1>2. PlacesHold'
  BY DEF PlacesHold, Running
<1>3. TimeHolds'
  BY DEF PlacesHold, TimeHolds
<1>4. OwnersHold'
  BY DEF PlacesHold, OwnersHold, Running
<1>5. BlameHolds'
  BY DEF PlacesHold, OwnersHold, BlameHolds, Codes
<1>6. UnheardRaceIsRetried'
  BY DEF PlacesHold, BlameHolds, UnheardRaceIsRetried, Running
<1>. QED BY <1>1, <1>2, <1>3, <1>4, <1>5, <1>6

\* The budget is over and the server is killed.
LEMMA OutOfBudgetKeeps ==
  ASSUME LaunchInvariant, OutOfBudget
  PROVE  LaunchInvariant'
<1>. USE LaunchAssumption DEF LaunchInvariant, OutOfBudget, Return, Stop, Unbound, world, Attempts, Stranger, TypeOK
<1>1. TypeOK'
  BY DEF Codes, PlacesHold
<1>2. PlacesHold'
  BY DEF PlacesHold, Running
<1>3. TimeHolds'
  BY DEF PlacesHold, TimeHolds
<1>4. OwnersHold'
  BY DEF PlacesHold, OwnersHold, Running
<1>5. BlameHolds'
  BY DEF PlacesHold, OwnersHold, BlameHolds, Codes
<1>6. UnheardRaceIsRetried'
  BY DEF PlacesHold, BlameHolds, UnheardRaceIsRetried, Running
<1>. QED BY <1>1, <1>2, <1>3, <1>4, <1>5, <1>6

\* One poll interval.
LEMMA SleepKeeps ==
  ASSUME LaunchInvariant, Sleep
  PROVE  LaunchInvariant'
<1>. USE LaunchAssumption DEF LaunchInvariant, Sleep, world, Attempts, Stranger, TypeOK
<1>1. TypeOK'
  BY DEF Codes, PlacesHold
<1>2. PlacesHold'
  BY DEF PlacesHold, Running
<1>3. TimeHolds'
  BY DEF PlacesHold, TimeHolds
<1>4. OwnersHold'
  BY DEF PlacesHold, OwnersHold, Running
<1>5. BlameHolds'
  BY DEF PlacesHold, OwnersHold, BlameHolds, Codes
<1>6. UnheardRaceIsRetried'
  BY DEF PlacesHold, BlameHolds, UnheardRaceIsRetried, Running
<1>. QED BY <1>1, <1>2, <1>3, <1>4, <1>5, <1>6

\* The caller lets its child go.
LEMMA DropChildKeeps ==
  ASSUME LaunchInvariant, DropChild
  PROVE  LaunchInvariant'
<1>. USE LaunchAssumption DEF LaunchInvariant, DropChild, Stop, Unbound, world, Attempts, Stranger, TypeOK
<1>1. TypeOK'
  BY DEF Codes, PlacesHold
<1>2. PlacesHold'
  BY DEF PlacesHold, Running
<1>3. TimeHolds'
  BY DEF PlacesHold, TimeHolds
<1>4. OwnersHold'
  BY DEF PlacesHold, OwnersHold, Running
<1>5. BlameHolds'
  BY DEF PlacesHold, OwnersHold, BlameHolds, Codes
<1>6. UnheardRaceIsRetried'
  BY DEF PlacesHold, BlameHolds, UnheardRaceIsRetried, Running
<1>. QED BY <1>1, <1>2, <1>3, <1>4, <1>5, <1>6

\* The server binds its port, or loses it.
LEMMA BindKeeps ==
  ASSUME LaunchInvariant, Bind
  PROVE  LaunchInvariant'
<1>. USE LaunchAssumption DEF LaunchInvariant, Bind, world, call, Attempts, Stranger, TypeOK
<1>1. TypeOK'
  <2>1. child' \in [Attempts -> {"none", "starting", "bound", "ready", "exited", "reaped"}]
    OBVIOUS
  <2>2. owner' \in [Ports -> Attempts \cup {Stranger, Nobody}]
    OBVIOUS
  <2>3. lost' \subseteq Attempts
    OBVIOUS
  <2>. QED BY <2>1, <2>2, <2>3
<1>2. PlacesHold'
  BY DEF PlacesHold, Running
<1>3. TimeHolds'
  BY DEF PlacesHold, TimeHolds
<1>4. OwnersHold'
  BY DEF PlacesHold, OwnersHold, Running
<1>5. BlameHolds'
  <2>1. n \notin lost
    BY DEF BlameHolds
  <2>2. CASE owner[port] = Nobody
    BY <2>1, <2>2 DEF PlacesHold, BlameHolds
  <2>3. CASE owner[port] # Nobody
    <3>1. \A a \in lost' : child'[a] \in {"exited", "reaped"}
      <4>1. lost' = lost \cup {n} /\ child' = [child EXCEPT ![n] = "exited"]
        BY <2>3
      <4>. TAKE a \in lost'
      <4>2. CASE a = n
        BY <4>1, <4>2
      <4>3. CASE a # n
        BY <4>1, <4>3 DEF BlameHolds
      <4>. QED BY <4>2, <4>3
    <3>. QED BY <2>1, <2>3, <3>1 DEF PlacesHold, BlameHolds
  <2>. QED BY <2>2, <2>3
<1>6. UnheardRaceIsRetried'
  BY DEF PlacesHold, BlameHolds, UnheardRaceIsRetried, Running
<1>. QED BY <1>1, <1>2, <1>3, <1>4, <1>5, <1>6

\* The server has its model.
LEMMA ReadyKeeps ==
  ASSUME LaunchInvariant, Ready
  PROVE  LaunchInvariant'
<1>. USE LaunchAssumption DEF LaunchInvariant, Ready, world, call, Attempts, Stranger, TypeOK
<1>1. TypeOK'
  BY DEF Codes, PlacesHold
<1>2. PlacesHold'
  BY DEF PlacesHold, Running
<1>3. TimeHolds'
  BY DEF PlacesHold, TimeHolds
<1>4. OwnersHold'
  BY DEF PlacesHold, OwnersHold, Running
<1>5. BlameHolds'
  BY DEF PlacesHold, OwnersHold, BlameHolds, Codes
<1>6. UnheardRaceIsRetried'
  BY DEF PlacesHold, BlameHolds, UnheardRaceIsRetried, Running
<1>. QED BY <1>1, <1>2, <1>3, <1>4, <1>5, <1>6

\* The server exits of its own accord.
LEMMA ExitKeeps ==
  ASSUME LaunchInvariant, Exit
  PROVE  LaunchInvariant'
<1>. USE LaunchAssumption DEF LaunchInvariant, Exit, Unbound, world, call, Attempts, Stranger, TypeOK
<1>1. TypeOK'
  BY DEF Codes, PlacesHold
<1>2. PlacesHold'
  BY DEF PlacesHold, Running
<1>3. TimeHolds'
  BY DEF PlacesHold, TimeHolds
<1>4. OwnersHold'
  BY DEF PlacesHold, OwnersHold, Running
<1>5. BlameHolds'
  BY DEF PlacesHold, OwnersHold, BlameHolds, Codes
<1>6. UnheardRaceIsRetried'
  BY DEF PlacesHold, BlameHolds, UnheardRaceIsRetried, Running
<1>. QED BY <1>1, <1>2, <1>3, <1>4, <1>5, <1>6

\* A process outside the router takes a port.
LEMMA StrangerBindsKeeps ==
  ASSUME LaunchInvariant, NEW p \in Ports, StrangerBinds(p)
  PROVE  LaunchInvariant'
<1>. USE LaunchAssumption DEF LaunchInvariant, StrangerBinds, world, call, Attempts, Stranger, TypeOK
<1>1. TypeOK'
  BY DEF Codes, PlacesHold
<1>2. PlacesHold'
  BY DEF PlacesHold, Running
<1>3. TimeHolds'
  BY DEF PlacesHold, TimeHolds
<1>4. OwnersHold'
  BY DEF PlacesHold, OwnersHold, Running
<1>5. BlameHolds'
  BY DEF PlacesHold, OwnersHold, BlameHolds, Codes
<1>6. UnheardRaceIsRetried'
  BY DEF PlacesHold, BlameHolds, UnheardRaceIsRetried, Running
<1>. QED BY <1>1, <1>2, <1>3, <1>4, <1>5, <1>6

\* A process outside the router gives a port back.
LEMMA StrangerLeavesKeeps ==
  ASSUME LaunchInvariant, NEW p \in Ports, StrangerLeaves(p)
  PROVE  LaunchInvariant'
<1>. USE LaunchAssumption DEF LaunchInvariant, StrangerLeaves, world, call, Attempts, Stranger, TypeOK
<1>1. TypeOK'
  BY DEF Codes, PlacesHold
<1>2. PlacesHold'
  BY DEF PlacesHold, Running
<1>3. TimeHolds'
  BY DEF PlacesHold, TimeHolds
<1>4. OwnersHold'
  BY DEF PlacesHold, OwnersHold, Running
<1>5. BlameHolds'
  BY DEF PlacesHold, OwnersHold, BlameHolds, Codes
<1>6. UnheardRaceIsRetried'
  BY DEF PlacesHold, BlameHolds, UnheardRaceIsRetried, Running
<1>. QED BY <1>1, <1>2, <1>3, <1>4, <1>5, <1>6

----------------------------------------------------------------------------

\* Launch.Next: every step of the call, the servers and the strangers.
LEMMA NextHolds ==
  ASSUME LaunchInvariant, [Next]_vars
  PROVE  LaunchInvariant'
<1>1. CASE Call
  BY <1>1, SpawnFailsKeeps, SpawnKeeps, CheckExitedKeeps, CheckRunningKeeps, ProbeKeeps,
     OutOfBudgetKeeps, SleepKeeps DEF Call
<1>2. CASE DropChild \/ Bind \/ Ready \/ Exit
  BY <1>2, DropChildKeeps, BindKeeps, ReadyKeeps, ExitKeeps
<1>3. CASE \E p \in Ports : StrangerBinds(p) \/ StrangerLeaves(p)
  BY <1>3, StrangerBindsKeeps, StrangerLeavesKeeps
<1>4. CASE UNCHANGED vars
  BY <1>4 DEF vars, LaunchInvariant, TypeOK, PlacesHold, TimeHolds, OwnersHold, BlameHolds,
     UnheardRaceIsRetried
<1>. QED BY <1>1, <1>2, <1>3, <1>4 DEF Next

\* The inductive invariant of one call of Server::start.
THEOREM LaunchInvariantHolds == Spec => []LaunchInvariant
<1>. QED BY InitHolds, NextHolds, PTL DEF Spec

\* The state of a call is always well typed, for any ports and budget.
THEOREM LaunchTypes == Spec => []TypeOK
<1>1. LaunchInvariant => TypeOK
  BY DEF LaunchInvariant
<1>. QED BY <1>1, LaunchInvariantHolds, PTL

\* However its servers behave and whoever answers on their ports, Server::start
\* is over after two budgets, two poll intervals and a probe, although its sleep
\* may pass the budget before the check that finds an exit to retry.
THEOREM CallsTakeTwoBudgets == Spec => []WithinTwoBudgets
<1>1. LaunchInvariant => WithinTwoBudgets
  BY LaunchAssumption DEF LaunchInvariant, TypeOK, Attempts, TimeHolds, WithinTwoBudgets
<1>. QED BY <1>1, LaunchInvariantHolds, PTL

\* Server::start blames the model only for an exit of its own, after losing the
\* port twice, or after somebody was heard on the port of the attempt that
\* failed, whatever the processes outside the router may answer.
THEOREM UnheardRacesAreRetried == Spec => []UnheardRaceIsRetried
<1>1. LaunchInvariant => UnheardRaceIsRetried
  BY DEF LaunchInvariant
<1>. QED BY <1>1, LaunchInvariantHolds, PTL

----------------------------------------------------------------------------
(* The refinement of Start. *)

\* Child::stop of the only process there is leaves none.
LEMMA NoneUnreaped ==
  ASSUME LaunchInvariant', (child[n] \in {"none", "reaped"})'
  PROVE  Unreaped' = {}
  BY DEF LaunchInvariant, TypeOK, PlacesHold, Unreaped, Attempts

LEMMA SomeUnreaped ==
  ASSUME TypeOK, child[n] \in Running
  PROVE  Unreaped # {}
<1>1. n \in Unreaped
  BY DEF TypeOK, Running, Unreaped
<1>. QED BY <1>1

\* One process goes on existing while the other attempt's does not.
LEMMA ServersKeepLive ==
  ASSUME LaunchInvariant, LaunchInvariant', UNCHANGED <<n, result>>,
         child[n] \in Running, child'[n] \in Running
  PROVE  UNCHANGED <<Phase, Unreaped # {}>>
<1>1. n \in Unreaped /\ n \in Unreaped'
  BY DEF LaunchInvariant, TypeOK, Running, Unreaped
<1>2. Phase' = Phase
  BY DEF Phase, Running
<1>. QED BY <1>1, <1>2

\* What Slots relies on, but for its end: every step of Server::start is one of
\* Start.
LEMMA StepsAreStarts ==
  ASSUME LaunchInvariant, LaunchInvariant', [Next]_vars
  PROVE  [Promise!Next]_Promise!vars
<1>. USE DEF Promise!vars
<1>1. CASE SpawnFails
  <2>1. Unreaped' = {}
    BY <1>1, NoneUnreaped DEF LaunchInvariant, SpawnFails, Return, PlacesHold
  <2>2. Phase \in {"asked", "loading"} /\ Phase' = "failed"
    BY <1>1 DEF LaunchInvariant, SpawnFails, Return, PlacesHold, Phase
  <2>. QED BY <2>1, <2>2 DEF Promise!Next, Promise!Fail
<1>2. ASSUME NEW p \in Ports, Spawn(p) PROVE Promise!Next
  <2>1. Phase \in {"asked", "loading"} /\ Phase' = "loading"
    BY <1>2 DEF LaunchInvariant, TypeOK, Attempts, Spawn, PlacesHold, Phase
  <2>. QED BY <2>1, Zenon DEF Promise!Next, Promise!Work
<1>3. CASE CheckExited
  <2>1. CASE pc' = "spawn"
    <3>1. Phase = "loading" /\ Phase' = "loading"
      BY <1>3, <2>1 DEF LaunchInvariant, TypeOK, Attempts, CheckExited, Stop, Return, PlacesHold, Running, Phase
    <3>. QED BY <3>1, Zenon DEF Promise!Next, Promise!Work
  <2>2. CASE pc' # "spawn"
    <3>1. Unreaped' = {}
      BY <1>3, <2>2, NoneUnreaped DEF LaunchInvariant, CheckExited, Return, PlacesHold
    <3>2. Phase = "loading" /\ Phase' = "failed"
      BY <1>3, <2>2 DEF LaunchInvariant, TypeOK, Attempts, CheckExited, Return, PlacesHold, Running, Phase
    <3>. QED BY <3>1, <3>2 DEF Promise!Next, Promise!Fail
  <2>. QED BY <2>1, <2>2
<1>4. CASE CheckRunning \/ Sleep
  BY <1>4 DEF CheckRunning, Sleep, Phase, Unreaped
<1>5. ASSUME NEW d \in 0..ProbeTicks, Probe(d) PROVE [Promise!Next]_Promise!vars
  <2>1. CASE result' = "child"
    <3>1. Phase = "loading" /\ Phase' = "child"
      BY <1>5, <2>1 DEF LaunchInvariant, TypeOK, Attempts, Probe, PlacesHold, Running, Phase
    <3>2. Unreaped # {} /\ Unreaped' = Unreaped
      BY <1>5, SomeUnreaped DEF LaunchInvariant, Probe, PlacesHold, Unreaped
    <3>. QED BY <3>1, <3>2 DEF Promise!Next, Promise!Succeed
  <2>2. CASE result' # "child"
    BY <1>5, <2>2 DEF Probe, Return, Phase, Unreaped
  <2>. QED BY <2>1, <2>2
<1>6. CASE OutOfBudget
  <2>1. Unreaped' = {}
    BY <1>6, NoneUnreaped DEF LaunchInvariant, OutOfBudget, Return, PlacesHold
  <2>2. Phase = "loading" /\ Phase' = "failed"
    BY <1>6 DEF LaunchInvariant, TypeOK, Attempts, OutOfBudget, Return, PlacesHold, Running, Phase
  <2>. QED BY <2>1, <2>2 DEF Promise!Next, Promise!Fail
<1>7. CASE DropChild
  <2>1. Unreaped' = {}
    BY <1>7, NoneUnreaped DEF LaunchInvariant, DropChild, PlacesHold
  <2>2. Phase = "child" /\ Phase' = "dropped"
    BY <1>7 DEF DropChild, Phase
  <2>. QED BY <2>1, <2>2 DEF Promise!Next, Promise!DropChild
<1>8. CASE Bind \/ Ready \/ Exit
  BY <1>8, ServersKeepLive DEF LaunchInvariant, TypeOK, Bind, Ready, Exit, Running, call
<1>9. CASE \E p \in Ports : StrangerBinds(p) \/ StrangerLeaves(p)
  BY <1>9 DEF StrangerBinds, StrangerLeaves, call, Phase, Unreaped
<1>10. CASE UNCHANGED vars
  BY <1>10 DEF vars, Phase, Unreaped
<1>. QED BY <1>1, <1>2, <1>3, <1>4, <1>5, <1>6, <1>7, <1>8, <1>9, <1>10 DEF Next, Call

\* The safety part of KeepsThePromise, for any ports, budget and strangers: seen
\* from the table of children, Server::start does only what Start may do.  In
\* particular no error leaves a process behind.
THEOREM LaunchImplementsStart == Spec => Promise!Init /\ [][Promise!Next]_Promise!vars
<1>1. Init => Promise!Init
  BY DEF Init, Promise!Init, Phase, Unreaped, Attempts
<1>. QED BY <1>1, LaunchInvariantHolds, StepsAreStarts, PTL DEF Spec
=============================================================================
