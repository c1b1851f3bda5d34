------------------------------- MODULE Launch -------------------------------
(***************************************************************************)
(* Server::start: spawn a llama-server on a port the operating system says *)
(* is free, poll its health until it answers, exits or runs out of budget, *)
(* and try once more when it died without ever being reached               *)
(* (launch.rs, launch/server.rs, launch/probe.rs).                         *)
(*                                                                         *)
(* free_port gives its port back before the server binds it, so a process  *)
(* outside the router may own it first; the server then exits, and what    *)
(* the probe reaches on that port is the stranger.                         *)
(***************************************************************************)
EXTENDS Naturals, FiniteSets

CONSTANTS
  Ports,          \* loopback ports
  Budget,         \* startup_timeout_seconds, in ticks
  Poll,           \* POLL_INTERVAL, in ticks
  ProbeTicks,     \* how long one health probe may take, in ticks
  StrangerSays,   \* what a stranger may answer to GET /health
  Nobody          \* a port nobody has bound

Attempts == 1..2
Stranger == 3
Codes == {"200", "other", "nothing"}

ASSUME LaunchAssumption ==
  /\ Ports # {}
  /\ Budget \in Nat
  /\ Poll \in Nat \ {0}
  /\ ProbeTicks \in Nat
  /\ StrangerSays \subseteq Codes /\ StrangerSays # {}
  /\ Nobody \notin Attempts \cup {Stranger}

VARIABLES
  pc,         \* where the call is
  n,          \* which attempt this is
  child,      \* the process of each attempt
  port,       \* the port passed to this attempt's server
  owner,      \* who has bound each port
  connected,  \* ever_connected
  elapsed,    \* time since this attempt's "started"
  total,      \* time since the call
  result,     \* what the call returned
  lost,       \* attempts whose server found its port taken
  crashed     \* attempts whose server exited for a reason of its own

call == <<pc, n, connected, elapsed, total, result>>
world == <<lost, crashed>>
vars == <<pc, n, child, port, owner, connected, elapsed, total, result, lost, crashed>>

TypeOK ==
  /\ pc \in {"spawn", "check", "probe", "budget", "returned"}
  /\ n \in Attempts
  /\ child \in [Attempts -> {"none", "starting", "bound", "ready", "exited", "reaped"}]
  /\ port \in Ports
  /\ owner \in [Ports -> Attempts \cup {Stranger, Nobody}]
  /\ connected \in BOOLEAN
  /\ elapsed \in Nat
  /\ total \in Nat
  /\ result \in {"none", "child", "dropped", "NotReady", "Unavailable"}
  /\ lost \subseteq Attempts
  /\ crashed \subseteq Attempts

Init ==
  /\ pc = "spawn"
  /\ n = 1
  /\ child = [a \in Attempts |-> "none"]
  /\ port \in Ports
  /\ owner \in [Ports -> {Stranger, Nobody}]
  /\ connected = FALSE
  /\ elapsed = 0
  /\ total = 0
  /\ result = "none"
  /\ lost = {}
  /\ crashed = {}

----------------------------------------------------------------------------
(* The call. *)

\* A process that is over, reaped or not, has bound nothing.
Unbound(a) == [p \in Ports |-> IF owner[p] = a THEN Nobody ELSE owner[p]]

\* Child::stop, which Drop for Child also calls: kill, then wait.
Stop(a) ==
  /\ child' = [child EXCEPT ![a] = "reaped"]
  /\ owner' = Unbound(a)

Return(what) == result' = what /\ pc' = "returned"

\* spawn: no model file, no free port, no binary, or one that will not start.
SpawnFails ==
  /\ pc = "spawn"
  /\ Return("Unavailable")
  /\ UNCHANGED <<n, child, port, owner, connected, elapsed, total, world>>

Spawn(p) ==
  /\ pc = "spawn"
  /\ owner[p] = Nobody
  /\ port' = p
  /\ child' = [child EXCEPT ![n] = "starting"]
  /\ connected' = FALSE
  /\ elapsed' = 0
  /\ pc' = "check"
  /\ UNCHANGED <<n, owner, total, result, world>>

\* The liveness check finds the server gone and the attempt fails, dropping it;
\* start retries the first one if no probe ever connected.
CheckExited_Final ==
  /\ pc = "check"
  /\ child[n] = "exited"
  /\ Stop(n)
  /\ Return("Unavailable") /\ UNCHANGED n
  /\ UNCHANGED <<port, connected, elapsed, total, world>>

CheckExited_Again ==
  /\ pc = "check"
  /\ child[n] = "exited"
  /\ Stop(n)
  /\ \/ ~connected /\ n' = n + 1 /\ pc' = "spawn" /\ UNCHANGED result
     \/ connected /\ Return("Unavailable") /\ UNCHANGED n
  /\ UNCHANGED <<port, connected, elapsed, total, world>>

CheckExited ==
  /\ pc = "check"
  /\ child[n] = "exited"
  /\ Stop(n)
  /\ \/ n = 1 /\ ~connected /\ n' = 2 /\ pc' = "spawn" /\ UNCHANGED result
     \/ (n = 2 \/ connected) /\ Return("Unavailable") /\ UNCHANGED n
  /\ UNCHANGED <<port, connected, elapsed, total, world>>

\* The check finds it running, or cannot read its status, which counts as that.
CheckRunning ==
  /\ pc = "check"
  /\ pc' = "probe"
  /\ UNCHANGED <<n, child, port, owner, connected, elapsed, total, result, world>>

\* What GET /health on the port may bring: a bound server says 503 until it is
\* ready, and any answer may miss the probe's timeout.
Health ==
  CASE owner[port] = Nobody   -> {"nothing"}
    [] owner[port] = Stranger -> StrangerSays
    [] OTHER -> {"nothing", IF child[owner[port]] = "ready" THEN "200" ELSE "other"}

\* One probe, which takes d.
Probe(d) ==
  /\ pc = "probe"
  /\ elapsed' = elapsed + d
  /\ total' = total + d
  /\ \/ "200" \in Health /\ Return("child") /\ UNCHANGED connected
     \/ "other" \in Health /\ connected' = TRUE /\ pc' = "budget" /\ UNCHANGED result
     \/ "nothing" \in Health /\ pc' = "budget" /\ UNCHANGED <<connected, result>>
  /\ UNCHANGED <<n, child, port, owner, world>>

OutOfBudget_Retried ==
  /\ pc = "budget"
  /\ elapsed >= Budget
  /\ Stop(n)
  /\ IF n = 1 THEN n' = 2 /\ pc' = "spawn" /\ UNCHANGED result
              ELSE Return("NotReady") /\ UNCHANGED n
  /\ UNCHANGED <<port, connected, elapsed, total, world>>

OutOfBudget_LeftRunning ==
  /\ pc = "budget"
  /\ elapsed >= Budget
  /\ Return("NotReady")
  /\ UNCHANGED <<n, child, port, owner, connected, elapsed, total, world>>

\* Killed before reporting, and never retried.
OutOfBudget ==
  /\ pc = "budget"
  /\ elapsed >= Budget
  /\ Stop(n)
  /\ Return("NotReady")
  /\ UNCHANGED <<n, port, connected, elapsed, total, world>>

\* The sleep may begin just within the budget and end past it, and a server
\* found gone then is still one to retry.
Sleep ==
  /\ pc = "budget"
  /\ elapsed < Budget
  /\ elapsed' = elapsed + Poll
  /\ total' = total + Poll
  /\ pc' = "check"
  /\ UNCHANGED <<n, child, port, owner, connected, result, world>>

\* The last handle on a returned child goes.
DropChild ==
  /\ result = "child"
  /\ Stop(n)
  /\ result' = "dropped"
  /\ UNCHANGED <<pc, n, port, connected, elapsed, total, world>>

Call ==
  \/ SpawnFails \/ \E p \in Ports : Spawn(p)
  \/ CheckExited \/ CheckRunning \/ \E d \in 0..ProbeTicks : Probe(d)
  \/ OutOfBudget \/ Sleep

----------------------------------------------------------------------------
(* The servers, and the processes outside the router. *)

\* The server comes to bind its port, or finds it taken and exits.
Bind ==
  /\ child[n] = "starting"
  /\ \/ /\ owner[port] = Nobody
        /\ owner' = [owner EXCEPT ![port] = n]
        /\ child' = [child EXCEPT ![n] = "bound"]
        /\ UNCHANGED lost
     \/ /\ owner[port] # Nobody
        /\ child' = [child EXCEPT ![n] = "exited"]
        /\ lost' = lost \cup {n}
        /\ UNCHANGED owner
  /\ UNCHANGED <<call, port, crashed>>

Ready ==
  /\ child[n] = "bound"
  /\ child' = [child EXCEPT ![n] = "ready"]
  /\ UNCHANGED <<call, port, owner, world>>

Exit ==
  /\ child[n] \in {"starting", "bound", "ready"}
  /\ child' = [child EXCEPT ![n] = "exited"]
  /\ owner' = Unbound(n)
  /\ crashed' = crashed \cup {n}
  /\ UNCHANGED <<call, port, lost>>

StrangerBinds(p) ==
  /\ owner[p] = Nobody
  /\ owner' = [owner EXCEPT ![p] = Stranger]
  /\ UNCHANGED <<call, child, port, world>>

StrangerLeaves(p) ==
  /\ owner[p] = Stranger
  /\ owner' = [owner EXCEPT ![p] = Nobody]
  /\ UNCHANGED <<call, child, port, world>>

Next ==
  \/ Call \/ DropChild
  \/ Bind \/ Ready \/ Exit
  \/ \E p \in Ports : StrangerBinds(p) \/ StrangerLeaves(p)

\* Only the calling thread runs for sure: a server may load for ever.
Spec == Init /\ [][Next]_vars /\ WF_vars(Call)

----------------------------------------------------------------------------
(* Properties. *)

Unreaped == {a \in Attempts : child[a] \notin {"none", "reaped"}}

\* A server that found its port taken is tried again: it is neither handed to
\* the caller as one that is ready nor reported as a model that failed to load.
LostRaceIsRetried ==
  n = 1 /\ lost = {1} => result \notin {"child", "Unavailable"}

\* What the retry does cover.  With servers that never exit of their own accord,
\* an error that is not a timeout means that both attempts lost their port, or
\* that somebody was heard on the port of the one that failed.
UnheardRaceIsRetried ==
  (result = "Unavailable" /\ child[n] # "none" /\ crashed = {}) => lost = Attempts \/ connected

\* A call takes no longer than two budgets, two poll intervals and one probe:
\* an attempt that is found out of budget is not retried, so that of the first
\* only the last sleep can pass its budget, and of the second that and a probe.
WithinTwoBudgets == total <= 2 * (Budget + Poll) + ProbeTicks

\* How far the call is, for somebody who only waits for it.
Phase ==
  CASE result \in {"child", "dropped"} -> result
    [] result \in {"NotReady", "Unavailable"} -> "failed"
    [] OTHER -> IF n = 1 /\ child[1] = "none" THEN "asked" ELSE "loading"

Promise == INSTANCE Start WITH phase <- Phase, live <- Unreaped # {}

\* The call is the one Slots relies on: no process outlives an error, a
\* returned child has one, and the call ends although nothing is assumed of
\* the server it waits for.
KeepsThePromise == Promise!Spec

----------------------------------------------------------------------------
(* What holds in every state, and carries the properties from step to step. *)

Running == {"starting", "bound", "ready", "exited"}

\* What each place of the call says about the two processes.
PlacesHold ==
  /\ result = "none" <=> pc # "returned"
  /\ n = 1 => child[2] = "none"
  /\ n = 2 => child[1] = "reaped"
  /\ pc = "spawn" => child[n] = "none" /\ ~connected
  /\ pc \in {"check", "probe", "budget"} \/ result = "child" => child[n] \in Running
  /\ result \in {"NotReady", "dropped"} => child[n] = "reaped"
  /\ result = "Unavailable" => child[n] \in {"none", "reaped"}

\* The first attempt ends within its budget and a sleep if there is a second.
TimeHolds ==
  /\ elapsed <= Budget + Poll + ProbeTicks
  /\ pc \in {"check", "probe"} => elapsed <= Budget + Poll
  /\ n = 1 => total = elapsed
  /\ n = 2 => total <= Budget + Poll + elapsed
  /\ pc = "spawn" => total <= Budget + Poll /\ (n = 1 => total = 0)

\* A port of ours is the one this attempt's server bound.
OwnersHold ==
  \A p \in Ports : owner[p] \in Attempts =>
    p = port /\ owner[p] = n /\ child[n] \in {"bound", "ready"}

\* Who is to blame for a server that is gone.
BlameHolds ==
  /\ child[n] = "exited" => n \in lost \cup crashed
  /\ n = 2 => 1 \in lost \cup crashed
  /\ \A a \in lost : child[a] \in {"exited", "reaped"}

LaunchInvariant ==
  /\ TypeOK /\ PlacesHold /\ TimeHolds /\ OwnersHold /\ BlameHolds
  /\ UnheardRaceIsRetried
==============================================================================
