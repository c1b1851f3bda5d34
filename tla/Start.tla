-------------------------------- MODULE Start --------------------------------
(***************************************************************************)
(* What Server::start promises the table of children, and all of it that   *)
(* Slots relies on: one call ends, with a child whose process exists or    *)
(* with an error and no process at all.                                    *)
(***************************************************************************)
VARIABLES
  phase,   \* "asked", "loading", "child", "failed", and "dropped" at the end
  live     \* whether a process of this call exists, exited ones included

vars == <<phase, live>>

Init == phase = "asked" /\ live = FALSE

\* The server is spawned, and perhaps spawned again.
Work ==
  /\ phase \in {"asked", "loading"}
  /\ phase' = "loading"
  /\ live' \in BOOLEAN

Succeed == phase = "loading" /\ live /\ phase' = "child" /\ UNCHANGED live

Fail == phase \in {"asked", "loading"} /\ phase' = "failed" /\ live' = FALSE

\* The caller lets the child go.
DropChild == phase = "child" /\ phase' = "dropped" /\ live' = FALSE

Next == Work \/ Succeed \/ Fail \/ DropChild

\* The call returns.
Returns == <>(phase \in {"child", "failed", "dropped"})

Spec == Init /\ [][Next]_vars /\ Returns
==============================================================================
