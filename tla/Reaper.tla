------------------------------- MODULE Reaper -------------------------------
(***************************************************************************)
(* When an idle model goes: the reaper's chain of deadlines, the clock its *)
(* sweep reads, and the stamps requests leave (proxy/reaper.rs, idle.rs,   *)
(* proxy/slots/sweep.rs, proxy/answer.rs).                                 *)
(*                                                                         *)
(* Slots lets the reaper wake at any time; here time is counted, for one   *)
(* on-demand entry.  The other entries are the time a sweep spends on      *)
(* them.  Every figure is relative to the present, in ticks, so that time  *)
(* can pass for ever in finitely many states.                              *)
(***************************************************************************)
EXTENDS Integers

CONSTANTS
  Window,       \* the idle window
  MinInterval,  \* MIN_INTERVAL
  Slow,         \* the longest a sweep takes
  MaxLag,       \* bound on how far the deadlines fall behind slow sweeps
  MaxReaders    \* bound on the requests that hold the child at once

ASSUME ReaperAssumption ==
  /\ Window \in Nat \ {0}
  /\ MinInterval \in Nat \ {0}
  /\ Slow \in Nat
  /\ MaxLag \in Nat
  /\ MaxReaders \in Nat

Larger(a, b) == IF a > b THEN a ELSE b

Interval == Larger(Window \div 2, MinInterval)

\* What a model's idle time stays below: it can miss a sweep's clock by a moment,
\* and then waits for the next sweep, and for that sweep to come to it.  Ages from
\* here on are not told apart.
MaxAge == Window + Larger(Interval, Slow) + Slow

VARIABLES
  child,     \* what the slot holds: "none", "live", or "dead" (it exited)
  relaying,  \* requests between the hand-out and the end of their relay
  leaving,   \* requests that have stamped the slot and still hold the child
  last,      \* age of last_used
  answered,  \* time since a relay ended, up to a window
  outside,   \* requests whose child Router::stop took from the slot
  idle,      \* time since a request last let go of the child
  pc,        \* where the reaper is
  due,       \* time to its next deadline, negative when that has passed
  spent,     \* time the current sweep has taken
  clock,     \* time since the current sweep read the clock
  expired,   \* whether its snapshot listed the entry
  overran,   \* whether a sweep ever took longer than the interval
  stopped    \* Router::stop: "no", "cleared" (the slots), "signalled" (the flag)

uses == <<relaying, leaving, outside, last, answered, idle>>
schedule == <<due, spent, overran>>
vars == <<child, relaying, leaving, outside, last, answered, idle, pc, due, spent, clock,
          expired, overran, stopped>>

Sweeping == {"exited", "clock", "snapshot", "take", "drop"}

TypeOK ==
  /\ child \in {"none", "live", "dead"}
  /\ relaying \in 0..MaxReaders
  /\ leaving \in 0..MaxReaders
  /\ outside \in 0..MaxReaders
  /\ last \in 0..MaxAge
  /\ answered \in 0..Window
  /\ idle \in 0..MaxAge
  /\ pc \in {"wait", "off"} \cup Sweeping
  /\ due \in (-MaxLag)..Interval
  /\ spent \in 0..Slow
  /\ clock \in 0..Slow
  /\ expired \in BOOLEAN
  /\ overran \in BOOLEAN
  /\ stopped \in {"no", "cleared", "signalled"}

\* run takes its first deadline from the time it starts at.
Init ==
  /\ child = "none"
  /\ relaying = 0
  /\ leaving = 0
  /\ outside = 0
  /\ last = 0
  /\ answered = Window
  /\ idle = 0
  /\ pc = "wait"
  /\ due = Interval
  /\ spent = 0
  /\ clock = 0
  /\ expired = FALSE
  /\ overran = FALSE
  /\ stopped = "no"

Busy == relaying + leaving > 0

\* stale, and the condition of IdleWindow::expired: both against the clock as
\* the sweep read it.
Stale == last - clock >= Window

----------------------------------------------------------------------------
(* Requests. *)

\* A request is handed the child, a live one or a dead one with readers, or
\* loads one; either stamps the slot.
Request ==
  /\ relaying + leaving + outside < MaxReaders
  /\ child' = IF child = "dead" /\ Busy THEN "dead" ELSE "live"
  /\ relaying' = relaying + 1
  /\ last' = 0
  /\ UNCHANGED <<leaving, outside, answered, idle, pc, schedule, clock, expired, stopped>>

Relayed_Unstamped ==
  /\ relaying > 0
  /\ relaying' = relaying - 1
  /\ leaving' = leaving + 1
  /\ answered' = 0
  /\ UNCHANGED <<child, outside, last, idle, pc, schedule, clock, expired, stopped>>

\* The relay ends and the slot is touched with the child still held.
Relayed ==
  /\ relaying > 0
  /\ relaying' = relaying - 1
  /\ leaving' = leaving + 1
  /\ last' = 0
  /\ answered' = 0
  /\ UNCHANGED <<child, outside, idle, pc, schedule, clock, expired, stopped>>

\* The caller went before the interim line reached it: no touch.
HungUp ==
  /\ relaying > 0
  /\ relaying' = relaying - 1
  /\ idle' = 0
  /\ UNCHANGED <<child, leaving, outside, last, answered, pc, schedule, clock, expired, stopped>>

\* A request that has touched the slot lets the child go.
Release ==
  /\ leaving > 0
  /\ leaving' = leaving - 1
  /\ idle' = 0
  /\ UNCHANGED <<child, relaying, outside, last, answered, pc, schedule, clock, expired, stopped>>

Crash ==
  /\ child = "live"
  /\ child' = "dead"
  /\ UNCHANGED <<uses, pc, schedule, clock, expired, stopped>>

\* Router::stop: the slot is cleared, readers or none, and then the flag is set.
Clear ==
  /\ stopped = "no"
  /\ stopped' = "cleared"
  /\ child' = "none"
  /\ outside' = relaying + leaving
  /\ relaying' = 0
  /\ leaving' = 0
  /\ UNCHANGED <<last, answered, idle, pc, schedule, clock, expired>>

Signal ==
  /\ stopped = "cleared"
  /\ stopped' = "signalled"
  /\ UNCHANGED <<child, uses, pc, schedule, clock, expired>>

\* A request whose child was cleared ends, touching whatever the slot holds now.
OutsideEnds ==
  /\ outside > 0
  /\ outside' = outside - 1
  /\ last' \in IF child = "none" THEN {last} ELSE {last, 0}
  /\ UNCHANGED <<child, relaying, leaving, answered, idle, pc, schedule, clock, expired, stopped>>

----------------------------------------------------------------------------
(* The reaper. *)

\* Stop::wait returned because it was signalled.
Ends ==
  /\ pc = "wait"
  /\ stopped = "signalled"
  /\ pc' = "off"
  /\ UNCHANGED <<child, uses, schedule, clock, expired, stopped>>

\* The wait left before its deadline.
Wake_Eager ==
  /\ pc = "wait"
  /\ stopped # "signalled"
  /\ pc' = "exited"
  /\ due' = due + Interval
  /\ spent' = 0
  /\ UNCHANGED <<child, uses, overran, clock, expired, stopped>>

\* Stop::wait returned because the deadline arrived, or had passed already.
\* The next one is that deadline plus the interval.
Wake ==
  /\ pc = "wait"
  /\ stopped # "signalled"
  /\ due <= 0
  /\ pc' = "exited"
  /\ due' = due + Interval
  /\ spent' = 0
  /\ UNCHANGED <<child, uses, overran, clock, expired, stopped>>

\* sweep_exited reaches this slot.
SweepExited ==
  /\ pc = "exited"
  /\ child' = IF child = "dead" /\ ~Busy THEN "none" ELSE child
  /\ pc' = "clock"
  /\ UNCHANGED <<uses, schedule, clock, expired, stopped>>

\* sweep_idle reads the clock.
SweepNow ==
  /\ pc = "clock"
  /\ clock' = 0
  /\ pc' = "snapshot"
  /\ UNCHANGED <<child, uses, schedule, expired, stopped>>

SweepSnapshot ==
  /\ pc = "snapshot"
  /\ expired' = (child # "none" /\ ~Busy /\ Stale)
  /\ pc' = "take"
  /\ UNCHANGED <<child, uses, schedule, clock, stopped>>

\* take_if_idle, when the sweep comes to this entry.
SweepTake ==
  /\ pc = "take"
  /\ child' = IF expired /\ ~Busy /\ Stale THEN "none" ELSE child
  /\ pc' = "drop"
  /\ UNCHANGED <<uses, schedule, clock, expired, stopped>>

\* What the deadline chain is there to prevent: each deadline a whole interval
\* after the end of the sweep before it.
SweepDone_Drifting ==
  /\ pc = "drop"
  /\ pc' = "wait"
  /\ due' = Interval
  /\ spent' = 0
  /\ clock' = 0
  /\ expired' = FALSE
  /\ UNCHANGED <<child, uses, overran, stopped>>

\* The drops are over, this entry's and the others', and run loops.
SweepDone ==
  /\ pc = "drop"
  /\ pc' = "wait"
  /\ spent' = 0
  /\ clock' = 0
  /\ expired' = FALSE
  /\ UNCHANGED <<child, uses, due, overran, stopped>>

----------------------------------------------------------------------------
Older(a, most) == IF a < most THEN a + 1 ELSE a

\* The reaper wakes when its deadline arrives, and a sweep is not slower than
\* the slowest one.
MayPass ==
  /\ pc = "wait" => due > 0 /\ stopped # "signalled"
  /\ pc \in Sweeping => spent < Slow /\ due > -MaxLag

Tick ==
  /\ MayPass
  /\ last' = Older(last, MaxAge)
  /\ answered' = Older(answered, Window)
  /\ idle' = Older(idle, MaxAge)
  /\ IF pc \in Sweeping
     THEN /\ due' = due - 1
          /\ spent' = spent + 1
          /\ clock' = IF pc \in {"snapshot", "take", "drop"} THEN clock + 1 ELSE clock
          /\ overran' = (overran \/ spent + 1 > Interval)
     ELSE /\ due' = IF pc = "wait" THEN due - 1 ELSE due
          /\ UNCHANGED <<spent, clock, overran>>
  /\ UNCHANGED <<child, relaying, leaving, outside, pc, expired, stopped>>

Next ==
  \/ Request \/ Relayed \/ HungUp \/ Release \/ Crash \/ Clear \/ Signal
  \/ OutsideEnds
  \/ Ends \/ Wake \/ SweepExited \/ SweepNow \/ SweepSnapshot \/ SweepTake \/ SweepDone
  \/ Tick

Spec == Init /\ [][Next]_vars

----------------------------------------------------------------------------
(* Properties. *)

\* What can pass between a sweep's clock and the start of the next sweep.
Slack == IF overran THEN Larger(Interval, Slow) ELSE Interval

\* A model nobody uses is held for at most one and a half windows plus one
\* sweep (README.md; MIN_INTERVAL's comment), while no sweep outlasts the
\* interval; if one does, for the window and two sweeps.  Measured from when a
\* request last let go of it, whether or not that request stamped the slot,
\* to the end of the sweep that took it.  Router::stop ends the promise.
UnloadedInTime ==
  (/\ stopped = "no"
   /\ ~Busy
   /\ child # "none" \/ (pc = "drop" /\ expired)) =>
    idle < Window + Slack + Slow

\* A model that did not exit and was not stopped leaves its slot no sooner than
\* a window after an answer ended, however long before that it was asked for.
UnloadedNotBefore ==
  [][(pc = "take" /\ child = "live" /\ child' = "none" /\ pc' = "drop")
       => answered >= Window]_vars

----------------------------------------------------------------------------
(* Why they hold. *)

\* A sweep runs within the slack of its own deadline.
ScheduleHolds ==
  /\ pc \in Sweeping => due + spent <= Interval
  /\ pc \in {"snapshot", "take", "drop"} => clock <= spent
  /\ ~overran => spent <= Interval

\* The slot is stamped before a request lets go, and after no later answer.
StampsHold ==
  /\ (stopped = "no" /\ child # "none" /\ ~Busy) => idle <= last
  /\ last <= answered \/ answered >= Window

\* How long the model can have been idle at each place of the reaper: a sweep
\* that leaves it saw it, at its clock, idle for less than a window.
IdleHolds ==
  (stopped = "no" /\ ~Busy) =>
    /\ child # "none" =>
         /\ pc = "wait" => idle + Larger(due, 0) < Window + Slack
         /\ pc \in {"exited", "clock", "snapshot", "take"} => idle < Window + Slack + spent
         /\ (pc = "drop" \/ (pc = "take" /\ ~expired)) => idle - clock < Window
    /\ (child = "none" /\ pc \in {"take", "drop"} /\ expired) => idle < Window + Slack + spent

\* A request is counted once, and only stop takes a child from one.
ReadersHold ==
  /\ relaying + leaving + outside <= MaxReaders
  /\ stopped = "no" => outside = 0

\* Only a signalled reaper is off.
OffWhenSignalled == pc = "off" => stopped = "signalled"

\* The inductive invariant of the reaper's timing.
ReaperInvariant ==
  /\ TypeOK
  /\ ReadersHold
  /\ ScheduleHolds
  /\ StampsHold
  /\ IdleHolds
  /\ OffWhenSignalled
=============================================================================
