---------------------------- MODULE ReaperProofs ----------------------------
(***************************************************************************)
(* The reaper's timing for every window, interval and sweep: an idle model *)
(* goes in time, and not before its time.                                  *)
(***************************************************************************)
EXTENDS Reaper, TLAPS

\* The interval, and with it the slack, is a number the schedule can count in.
LEMMA Figures ==
  /\ Window \in Nat /\ Window > 0
  /\ Slow \in Nat /\ MaxLag \in Nat /\ MaxReaders \in Nat
  /\ Interval \in Nat
  /\ Larger(Interval, Slow) \in Nat
  /\ Interval <= Larger(Interval, Slow) /\ Slow <= Larger(Interval, Slow)
  /\ MaxAge = Window + Larger(Interval, Slow) + Slow
<1>1. Window \div 2 \in Nat
  BY ReaperAssumption
<1>2. Interval \in Nat
  BY <1>1, ReaperAssumption DEF Interval, Larger
<1>. QED BY <1>2, ReaperAssumption DEF Larger, MaxAge

\* Reaper.Init: nothing is loaded and the first deadline is an interval away.
LEMMA InitHolds == Init => ReaperInvariant
<1>. SUFFICES ASSUME Init PROVE ReaperInvariant
  OBVIOUS
<1>1. TypeOK
  <2>1. expired \in BOOLEAN /\ overran \in BOOLEAN
    BY Zenon DEF Init
  <2>. QED BY <2>1, Figures DEF Init, TypeOK
<1>2. ScheduleHolds
  BY Figures DEF Init, ScheduleHolds, Sweeping
<1>3. ReadersHold /\ StampsHold /\ IdleHolds /\ OffWhenSignalled
  BY Figures DEF Init, ReadersHold, StampsHold, IdleHolds, OffWhenSignalled, Busy
<1>. QED BY <1>1, <1>2, <1>3 DEF ReaperInvariant

----------------------------------------------------------------------------
(* One lemma per action. *)

\* A request is handed a child and stamps the slot.
LEMMA RequestKeeps ==
  ASSUME ReaperInvariant, Request
  PROVE  ReaperInvariant'
<1>. USE Figures DEF ReaperInvariant, Request, uses, schedule
<1>1. TypeOK'
  BY DEF TypeOK, Sweeping, ScheduleHolds, ReadersHold
<1>2. ScheduleHolds'
  BY DEF TypeOK, ScheduleHolds, Sweeping
<1>3. StampsHold'
  BY DEF TypeOK, StampsHold, ReadersHold, Busy
<1>4. IdleHolds'
  BY DEF TypeOK, ScheduleHolds, StampsHold, IdleHolds, Busy, Stale, Slack, Larger, Sweeping
<1>5. ReadersHold' /\ OffWhenSignalled'
  BY DEF TypeOK, ReadersHold, OffWhenSignalled
<1>. QED BY <1>1, <1>2, <1>3, <1>4, <1>5

\* A relay ends: the stamp and the answer are one moment.
LEMMA RelayedKeeps ==
  ASSUME ReaperInvariant, Relayed
  PROVE  ReaperInvariant'
<1>. USE Figures DEF ReaperInvariant, Relayed, uses, schedule
<1>1. TypeOK'
  BY DEF TypeOK, Sweeping, ScheduleHolds, ReadersHold
<1>2. ScheduleHolds'
  BY DEF TypeOK, ScheduleHolds, Sweeping
<1>3. StampsHold'
  BY DEF TypeOK, StampsHold, ReadersHold, Busy
<1>4. IdleHolds'
  BY DEF TypeOK, ScheduleHolds, StampsHold, IdleHolds, Busy, Stale, Slack, Larger, Sweeping
<1>5. ReadersHold' /\ OffWhenSignalled'
  BY DEF TypeOK, ReadersHold, OffWhenSignalled
<1>. QED BY <1>1, <1>2, <1>3, <1>4, <1>5

\* A request that leaves unstamped leaves the model idle from now on.
LEMMA HungUpKeeps ==
  ASSUME ReaperInvariant, HungUp
  PROVE  ReaperInvariant'
<1>. USE Figures DEF ReaperInvariant, HungUp, uses, schedule
<1>1. TypeOK'
  BY DEF TypeOK, Sweeping, ScheduleHolds, ReadersHold
<1>2. ScheduleHolds'
  BY DEF TypeOK, ScheduleHolds, Sweeping
<1>3. StampsHold'
  BY DEF TypeOK, StampsHold, ReadersHold, Busy
<1>4. IdleHolds'
  BY DEF TypeOK, ScheduleHolds, StampsHold, IdleHolds, Busy, Stale, Slack, Larger, Sweeping
<1>5. ReadersHold' /\ OffWhenSignalled'
  BY DEF TypeOK, ReadersHold, OffWhenSignalled
<1>. QED BY <1>1, <1>2, <1>3, <1>4, <1>5

\* A request that has stamped the slot leaves it idle from now on.
LEMMA ReleaseKeeps ==
  ASSUME ReaperInvariant, Release
  PROVE  ReaperInvariant'
<1>. USE Figures DEF ReaperInvariant, Release, uses, schedule
<1>1. TypeOK'
  BY DEF TypeOK, Sweeping, ScheduleHolds, ReadersHold
<1>2. ScheduleHolds'
  BY DEF TypeOK, ScheduleHolds, Sweeping
<1>3. StampsHold'
  BY DEF TypeOK, StampsHold, ReadersHold, Busy
<1>4. IdleHolds'
  BY DEF TypeOK, ScheduleHolds, StampsHold, IdleHolds, Busy, Stale, Slack, Larger, Sweeping
<1>5. ReadersHold' /\ OffWhenSignalled'
  BY DEF TypeOK, ReadersHold, OffWhenSignalled
<1>. QED BY <1>1, <1>2, <1>3, <1>4, <1>5

\* An exit changes neither stamps nor schedule.
LEMMA CrashKeeps ==
  ASSUME ReaperInvariant, Crash
  PROVE  ReaperInvariant'
<1>. USE Figures DEF ReaperInvariant, Crash, uses, schedule
<1>1. TypeOK'
  BY DEF TypeOK, Sweeping, ScheduleHolds, ReadersHold
<1>2. ScheduleHolds'
  BY DEF TypeOK, ScheduleHolds, Sweeping
<1>3. StampsHold'
  BY DEF TypeOK, StampsHold, ReadersHold, Busy
<1>4. IdleHolds'
  BY DEF TypeOK, ScheduleHolds, StampsHold, IdleHolds, Busy, Stale, Slack, Larger, Sweeping
<1>5. ReadersHold' /\ OffWhenSignalled'
  BY DEF TypeOK, ReadersHold, OffWhenSignalled
<1>. QED BY <1>1, <1>2, <1>3, <1>4, <1>5

\* Router::stop takes the child and ends the promise.
LEMMA ClearKeeps ==
  ASSUME ReaperInvariant, Clear
  PROVE  ReaperInvariant'
<1>. USE Figures DEF ReaperInvariant, Clear, uses, schedule
<1>1. TypeOK'
  BY DEF TypeOK, Sweeping, ScheduleHolds, ReadersHold
<1>2. ScheduleHolds'
  BY DEF TypeOK, ScheduleHolds, Sweeping
<1>3. StampsHold'
  BY DEF TypeOK, StampsHold, ReadersHold, Busy
<1>4. IdleHolds'
  BY DEF TypeOK, ScheduleHolds, StampsHold, IdleHolds, Busy, Stale, Slack, Larger, Sweeping
<1>5. ReadersHold' /\ OffWhenSignalled'
  BY DEF TypeOK, ReadersHold, OffWhenSignalled
<1>. QED BY <1>1, <1>2, <1>3, <1>4, <1>5

\* Router::stop sets the flag.
LEMMA SignalKeeps ==
  ASSUME ReaperInvariant, Signal
  PROVE  ReaperInvariant'
<1>. USE Figures DEF ReaperInvariant, Signal, uses, schedule
<1>1. TypeOK'
  BY DEF TypeOK, Sweeping, ScheduleHolds, ReadersHold
<1>2. ScheduleHolds'
  BY DEF TypeOK, ScheduleHolds, Sweeping
<1>3. StampsHold'
  BY DEF TypeOK, StampsHold, ReadersHold, Busy
<1>4. IdleHolds'
  BY DEF TypeOK, ScheduleHolds, StampsHold, IdleHolds, Busy, Stale, Slack, Larger, Sweeping
<1>5. ReadersHold' /\ OffWhenSignalled'
  BY DEF TypeOK, ReadersHold, OffWhenSignalled
<1>. QED BY <1>1, <1>2, <1>3, <1>4, <1>5

\* A request whose child was cleared only freshens the stamp.
LEMMA OutsideEndsKeeps ==
  ASSUME ReaperInvariant, OutsideEnds
  PROVE  ReaperInvariant'
<1>. USE Figures DEF ReaperInvariant, OutsideEnds, uses, schedule
<1>1. TypeOK'
  BY DEF TypeOK, Sweeping, ScheduleHolds, ReadersHold
<1>2. ScheduleHolds'
  BY DEF TypeOK, ScheduleHolds, Sweeping
<1>3. StampsHold'
  BY DEF TypeOK, StampsHold, ReadersHold, Busy
<1>4. IdleHolds'
  BY DEF TypeOK, ScheduleHolds, StampsHold, IdleHolds, Busy, Stale, Slack, Larger, Sweeping
<1>5. ReadersHold' /\ OffWhenSignalled'
  BY DEF TypeOK, ReadersHold, OffWhenSignalled
<1>. QED BY <1>1, <1>2, <1>3, <1>4, <1>5

\* A signalled reaper ends.
LEMMA EndsKeeps ==
  ASSUME ReaperInvariant, Ends
  PROVE  ReaperInvariant'
<1>. USE Figures DEF ReaperInvariant, Ends, uses, schedule
<1>1. TypeOK'
  BY DEF TypeOK, Sweeping, ScheduleHolds, ReadersHold
<1>2. ScheduleHolds'
  BY DEF TypeOK, ScheduleHolds, Sweeping
<1>3. StampsHold'
  BY DEF TypeOK, StampsHold, ReadersHold, Busy
<1>4. IdleHolds'
  BY DEF TypeOK, ScheduleHolds, StampsHold, IdleHolds, Busy, Stale, Slack, Larger, Sweeping
<1>5. ReadersHold' /\ OffWhenSignalled'
  BY DEF TypeOK, ReadersHold, OffWhenSignalled
<1>. QED BY <1>1, <1>2, <1>3, <1>4, <1>5

\* The deadline has passed, so the slack is used up and the sweep's time begins.
LEMMA WakeKeeps ==
  ASSUME ReaperInvariant, Wake
  PROVE  ReaperInvariant'
<1>. USE Figures DEF ReaperInvariant, Wake, uses, schedule
<1>1. TypeOK'
  BY DEF TypeOK, Sweeping, ScheduleHolds, ReadersHold
<1>2. ScheduleHolds'
  BY DEF TypeOK, ScheduleHolds, Sweeping
<1>3. StampsHold'
  BY DEF TypeOK, StampsHold, ReadersHold, Busy
<1>4. IdleHolds'
  BY DEF TypeOK, ScheduleHolds, StampsHold, IdleHolds, Busy, Stale, Slack, Larger, Sweeping
<1>5. ReadersHold' /\ OffWhenSignalled'
  BY DEF TypeOK, ReadersHold, OffWhenSignalled
<1>. QED BY <1>1, <1>2, <1>3, <1>4, <1>5

\* A dead child may leave, and nothing else changes.
LEMMA SweepExitedKeeps ==
  ASSUME ReaperInvariant, SweepExited
  PROVE  ReaperInvariant'
<1>. USE Figures DEF ReaperInvariant, SweepExited, uses, schedule
<1>1. TypeOK'
  BY DEF TypeOK, Sweeping, ScheduleHolds, ReadersHold
<1>2. ScheduleHolds'
  BY DEF TypeOK, ScheduleHolds, Sweeping
<1>3. StampsHold'
  BY DEF TypeOK, StampsHold, ReadersHold, Busy
<1>4. IdleHolds'
  BY DEF TypeOK, ScheduleHolds, StampsHold, IdleHolds, Busy, Stale, Slack, Larger, Sweeping
<1>5. ReadersHold' /\ OffWhenSignalled'
  BY DEF TypeOK, ReadersHold, OffWhenSignalled
<1>. QED BY <1>1, <1>2, <1>3, <1>4, <1>5

\* The sweep reads its clock.
LEMMA SweepNowKeeps ==
  ASSUME ReaperInvariant, SweepNow
  PROVE  ReaperInvariant'
<1>. USE Figures DEF ReaperInvariant, SweepNow, uses, schedule
<1>1. TypeOK'
  BY DEF TypeOK, Sweeping, ScheduleHolds, ReadersHold
<1>2. ScheduleHolds'
  BY DEF TypeOK, ScheduleHolds, Sweeping
<1>3. StampsHold'
  BY DEF TypeOK, StampsHold, ReadersHold, Busy
<1>4. IdleHolds'
  BY DEF TypeOK, ScheduleHolds, StampsHold, IdleHolds, Busy, Stale, Slack, Larger, Sweeping
<1>5. ReadersHold' /\ OffWhenSignalled'
  BY DEF TypeOK, ReadersHold, OffWhenSignalled
<1>. QED BY <1>1, <1>2, <1>3, <1>4, <1>5

\* What the snapshot leaves out was idle for less than a window at the clock.
LEMMA SweepSnapshotKeeps ==
  ASSUME ReaperInvariant, SweepSnapshot
  PROVE  ReaperInvariant'
<1>. USE Figures DEF ReaperInvariant, SweepSnapshot, uses, schedule
<1>1. TypeOK'
  BY DEF TypeOK, Sweeping, ScheduleHolds, ReadersHold
<1>2. ScheduleHolds'
  BY DEF TypeOK, ScheduleHolds, Sweeping
<1>3. StampsHold'
  BY DEF TypeOK, StampsHold, ReadersHold, Busy
<1>4. IdleHolds'
  <2>. SUFFICES ASSUME stopped = "no", ~Busy, child # "none"
                PROVE  idle < Window + Slack + spent /\ (~expired' => idle - clock < Window)
    BY DEF IdleHolds, Busy, Slack
  <2>1. idle < Window + Slack + spent
    BY DEF IdleHolds
  <2>2. ASSUME ~expired' PROVE idle - clock < Window
    <3>1. ~Stale
      BY <2>2
    <3>. QED BY <3>1 DEF Stale, StampsHold, TypeOK
  <2>. QED BY <2>1, <2>2
<1>5. ReadersHold' /\ OffWhenSignalled'
  BY DEF TypeOK, ReadersHold, OffWhenSignalled
<1>. QED BY <1>1, <1>2, <1>3, <1>4, <1>5

\* What the take leaves was idle for less than a window at the clock.
LEMMA SweepTakeKeeps ==
  ASSUME ReaperInvariant, SweepTake
  PROVE  ReaperInvariant'
<1>. USE Figures DEF ReaperInvariant, SweepTake, uses, schedule
<1>1. TypeOK'
  BY DEF TypeOK, Sweeping, ScheduleHolds, ReadersHold
<1>2. ScheduleHolds'
  BY DEF TypeOK, ScheduleHolds, Sweeping
<1>3. StampsHold'
  BY DEF TypeOK, StampsHold, ReadersHold, Busy
<1>4. IdleHolds'
  <2>. SUFFICES ASSUME stopped = "no", ~Busy
                PROVE  /\ child' # "none" => idle - clock < Window
                       /\ (child' = "none" /\ expired) => idle < Window + Slack + spent
    BY DEF IdleHolds, Busy, Slack
  <2>1. ASSUME child' # "none" PROVE idle - clock < Window
    <3>1. child # "none" /\ (~expired \/ ~Stale)
      BY <2>1
    <3>2. CASE ~expired
      BY <3>1, <3>2 DEF IdleHolds
    <3>3. CASE ~Stale
      BY <3>1, <3>3 DEF Stale, StampsHold, TypeOK
    <3>. QED BY <3>1, <3>2, <3>3
  <2>2. ASSUME child' = "none", expired PROVE idle < Window + Slack + spent
    BY <2>2 DEF IdleHolds
  <2>. QED BY <2>1, <2>2
<1>5. ReadersHold' /\ OffWhenSignalled'
  BY DEF TypeOK, ReadersHold, OffWhenSignalled
<1>. QED BY <1>1, <1>2, <1>3, <1>4, <1>5

\* The sweep took no longer than its clock and its deadline tell.
LEMMA SweepDoneKeeps ==
  ASSUME ReaperInvariant, SweepDone
  PROVE  ReaperInvariant'
<1>. USE Figures DEF ReaperInvariant, SweepDone, uses, schedule
<1>1. TypeOK'
  <2>1. expired' \in BOOLEAN
    BY Zenon
  <2>. QED BY <2>1 DEF TypeOK
<1>2. ScheduleHolds'
  BY DEF TypeOK, ScheduleHolds, Sweeping
<1>3. StampsHold'
  BY DEF TypeOK, StampsHold, ReadersHold, Busy
<1>4. IdleHolds'
  BY DEF TypeOK, ScheduleHolds, StampsHold, IdleHolds, Busy, Stale, Slack, Larger, Sweeping
<1>5. ReadersHold' /\ OffWhenSignalled'
  BY DEF TypeOK, ReadersHold, OffWhenSignalled
<1>. QED BY <1>1, <1>2, <1>3, <1>4, <1>5

\* Time passes for the model and for the schedule alike.
LEMMA TickKeeps ==
  ASSUME ReaperInvariant, Tick
  PROVE  ReaperInvariant'
<1>. USE Figures DEF ReaperInvariant, Tick, uses, schedule, Older, MayPass
<1>1. TypeOK'
  <2>1. last' \in 0..MaxAge /\ answered' \in 0..Window /\ idle' \in 0..MaxAge
    BY DEF TypeOK
  <2>2. /\ due' \in (-MaxLag)..Interval /\ spent' \in 0..Slow
        /\ clock' \in 0..Slow /\ overran' \in BOOLEAN
    <3>1. CASE pc \in Sweeping
      BY <3>1 DEF TypeOK, ScheduleHolds, Sweeping
    <3>2. CASE pc \notin Sweeping
      BY <3>2 DEF TypeOK
    <3>. QED BY <3>1, <3>2
  <2>. QED BY <2>1, <2>2 DEF TypeOK
<1>2. ScheduleHolds'
  <2>1. CASE pc \in Sweeping
    <3>1. ~overran' => spent + 1 <= Interval
      <4>1. overran' = (overran \/ spent + 1 > Interval) /\ spent \in Nat
        BY <2>1 DEF TypeOK
      <4>2. ~overran' => ~(spent + 1 > Interval)
        BY <4>1, Zenon
      <4>. QED BY <4>1, <4>2
    <3>2. due' + spent' <= Interval
      BY <2>1 DEF TypeOK, ScheduleHolds
    <3>. QED BY <2>1, <3>1, <3>2 DEF TypeOK, ScheduleHolds, Sweeping
  <2>2. CASE pc \notin Sweeping
    BY <2>2 DEF TypeOK, ScheduleHolds, Sweeping
  <2>. QED BY <2>1, <2>2
<1>3. StampsHold'
  BY DEF TypeOK, StampsHold, ReadersHold, Busy
<1>4. IdleHolds'
  BY DEF TypeOK, ScheduleHolds, StampsHold, IdleHolds, Busy, Stale, Slack, Larger, Sweeping
<1>5. ReadersHold' /\ OffWhenSignalled'
  BY DEF TypeOK, ReadersHold, OffWhenSignalled
<1>. QED BY <1>1, <1>2, <1>3, <1>4, <1>5

----------------------------------------------------------------------------
\* A stuttering step keeps it.
LEMMA StutterKeeps ==
  ASSUME ReaperInvariant, UNCHANGED vars
  PROVE  ReaperInvariant'
BY DEF ReaperInvariant, vars, TypeOK, ReadersHold, ScheduleHolds, StampsHold, IdleHolds,
       OffWhenSignalled, Busy, Slack

\* The invariant of the reaper's timing: every reachable state has a schedule
\* within its slack and a model idle for no longer than the sweeps explain.
THEOREM ReaperInvariantHolds == Spec => []ReaperInvariant
<1>1. ReaperInvariant /\ [Next]_vars => ReaperInvariant'
  <2>. SUFFICES ASSUME ReaperInvariant, [Next]_vars PROVE ReaperInvariant'
    OBVIOUS
  <2>1. CASE Request
    BY <2>1, RequestKeeps
  <2>2. CASE Relayed
    BY <2>2, RelayedKeeps
  <2>3. CASE HungUp
    BY <2>3, HungUpKeeps
  <2>4. CASE Release
    BY <2>4, ReleaseKeeps
  <2>5. CASE Crash
    BY <2>5, CrashKeeps
  <2>6. CASE Clear
    BY <2>6, ClearKeeps
  <2>7. CASE Signal
    BY <2>7, SignalKeeps
  <2>8. CASE OutsideEnds
    BY <2>8, OutsideEndsKeeps
  <2>9. CASE Ends
    BY <2>9, EndsKeeps
  <2>10. CASE Wake
    BY <2>10, WakeKeeps
  <2>11. CASE SweepExited
    BY <2>11, SweepExitedKeeps
  <2>12. CASE SweepNow
    BY <2>12, SweepNowKeeps
  <2>13. CASE SweepSnapshot
    BY <2>13, SweepSnapshotKeeps
  <2>14. CASE SweepTake
    BY <2>14, SweepTakeKeeps
  <2>15. CASE SweepDone
    BY <2>15, SweepDoneKeeps
  <2>16. CASE Tick
    BY <2>16, TickKeeps
  <2>17. CASE UNCHANGED vars
    BY <2>17, StutterKeeps
  <2>. QED BY <2>1, <2>2, <2>3, <2>4, <2>5, <2>6, <2>7, <2>8, <2>9, <2>10, <2>11, <2>12, <2>13, <2>14, <2>15, <2>16, <2>17 DEF Next
<1>. QED BY InitHolds, <1>1, PTL DEF Spec

\* Every variable of the reaper's timing keeps its range: the ages, the lag and
\* the time a sweep has taken stay within their bounds.
THEOREM ReaperTypes == Spec => []TypeOK
<1>1. ReaperInvariant => TypeOK
  BY DEF ReaperInvariant
<1>. QED BY <1>1, ReaperInvariantHolds, PTL

\* An idle on-demand model is gone within the window, the slack and one sweep:
\* one and a half windows plus one sweep while no sweep outlasts the interval.
THEOREM IdleModelsGoInTime == Spec => []UnloadedInTime
<1>1. ReaperInvariant => UnloadedInTime
  <2>. SUFFICES ASSUME ReaperInvariant, stopped = "no", ~Busy,
                       child # "none" \/ (pc = "drop" /\ expired)
                PROVE  idle < Window + Slack + Slow
    BY DEF UnloadedInTime
  <2>1. Slack \in Nat
    BY Figures DEF ReaperInvariant, TypeOK, Slack
  <2>2. pc # "off"
    BY DEF ReaperInvariant, OffWhenSignalled
  <2>3. CASE pc = "wait"
    BY <2>1, <2>3, Figures DEF ReaperInvariant, TypeOK, IdleHolds, Larger
  <2>4. CASE pc \in {"exited", "clock", "snapshot", "take"}
    BY <2>1, <2>4, Figures DEF ReaperInvariant, TypeOK, IdleHolds
  <2>5. CASE pc = "drop"
    BY <2>1, <2>5, Figures DEF ReaperInvariant, TypeOK, IdleHolds
  <2>. QED BY <2>2, <2>3, <2>4, <2>5 DEF ReaperInvariant, TypeOK, Sweeping
<1>. QED BY <1>1, ReaperInvariantHolds, PTL

\* A live model is taken no sooner than a window after an answer ended, although
\* the sweep's snapshot and its take are different moments.
THEOREM NoModelGoesEarly == Spec => UnloadedNotBefore
<1>1. ReaperInvariant /\ [Next]_vars =>
        [(pc = "take" /\ child = "live" /\ child' = "none" /\ pc' = "drop")
            => answered >= Window]_vars
  <2>. SUFFICES ASSUME ReaperInvariant, Next,
                       pc = "take", child = "live", child' = "none", pc' = "drop"
                PROVE  answered >= Window
    OBVIOUS
  <2>1. SweepTake
    BY DEF Next, Request, Relayed, HungUp, Release, Crash, Clear, Signal, OutsideEnds, Ends,
           Wake, SweepExited, SweepNow, SweepSnapshot, SweepDone, Tick
  <2>2. last >= Window
    BY <2>1, Figures DEF SweepTake, Stale, ReaperInvariant, TypeOK
  <2>. QED BY <2>2, Figures DEF ReaperInvariant, StampsHold, TypeOK
<1>. QED BY <1>1, ReaperInvariantHolds, PTL DEF Spec, UnloadedNotBefore
=============================================================================
