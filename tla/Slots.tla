-------------------------------- MODULE Slots --------------------------------
(***************************************************************************)
(* The table of children and every thread that works on it: request        *)
(* threads, the resident loader, the reaper and Router::stop               *)
(* (proxy.rs, proxy/loaded.rs, proxy/slots, proxy/residents.rs,            *)
(* proxy/reaper.rs, and the part of proxy/answer.rs that holds a child).   *)
(*                                                                         *)
(* A step is what happens under one acquisition of one lock, or outside    *)
(* every lock: reading one slot of a snapshot, taking one slot, dropping   *)
(* one child, are steps other threads can come between.  The release of a  *)
(* lock is part of the last step under it.                                 *)
(*                                                                         *)
(* An Arc<Child> is a process with handles on it: one in a slot, and one   *)
(* in the hand of each thread that cloned or took it.  The drop of the     *)
(* last handle kills the process and waits for it (launch.rs, Drop).       *)
(*                                                                         *)
(* Instants are ages in ticks, so that time can pass for ever in finitely  *)
(* many states; MaxAge is where an age stops being told from a larger one. *)
(***************************************************************************)
EXTENDS Admission

CONSTANTS
  Requests,       \* request threads: one connection, one request each
  Loader,         \* the thread of residents::load
  Reaper,         \* the thread of reaper::run
  Stopper,        \* the thread that calls Router::stop
  Limit,          \* Budget.limit_mib, or None
  Measurements,   \* what the probe can read of a child once it is ready
  DeviceMiB,      \* memory of the device, or None when there is none to ask
  Outside,        \* what processes outside the router can hold of it
  Wait,           \* the admission wait, in ticks; 0 refuses at once
  IdleWindow,     \* the idle window, in ticks; 0 is none, and no reaper
  Stops,          \* who may call Router::stop: "caller", "signal", or nobody
  MaxAge          \* bound on the ages

Admitters == Requests \cup {Loader}
Threads == Admitters \cup {Reaper, Stopper}

\* A thread starts at most one process for an entry, so the two name it.
Procs == Admitters \X Entries
EntryOf(p) == p[2]

\* proxy::loaded::Loaded, with the measurement as the figures made of it.
Loaded == [child : Procs, cost : Nat, device : Nat, last : 0..MaxAge]

ASSUME SlotsAssumption ==
  /\ Loader \notin Requests
  /\ Reaper \notin Admitters
  /\ Stopper \notin Admitters \cup {Reaper}
  /\ None \notin Threads
  /\ None \notin Loaded
  /\ Limit \in Nat \cup {None}
  /\ DeviceMiB \in Nat \cup {None}
  /\ Outside \subseteq Nat
  /\ Measurements \subseteq [resident : Nat \cup {None}, device : Nat \cup {None}]
  /\ Wait \in Nat
  /\ IdleWindow \in Nat
  /\ MaxAge \in Nat
  /\ Stops \subseteq {"caller", "signal"}

VARIABLES
  slot,       \* Slots.by_id: what each entry's slot holds
  proc,       \* the state of each llama-server process
  hand,       \* the handles each thread holds outside the slots
  pc,         \* where each thread is
  want,       \* the entry each request, or the loader, is after
  admission,  \* who holds the admission lock
  view,       \* the admission holder's snapshot of the slots
  next,       \* the slot that snapshot reads next
  free,       \* the admission holder's device reading
  todo,       \* what its decision has left to unload
  left,       \* ticks to its deadline
  warm,       \* the residents the loader has not come to yet
  failures,   \* Shared.resident_failures
  at,         \* the slot the reaper's walk reads next
  expired,    \* what the reaper's sweep has left to take
  old,        \* entries last used a window or more before the sweep's "now"
  uncleared,  \* the slots Router::stop has not emptied yet
  stopped,    \* the Stop flag
  signalled,  \* whether it was a signal that called stop
  running     \* whether the router process still runs

admitting == <<admission, view, next, free, todo, left>>
sweeping  == <<at, expired, old>>
stopping  == <<uncleared, stopped, signalled, running>>
vars == <<slot, proc, hand, pc, want, admission, view, next, free, todo, left,
          warm, failures, at, expired, old, uncleared, stopped, signalled, running>>

----------------------------------------------------------------------------
(* Where a thread can be. *)

\* Between taking the admission lock and releasing it.
AdmittingPcs == {"recheck", "file", "probe", "snapshot", "decide", "unload",
                 "unloading", "hold", "start", "loading", "insert"}

\* launch::Failure.
Failures == {"NotReady", "Unavailable", "Refused", "Contended"}

RequestPcs == {"new", "fast", "queue", "relay", "touch", "drop", "done"}
                 \cup AdmittingPcs \cup Failures
ReaperPcs == {"off", "wait", "exited", "window", "snapshot", "take", "sweep"}
StopperPcs == {"idle", "clear", "drop", "signal", "done"}

TypeOK ==
  /\ slot \in [Entries -> Loaded \cup {None}]
  /\ proc \in [Procs -> {"none", "loading", "ready", "exited", "gone"}]
  /\ hand \in [Threads -> SUBSET Procs]
  /\ pc \in [Threads -> RequestPcs \cup ReaperPcs \cup StopperPcs]
  /\ want \in [Admitters -> Entries]
  /\ admission \in Admitters \cup {None}
  /\ view \in [Entries -> Held \cup {None}]
  /\ next \in 1..(N + 1)
  /\ free \in Nat \cup {None}
  /\ todo \subseteq Entries
  /\ left \in 0..Wait
  /\ warm \subseteq Resident
  /\ failures \subseteq Resident
  /\ at \in Entries
  /\ expired \subseteq Entries
  /\ old \subseteq Entries
  /\ uncleared \subseteq Entries
  /\ stopped \in BOOLEAN
  /\ signalled \in BOOLEAN
  /\ running \in BOOLEAN

Init ==
  /\ slot = [e \in Entries |-> None]
  /\ proc = [p \in Procs |-> "none"]
  /\ hand = [t \in Threads |-> {}]
  /\ pc = [t \in Threads |-> CASE t = Reaper  -> IF IdleWindow = 0 THEN "off" ELSE "wait"
                               [] t = Stopper -> "idle"
                               [] OTHER       -> "new"]
  /\ want = [t \in Admitters |-> 1]
  /\ admission = None
  /\ view = [e \in Entries |-> None]
  /\ next = 1
  /\ free = None
  /\ todo = {}
  /\ left = 0
  /\ warm = Resident
  /\ failures = {}
  /\ at = 1
  /\ expired = {}
  /\ old = {}
  /\ uncleared = {}
  /\ stopped = FALSE
  /\ signalled = FALSE
  /\ running = TRUE

Goto(t, where) == pc' = [pc EXCEPT ![t] = where]

----------------------------------------------------------------------------
(* Handles and slots (proxy/loaded.rs). *)

Occupied(e) == slot[e] # None

\* Arc::strong_count > 1 on a slot's handle.
Busy(e) == \E t \in Threads : slot[e].child \in hand[t]

\* exited: only a slot that holds the sole handle asks the process.
Exited(e) == Occupied(e) /\ ~Busy(e) /\ proc[slot[e].child] = "exited"

\* What Drop for Child does once no handle is left: kill, then wait.
Reap(S) == proc' = [p \in Procs |-> IF p \in S THEN "gone" ELSE proc[p]]

LastHandles_EveryHandle(t, S) == S

\* The processes whose only handle is the one thread t holds.
LastHandles(t, S) ==
  {p \in S : /\ \A e \in Entries : Occupied(e) => slot[e].child # p
             /\ \A u \in Threads \ {t} : p \notin hand[u]}

\* A thread drops handles it holds.
Drop(t, S) ==
  /\ Reap(LastHandles(t, S))
  /\ hand' = [hand EXCEPT ![t] = @ \ S]

Empty(e) == slot' = [slot EXCEPT ![e] = None]

\* last_used = Instant::now().
Stamp(e) ==
  /\ slot' = [slot EXCEPT ![e].last = 0]
  /\ old' = old \ {e}

\* live_child found one: stamped and cloned under the slot's lock.
HandOut(t, e) ==
  /\ Occupied(e) /\ ~Exited(e)
  /\ Stamp(e)
  /\ hand' = [hand EXCEPT ![t] = {slot[e].child}]
  /\ UNCHANGED proc

\* live_child found none, dropping a dead child if that is what there was.
NoneLive(t, e) ==
  /\ ~Occupied(e) \/ Exited(e)
  /\ Empty(e)
  /\ Reap(IF Occupied(e) THEN {slot[e].child} ELSE {})
  /\ UNCHANGED <<hand, old>>

Takeable_Busy(e, also) == Occupied(e) /\ also

\* The outcomes of take_if_idle, with the caller's condition.
Takeable(e, also) == Occupied(e) /\ ~Busy(e) /\ also

Take(t, e) ==
  /\ hand' = [hand EXCEPT ![t] = {slot[e].child}]
  /\ Empty(e)

----------------------------------------------------------------------------
(* Asking for a child (Slots::child and Slots::admit). *)

\* Where a thread goes with the child it was handed, and with a failure: the
\* loader keeps neither, and goes on to the next resident.
Served(t) == IF t = Loader THEN "drop" ELSE "relay"

Fail(t, why) ==
  /\ Goto(t, IF t = Loader THEN "new" ELSE why)
  /\ failures' = IF t = Loader THEN failures \cup {want[t]} ELSE failures

\* The admission guard goes, and with it everything its holder had on its stack.
Unlock ==
  /\ admission' = None
  /\ view' = [e \in Entries |-> None]
  /\ next' = 1
  /\ free' = None
  /\ todo' = {}
  /\ left' = 0

\* answer::to, up to the catalog's entry for the model the caller named.
Arrive(t, e) ==
  /\ pc[t] = "new"
  /\ want' = [want EXCEPT ![t] = e]
  /\ Goto(t, "fast")
  /\ UNCHANGED <<slot, proc, hand, admitting, warm, failures, sweeping, stopping>>

\* residents::load turns to the next resident in catalog order.
Warm(e) ==
  /\ pc[Loader] = "new"
  /\ e \in warm /\ \A f \in warm : e <= f
  /\ warm' = warm \ {e}
  /\ want' = [want EXCEPT ![Loader] = e]
  /\ Goto(Loader, "fast")
  /\ UNCHANGED <<slot, proc, hand, admitting, failures, sweeping, stopping>>

\* Slots::child: the fast path, which takes no admission lock.
Fast(t) ==
  /\ pc[t] = "fast"
  /\ \/ HandOut(t, want[t]) /\ Goto(t, Served(t))
     \/ NoneLive(t, want[t]) /\ Goto(t, "queue")
  /\ UNCHANGED <<want, admitting, warm, failures, at, expired, stopping>>

Lock_Shared(t) ==
  /\ pc[t] = "queue"
  /\ admission' = t
  /\ Goto(t, "recheck")
  /\ UNCHANGED <<slot, proc, hand, want, view, next, free, todo, left,
                 warm, failures, sweeping, stopping>>

Lock(t) ==
  /\ pc[t] = "queue"
  /\ admission = None
  /\ admission' = t
  /\ Goto(t, "recheck")
  /\ UNCHANGED <<slot, proc, hand, want, view, next, free, todo, left,
                 warm, failures, sweeping, stopping>>

Recheck_Skipped(t) ==
  /\ pc[t] = "recheck"
  /\ Goto(t, "file")
  /\ UNCHANGED <<slot, proc, hand, want, admitting, warm, failures, sweeping, stopping>>

\* Checked again, because another request may have started this very entry.
Recheck(t) ==
  /\ pc[t] = "recheck"
  /\ \/ HandOut(t, want[t]) /\ Unlock /\ Goto(t, Served(t))
     \/ NoneLive(t, want[t]) /\ Goto(t, "file") /\ UNCHANGED admitting
  /\ UNCHANGED <<want, warm, failures, at, expired, stopping>>

\* Server::model_file, before anything is unloaded; then make_room's deadline.
ModelFile(t) ==
  /\ pc[t] = "file"
  /\ \/ Goto(t, "probe") /\ left' = Wait /\ UNCHANGED <<failures, admission, view, next, free, todo>>
     \/ Fail(t, "Unavailable") /\ Unlock
  /\ UNCHANGED <<slot, proc, hand, want, warm, sweeping, stopping>>

----------------------------------------------------------------------------
(* Making room (slots/room.rs). *)

\* The processes that hold memory.
Holding == {p \in Procs : proc[p] \in {"loading", "ready"}}

\* What the device reports: everything on the machine is counted.
Readings ==
  IF DeviceMiB = None THEN {None}
  ELSE LET ours == SumFunction([p \in Holding |-> DeviceNeed(EntryOf(p))])
       IN  {r \in 0..DeviceMiB : \E o \in Outside : r = SaturatingSub(DeviceMiB, o + ours)}

Probe_Rearmed(t) ==
  /\ pc[t] = "probe"
  /\ free' \in Readings
  /\ view' = [e \in Entries |-> None]
  /\ next' = 1
  /\ left' = Wait
  /\ Goto(t, "snapshot")
  /\ UNCHANGED <<slot, proc, hand, want, admission, todo, warm, failures, sweeping, stopping>>

\* The top of make_room's loop: ask the device, then walk the slots.
Probe(t) ==
  /\ pc[t] = "probe"
  /\ free' \in Readings
  /\ view' = [e \in Entries |-> None]
  /\ next' = 1
  /\ Goto(t, "snapshot")
  /\ UNCHANGED <<slot, proc, hand, want, admission, todo, left, warm, failures,
                 sweeping, stopping>>

\* Slots::held for one entry.
HeldNow(e) ==
  IF Occupied(e)
  THEN [cost |-> slot[e].cost, device |-> slot[e].device, busy |-> Busy(e), age |-> slot[e].last]
  ELSE None

Snapshot(t) ==
  /\ pc[t] = "snapshot"
  /\ view' = [view EXCEPT ![next] = HeldNow(next)]
  /\ next' = next + 1
  /\ Goto(t, IF next = N THEN "decide" ELSE "snapshot")
  /\ UNCHANGED <<slot, proc, hand, want, admission, free, todo, left, warm, failures,
                 sweeping, stopping>>

\* One Decision and what make_room does with it.
Decide(t) ==
  LET said == Admit(view, want[t], Limit, free)
  IN  /\ pc[t] = "decide"
      /\ \/ /\ said.kind = "Fits"
            /\ Goto(t, "start")
            /\ UNCHANGED <<admitting, failures>>
         \/ /\ said.kind = "Unload"
            /\ todo' = said.ids
            /\ Goto(t, "unload")
            /\ UNCHANGED <<admission, view, next, free, left, failures>>
         \/ /\ said.kind = "Blocked"
            /\ Goto(t, "hold")
            /\ UNCHANGED <<admitting, failures>>
         \/ /\ said.kind = "Refuse"
            /\ Fail(t, "Refused")
            /\ Unlock
      /\ UNCHANGED <<slot, proc, hand, want, warm, sweeping, stopping>>

\* Slots::unload, one id: coldest first, the busy signal read again.
Unload(t) ==
  /\ pc[t] = "unload"
  /\ \/ /\ todo = {}
        /\ Goto(t, "start")
        /\ UNCHANGED <<slot, hand, todo, old>>
     \/ \E e \in todo :
          /\ \A f \in todo \ {e} : Colder(view, e, f)
          /\ \/ /\ Takeable(e, TRUE)
                /\ Take(t, e)
                /\ todo' = todo \ {e}
                /\ Goto(t, "unloading")
             \/ /\ Occupied(e) /\ ~Takeable(e, TRUE)
                /\ Goto(t, "hold")
                /\ todo' = {}
                /\ UNCHANGED <<slot, hand>>
             \/ /\ ~Occupied(e)
                /\ todo' = todo \ {e}
                /\ UNCHANGED <<slot, hand, pc>>
          /\ UNCHANGED old
  /\ UNCHANGED <<proc, want, admission, view, next, free, left, warm, failures,
                 at, expired, stopping>>

\* The first victim's end is taken for room enough.
Unloading_First(t) ==
  /\ pc[t] = "unloading"
  /\ Drop(t, hand[t])
  /\ Goto(t, "start")
  /\ UNCHANGED <<slot, want, admitting, warm, failures, sweeping, stopping>>

\* The taken child is dropped after its slot's guard, under the admission lock.
Unloading(t) ==
  /\ pc[t] = "unloading"
  /\ Drop(t, hand[t])
  /\ Goto(t, "unload")
  /\ UNCHANGED <<slot, want, admitting, warm, failures, sweeping, stopping>>

\* The wait counted down pass by pass, one pass too many.
Hold_Counted(t) ==
  /\ pc[t] = "hold"
  /\ \/ left < 0 /\ Fail(t, "Contended") /\ Unlock
     \/ /\ left >= 0
        /\ left' = left - 1
        /\ Goto(t, "probe")
        /\ UNCHANGED <<admission, view, next, free, todo, failures>>
  /\ UNCHANGED <<slot, proc, hand, want, warm, sweeping, stopping>>

\* The room is held: give up at the deadline, or sleep and ask again.
Hold(t) ==
  /\ pc[t] = "hold"
  /\ \/ left = 0 /\ Fail(t, "Contended") /\ Unlock
     \/ left > 0 /\ Goto(t, "probe") /\ UNCHANGED <<admitting, failures>>
  /\ UNCHANGED <<slot, proc, hand, want, warm, sweeping, stopping>>

----------------------------------------------------------------------------
(* Starting the child (slots/start.rs; Launch models Server::start). *)

Spawn(t) ==
  /\ pc[t] = "start"
  /\ \/ /\ proc' = [proc EXCEPT ![<<t, want[t]>>] = "loading"]
        /\ hand' = [hand EXCEPT ![t] = {<<t, want[t]>>}]
        /\ Goto(t, "loading")
        /\ UNCHANGED <<admitting, failures>>
     \/ /\ Fail(t, "Unavailable")
        /\ Unlock
        /\ UNCHANGED <<proc, hand>>
  /\ UNCHANGED <<slot, want, warm, sweeping, stopping>>

\* Server::start returned a child that answers, or an error and no process.
Load(t) ==
  /\ pc[t] = "loading"
  /\ \/ /\ proc' = [proc EXCEPT ![<<t, want[t]>>] = "ready"]
        /\ Goto(t, "insert")
        /\ UNCHANGED <<hand, admitting, failures>>
     \/ \E why \in {"NotReady", "Unavailable"} :
          /\ Drop(t, hand[t])
          /\ Fail(t, why)
          /\ Unlock
  /\ UNCHANGED <<slot, want, warm, sweeping, stopping>>

\* Measured, then put in the slot with the caller's handle beside it.
Insert(t) ==
  /\ pc[t] = "insert"
  /\ \E m \in Measurements :
       slot' = [slot EXCEPT ![want[t]] = [child  |-> <<t, want[t]>>,
                                          cost   |-> CostOf(want[t], m),
                                          device |-> DeviceOf(want[t], m),
                                          last   |-> 0]]
  /\ old' = old \ {want[t]}
  /\ Unlock
  /\ Goto(t, Served(t))
  /\ UNCHANGED <<proc, hand, want, warm, failures, at, expired, stopping>>

----------------------------------------------------------------------------
(* Serving from the child (answer::to). *)

\* The relay ends, or the caller is gone before the interim line reaches it.
Relay(t) ==
  /\ pc[t] = "relay"
  /\ \/ Goto(t, "touch")
     \/ Goto(t, "drop")
  /\ UNCHANGED <<slot, proc, hand, want, admitting, warm, failures, sweeping, stopping>>

\* Slots::touch, with the child still held.
Touch(t) ==
  /\ pc[t] = "touch"
  /\ IF Occupied(want[t]) THEN Stamp(want[t]) ELSE UNCHANGED <<slot, old>>
  /\ Goto(t, "drop")
  /\ UNCHANGED <<proc, hand, want, admitting, warm, failures, at, expired, stopping>>

\* The request's handle goes, and the process with it if it was the last.
Release(t) ==
  /\ pc[t] = "drop"
  /\ Drop(t, hand[t])
  /\ Goto(t, IF t = Loader THEN "new" ELSE "done")
  /\ UNCHANGED <<slot, want, admitting, warm, failures, sweeping, stopping>>

----------------------------------------------------------------------------
(* The reaper (proxy/reaper.rs, slots/sweep.rs). *)

reaperLeaves == <<want, admitting, warm, failures, stopping>>

\* Stop::wait returned: signalled, or the deadline arrived.
Wake ==
  /\ pc[Reaper] = "wait"
  /\ Goto(Reaper, IF stopped THEN "off" ELSE "exited")
  /\ UNCHANGED <<slot, proc, hand, sweeping, reaperLeaves>>

\* sweep_exited, one slot: whatever its residency.
SweepExited ==
  /\ pc[Reaper] = "exited"
  /\ IF Exited(at) THEN Empty(at) /\ Reap({slot[at].child}) ELSE UNCHANGED <<slot, proc>>
  /\ at' = IF at = N THEN 1 ELSE at + 1
  /\ Goto(Reaper, IF at = N THEN "window" ELSE "exited")
  /\ UNCHANGED <<hand, expired, old, reaperLeaves>>

\* sweep_idle reads the clock: from here on, a later use makes an entry fresh.
SweepNow ==
  /\ pc[Reaper] = "window"
  /\ old' = {e \in Entries : Occupied(e) /\ slot[e].last >= IdleWindow}
  /\ Goto(Reaper, "snapshot")
  /\ UNCHANGED <<slot, proc, hand, at, expired, reaperLeaves>>

\* IdleWindow::expired over one slot of the snapshot.
SweepSnapshot ==
  /\ pc[Reaper] = "snapshot"
  /\ expired' = IF Occupied(at) /\ at \notin Resident /\ ~Busy(at) /\ at \in old
                THEN expired \cup {at} ELSE expired
  /\ at' = IF at = N THEN 1 ELSE at + 1
  /\ Goto(Reaper, IF at = N THEN "take" ELSE "snapshot")
  /\ UNCHANGED <<slot, proc, hand, old, reaperLeaves>>

SweepTake_Trusting ==
  /\ pc[Reaper] = "take"
  /\ \/ expired = {} /\ Goto(Reaper, "wait") /\ old' = {} /\ UNCHANGED <<slot, hand, expired>>
     \/ \E e \in expired :
          /\ expired' = expired \ {e}
          /\ IF Takeable(e, TRUE)
             THEN Take(Reaper, e) /\ Goto(Reaper, "sweep")
             ELSE UNCHANGED <<slot, hand, pc>>
          /\ UNCHANGED old
  /\ UNCHANGED <<proc, at, reaperLeaves>>

\* take_if_idle with the age read again.  Coldest first; an entry used since
\* the snapshot is not taken, so its own place in the order does not matter,
\* and ages at their bound may differ, in either order.
SweepTake ==
  /\ pc[Reaper] = "take"
  /\ \/ expired = {} /\ Goto(Reaper, "wait") /\ old' = {} /\ UNCHANGED <<slot, hand, expired>>
     \/ \E e \in expired :
          /\ \A f \in expired : (Occupied(e) /\ Occupied(f)) =>
                 \/ slot[f].last < slot[e].last
                 \/ slot[f].last = slot[e].last /\ (e <= f \/ slot[e].last = MaxAge)
          /\ expired' = expired \ {e}
          /\ IF Takeable(e, e \in old)
             THEN Take(Reaper, e) /\ Goto(Reaper, "sweep")
             ELSE UNCHANGED <<slot, hand, pc>>
          /\ UNCHANGED old
  /\ UNCHANGED <<proc, at, reaperLeaves>>

\* swept drops the child outside the slot's guard, and under no other lock.
SweepDrop ==
  /\ pc[Reaper] = "sweep"
  /\ Drop(Reaper, hand[Reaper])
  /\ Goto(Reaper, "take")
  /\ UNCHANGED <<slot, sweeping, reaperLeaves>>

----------------------------------------------------------------------------
(* Router::stop (proxy.rs, Slots::clear) and the signal handler (main.rs). *)

stopperLeaves == <<want, admitting, warm, failures, sweeping>>

\* A program that embeds the router calls stop, or main.rs's signal handler does.
StopCalled(by) ==
  /\ pc[Stopper] = "idle"
  /\ uncleared' = Entries
  /\ signalled' = (by = "signal")
  /\ Goto(Stopper, "clear")
  /\ UNCHANGED <<slot, proc, hand, stopped, running, stopperLeaves>>

Clear_Forgetful(e) ==
  /\ pc[Stopper] = "clear"
  /\ e \in uncleared
  /\ uncleared' = uncleared \ {e}
  /\ Empty(e)
  /\ Goto(Stopper, IF uncleared = {e} THEN "drop" ELSE "clear")
  /\ UNCHANGED <<proc, hand, stopped, signalled, running, stopperLeaves>>

\* clear takes each slot in the map's own order, readers or none.
Clear(e) ==
  /\ pc[Stopper] = "clear"
  /\ e \in uncleared
  /\ uncleared' = uncleared \ {e}
  /\ Empty(e)
  /\ hand' = [hand EXCEPT ![Stopper] = IF Occupied(e) THEN @ \cup {slot[e].child} ELSE @]
  /\ Goto(Stopper, IF uncleared = {e} THEN "drop" ELSE "clear")
  /\ UNCHANGED <<proc, stopped, signalled, running, stopperLeaves>>

\* The children taken are dropped one by one, then the reaper is signalled.
ClearDrop ==
  /\ pc[Stopper] = "drop"
  /\ \/ \E p \in hand[Stopper] : Drop(Stopper, {p}) /\ UNCHANGED <<pc, stopped>>
     \/ /\ hand[Stopper] = {}
        /\ stopped' = TRUE
        /\ Goto(Stopper, "signal")
        /\ UNCHANGED <<proc, hand>>
  /\ UNCHANGED <<slot, uncleared, signalled, running, stopperLeaves>>

\* stop returns; after a signal the process exits, zero, without waiting for any
\* other thread.
StopReturns ==
  /\ pc[Stopper] = "signal"
  /\ Goto(Stopper, "done")
  /\ running' = ~signalled
  /\ UNCHANGED <<slot, proc, hand, uncleared, stopped, signalled, stopperLeaves>>

\* A second signal ends the process at once, with a failing status.
SecondSignal ==
  /\ signalled
  /\ pc[Stopper] \in {"clear", "drop", "signal"}
  /\ running' = FALSE
  /\ UNCHANGED <<slot, proc, hand, pc, uncleared, stopped, signalled, stopperLeaves>>

----------------------------------------------------------------------------
(* The machine. *)

\* A child that is serving, or could be, exits on its own.
Crash(p) ==
  /\ proc[p] = "ready"
  /\ proc' = [proc EXCEPT ![p] = "exited"]
  /\ UNCHANGED <<slot, hand, pc, want, admitting, warm, failures, sweeping, stopping>>

Older(a) == IF a < MaxAge THEN a + 1 ELSE a

Tick ==
  /\ slot' = [e \in Entries |-> IF Occupied(e)
                                THEN [slot[e] EXCEPT !.last = Older(@)] ELSE None]
  /\ view' = [e \in Entries |-> IF view[e] # None
                                THEN [view[e] EXCEPT !.age = Older(@)] ELSE None]
  /\ left' = IF left > 0 THEN left - 1 ELSE 0
  /\ <<slot', view', left'>> # <<slot, view, left>>
  /\ UNCHANGED <<proc, hand, pc, want, admission, next, free, todo, warm, failures,
                 sweeping, stopping>>

----------------------------------------------------------------------------
\* Everything a thread does for a request once it has arrived, except to wait
\* for the caller and the child to finish talking.
Work(t) ==
  \/ Fast(t) \/ Lock(t) \/ Recheck(t) \/ ModelFile(t) \/ Probe(t) \/ Snapshot(t)
  \/ Decide(t) \/ Unload(t) \/ Unloading(t) \/ Hold(t) \/ Spawn(t) \/ Load(t)
  \/ Insert(t) \/ Touch(t) \/ Release(t)

Sweep == Wake \/ SweepExited \/ SweepNow \/ SweepSnapshot \/ SweepTake \/ SweepDrop

Stop ==
  \/ \E by \in Stops : StopCalled(by)
  \/ \E e \in Entries : Clear(e)
  \/ ClearDrop
  \/ StopReturns
  \/ SecondSignal

Next ==
  \/ /\ running
     /\ \/ \E t \in Requests, e \in Entries : Arrive(t, e)
        \/ \E e \in Entries : Warm(e)
        \/ \E t \in Admitters : Work(t)
        \/ \E t \in Requests : Relay(t)
        \/ Sweep
        \/ Stop
        \/ Tick
  \/ \E p \in Procs : Crash(p)

Spec == Init /\ [][Next]_vars
\* The scheduler runs every thread and time passes; callers may stay silent for
\* ever, so nothing is assumed of Arrive and of Relay.
Fairness ==
  /\ \A t \in Admitters : WF_vars(running /\ Work(t))
  /\ WF_vars(running /\ \E e \in Entries : Warm(e))
  /\ WF_vars(running /\ Tick)

LiveSpec == Spec /\ Fairness

----------------------------------------------------------------------------
(* Properties. *)

Existing == {p \in Procs : proc[p] \in {"loading", "ready", "exited"}}

\* While a request relays, and until it has stamped the slot, the one child it
\* holds is a process of the entry it asked for that nobody has reaped:
\* neither eviction, nor a sweep, nor stop ends an answer somebody is reading.
ReaderKeepsItsChild ==
  \A t \in Requests : pc[t] \in {"relay", "touch"} =>
    \E p \in Existing : hand[t] = {p} /\ EntryOf(p) = want[t] /\ proc[p] # "loading"

\* Every process that exists is in a slot or in the hand of a thread.
EveryProcessIsHeld ==
  \A p \in Existing :
    \/ \E e \in Entries : Occupied(e) /\ slot[e].child = p
    \/ \E t \in Threads : p \in hand[t]

\* While the router runs no interleaving of loads, evictions, sweeps, crashes
\* and stop leaves a server that nothing in the router will ever end.  A router
\* that has exited drops nothing: OnlyAnswersLeftBehind is about what it leaves.
NothingIsOrphaned == running => EveryProcessIsHeld

\* From the second look under the admission lock to the insertion, the slot of
\* the entry being loaded stays empty, so Slots::admit never overwrites a child
\* (which would drop it, perhaps under a reader) and never loads a second one.
LoadsIntoAnEmptySlot ==
  \A t \in Admitters :
    pc[t] \in AdmittingPcs \ {"recheck"} => ~Occupied(want[t])

\* What the slots of a set of entries are charged for.
Full == {e \in Entries : Occupied(e)}
Charged(S) == SumFunction([e \in S |-> slot[e].cost])

\* A load in progress fits: what the slots are charged for, at measured cost,
\* and the estimate of the model being loaded stay within the budget, whatever
\* was taken, swept or cleared since the snapshot the decision was made on.
LoadFitsTheLedger ==
  \A t \in Admitters :
    (pc[t] \in {"start", "loading", "insert"} /\ Limit # None) =>
      Charged(Full) + Estimate[want[t]] <= Limit

\* The machine agrees with the ledger: the estimates of all the processes that
\* hold memory stay within the budget.
WithinBudget ==
  Limit # None => SumFunction([p \in Holding |-> Estimate[EntryOf(p)]]) <= Limit

\* No entry is ever served by two processes at once.
OneChildPerEntry ==
  \A p, q \in Existing : EntryOf(p) = EntryOf(q) => p = q

\* A resident leaves its slot only by exiting on its own or by Router::stop,
\* never to make room and never for sitting idle.
ResidentStays ==
  [][\A e \in Resident :
       (Occupied(e) /\ slot'[e] = None) =>
          proc[slot[e].child] = "exited" \/ pc[Stopper] = "clear"]_vars

\* A sweep never takes a model that was used within the window, even when that
\* use came between the sweep's snapshot and its taking.
SweepSparesTheUsed ==
  [][\A e \in Entries :
       (pc[Reaper] = "take" /\ pc'[Reaper] = "sweep" /\ Occupied(e) /\ slot'[e] = None)
         => slot[e].last >= IdleWindow]_vars

\* A request that queues for admission gets a child or an answer, although the
\* readers holding the room may never finish: the wait is bounded, and so is
\* every wait in front of it.
AdmissionEnds ==
  \A t \in Admitters :
    (pc[t] = "queue") ~> (pc[t] \notin {"queue"} \cup AdmittingPcs)

----------------------------------------------------------------------------
(* Why the invariants above are invariants. *)

\* A thread between Lock and Unlock is the one the lock names, and its walk
\* over the slots is within them.
LockIsExclusive ==
  \A t \in Admitters :
    /\ pc[t] \in AdmittingPcs => admission = t
    /\ pc[t] = "snapshot" => next \in Entries

\* A slot holds a child of its own entry that was ready once and is not reaped.
SlotsHoldTheirOwn ==
  \A e \in Entries : Occupied(e) =>
    EntryOf(slot[e].child) = e /\ proc[slot[e].child] \in {"ready", "exited"}

\* What each thread has in hand where it is.
NothingInHand ==
  {"new", "fast", "queue", "recheck", "file", "probe", "snapshot", "decide", "unload",
   "hold", "start", "done"} \cup Failures

HandsMatchPlaces ==
  /\ \A t \in Threads : hand[t] \subseteq Existing
  /\ \A t \in Admitters :
       /\ pc[t] \in NothingInHand => hand[t] = {}
       /\ pc[t] \in {"loading", "insert"} => hand[t] = {<<t, want[t]>>}
       /\ pc[t] = "insert" => proc[<<t, want[t]>>] # "loading"
       /\ pc[t] \in {"relay", "touch"} =>
            \E p \in Existing : hand[t] = {p} /\ EntryOf(p) = want[t] /\ proc[p] # "loading"
  /\ pc[Reaper] # "sweep" => hand[Reaper] = {}

\* The process a thread is about to start does not exist yet.
BeforeStart == {"fast", "queue"} \cup (AdmittingPcs \ {"loading", "insert"})

StartsAreFresh ==
  /\ \A t \in Requests : pc[t] \in {"new"} \cup BeforeStart =>
       \A e \in Entries : proc[<<t, e>>] = "none"
  /\ \A e \in warm : proc[<<Loader, e>>] = "none"
  /\ pc[Loader] # "new" => want[Loader] \in Resident \ warm
  /\ pc[Loader] \in BeforeStart => proc[<<Loader, want[Loader]>>] = "none"

\* What is about to be unloaded or swept is no resident, and what the sweep
\* calls old is.
VictimsAreFair ==
  /\ todo \cap Resident = {}
  /\ expired \cap Resident = {}
  /\ \A e \in old : Occupied(e) => slot[e].last >= IdleWindow

\* The inductive invariant of the table of children.
SlotsInvariant ==
  /\ TypeOK
  /\ LockIsExclusive
  /\ SlotsHoldTheirOwn
  /\ HandsMatchPlaces
  /\ StartsAreFresh
  /\ VictimsAreFair
  /\ EveryProcessIsHeld
  /\ LoadsIntoAnEmptySlot

\* The snapshot has whatever the slots it has read hold, at the cost they are
\* charged for, and nothing of the entry being loaded.
SnapshotIsFaithful ==
  \A t \in Admitters : pc[t] \in {"snapshot", "decide"} =>
    /\ view[want[t]] = None
    /\ \A e \in Full : (pc[t] = "decide" \/ e < next) =>
         view[e] # None /\ view[e].cost = slot[e].cost

\* Once what is left to unload has gone, the model being loaded fits.
UnloadingMakesRoom ==
  \A t \in Admitters :
    (pc[t] \in {"unload", "unloading"} /\ Limit # None) =>
      Charged(Full \ todo) + Estimate[want[t]] <= Limit

\* The inductive invariant of the ledger, beside SlotsInvariant.
LedgerInvariant ==
  /\ SnapshotIsFaithful
  /\ UnloadingMakesRoom
  /\ LoadFitsTheLedger

\* A router that neither sweeps nor is stopped.
OnlyRequests == IdleWindow = 0 /\ Stops = {}

NobodyTakesTheIdle ==
  /\ pc[Reaper] = "off"
  /\ pc[Stopper] = "idle"
  /\ hand[Stopper] = {}

InItsSlot(p) == Occupied(EntryOf(p)) /\ slot[EntryOf(p)].child = p

\* Where the one child is that no slot holds.
Carrying == {"loading", "insert", "unloading"}

\* Every process is in its entry's slot, or in the hand of the one thread that
\* is loading it or ending it, and then its entry's slot is empty.
EveryChildHasItsPlace ==
  /\ \A p \in Existing :
       \/ InItsSlot(p)
       \/ \E t \in Admitters : pc[t] \in Carrying /\ p \in hand[t]
  /\ \A t \in Admitters : \A p \in hand[t] :
       IF pc[t] \in Carrying THEN hand[t] = {p} /\ ~Occupied(EntryOf(p)) ELSE InItsSlot(p)

\* A slot is never charged less than its entry's estimate.
ChargesCoverEstimates ==
  \A e \in Full : slot[e].cost >= Estimate[e]

\* The processes that exist fit the budget, those that have exited and are not
\* reaped included.
ExistingFit ==
  Limit # None => SumFunction([p \in Existing |-> Estimate[EntryOf(p)]]) <= Limit

\* The inductive invariant of the machine's memory, for OnlyRequests.
BudgetInvariant ==
  /\ NobodyTakesTheIdle
  /\ EveryChildHasItsPlace
  /\ ChargesCoverEstimates
  /\ ExistingFit

----------------------------------------------------------------------------
\* What README.md says a signalled router leaves behind: a child that is
\* mid-answer, and nothing else.
OnlyAnswersLeftBehind ==
  (~running /\ pc[Stopper] = "done") =>
    \A p \in Holding : \E t \in Requests : p \in hand[t] /\ pc[t] \in {"relay", "touch", "drop"}
==============================================================================
