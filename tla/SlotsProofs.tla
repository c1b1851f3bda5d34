----------------------------- MODULE SlotsProofs -----------------------------
(***************************************************************************)
(* Proofs about Slots, for every catalog, budget and number of requests.   *)
(* SlotsInvariant is inductive; one lemma per action shows that the action *)
(* preserves it, and the theorems after it are what follows from it.       *)
(* The second half is about memory: a load in progress fits the ledger     *)
(* whatever the reaper and Router::stop do meanwhile (LedgerInvariant),    *)
(* and in a router without those two no entry has two processes and the    *)
(* machine never holds more than the budget (BudgetInvariant).             *)
(***************************************************************************)
EXTENDS Slots, AdmissionLemmas

USE DEF EntryOf

----------------------------------------------------------------------------
(* What the operators of Admission return. *)

\* The larger of two figures is one of them, and no smaller than either.
LEMMA MaxOfTwo ==
  ASSUME NEW a \in Nat, NEW b \in Nat
  PROVE  Max({a, b}) \in Nat
<1>1. \E x \in {a, b} : \A y \in {a, b} : x >= y
  <2>1. CASE a >= b BY <2>1
  <2>2. CASE b >= a BY <2>2
  <2>. QED BY <2>1, <2>2
<1>. QED BY <1>1 DEF Max

\* Loaded::of charges a whole number of MiB on both sides, whatever was read.
LEMMA ChargesAreNat ==
  ASSUME NEW e \in Entries, NEW m \in Measurements
  PROVE  CostOf(e, m) \in Nat /\ DeviceOf(e, m) \in Nat
<1>1. /\ Estimate[e] \in Nat
      /\ m.resident \in Nat \cup {None}
      /\ m.device \in Nat \cup {None}
      /\ None \notin Nat
  BY CatalogAssumption, SlotsAssumption
<1>2. DeviceNeed(e) \in Nat
  BY <1>1 DEF DeviceNeed
<1>3. Largest(m) \in Nat \cup {None}
  <2>1. CASE m.resident = None BY <1>1, <2>1 DEF Largest
  <2>2. CASE m.resident # None /\ m.device = None BY <1>1, <2>2 DEF Largest
  <2>3. CASE m.resident # None /\ m.device # None BY <1>1, <2>3, MaxOfTwo DEF Largest
  <2>. QED BY <2>1, <2>2, <2>3
<1>4. CostOf(e, m) \in Nat
  <2>. DEFINE measured == IF DeviceNeed(e) = 0 THEN m.device ELSE Largest(m)
  <2>1. measured \in Nat \cup {None} BY <1>1, <1>3
  <2>2. CASE measured = None BY <1>1, <2>2 DEF CostOf
  <2>3. CASE measured # None
    <3>1. Max({measured, Estimate[e]}) \in Nat BY <1>1, <2>1, <2>3, MaxOfTwo
    <3>. QED BY <2>3, <3>1 DEF CostOf
  <2>. QED BY <2>2, <2>3
<1>. QED BY <1>1, <1>2, <1>4 DEF DeviceOf

\* Budget::admit names entries of the catalog, and no resident.
LEMMA AdmitNamesOnDemand ==
  ASSUME NEW v, NEW w, NEW limit, NEW f
  PROVE  Admit(v, w, limit, f).ids \subseteq Entries \ Resident
<1>1. UNION Unloads(v, w, limit, f) \subseteq Candidates(v, w)
  BY DEF Unloads, ColdPrefixes
<1>2. Candidates(v, w) \subseteq Entries \ Resident
  BY DEF Candidates, LoadedIn
<1>3. Admit(v, w, limit, f).ids \in {{}, UNION Unloads(v, w, limit, f)}
  BY DEF Admit, Decision
<1>. QED BY <1>1, <1>2, <1>3

\* What the device reports is a whole number of MiB, or nothing.
LEMMA ReadingsAreNat == Readings \subseteq Nat \cup {None}
<1>1. CASE DeviceMiB = None BY <1>1 DEF Readings
<1>2. CASE DeviceMiB # None
  <2>1. 0..DeviceMiB \subseteq Nat BY <1>2, SlotsAssumption
  <2>. QED BY <1>2, <2>1 DEF Readings
<1>. QED BY <1>1, <1>2

----------------------------------------------------------------------------
(* Facts the actions share. *)

\* The threads are what they are called, and no two are the same.
LEMMA ThreadFacts ==
  /\ Requests \subseteq Admitters /\ Admitters \subseteq Threads
  /\ Loader \in Admitters \ Requests
  /\ \A t \in Admitters : t # Reaper /\ t # Stopper /\ t # None
  /\ {Reaper, Stopper} \subseteq Threads /\ Reaper # Stopper
BY SlotsAssumption DEF Admitters, Threads

\* A thread and an entry name a process, a resident being an entry.
LEMMA FreshStays ==
  ASSUME \A p \in Procs : proc[p] = "none" => proc'[p] = "none"
  PROVE  \A t \in Admitters : \A e \in Entries \cup Resident :
           proc[<<t, e>>] = "none" => proc'[<<t, e>>] = "none"
BY CatalogAssumption DEF Procs

\* What an occupied slot holds is a process that exists.
LEMMA SlotChildFacts ==
  ASSUME TypeOK, SlotsHoldTheirOwn, NEW e \in Entries, Occupied(e)
  PROVE  slot[e].child \in Procs /\ slot[e].child \in Existing
<1>1. slot[e] \in Loaded
  BY DEF TypeOK, Occupied
<1>2. slot[e].child \in Procs
  BY <1>1 DEF Loaded
<1>. QED BY <1>2 DEF SlotsHoldTheirOwn, Existing

\* The parts of the invariant that speak of slots, processes and hands alone.
LEMMA QuietStep ==
  ASSUME SlotsHoldTheirOwn, EveryProcessIsHeld, UNCHANGED <<slot, proc, hand>>
  PROVE  SlotsHoldTheirOwn' /\ EveryProcessIsHeld'
BY DEF SlotsHoldTheirOwn, EveryProcessIsHeld, Existing, Occupied

----------------------------------------------------------------------------
(* Stamping, handing out and dropping. *)

\* A stamp changes an age and nothing else, and what it stamps is not old.
LEMMA StampFacts ==
  ASSUME TypeOK, NEW e \in Entries, Occupied(e), Stamp(e)
  PROVE  /\ slot' \in [Entries -> Loaded \cup {None}]
         /\ \A f \in Entries : /\ slot'[f] = None <=> slot[f] = None
                               /\ slot[f] # None => slot'[f].child = slot[f].child
                               /\ f \in old' => f \in old /\ slot'[f] = slot[f]
<1>1. slot[e] \in Loaded
  BY DEF TypeOK, Occupied
<1>2. [slot[e] EXCEPT !.last = 0] \in Loaded /\ [slot[e] EXCEPT !.last = 0].child = slot[e].child
  BY <1>1, SlotsAssumption DEF Loaded
<1>3. slot' = [slot EXCEPT ![e] = [slot[e] EXCEPT !.last = 0]]
  BY DEF Stamp
<1>4. ASSUME NEW f \in Entries
      PROVE  /\ slot'[f] = None <=> slot[f] = None
             /\ slot[f] # None => slot'[f].child = slot[f].child
             /\ f \in old' => f \in old /\ slot'[f] = slot[f]
  <2>1. CASE f = e
    BY <1>1, <1>2, <1>3, <2>1, SlotsAssumption DEF TypeOK, Stamp
  <2>2. CASE f # e
    BY <1>3, <2>2 DEF TypeOK, Stamp
  <2>. QED BY <2>1, <2>2
<1>. QED BY <1>2, <1>3, <1>4 DEF TypeOK

\* A child handed out is the entry's own, and was in its slot.
LEMMA HandOutFacts ==
  ASSUME SlotsInvariant, NEW t \in Admitters, pc[t] \in {"fast", "recheck"},
         HandOut(t, want[t]), Goto(t, Served(t)), todo' \subseteq todo,
         UNCHANGED <<want, warm, expired>>
  PROVE  /\ slot' \in [Entries -> Loaded \cup {None}]
         /\ hand' \in [Threads -> SUBSET Procs]
         /\ old' \subseteq Entries
         /\ \A e \in Entries : slot'[e] = None <=> slot[e] = None
         /\ SlotsHoldTheirOwn' /\ HandsMatchPlaces' /\ StartsAreFresh'
         /\ VictimsAreFair' /\ EveryProcessIsHeld'
<1>. DEFINE e == want[t]
<1>. DEFINE p == slot[e].child
<1>. USE ThreadFacts
<1>1. e \in Entries /\ Occupied(e) /\ Stamp(e) /\ proc' = proc /\ hand[t] = {}
  BY DEF SlotsInvariant, TypeOK, HandOut, HandsMatchPlaces, NothingInHand
<1>2. /\ p \in Procs /\ p \in Existing /\ EntryOf(p) = e /\ proc[p] # "loading"
  BY <1>1, SlotsAssumption DEF SlotsInvariant, TypeOK, SlotsHoldTheirOwn, Occupied, Existing, Loaded
<1>3. hand' = [hand EXCEPT ![t] = {p}] /\ hand' \in [Threads -> SUBSET Procs]
  BY <1>2 DEF HandOut, SlotsInvariant, TypeOK
<1>. HIDE DEF p
<1>4. /\ slot' \in [Entries -> Loaded \cup {None}]
      /\ \A f \in Entries : /\ slot'[f] = None <=> slot[f] = None
                            /\ slot[f] # None => slot'[f].child = slot[f].child
                            /\ f \in old' => f \in old /\ slot'[f] = slot[f]
  BY <1>1, StampFacts DEF SlotsInvariant
<1>5. SlotsHoldTheirOwn'
  BY <1>1, <1>4 DEF SlotsInvariant, SlotsHoldTheirOwn, Occupied
<1>6. EveryProcessIsHeld'
  BY <1>1, <1>3, <1>4 DEF SlotsInvariant, TypeOK, EveryProcessIsHeld, Occupied, Existing
<1>7. HandsMatchPlaces'
  BY <1>1, <1>2, <1>3
     DEF SlotsInvariant, TypeOK, HandsMatchPlaces, Existing, NothingInHand, Goto, Served, Failures
<1>8. StartsAreFresh'
  BY <1>1 DEF SlotsInvariant, TypeOK, StartsAreFresh, BeforeStart, AdmittingPcs, Goto, Served
<1>9. VictimsAreFair' /\ old' \subseteq Entries
  BY <1>1, <1>4 DEF SlotsInvariant, TypeOK, VictimsAreFair, Occupied, Stamp
<1>. QED BY <1>3, <1>4, <1>5, <1>6, <1>7, <1>8, <1>9

\* Dropping handles ends no process that a slot or another thread still holds,
\* and leaves none behind that nobody holds.
LEMMA DropFacts ==
  ASSUME TypeOK, SlotsHoldTheirOwn, EveryProcessIsHeld, NEW t \in Threads,
         NEW S \in SUBSET Procs, Drop(t, S), UNCHANGED slot,
         \A u \in Threads : hand[u] \subseteq Existing
  PROVE  /\ proc' \in [Procs -> {"none", "loading", "ready", "exited", "gone"}]
         /\ hand' \in [Threads -> SUBSET Procs]
         /\ \A u \in Threads : hand'[u] = IF u = t THEN hand[t] \ S ELSE hand[u]
         /\ \A u \in Threads : \A p \in hand'[u] : proc'[p] = proc[p]
         /\ \A p \in Procs : proc[p] = "none" /\ p \notin S => proc'[p] = "none"
         /\ \A u \in Threads : hand'[u] \subseteq Existing'
         /\ SlotsHoldTheirOwn' /\ EveryProcessIsHeld'
<1>1. /\ proc' = [p \in Procs |-> IF p \in LastHandles(t, S) THEN "gone" ELSE proc[p]]
      /\ hand' = [hand EXCEPT ![t] = hand[t] \ S]
  BY DEF Drop, Reap
<1>2. /\ proc' \in [Procs -> {"none", "loading", "ready", "exited", "gone"}]
      /\ hand' \in [Threads -> SUBSET Procs]
      /\ \A u \in Threads : hand'[u] = IF u = t THEN hand[t] \ S ELSE hand[u]
  BY <1>1 DEF TypeOK
<1>3. \A u \in Threads : \A p \in hand'[u] : p \in Procs /\ p \notin LastHandles(t, S)
  BY <1>2 DEF TypeOK, LastHandles
<1>4. \A u \in Threads : \A p \in hand'[u] : proc'[p] = proc[p]
  BY <1>1, <1>3
<1>5. \A p \in Procs : proc[p] = "none" /\ p \notin S => proc'[p] = "none"
  BY <1>1 DEF LastHandles
<1>6. \A u \in Threads : hand'[u] \subseteq Existing'
  BY <1>2, <1>3, <1>4 DEF Existing
<1>7. SlotsHoldTheirOwn'
  <2>1. \A e \in Entries : Occupied(e) => slot[e].child \in Procs /\ slot[e].child \notin LastHandles(t, S)
    BY SlotsAssumption DEF TypeOK, Loaded, Occupied, LastHandles
  <2>. QED BY <1>1, <2>1 DEF SlotsHoldTheirOwn, Occupied
<1>8. EveryProcessIsHeld'
  <2>1. SUFFICES ASSUME NEW p \in Procs, p \in Existing'
                 PROVE  \/ \E e \in Entries : Occupied(e) /\ slot[e].child = p
                        \/ \E u \in Threads : p \in hand'[u]
    BY DEF EveryProcessIsHeld, Existing, Occupied
  <2>2. p \in Existing /\ p \notin LastHandles(t, S)
    BY <1>1, <2>1 DEF Existing
  <2>3. CASE p \in S
    BY <1>2, <2>2, <2>3 DEF LastHandles
  <2>4. CASE p \notin S
    BY <1>2, <2>2, <2>4 DEF EveryProcessIsHeld
  <2>. QED BY <2>3, <2>4
<1>. QED BY <1>2, <1>4, <1>5, <1>6, <1>7, <1>8

\* Emptying a slot that holds nothing, or a dead child nobody else holds.
LEMMA EmptyFacts ==
  ASSUME TypeOK, SlotsHoldTheirOwn, EveryProcessIsHeld, NEW e \in Entries,
         ~Occupied(e) \/ Exited(e), Empty(e),
         Reap(IF Occupied(e) THEN {slot[e].child} ELSE {}), UNCHANGED hand
  PROVE  /\ slot' \in [Entries -> Loaded \cup {None}]
         /\ \A f \in Entries : slot'[f] = IF f = e THEN None ELSE slot[f]
         /\ proc' \in [Procs -> {"none", "loading", "ready", "exited", "gone"}]
         /\ \A u \in Threads : \A p \in hand[u] : proc'[p] = proc[p]
         /\ \A p \in Procs : proc[p] = "none" => proc'[p] = "none"
         /\ SlotsHoldTheirOwn' /\ EveryProcessIsHeld'
<1>. DEFINE dead == IF Occupied(e) THEN {slot[e].child} ELSE {}
<1>1. /\ slot' \in [Entries -> Loaded \cup {None}]
      /\ \A f \in Entries : slot'[f] = IF f = e THEN None ELSE slot[f]
  BY DEF TypeOK, Empty
<1>2. proc' = [p \in Procs |-> IF p \in dead THEN "gone" ELSE proc[p]]
  BY DEF Reap
<1>3. \A f \in Entries : Occupied(f) => slot[f].child \in Procs
  BY SlotsAssumption DEF TypeOK, Loaded, Occupied
<1>4. /\ \A p \in dead : proc[p] = "exited" /\ \A u \in Threads : p \notin hand[u]
      /\ \A f \in Entries \ {e} : Occupied(f) => slot[f].child \notin dead
  BY <1>3 DEF Exited, Busy, SlotsHoldTheirOwn
<1>. HIDE DEF dead
<1>5. proc' \in [Procs -> {"none", "loading", "ready", "exited", "gone"}]
  BY <1>2 DEF TypeOK
<1>6. \A u \in Threads : \A p \in hand[u] : proc'[p] = proc[p]
  BY <1>2, <1>4 DEF TypeOK
<1>7. \A p \in Procs : proc[p] = "none" => proc'[p] = "none"
  BY <1>2, <1>4
<1>8. SlotsHoldTheirOwn'
  BY <1>1, <1>2, <1>3, <1>4 DEF SlotsHoldTheirOwn, Occupied
<1>9. EveryProcessIsHeld'
  <2>1. SUFFICES ASSUME NEW p \in Procs, p \in Existing'
                 PROVE  \/ \E f \in Entries : slot'[f] # None /\ slot'[f].child = p
                        \/ \E u \in Threads : p \in hand[u]
    BY DEF EveryProcessIsHeld, Existing, Occupied
  <2>2. p \in Existing /\ p \notin dead
    BY <1>2, <2>1 DEF Existing
  <2>3. Occupied(e) => slot[e].child # p
    BY <2>2 DEF dead
  <2>. QED BY <1>1, <2>2, <2>3 DEF EveryProcessIsHeld, Occupied
<1>. QED BY <1>1, <1>5, <1>6, <1>7, <1>8, <1>9

\* A thread drops everything it holds.
LEMMA DropAllFacts ==
  ASSUME SlotsInvariant, NEW t \in Threads, Drop(t, hand[t]), UNCHANGED slot
  PROVE  /\ proc' \in [Procs -> {"none", "loading", "ready", "exited", "gone"}]
         /\ hand' \in [Threads -> SUBSET Procs]
         /\ \A u \in Threads : hand'[u] = IF u = t THEN {} ELSE hand[u]
         /\ \A u \in Threads : \A p \in hand'[u] : proc'[p] = proc[p]
         /\ \A p \in Procs : proc[p] = "none" => proc'[p] = "none"
         /\ \A u \in Threads : hand'[u] \subseteq Existing'
         /\ SlotsHoldTheirOwn' /\ EveryProcessIsHeld'
<1>1. hand[t] \in SUBSET Procs /\ \A u \in Threads : hand[u] \subseteq Existing
  BY DEF SlotsInvariant, TypeOK, HandsMatchPlaces
<1>2. \A p \in Procs : proc[p] = "none" => p \notin hand[t]
  BY <1>1 DEF Existing
<1>3. /\ proc' \in [Procs -> {"none", "loading", "ready", "exited", "gone"}]
      /\ hand' \in [Threads -> SUBSET Procs]
      /\ \A u \in Threads : hand'[u] = IF u = t THEN hand[t] \ hand[t] ELSE hand[u]
      /\ \A u \in Threads : \A p \in hand'[u] : proc'[p] = proc[p]
      /\ \A p \in Procs : proc[p] = "none" /\ p \notin hand[t] => proc'[p] = "none"
      /\ \A u \in Threads : hand'[u] \subseteq Existing'
      /\ SlotsHoldTheirOwn' /\ EveryProcessIsHeld'
  <2>. HIDE DEF SlotsInvariant
  <2>1. TypeOK /\ SlotsHoldTheirOwn /\ EveryProcessIsHeld
    BY DEF SlotsInvariant
  <2>. QED BY <1>1, <2>1, DropFacts
<1>. QED BY <1>2, <1>3

\* A thread that keeps its place and its handles, and whose processes are left
\* alone, still holds what its place says.
LEMMA HandsStay ==
  ASSUME TypeOK, HandsMatchPlaces, NEW u \in Admitters, hand'[u] = hand[u], pc'[u] = pc[u],
         want'[u] = want[u], \A p \in hand[u] : proc'[p] = proc[p]
  PROVE  /\ pc'[u] \in NothingInHand => hand'[u] = {}
         /\ pc'[u] \in {"loading", "insert"} => hand'[u] = {<<u, want'[u]>>}
         /\ pc'[u] = "insert" => proc'[<<u, want'[u]>>] # "loading"
         /\ pc'[u] \in {"relay", "touch"} =>
              \E p \in Existing' : hand'[u] = {p} /\ EntryOf(p) = want'[u] /\ proc'[p] # "loading"
BY DEF HandsMatchPlaces, Existing

----------------------------------------------------------------------------
(* One lemma per action. *)

\* A request arrives: it was new, and its processes are still to come.
LEMMA ArriveKeeps ==
  ASSUME SlotsInvariant, NEW t \in Requests, NEW e \in Entries, Arrive(t, e)
  PROVE  SlotsInvariant'
<1>. USE ThreadFacts DEF SlotsInvariant, Arrive, Goto, admitting, sweeping, stopping
<1>1. TypeOK'
  BY DEF TypeOK, RequestPcs
<1>2. LockIsExclusive' /\ LoadsIntoAnEmptySlot'
  BY DEF TypeOK, LockIsExclusive, LoadsIntoAnEmptySlot, AdmittingPcs, Occupied
<1>3. HandsMatchPlaces'
  BY ZenonT(60) DEF TypeOK, HandsMatchPlaces, NothingInHand, Existing
<1>4. StartsAreFresh'
  BY DEF TypeOK, StartsAreFresh, BeforeStart
<1>5. VictimsAreFair'
  BY DEF VictimsAreFair, Occupied
<1>. QED BY <1>1, <1>2, <1>3, <1>4, <1>5, QuietStep

\* The loader turns to its next resident, which nothing has started yet.
LEMMA WarmKeeps ==
  ASSUME SlotsInvariant, NEW e \in Entries, Warm(e)
  PROVE  SlotsInvariant'
<1>. USE ThreadFacts DEF SlotsInvariant, Warm, Goto, admitting, sweeping, stopping
<1>1. TypeOK'
  BY DEF TypeOK, RequestPcs
<1>2. LockIsExclusive' /\ LoadsIntoAnEmptySlot'
  BY DEF TypeOK, LockIsExclusive, LoadsIntoAnEmptySlot, AdmittingPcs, Occupied
<1>3. HandsMatchPlaces'
  BY ZenonT(60) DEF TypeOK, HandsMatchPlaces, NothingInHand, Existing
<1>4. StartsAreFresh'
  BY DEF TypeOK, StartsAreFresh, BeforeStart
<1>5. VictimsAreFair'
  BY DEF VictimsAreFair, Occupied
<1>. QED BY <1>1, <1>2, <1>3, <1>4, <1>5, QuietStep

\* The lock is free, so nobody else is between Lock and Unlock.
LEMMA LockKeeps ==
  ASSUME SlotsInvariant, NEW t \in Admitters, Lock(t)
  PROVE  SlotsInvariant'
<1>. USE ThreadFacts DEF SlotsInvariant, Lock, Goto, sweeping, stopping
<1>1. TypeOK'
  BY DEF TypeOK, RequestPcs, AdmittingPcs
<1>2. LockIsExclusive' /\ LoadsIntoAnEmptySlot'
  BY DEF TypeOK, LockIsExclusive, LoadsIntoAnEmptySlot, AdmittingPcs, Occupied
<1>3. HandsMatchPlaces'
  BY DEF TypeOK, HandsMatchPlaces, NothingInHand, Existing
<1>4. StartsAreFresh'
  BY DEF TypeOK, StartsAreFresh, BeforeStart, AdmittingPcs
<1>5. VictimsAreFair'
  BY DEF VictimsAreFair, Occupied
<1>. QED BY <1>1, <1>2, <1>3, <1>4, <1>5, QuietStep

\* The model file is there and a deadline is set, or the request fails.
LEMMA ModelFileKeeps ==
  ASSUME SlotsInvariant, NEW t \in Admitters, ModelFile(t)
  PROVE  SlotsInvariant'
<1>. USE ThreadFacts, SlotsAssumption DEF SlotsInvariant, ModelFile, Fail, Unlock, Goto, sweeping, stopping
<1>1. TypeOK'
  BY CatalogAssumption DEF TypeOK, StartsAreFresh, RequestPcs, AdmittingPcs, Failures
<1>2. LockIsExclusive' /\ LoadsIntoAnEmptySlot'
  BY DEF TypeOK, LockIsExclusive, LoadsIntoAnEmptySlot, AdmittingPcs, Occupied
<1>3. HandsMatchPlaces'
  BY DEF TypeOK, HandsMatchPlaces, NothingInHand, Existing, Failures
<1>4. StartsAreFresh'
  BY DEF TypeOK, StartsAreFresh, BeforeStart, AdmittingPcs
<1>5. VictimsAreFair'
  BY DEF VictimsAreFair, Occupied
<1>. QED BY <1>1, <1>2, <1>3, <1>4, <1>5, QuietStep

\* The device is read and the walk over the slots starts at the first.
LEMMA ProbeKeeps ==
  ASSUME SlotsInvariant, NEW t \in Admitters, Probe(t)
  PROVE  SlotsInvariant'
<1>. USE ThreadFacts DEF SlotsInvariant, Probe, Goto, sweeping, stopping
<1>1. TypeOK'
  BY CatalogAssumption, ReadingsAreNat DEF TypeOK, RequestPcs, AdmittingPcs
<1>2. LockIsExclusive' /\ LoadsIntoAnEmptySlot'
  BY CatalogAssumption DEF TypeOK, LockIsExclusive, LoadsIntoAnEmptySlot, AdmittingPcs, Occupied, Entries
<1>3. HandsMatchPlaces'
  BY DEF TypeOK, HandsMatchPlaces, NothingInHand, Existing
<1>4. StartsAreFresh'
  BY DEF TypeOK, StartsAreFresh, BeforeStart, AdmittingPcs
<1>5. VictimsAreFair'
  BY DEF VictimsAreFair, Occupied
<1>. QED BY <1>1, <1>2, <1>3, <1>4, <1>5, QuietStep

\* What is read of a slot is what admission may count.
LEMMA SnapshotKeeps ==
  ASSUME SlotsInvariant, NEW t \in Admitters, Snapshot(t)
  PROVE  SlotsInvariant'
<1>. USE ThreadFacts DEF SlotsInvariant, Snapshot, Goto, sweeping, stopping
<1>1. next \in Entries /\ next' \in 1..(N + 1) /\ (next # N => next' \in Entries)
  BY CatalogAssumption DEF LockIsExclusive, Entries
<1>2. HeldNow(next) \in Held \cup {None}
  <2>1. CASE slot[next] = None
    BY <2>1 DEF HeldNow, Occupied
  <2>2. CASE slot[next] # None
    <3>1. /\ slot[next].cost \in Nat /\ slot[next].device \in Nat
          /\ slot[next].last \in Nat
      BY <1>1, <2>2, SlotsAssumption DEF TypeOK, Loaded
    <3>2. Busy(next) \in BOOLEAN
      BY DEF Busy
    <3>. QED BY <2>2, <3>1, <3>2 DEF HeldNow, Held, Occupied
  <2>. QED BY <2>1, <2>2
<1>3. TypeOK'
  BY <1>1, <1>2 DEF TypeOK, RequestPcs, AdmittingPcs
<1>4. LockIsExclusive' /\ LoadsIntoAnEmptySlot'
  BY <1>1 DEF TypeOK, LockIsExclusive, LoadsIntoAnEmptySlot, AdmittingPcs, Occupied
<1>5. HandsMatchPlaces'
  BY DEF TypeOK, HandsMatchPlaces, NothingInHand, Existing
<1>6. StartsAreFresh'
  BY DEF TypeOK, StartsAreFresh, BeforeStart, AdmittingPcs
<1>7. VictimsAreFair'
  BY DEF VictimsAreFair, Occupied
<1>. QED BY <1>3, <1>4, <1>5, <1>6, <1>7, QuietStep

\* A decision names on-demand entries, whichever it is.
LEMMA DecideKeeps ==
  ASSUME SlotsInvariant, NEW t \in Admitters, Decide(t)
  PROVE  SlotsInvariant'
<1>. DEFINE said == Admit(view, want[t], Limit, free)
<1>1. said.ids \subseteq Entries \ Resident
  BY AdmitNamesOnDemand
<1>. HIDE DEF said
<1>. USE ThreadFacts DEF SlotsInvariant, Fail, Unlock, Goto, admitting, sweeping, stopping
<1>2. /\ pc[t] = "decide"
      /\ \/ pc' = [pc EXCEPT ![t] = "start"] /\ UNCHANGED <<admitting, failures>>
         \/ /\ pc' = [pc EXCEPT ![t] = "unload"]
            /\ todo' = said.ids
            /\ UNCHANGED <<admission, view, next, free, left, failures>>
         \/ pc' = [pc EXCEPT ![t] = "hold"] /\ UNCHANGED <<admitting, failures>>
         \/ Fail(t, "Refused") /\ Unlock
      /\ UNCHANGED <<slot, proc, hand, want, warm, sweeping, stopping>>
  BY DEF Decide, said
<1>3. TypeOK'
  BY <1>1, <1>2, CatalogAssumption, SlotsAssumption
     DEF TypeOK, StartsAreFresh, RequestPcs, AdmittingPcs, Failures
<1>4. LockIsExclusive' /\ LoadsIntoAnEmptySlot'
  BY <1>2 DEF TypeOK, LockIsExclusive, LoadsIntoAnEmptySlot, AdmittingPcs, Occupied
<1>5. HandsMatchPlaces'
  BY <1>2 DEF TypeOK, HandsMatchPlaces, NothingInHand, Existing, Failures
<1>6. StartsAreFresh'
  BY <1>2 DEF TypeOK, StartsAreFresh, BeforeStart, AdmittingPcs
<1>7. VictimsAreFair'
  BY <1>1, <1>2 DEF VictimsAreFair, Occupied
<1>. QED BY <1>2, <1>3, <1>4, <1>5, <1>6, <1>7, QuietStep

\* The request gives up with the lock, or goes round the loop with it.
LEMMA HoldKeeps ==
  ASSUME SlotsInvariant, NEW t \in Admitters, Hold(t)
  PROVE  SlotsInvariant'
<1>. USE ThreadFacts DEF SlotsInvariant, Hold, Fail, Unlock, Goto, admitting, sweeping, stopping
<1>1. TypeOK'
  BY CatalogAssumption, SlotsAssumption
     DEF TypeOK, StartsAreFresh, RequestPcs, AdmittingPcs, Failures
<1>2. LockIsExclusive' /\ LoadsIntoAnEmptySlot'
  BY DEF TypeOK, LockIsExclusive, LoadsIntoAnEmptySlot, AdmittingPcs, Occupied
<1>3. HandsMatchPlaces'
  BY DEF TypeOK, HandsMatchPlaces, NothingInHand, Existing, Failures
<1>4. StartsAreFresh'
  BY DEF TypeOK, StartsAreFresh, BeforeStart, AdmittingPcs
<1>5. VictimsAreFair'
  BY DEF VictimsAreFair, Occupied
<1>. QED BY <1>1, <1>2, <1>3, <1>4, <1>5, QuietStep

\* A relay ends with its child still in hand.
LEMMA RelayKeeps ==
  ASSUME SlotsInvariant, NEW t \in Requests, Relay(t)
  PROVE  SlotsInvariant'
<1>. USE ThreadFacts DEF SlotsInvariant, Relay, Goto, admitting, sweeping, stopping
<1>1. TypeOK'
  BY DEF TypeOK, RequestPcs
<1>2. LockIsExclusive' /\ LoadsIntoAnEmptySlot'
  BY DEF TypeOK, LockIsExclusive, LoadsIntoAnEmptySlot, AdmittingPcs, Occupied
<1>3. HandsMatchPlaces'
  BY DEF TypeOK, HandsMatchPlaces, NothingInHand, Existing, Failures
<1>4. StartsAreFresh'
  BY DEF TypeOK, StartsAreFresh, BeforeStart, AdmittingPcs
<1>5. VictimsAreFair'
  BY DEF VictimsAreFair, Occupied
<1>. QED BY <1>1, <1>2, <1>3, <1>4, <1>5, QuietStep

\* The fast path: a child from the slot, or the queue with empty hands.
LEMMA FastKeeps ==
  ASSUME SlotsInvariant, NEW t \in Admitters, Fast(t)
  PROVE  SlotsInvariant'
<1>. USE ThreadFacts DEF SlotsInvariant, Fast, Goto, admitting, stopping
<1>1. CASE HandOut(t, want[t]) /\ Goto(t, Served(t))
  <2>1. /\ slot' \in [Entries -> Loaded \cup {None}]
        /\ hand' \in [Threads -> SUBSET Procs]
        /\ old' \subseteq Entries
        /\ \A e \in Entries : slot'[e] = None <=> slot[e] = None
        /\ SlotsHoldTheirOwn' /\ HandsMatchPlaces' /\ StartsAreFresh'
        /\ VictimsAreFair' /\ EveryProcessIsHeld'
    BY <1>1, HandOutFacts
  <2>2. TypeOK'
    BY <1>1, <2>1 DEF TypeOK, RequestPcs, Served, HandOut
  <2>3. LockIsExclusive' /\ LoadsIntoAnEmptySlot'
    BY <1>1, <2>1 DEF TypeOK, LockIsExclusive, LoadsIntoAnEmptySlot, AdmittingPcs, Occupied, Served
  <2>. QED BY <2>1, <2>2, <2>3
<1>2. CASE NoneLive(t, want[t]) /\ Goto(t, "queue")
  <2>1. /\ slot' \in [Entries -> Loaded \cup {None}]
        /\ \A f \in Entries : slot'[f] = IF f = want[t] THEN None ELSE slot[f]
        /\ proc' \in [Procs -> {"none", "loading", "ready", "exited", "gone"}]
        /\ \A u \in Threads : \A p \in hand[u] : proc'[p] = proc[p]
        /\ \A p \in Procs : proc[p] = "none" => proc'[p] = "none"
        /\ SlotsHoldTheirOwn' /\ EveryProcessIsHeld'
    BY <1>2, EmptyFacts DEF NoneLive, TypeOK
  <2>2. TypeOK'
    BY <1>2, <2>1 DEF TypeOK, RequestPcs, NoneLive
  <2>3. LockIsExclusive' /\ LoadsIntoAnEmptySlot'
    BY <1>2, <2>1 DEF TypeOK, LockIsExclusive, LoadsIntoAnEmptySlot, AdmittingPcs, Occupied
  <2>4. HandsMatchPlaces'
    BY <1>2, <2>1, SMTT(30) DEF TypeOK, HandsMatchPlaces, NothingInHand, Existing, NoneLive
  <2>5. StartsAreFresh'
    BY <1>2, <2>1, FreshStays DEF TypeOK, StartsAreFresh, BeforeStart
  <2>6. VictimsAreFair'
    BY <1>2, <2>1 DEF TypeOK, VictimsAreFair, Occupied, NoneLive
  <2>. QED BY <2>1, <2>2, <2>3, <2>4, <2>5, <2>6
<1>. QED BY <1>1, <1>2

\* The second look, under the admission lock: what it does not find, nobody
\* else can put there before the lock is released.
LEMMA RecheckKeeps ==
  ASSUME SlotsInvariant, NEW t \in Admitters, Recheck(t)
  PROVE  SlotsInvariant'
<1>. USE ThreadFacts DEF SlotsInvariant, Recheck, Goto, stopping
<1>1. CASE HandOut(t, want[t]) /\ Unlock /\ Goto(t, Served(t))
  <2>1. todo' \subseteq todo /\ UNCHANGED <<want, warm, expired>>
    BY <1>1 DEF Unlock
  <2>2. /\ slot' \in [Entries -> Loaded \cup {None}]
        /\ hand' \in [Threads -> SUBSET Procs]
        /\ old' \subseteq Entries
        /\ \A e \in Entries : slot'[e] = None <=> slot[e] = None
        /\ SlotsHoldTheirOwn' /\ HandsMatchPlaces' /\ StartsAreFresh'
        /\ EveryProcessIsHeld'
        /\ VictimsAreFair'
    BY <1>1, <2>1, HandOutFacts
  <2>3. TypeOK'
    BY <1>1, <2>2, CatalogAssumption, SlotsAssumption DEF TypeOK, RequestPcs, Served, HandOut, Unlock
  <2>4. LockIsExclusive' /\ LoadsIntoAnEmptySlot'
    BY <1>1, <2>2
       DEF TypeOK, LockIsExclusive, LoadsIntoAnEmptySlot, AdmittingPcs, Occupied, Served, Unlock
  <2>. QED BY <2>2, <2>3, <2>4
<1>2. CASE NoneLive(t, want[t]) /\ Goto(t, "file") /\ UNCHANGED admitting
  <2>1. /\ slot' \in [Entries -> Loaded \cup {None}]
        /\ \A f \in Entries : slot'[f] = IF f = want[t] THEN None ELSE slot[f]
        /\ proc' \in [Procs -> {"none", "loading", "ready", "exited", "gone"}]
        /\ \A u \in Threads : \A p \in hand[u] : proc'[p] = proc[p]
        /\ \A p \in Procs : proc[p] = "none" => proc'[p] = "none"
        /\ SlotsHoldTheirOwn' /\ EveryProcessIsHeld'
    BY <1>2, EmptyFacts DEF NoneLive, TypeOK
  <2>2. TypeOK'
    BY <1>2, <2>1 DEF TypeOK, RequestPcs, AdmittingPcs, NoneLive, admitting
  <2>3. LockIsExclusive' /\ LoadsIntoAnEmptySlot'
    BY <1>2, <2>1
       DEF TypeOK, LockIsExclusive, LoadsIntoAnEmptySlot, AdmittingPcs, Occupied, admitting
  <2>4. HandsMatchPlaces'
    BY <1>2, <2>1 DEF TypeOK, HandsMatchPlaces, NothingInHand, Existing, NoneLive
  <2>5. StartsAreFresh'
    BY <1>2, <2>1, FreshStays DEF TypeOK, StartsAreFresh, BeforeStart, AdmittingPcs
  <2>6. VictimsAreFair'
    BY <1>2, <2>1 DEF TypeOK, VictimsAreFair, Occupied, NoneLive, admitting
  <2>. QED BY <2>1, <2>2, <2>3, <2>4, <2>5, <2>6
<1>. QED BY <1>1, <1>2

\* A child is taken for unloading: from its slot to the hand, which was empty.
LEMMA UnloadKeeps ==
  ASSUME SlotsInvariant, NEW t \in Admitters, Unload(t)
  PROVE  SlotsInvariant'
<1>. USE ThreadFacts DEF SlotsInvariant
<1>1. CASE UNCHANGED <<slot, hand>>
  <2>. USE <1>1 DEF Unload, Goto, stopping
  <2>1. TypeOK'
    BY DEF TypeOK, RequestPcs, AdmittingPcs
  <2>2. LockIsExclusive' /\ LoadsIntoAnEmptySlot'
    BY ZenonT(60) DEF TypeOK, LockIsExclusive, LoadsIntoAnEmptySlot, AdmittingPcs, Occupied
  <2>3. HandsMatchPlaces'
    BY ZenonT(60) DEF TypeOK, HandsMatchPlaces, NothingInHand, Existing
  <2>4. StartsAreFresh'
    BY ZenonT(60) DEF TypeOK, StartsAreFresh, BeforeStart, AdmittingPcs
  <2>5. VictimsAreFair'
    BY DEF VictimsAreFair, Occupied
  <2>. QED BY <2>1, <2>2, <2>3, <2>4, <2>5, QuietStep
<1>2. CASE ~UNCHANGED <<slot, hand>>
  <2>1. PICK e \in todo : Takeable(e, TRUE) /\ Take(t, e) /\ todo' = todo \ {e} /\ Goto(t, "unloading")
    BY <1>2 DEF Unload
  <2>2. /\ pc[t] = "unload"
        /\ UNCHANGED <<proc, want, admission, view, next, free, left, warm, failures,
                       at, expired, old, stopping>>
    BY <1>2 DEF Unload
  <2>3. /\ e \in Entries /\ Occupied(e) /\ hand[t] = {}
        /\ slot[e].child \in Procs /\ slot[e].child \in Existing
    <3>1. e \in Entries /\ Occupied(e) /\ hand[t] = {}
      BY <2>1, <2>2 DEF TypeOK, Takeable, HandsMatchPlaces, NothingInHand
    <3>. QED BY <3>1, SlotChildFacts
  <2>4. /\ slot' = [slot EXCEPT ![e] = None]
        /\ hand' = [hand EXCEPT ![t] = {slot[e].child}]
        /\ pc' = [pc EXCEPT ![t] = "unloading"]
    BY <2>1 DEF Take, Empty, Goto
  <2>5. TypeOK'
    BY <2>1, <2>2, <2>3, <2>4 DEF TypeOK, RequestPcs, AdmittingPcs, stopping
  <2>6. LockIsExclusive' /\ LoadsIntoAnEmptySlot'
    BY <2>2, <2>3, <2>4 DEF TypeOK, LockIsExclusive, LoadsIntoAnEmptySlot, AdmittingPcs, Occupied
  <2>7. SlotsHoldTheirOwn'
    BY <2>2, <2>3, <2>4 DEF TypeOK, SlotsHoldTheirOwn, Occupied
  <2>8. HandsMatchPlaces'
    BY <2>2, <2>3, <2>4 DEF TypeOK, HandsMatchPlaces, NothingInHand, Existing, Failures
  <2>9. StartsAreFresh'
    BY <2>2, <2>4 DEF TypeOK, StartsAreFresh, BeforeStart, AdmittingPcs
  <2>10. VictimsAreFair'
    BY <2>1, <2>2, <2>3, <2>4 DEF TypeOK, VictimsAreFair, Occupied
  <2>11. EveryProcessIsHeld'
    BY <2>2, <2>3, <2>4 DEF TypeOK, EveryProcessIsHeld, Existing, Occupied
  <2>. QED BY <2>5, <2>6, <2>7, <2>8, <2>9, <2>10, <2>11
<1>. QED BY <1>1, <1>2

\* The taken child is dropped under the admission lock.
LEMMA UnloadingKeeps ==
  ASSUME SlotsInvariant, NEW t \in Admitters, Unloading(t)
  PROVE  SlotsInvariant'
<1>. USE ThreadFacts DEF SlotsInvariant, Unloading, Goto, admitting, sweeping, stopping
<1>1. /\ proc' \in [Procs -> {"none", "loading", "ready", "exited", "gone"}]
      /\ hand' \in [Threads -> SUBSET Procs]
      /\ \A u \in Threads : hand'[u] = IF u = t THEN {} ELSE hand[u]
      /\ \A u \in Threads : \A p \in hand'[u] : proc'[p] = proc[p]
      /\ \A p \in Procs : proc[p] = "none" => proc'[p] = "none"
      /\ \A u \in Threads : hand'[u] \subseteq Existing'
      /\ SlotsHoldTheirOwn' /\ EveryProcessIsHeld'
  BY DropAllFacts
<1>2. TypeOK'
  BY <1>1 DEF TypeOK, RequestPcs, AdmittingPcs
<1>3. LockIsExclusive' /\ LoadsIntoAnEmptySlot'
  BY DEF TypeOK, LockIsExclusive, LoadsIntoAnEmptySlot, AdmittingPcs, Occupied
<1>4. HandsMatchPlaces'
  BY <1>1, HandsStay DEF TypeOK, HandsMatchPlaces, NothingInHand, Failures
<1>5. StartsAreFresh'
  BY <1>1, FreshStays DEF TypeOK, StartsAreFresh, BeforeStart, AdmittingPcs
<1>6. VictimsAreFair'
  BY DEF VictimsAreFair, Occupied
<1>. QED BY <1>1, <1>2, <1>3, <1>4, <1>5, <1>6

\* The request's own handle goes.
LEMMA ReleaseKeeps ==
  ASSUME SlotsInvariant, NEW t \in Admitters, Release(t)
  PROVE  SlotsInvariant'
<1>. USE ThreadFacts DEF SlotsInvariant, Release, Goto, admitting, sweeping, stopping
<1>1. /\ proc' \in [Procs -> {"none", "loading", "ready", "exited", "gone"}]
      /\ hand' \in [Threads -> SUBSET Procs]
      /\ \A u \in Threads : hand'[u] = IF u = t THEN {} ELSE hand[u]
      /\ \A u \in Threads : \A p \in hand'[u] : proc'[p] = proc[p]
      /\ \A p \in Procs : proc[p] = "none" => proc'[p] = "none"
      /\ \A u \in Threads : hand'[u] \subseteq Existing'
      /\ SlotsHoldTheirOwn' /\ EveryProcessIsHeld'
  BY DropAllFacts
<1>2. TypeOK'
  BY <1>1 DEF TypeOK, RequestPcs
<1>3. LockIsExclusive' /\ LoadsIntoAnEmptySlot'
  BY DEF TypeOK, LockIsExclusive, LoadsIntoAnEmptySlot, AdmittingPcs, Occupied
<1>4. HandsMatchPlaces'
  BY <1>1, HandsStay DEF TypeOK, HandsMatchPlaces, NothingInHand, Failures
<1>5. StartsAreFresh'
  BY <1>1, FreshStays DEF TypeOK, StartsAreFresh, BeforeStart, AdmittingPcs
<1>6. VictimsAreFair'
  BY DEF VictimsAreFair, Occupied
<1>. QED BY <1>1, <1>2, <1>3, <1>4, <1>5, <1>6

\* A process that did not exist is now loading, in the hand of its starter.
LEMMA SpawnKeeps ==
  ASSUME SlotsInvariant, NEW t \in Admitters, Spawn(t)
  PROVE  SlotsInvariant'
<1>. USE ThreadFacts DEF SlotsInvariant
<1>1. CASE UNCHANGED <<proc, hand>> /\ Fail(t, "Unavailable") /\ Unlock
  <2>. USE <1>1 DEF Spawn, Fail, Unlock, Goto, sweeping, stopping
  <2>1. TypeOK'
    BY CatalogAssumption, SlotsAssumption
       DEF TypeOK, StartsAreFresh, RequestPcs, AdmittingPcs, Failures
  <2>2. LockIsExclusive' /\ LoadsIntoAnEmptySlot'
    BY DEF TypeOK, LockIsExclusive, LoadsIntoAnEmptySlot, AdmittingPcs, Occupied
  <2>3. HandsMatchPlaces'
    BY DEF TypeOK, HandsMatchPlaces, NothingInHand, Existing, Failures
  <2>4. StartsAreFresh'
    BY DEF TypeOK, StartsAreFresh, BeforeStart, AdmittingPcs
  <2>5. VictimsAreFair'
    BY DEF VictimsAreFair, Occupied
  <2>. QED BY <2>1, <2>2, <2>3, <2>4, <2>5, QuietStep
<1>2. CASE ~(UNCHANGED <<proc, hand>> /\ Fail(t, "Unavailable") /\ Unlock)
  <2>. DEFINE q == <<t, want[t]>>
  <2>1. /\ pc[t] = "start"
        /\ proc' = [proc EXCEPT ![q] = "loading"]
        /\ hand' = [hand EXCEPT ![t] = {q}]
        /\ pc' = [pc EXCEPT ![t] = "loading"]
        /\ UNCHANGED <<slot, want, admitting, warm, failures, sweeping, stopping>>
    BY <1>2 DEF Spawn, Goto
  <2>2. q \in Procs /\ hand[t] = {}
    BY <2>1 DEF TypeOK, Procs, HandsMatchPlaces, NothingInHand
  <2>3. proc[q] = "none"
    <3>1. CASE t = Loader
      BY <2>1, <3>1 DEF StartsAreFresh, BeforeStart, AdmittingPcs
    <3>2. CASE t # Loader
      BY <2>1, <3>2 DEF TypeOK, StartsAreFresh, BeforeStart, AdmittingPcs, Admitters
    <3>. QED BY <3>1, <3>2
  <2>4. \A e \in Entries : Occupied(e) => slot[e].child # q
    BY <2>3, SlotChildFacts DEF Existing
  <2>5. \A u \in Threads : q \notin hand[u]
    BY <2>3 DEF HandsMatchPlaces, Existing
  <2>6. TypeOK'
    BY <2>1, <2>2 DEF TypeOK, RequestPcs, AdmittingPcs, admitting, sweeping, stopping
  <2>7. LockIsExclusive' /\ LoadsIntoAnEmptySlot'
    BY <2>1 DEF TypeOK, LockIsExclusive, LoadsIntoAnEmptySlot, AdmittingPcs, Occupied, admitting
  <2>8. SlotsHoldTheirOwn'
    BY <2>1, <2>4, SlotChildFacts DEF TypeOK, SlotsHoldTheirOwn, Occupied
  <2>9. HandsMatchPlaces'
    <3>1. /\ hand'[t] = {q} /\ proc'[q] = "loading"
          /\ \A u \in Threads \ {t} : hand'[u] = hand[u]
          /\ \A p \in Procs \ {q} : proc'[p] = proc[p]
      BY <2>1, <2>2 DEF TypeOK
    <3>2. \A u \in Threads : hand'[u] \subseteq Existing'
      BY <2>2, <2>5, <3>1 DEF TypeOK, HandsMatchPlaces, Existing
    <3>3. \A u \in Admitters \ {t} :
            /\ pc'[u] \in NothingInHand => hand'[u] = {}
            /\ pc'[u] \in {"loading", "insert"} => hand'[u] = {<<u, want'[u]>>}
            /\ pc'[u] = "insert" => proc'[<<u, want'[u]>>] # "loading"
            /\ pc'[u] \in {"relay", "touch"} =>
                 \E p \in Existing' : hand'[u] = {p} /\ EntryOf(p) = want'[u] /\ proc'[p] # "loading"
      BY <2>1, <2>2, <2>5, <3>1 DEF TypeOK, HandsMatchPlaces, Existing, Procs
    <3>. QED BY <2>1, <3>1, <3>2, <3>3 DEF TypeOK, HandsMatchPlaces, NothingInHand, Failures
  <2>10. StartsAreFresh'
    <3>1. \A u \in Admitters : \A e \in Entries \cup Resident :
            <<u, e>> # q => proc'[<<u, e>>] = proc[<<u, e>>]
      BY <2>1, CatalogAssumption DEF TypeOK, Procs
    <3>. QED BY <2>1, <3>1, CatalogAssumption DEF TypeOK, StartsAreFresh, BeforeStart, AdmittingPcs
  <2>11. VictimsAreFair'
    BY <2>1 DEF VictimsAreFair, Occupied, admitting, sweeping
  <2>12. EveryProcessIsHeld'
    BY <2>1, <2>2 DEF TypeOK, EveryProcessIsHeld, Existing, Occupied
  <2>. QED BY <2>6, <2>7, <2>8, <2>9, <2>10, <2>11, <2>12
<1>. QED BY <1>1, <1>2

\* The child answers and is still in the starter's hand, or is dropped.
LEMMA LoadKeeps ==
  ASSUME SlotsInvariant, NEW t \in Admitters, Load(t)
  PROVE  SlotsInvariant'
<1>. USE ThreadFacts DEF SlotsInvariant
<1>. DEFINE q == <<t, want[t]>>
<1>0. /\ pc[t] = "loading" /\ q \in Procs /\ hand[t] = {q} /\ q \in Existing
      /\ UNCHANGED <<slot, want, warm, sweeping, stopping>>
  BY DEF Load, TypeOK, Procs, HandsMatchPlaces
<1>1. CASE /\ proc' = [proc EXCEPT ![q] = "ready"]
           /\ Goto(t, "insert")
           /\ UNCHANGED <<hand, admitting, failures>>
  <2>. USE <1>0, <1>1 DEF Goto, admitting, sweeping, stopping
  <2>1. /\ proc' \in [Procs -> {"none", "loading", "ready", "exited", "gone"}]
        /\ \A p \in Procs : proc[p] = "none" => proc'[p] = "none"
        /\ \A p \in Procs : proc'[p] = IF p = q THEN "ready" ELSE proc[p]
        /\ Existing' = Existing
    BY DEF TypeOK, Existing
  <2>2. TypeOK'
    BY <2>1 DEF TypeOK, RequestPcs, AdmittingPcs
  <2>3. LockIsExclusive' /\ LoadsIntoAnEmptySlot'
    BY DEF TypeOK, LockIsExclusive, LoadsIntoAnEmptySlot, AdmittingPcs, Occupied
  <2>4. SlotsHoldTheirOwn'
    BY <2>1, SlotChildFacts DEF TypeOK, SlotsHoldTheirOwn, Occupied
  <2>5. HandsMatchPlaces'
    <3>1. \A u \in Admitters \ {t} : pc'[u] = pc[u]
      BY DEF TypeOK
    <3>2. pc'[t] = "insert"
      BY DEF TypeOK
    <3>3. pc'[Reaper] = pc[Reaper]
      BY DEF TypeOK
    <3>. QED BY <2>1, <3>1, <3>2, <3>3 DEF TypeOK, HandsMatchPlaces, NothingInHand, Failures, Procs, Existing
  <2>6. StartsAreFresh'
    BY <2>1, FreshStays DEF TypeOK, StartsAreFresh, BeforeStart, AdmittingPcs
  <2>7. VictimsAreFair'
    BY DEF VictimsAreFair, Occupied
  <2>8. EveryProcessIsHeld'
    BY <2>1 DEF EveryProcessIsHeld, Occupied
  <2>. QED BY <2>2, <2>3, <2>4, <2>5, <2>6, <2>7, <2>8
<1>2. CASE \E why \in {"NotReady", "Unavailable"} : Drop(t, hand[t]) /\ Fail(t, why) /\ Unlock
  <2>. PICK why \in {"NotReady", "Unavailable"} : Drop(t, hand[t]) /\ Fail(t, why) /\ Unlock
    BY <1>2
  <2>. USE <1>0 DEF Fail, Unlock, Goto, sweeping, stopping
  <2>1. /\ proc' \in [Procs -> {"none", "loading", "ready", "exited", "gone"}]
        /\ hand' \in [Threads -> SUBSET Procs]
        /\ \A u \in Threads : hand'[u] = IF u = t THEN {} ELSE hand[u]
        /\ \A u \in Threads : \A p \in hand'[u] : proc'[p] = proc[p]
        /\ \A p \in Procs : proc[p] = "none" => proc'[p] = "none"
        /\ \A u \in Threads : hand'[u] \subseteq Existing'
        /\ SlotsHoldTheirOwn' /\ EveryProcessIsHeld'
    BY DropAllFacts
  <2>2. TypeOK'
    <3>1. failures' \subseteq Resident
      BY DEF TypeOK, StartsAreFresh
    <3>2. pc' \in [Threads -> RequestPcs \cup ReaperPcs \cup StopperPcs]
      BY DEF TypeOK, RequestPcs, Failures
    <3>3. admission' \in Admitters \cup {None} /\ next' \in 1..(N + 1) /\ left' \in 0..Wait
      BY CatalogAssumption, SlotsAssumption
    <3>. QED BY <2>1, <3>1, <3>2, <3>3 DEF TypeOK
  <2>3. LockIsExclusive' /\ LoadsIntoAnEmptySlot'
    BY DEF TypeOK, LockIsExclusive, LoadsIntoAnEmptySlot, AdmittingPcs, Occupied
  <2>4. HandsMatchPlaces'
    BY <2>1, HandsStay DEF TypeOK, HandsMatchPlaces, NothingInHand, Failures
  <2>5. StartsAreFresh'
    BY <2>1, FreshStays DEF TypeOK, StartsAreFresh, BeforeStart, AdmittingPcs
  <2>6. VictimsAreFair'
    BY DEF VictimsAreFair, Occupied
  <2>. QED BY <2>1, <2>2, <2>3, <2>4, <2>5, <2>6
<1>. QED BY <1>1, <1>2 DEF Load

\* The child goes into its slot, which is empty, and its starter serves from it.
LEMMA InsertKeeps ==
  ASSUME SlotsInvariant, NEW t \in Admitters, Insert(t)
  PROVE  SlotsInvariant'
<1>. USE ThreadFacts DEF SlotsInvariant
<1>. DEFINE q == <<t, want[t]>>
<1>1. /\ pc[t] = "insert" /\ q \in Procs /\ hand[t] = {q}
      /\ q \in Existing /\ proc[q] \in {"ready", "exited"}
      /\ want[t] \in Entries
  BY DEF Insert, TypeOK, Procs, HandsMatchPlaces, Existing
<1>2. slot[want[t]] = None
  BY <1>1 DEF LoadsIntoAnEmptySlot, AdmittingPcs, Occupied
<1>3. PICK m \in Measurements :
        slot' = [slot EXCEPT ![want[t]] = [child  |-> q,
                                           cost   |-> CostOf(want[t], m),
                                           device |-> DeviceOf(want[t], m),
                                           last   |-> 0]]
  BY DEF Insert
<1>. DEFINE new == [child |-> q, cost |-> CostOf(want[t], m), device |-> DeviceOf(want[t], m), last |-> 0]
<1>4. new \in Loaded /\ new.child = q
  BY <1>1, ChargesAreNat, SlotsAssumption DEF Loaded
<1>5. /\ slot' \in [Entries -> Loaded \cup {None}]
      /\ slot'[want[t]].child = q /\ slot'[want[t]] # None
      /\ \A f \in Entries \ {want[t]} : slot'[f] = slot[f]
  BY <1>1, <1>3, <1>4, SlotsAssumption DEF TypeOK
<1>. HIDE DEF new
<1>6. /\ old' = old \ {want[t]} /\ Unlock
      /\ pc' = [pc EXCEPT ![t] = IF t = Loader THEN "drop" ELSE "relay"]
      /\ UNCHANGED <<proc, hand, want, warm, failures, at, expired, stopping>>
  BY DEF Insert, Goto, Served
<1>7. TypeOK'
  BY <1>5, <1>6, CatalogAssumption, SlotsAssumption DEF TypeOK, RequestPcs, Unlock, stopping
<1>8. LockIsExclusive' /\ LoadsIntoAnEmptySlot'
  BY <1>1, <1>5, <1>6
     DEF TypeOK, LockIsExclusive, LoadsIntoAnEmptySlot, AdmittingPcs, Occupied, Unlock
<1>9. SlotsHoldTheirOwn'
  BY <1>1, <1>5, <1>6 DEF SlotsHoldTheirOwn, Occupied
<1>10. HandsMatchPlaces'
  BY <1>1, <1>6 DEF TypeOK, HandsMatchPlaces, NothingInHand, Existing, Failures
<1>11. StartsAreFresh'
  BY <1>1, <1>6 DEF TypeOK, StartsAreFresh, BeforeStart, AdmittingPcs
<1>12. VictimsAreFair'
  BY <1>5, <1>6 DEF TypeOK, VictimsAreFair, Occupied, Unlock
<1>13. EveryProcessIsHeld'
  BY <1>2, <1>5, <1>6 DEF EveryProcessIsHeld, Occupied, Existing
<1>. QED BY <1>7, <1>8, <1>9, <1>10, <1>11, <1>12, <1>13

\* The stamp after an answer changes an age and nothing else.
LEMMA TouchKeeps ==
  ASSUME SlotsInvariant, NEW t \in Admitters, Touch(t)
  PROVE  SlotsInvariant'
<1>. USE ThreadFacts DEF SlotsInvariant, Touch, Goto, admitting, stopping
<1>1. /\ slot' \in [Entries -> Loaded \cup {None}]
      /\ old' \subseteq Entries
      /\ \A f \in Entries : /\ slot'[f] = None <=> slot[f] = None
                            /\ slot[f] # None => slot'[f].child = slot[f].child
                            /\ f \in old' => f \in old /\ slot'[f] = slot[f]
  <2>1. CASE Occupied(want[t])
    BY <2>1, StampFacts DEF TypeOK, Stamp
  <2>2. CASE ~Occupied(want[t])
    BY <2>2 DEF TypeOK
  <2>. QED BY <2>1, <2>2
<1>2. TypeOK'
  BY <1>1 DEF TypeOK, RequestPcs
<1>3. LockIsExclusive' /\ LoadsIntoAnEmptySlot'
  BY <1>1 DEF TypeOK, LockIsExclusive, LoadsIntoAnEmptySlot, AdmittingPcs, Occupied
<1>4. SlotsHoldTheirOwn' /\ EveryProcessIsHeld'
  BY <1>1 DEF SlotsHoldTheirOwn, EveryProcessIsHeld, Occupied, Existing
<1>5. HandsMatchPlaces'
  BY DEF TypeOK, HandsMatchPlaces, NothingInHand, Existing, Failures
<1>6. StartsAreFresh'
  BY DEF TypeOK, StartsAreFresh, BeforeStart, AdmittingPcs
<1>7. VictimsAreFair'
  BY <1>1 DEF TypeOK, VictimsAreFair, Occupied
<1>. QED BY <1>2, <1>3, <1>4, <1>5, <1>6, <1>7

\* The reaper wakes, with nothing in hand.
LEMMA WakeKeeps ==
  ASSUME SlotsInvariant, Wake
  PROVE  SlotsInvariant'
<1>. USE ThreadFacts DEF SlotsInvariant, Wake, Goto, reaperLeaves, admitting, sweeping, stopping
<1>1. TypeOK'
  BY DEF TypeOK, ReaperPcs
<1>2. LockIsExclusive' /\ LoadsIntoAnEmptySlot'
  BY DEF TypeOK, LockIsExclusive, LoadsIntoAnEmptySlot, Occupied
<1>3. HandsMatchPlaces'
  BY DEF TypeOK, HandsMatchPlaces, Existing
<1>4. StartsAreFresh'
  BY DEF TypeOK, StartsAreFresh
<1>5. VictimsAreFair'
  BY DEF VictimsAreFair, Occupied
<1>. QED BY <1>1, <1>2, <1>3, <1>4, <1>5, QuietStep

\* The sweep reads the clock: what it calls old has sat out the window.
LEMMA SweepNowKeeps ==
  ASSUME SlotsInvariant, SweepNow
  PROVE  SlotsInvariant'
<1>. USE ThreadFacts DEF SlotsInvariant, SweepNow, Goto, reaperLeaves, admitting, sweeping, stopping
<1>1. TypeOK'
  BY DEF TypeOK, ReaperPcs
<1>2. LockIsExclusive' /\ LoadsIntoAnEmptySlot'
  BY DEF TypeOK, LockIsExclusive, LoadsIntoAnEmptySlot, Occupied
<1>3. HandsMatchPlaces'
  BY DEF TypeOK, HandsMatchPlaces, Existing
<1>4. StartsAreFresh'
  BY DEF TypeOK, StartsAreFresh
<1>5. VictimsAreFair'
  BY DEF VictimsAreFair, Occupied
<1>. QED BY <1>1, <1>2, <1>3, <1>4, <1>5, QuietStep

\* The sweep lists on-demand entries alone.
LEMMA SweepSnapshotKeeps ==
  ASSUME SlotsInvariant, SweepSnapshot
  PROVE  SlotsInvariant'
<1>. USE ThreadFacts DEF SlotsInvariant, SweepSnapshot, Goto, reaperLeaves, admitting, sweeping, stopping
<1>1. TypeOK'
  <2>1. at' \in Entries
    BY CatalogAssumption DEF TypeOK, Entries
  <2>2. expired' \subseteq Entries
    BY DEF TypeOK
  <2>3. pc' \in [Threads -> RequestPcs \cup ReaperPcs \cup StopperPcs]
    BY DEF TypeOK, ReaperPcs
  <2>. QED BY <2>1, <2>2, <2>3 DEF TypeOK
<1>2. LockIsExclusive' /\ LoadsIntoAnEmptySlot'
  BY DEF TypeOK, LockIsExclusive, LoadsIntoAnEmptySlot, Occupied
<1>3. HandsMatchPlaces'
  BY DEF TypeOK, HandsMatchPlaces, Existing
<1>4. StartsAreFresh'
  BY DEF TypeOK, StartsAreFresh
<1>5. VictimsAreFair'
  BY DEF VictimsAreFair, Occupied
<1>. QED BY <1>1, <1>2, <1>3, <1>4, <1>5, QuietStep

\* Router::stop is called.
LEMMA StopCalledKeeps ==
  ASSUME SlotsInvariant, NEW by \in Stops, StopCalled(by)
  PROVE  SlotsInvariant'
<1>. USE ThreadFacts DEF SlotsInvariant, StopCalled, Goto, stopperLeaves, admitting, sweeping, stopping
<1>1. TypeOK'
  BY DEF TypeOK, StopperPcs
<1>2. LockIsExclusive' /\ LoadsIntoAnEmptySlot'
  BY DEF TypeOK, LockIsExclusive, LoadsIntoAnEmptySlot, Occupied
<1>3. HandsMatchPlaces'
  BY DEF TypeOK, HandsMatchPlaces, Existing
<1>4. StartsAreFresh'
  BY DEF TypeOK, StartsAreFresh
<1>5. VictimsAreFair'
  BY DEF VictimsAreFair, Occupied
<1>. QED BY <1>1, <1>2, <1>3, <1>4, <1>5, QuietStep

\* Router::stop returns.
LEMMA StopReturnsKeeps ==
  ASSUME SlotsInvariant, StopReturns
  PROVE  SlotsInvariant'
<1>. USE ThreadFacts DEF SlotsInvariant, StopReturns, Goto, stopperLeaves, admitting, sweeping, stopping
<1>1. TypeOK'
  BY DEF TypeOK, StopperPcs
<1>2. LockIsExclusive' /\ LoadsIntoAnEmptySlot'
  BY DEF TypeOK, LockIsExclusive, LoadsIntoAnEmptySlot, Occupied
<1>3. HandsMatchPlaces'
  BY DEF TypeOK, HandsMatchPlaces, Existing
<1>4. StartsAreFresh'
  BY DEF TypeOK, StartsAreFresh
<1>5. VictimsAreFair'
  BY DEF VictimsAreFair, Occupied
<1>. QED BY <1>1, <1>2, <1>3, <1>4, <1>5, QuietStep

\* A second signal changes nothing but whether the process runs.
LEMMA SecondSignalKeeps ==
  ASSUME SlotsInvariant, SecondSignal
  PROVE  SlotsInvariant'
<1>. USE ThreadFacts DEF SlotsInvariant, SecondSignal, Goto, stopperLeaves, admitting, sweeping, stopping
<1>1. TypeOK'
  BY DEF TypeOK
<1>2. LockIsExclusive' /\ LoadsIntoAnEmptySlot'
  BY DEF TypeOK, LockIsExclusive, LoadsIntoAnEmptySlot, Occupied
<1>3. HandsMatchPlaces'
  BY DEF TypeOK, HandsMatchPlaces, Existing
<1>4. StartsAreFresh'
  BY DEF TypeOK, StartsAreFresh
<1>5. VictimsAreFair'
  BY DEF VictimsAreFair, Occupied
<1>. QED BY <1>1, <1>2, <1>3, <1>4, <1>5, QuietStep


\* A sweep drops a dead child that only its slot holds.
LEMMA SweepExitedKeeps ==
  ASSUME SlotsInvariant, SweepExited
  PROVE  SlotsInvariant'
<1>. USE ThreadFacts DEF SlotsInvariant
<1>1. /\ pc[Reaper] = "exited"
      /\ at' = IF at = N THEN 1 ELSE at + 1
      /\ pc' = [pc EXCEPT ![Reaper] = IF at = N THEN "window" ELSE "exited"]
      /\ UNCHANGED <<hand, expired, old, want, admitting, warm, failures, stopping>>
  BY DEF SweepExited, Goto, reaperLeaves
<1>2. at \in Entries
  BY DEF TypeOK
<1>3. /\ slot' \in [Entries -> Loaded \cup {None}]
      /\ \A f \in Entries : slot'[f] = slot[f] \/ slot'[f] = None
      /\ proc' \in [Procs -> {"none", "loading", "ready", "exited", "gone"}]
      /\ \A u \in Threads : \A p \in hand[u] : proc'[p] = proc[p]
      /\ \A p \in Procs : proc[p] = "none" => proc'[p] = "none"
      /\ SlotsHoldTheirOwn' /\ EveryProcessIsHeld'
  <2>1. CASE Exited(at)
    <3>1. Empty(at) /\ Reap({slot[at].child}) /\ Occupied(at)
      BY <2>1 DEF SweepExited, Exited
    <3>. QED BY <1>1, <1>2, <2>1, <3>1, EmptyFacts
  <2>2. CASE ~Exited(at)
    BY <1>1, <2>2, QuietStep DEF SweepExited, TypeOK
  <2>. QED BY <2>1, <2>2
<1>4. TypeOK'
  BY <1>1, <1>3, CatalogAssumption, SMTT(30) DEF TypeOK, ReaperPcs, Entries, admitting, stopping
<1>5. LockIsExclusive' /\ LoadsIntoAnEmptySlot'
  BY <1>1, <1>3 DEF TypeOK, LockIsExclusive, LoadsIntoAnEmptySlot, Occupied, admitting
<1>6. HandsMatchPlaces'
  BY <1>1, <1>3 DEF TypeOK, HandsMatchPlaces, Existing
<1>7. StartsAreFresh'
  BY <1>1, <1>3, FreshStays DEF TypeOK, StartsAreFresh, BeforeStart, AdmittingPcs
<1>8. VictimsAreFair'
  BY <1>1, <1>3 DEF TypeOK, VictimsAreFair, Occupied, admitting
<1>. QED BY <1>3, <1>4, <1>5, <1>6, <1>7, <1>8

\* A sweep takes an idle child: from its slot to the reaper's empty hand.
LEMMA SweepTakeKeeps ==
  ASSUME SlotsInvariant, SweepTake
  PROVE  SlotsInvariant'
<1>. USE ThreadFacts DEF SlotsInvariant
<1>0. /\ pc[Reaper] = "take" /\ hand[Reaper] = {}
      /\ UNCHANGED <<proc, at, want, admitting, warm, failures, stopping>>
      /\ expired' \subseteq expired /\ old' \subseteq old
  BY DEF SweepTake, reaperLeaves, HandsMatchPlaces
<1>1. CASE UNCHANGED <<slot, hand>>
  <2>. USE <1>0, <1>1
  <2>1. pc' = pc \/ pc' = [pc EXCEPT ![Reaper] = "wait"] \/ pc' = [pc EXCEPT ![Reaper] = "sweep"]
    BY DEF SweepTake, Goto
  <2>2. TypeOK'
    BY <2>1 DEF TypeOK, ReaperPcs, admitting, stopping
  <2>3. LockIsExclusive' /\ LoadsIntoAnEmptySlot'
    BY <2>1 DEF TypeOK, LockIsExclusive, LoadsIntoAnEmptySlot, Occupied, admitting
  <2>4. HandsMatchPlaces'
    BY <2>1 DEF TypeOK, HandsMatchPlaces, Existing
  <2>5. StartsAreFresh'
    BY <2>1 DEF TypeOK, StartsAreFresh
  <2>6. VictimsAreFair'
    BY DEF VictimsAreFair, Occupied, admitting
  <2>. QED BY <2>2, <2>3, <2>4, <2>5, <2>6, QuietStep
<1>2. CASE ~UNCHANGED <<slot, hand>>
  <2>1. PICK e \in expired : Takeable(e, e \in old) /\ Take(Reaper, e) /\ Goto(Reaper, "sweep")
    BY <1>2 DEF SweepTake
  <2>2. /\ e \in Entries /\ Occupied(e)
        /\ slot[e].child \in Procs /\ slot[e].child \in Existing
    BY <2>1, SlotChildFacts DEF TypeOK, Takeable
  <2>3. /\ slot' = [slot EXCEPT ![e] = None]
        /\ hand' = [hand EXCEPT ![Reaper] = {slot[e].child}]
        /\ pc' = [pc EXCEPT ![Reaper] = "sweep"]
    BY <2>1 DEF Take, Empty, Goto
  <2>4. TypeOK'
    BY <1>0, <2>2, <2>3 DEF TypeOK, ReaperPcs, admitting, stopping
  <2>5. LockIsExclusive' /\ LoadsIntoAnEmptySlot'
    BY <1>0, <2>2, <2>3 DEF TypeOK, LockIsExclusive, LoadsIntoAnEmptySlot, Occupied, admitting
  <2>6. SlotsHoldTheirOwn' /\ EveryProcessIsHeld'
    BY <1>0, <2>2, <2>3 DEF TypeOK, SlotsHoldTheirOwn, EveryProcessIsHeld, Existing, Occupied
  <2>7. HandsMatchPlaces'
    BY <1>0, <2>2, <2>3 DEF TypeOK, HandsMatchPlaces, Existing
  <2>8. StartsAreFresh'
    BY <1>0, <2>3 DEF TypeOK, StartsAreFresh
  <2>9. VictimsAreFair'
    BY <1>0, <2>2, <2>3 DEF TypeOK, VictimsAreFair, Occupied, admitting
  <2>. QED BY <2>4, <2>5, <2>6, <2>7, <2>8, <2>9
<1>. QED BY <1>1, <1>2

\* The reaper drops what it took, outside every lock.
LEMMA SweepDropKeeps ==
  ASSUME SlotsInvariant, SweepDrop
  PROVE  SlotsInvariant'
<1>. USE ThreadFacts DEF SlotsInvariant, SweepDrop, Goto, reaperLeaves, admitting, sweeping, stopping
<1>1. /\ proc' \in [Procs -> {"none", "loading", "ready", "exited", "gone"}]
      /\ hand' \in [Threads -> SUBSET Procs]
      /\ \A u \in Threads : hand'[u] = IF u = Reaper THEN {} ELSE hand[u]
      /\ \A u \in Threads : \A p \in hand'[u] : proc'[p] = proc[p]
      /\ \A p \in Procs : proc[p] = "none" => proc'[p] = "none"
      /\ \A u \in Threads : hand'[u] \subseteq Existing'
      /\ SlotsHoldTheirOwn' /\ EveryProcessIsHeld'
  BY DropAllFacts
<1>2. TypeOK'
  BY <1>1 DEF TypeOK, ReaperPcs
<1>3. LockIsExclusive' /\ LoadsIntoAnEmptySlot'
  BY DEF TypeOK, LockIsExclusive, LoadsIntoAnEmptySlot, Occupied
<1>4. HandsMatchPlaces'
  BY <1>1, HandsStay DEF TypeOK, HandsMatchPlaces
<1>5. StartsAreFresh'
  BY <1>1, FreshStays DEF TypeOK, StartsAreFresh
<1>6. VictimsAreFair'
  BY DEF VictimsAreFair, Occupied
<1>. QED BY <1>1, <1>2, <1>3, <1>4, <1>5, <1>6

\* stop moves a child from its slot to its own hand, readers or none.
LEMMA ClearKeeps ==
  ASSUME SlotsInvariant, NEW e \in Entries, Clear(e)
  PROVE  SlotsInvariant'
<1>. USE ThreadFacts DEF SlotsInvariant
<1>. DEFINE taken == IF Occupied(e) THEN {slot[e].child} ELSE {}
<1>1. /\ slot' = [slot EXCEPT ![e] = None]
      /\ hand' = [hand EXCEPT ![Stopper] = hand[Stopper] \cup taken]
      /\ uncleared' \subseteq uncleared
      /\ pc' = [pc EXCEPT ![Stopper] = IF uncleared = {e} THEN "drop" ELSE "clear"]
      /\ UNCHANGED <<proc, stopped, signalled, running, want, admitting, warm, failures, sweeping>>
  BY DEF Clear, Empty, Goto, stopperLeaves
<1>2. /\ taken \subseteq Procs /\ taken \subseteq Existing
      /\ Occupied(e) => slot[e].child \in taken
  BY SlotChildFacts
<1>. HIDE DEF taken
<1>3. TypeOK'
  BY <1>1, <1>2 DEF TypeOK, StopperPcs, admitting, sweeping
<1>4. LockIsExclusive' /\ LoadsIntoAnEmptySlot'
  BY <1>1 DEF TypeOK, LockIsExclusive, LoadsIntoAnEmptySlot, Occupied, admitting
<1>5. SlotsHoldTheirOwn' /\ EveryProcessIsHeld'
  BY <1>1, <1>2 DEF TypeOK, SlotsHoldTheirOwn, EveryProcessIsHeld, Existing, Occupied
<1>6. HandsMatchPlaces'
  BY <1>1, <1>2 DEF TypeOK, HandsMatchPlaces, Existing
<1>7. StartsAreFresh'
  BY <1>1 DEF TypeOK, StartsAreFresh
<1>8. VictimsAreFair'
  BY <1>1 DEF TypeOK, VictimsAreFair, Occupied, admitting, sweeping
<1>. QED BY <1>3, <1>4, <1>5, <1>6, <1>7, <1>8

\* stop drops one child, or has none left and raises the flag.
LEMMA ClearDropKeeps ==
  ASSUME SlotsInvariant, ClearDrop
  PROVE  SlotsInvariant'
<1>. USE ThreadFacts DEF SlotsInvariant
<1>1. CASE \E p \in hand[Stopper] : Drop(Stopper, {p}) /\ UNCHANGED <<pc, stopped>>
  <2>. PICK q \in hand[Stopper] : Drop(Stopper, {q}) /\ UNCHANGED <<pc, stopped>>
    BY <1>1
  <2>. USE DEF ClearDrop, stopperLeaves, admitting, sweeping
  <2>0. /\ {q} \in SUBSET Procs /\ proc[q] # "none"
        /\ \A u \in Threads : hand[u] \subseteq Existing
    BY DEF TypeOK, HandsMatchPlaces, Existing
  <2>1. /\ proc' \in [Procs -> {"none", "loading", "ready", "exited", "gone"}]
        /\ hand' \in [Threads -> SUBSET Procs]
        /\ \A u \in Threads : hand'[u] = IF u = Stopper THEN hand[Stopper] \ {q} ELSE hand[u]
        /\ \A u \in Threads : \A p \in hand'[u] : proc'[p] = proc[p]
        /\ \A p \in Procs : proc[p] = "none" /\ p \notin {q} => proc'[p] = "none"
        /\ \A u \in Threads : hand'[u] \subseteq Existing'
        /\ SlotsHoldTheirOwn' /\ EveryProcessIsHeld'
    BY <2>0, DropFacts
  <2>2. TypeOK'
    BY <2>1 DEF TypeOK
  <2>3. LockIsExclusive' /\ LoadsIntoAnEmptySlot'
    BY DEF TypeOK, LockIsExclusive, LoadsIntoAnEmptySlot, Occupied
  <2>4. HandsMatchPlaces'
    BY <2>1, HandsStay DEF TypeOK, HandsMatchPlaces
  <2>5. \A p \in Procs : proc[p] = "none" => proc'[p] = "none"
    BY <2>0, <2>1
  <2>6. StartsAreFresh'
    BY <2>5, FreshStays DEF TypeOK, StartsAreFresh
  <2>7. VictimsAreFair'
    BY DEF VictimsAreFair, Occupied
  <2>. QED BY <2>1, <2>2, <2>3, <2>4, <2>6, <2>7
<1>2. CASE UNCHANGED <<proc, hand>> /\ stopped' = TRUE /\ Goto(Stopper, "signal")
  <2>. USE <1>2 DEF ClearDrop, Goto, stopperLeaves, admitting, sweeping
  <2>1. TypeOK'
    BY DEF TypeOK, StopperPcs
  <2>2. LockIsExclusive' /\ LoadsIntoAnEmptySlot'
    BY DEF TypeOK, LockIsExclusive, LoadsIntoAnEmptySlot, Occupied
  <2>3. HandsMatchPlaces'
    BY DEF TypeOK, HandsMatchPlaces, Existing
  <2>4. StartsAreFresh'
    BY DEF TypeOK, StartsAreFresh
  <2>5. VictimsAreFair'
    BY DEF VictimsAreFair, Occupied
  <2>. QED BY <2>1, <2>2, <2>3, <2>4, <2>5, QuietStep
<1>. QED BY <1>1, <1>2 DEF ClearDrop

\* A child that exits on its own still exists until somebody reaps it.
LEMMA CrashKeeps ==
  ASSUME SlotsInvariant, NEW q \in Procs, Crash(q)
  PROVE  SlotsInvariant'
<1>. USE ThreadFacts DEF SlotsInvariant, Crash, admitting, sweeping, stopping
<1>1. /\ proc[q] = "ready" /\ proc' = [proc EXCEPT ![q] = "exited"]
      /\ \A p \in Procs : proc'[p] = IF p = q THEN "exited" ELSE proc[p]
      /\ \A p \in Procs : proc[p] = "none" => proc'[p] = "none"
      /\ Existing' = Existing
  BY DEF TypeOK, Existing
<1>2. TypeOK'
  BY <1>1 DEF TypeOK
<1>3. LockIsExclusive' /\ LoadsIntoAnEmptySlot'
  BY DEF LockIsExclusive, LoadsIntoAnEmptySlot, Occupied
<1>4. SlotsHoldTheirOwn' /\ EveryProcessIsHeld'
  BY <1>1, SlotChildFacts DEF SlotsHoldTheirOwn, EveryProcessIsHeld, Occupied
<1>5. HandsMatchPlaces'
  BY <1>1 DEF TypeOK, HandsMatchPlaces, Procs, Existing
<1>6. StartsAreFresh'
  BY <1>1, FreshStays DEF TypeOK, StartsAreFresh
<1>7. VictimsAreFair'
  BY DEF VictimsAreFair, Occupied
<1>. QED BY <1>2, <1>3, <1>4, <1>5, <1>6, <1>7

\* Time changes the age of what is loaded, upwards, and nothing else of it.
LEMMA TickFacts ==
  ASSUME TypeOK, Tick, NEW e \in Entries
  PROVE  /\ slot'[e] = None <=> slot[e] = None
         /\ slot'[e] \in Loaded \cup {None}
         /\ slot[e] # None => /\ slot'[e].child = slot[e].child
                              /\ slot'[e].last \in 0..MaxAge
                              /\ slot'[e].last >= slot[e].last
<1>. USE DEF Tick
<1>1. CASE slot[e] = None
  BY <1>1 DEF Occupied
<1>2. CASE slot[e] # None
  <2>1. slot[e] \in Loaded /\ slot[e].last \in 0..MaxAge
    BY <1>2 DEF TypeOK, Loaded
  <2>2. Older(slot[e].last) \in 0..MaxAge /\ Older(slot[e].last) >= slot[e].last
    BY <2>1, SlotsAssumption DEF Older
  <2>3. slot'[e] = [slot[e] EXCEPT !.last = Older(slot[e].last)]
    BY <1>2 DEF Occupied
  <2>4. slot'[e] \in Loaded /\ slot'[e].child = slot[e].child /\ slot'[e].last = Older(slot[e].last)
    BY <2>1, <2>2, <2>3 DEF Loaded
  <2>. QED BY <1>2, <2>2, <2>4, SlotsAssumption
<1>. QED BY <1>1, <1>2

\* Time ages what is loaded and what a snapshot shows of it.
LEMMA TickKeeps ==
  ASSUME SlotsInvariant, Tick
  PROVE  SlotsInvariant'
<1>. USE ThreadFacts DEF SlotsInvariant, Tick, admitting, sweeping, stopping
<1>1. \A e \in Entries :
        /\ slot'[e] = None <=> slot[e] = None
        /\ slot'[e] \in Loaded \cup {None}
        /\ slot[e] # None => /\ slot'[e].child = slot[e].child
                             /\ slot'[e].last \in 0..MaxAge
                             /\ slot'[e].last >= slot[e].last
  BY TickFacts
<1>2. \A e \in Entries : view'[e] \in Held \cup {None}
  <2>. SUFFICES ASSUME NEW e \in Entries, view[e] # None PROVE view'[e] \in Held
    OBVIOUS
  <2>1. view[e] \in Held /\ Older(view[e].age) \in Nat
    BY SlotsAssumption DEF TypeOK, Held, Older
  <2>2. view'[e] = [view[e] EXCEPT !.age = Older(view[e].age)]
    OBVIOUS
  <2>. QED BY <2>1, <2>2 DEF Held
<1>3. TypeOK'
  <2>1. slot' \in [Entries -> Loaded \cup {None}] /\ view' \in [Entries -> Held \cup {None}]
    BY <1>1, <1>2
  <2>2. left' \in 0..Wait
    BY SlotsAssumption DEF TypeOK
  <2>. QED BY <2>1, <2>2 DEF TypeOK
<1>4. LockIsExclusive' /\ LoadsIntoAnEmptySlot'
  BY <1>1 DEF TypeOK, LockIsExclusive, LoadsIntoAnEmptySlot, Occupied
<1>5. SlotsHoldTheirOwn' /\ EveryProcessIsHeld'
  BY <1>1 DEF SlotsHoldTheirOwn, EveryProcessIsHeld, Occupied, Existing
<1>6. HandsMatchPlaces'
  BY DEF HandsMatchPlaces, Existing
<1>7. StartsAreFresh'
  BY DEF StartsAreFresh
<1>8. VictimsAreFair'
  <2>. SUFFICES ASSUME NEW e \in old, slot[e] # None
                PROVE  slot'[e].last >= IdleWindow
    BY <1>1 DEF TypeOK, VictimsAreFair, Occupied
  <2>1. /\ e \in Entries
        /\ slot[e].last >= IdleWindow /\ slot[e].last \in Int
        /\ slot'[e].last >= slot[e].last /\ slot'[e].last \in Int
    BY <1>1 DEF TypeOK, VictimsAreFair, Occupied, Loaded
  <2>. QED BY <2>1, SlotsAssumption
<1>. QED BY <1>3, <1>4, <1>5, <1>6, <1>7, <1>8

----------------------------------------------------------------------------
(* The invariant, and what follows from it. *)

\* The router starts with every slot empty and no process.
LEMMA InitEstablishes ==
  ASSUME Init
  PROVE  SlotsInvariant
<1>. USE ThreadFacts DEF Init
<1>1. /\ pc \in [Threads -> {"off", "wait", "idle", "new"}]
      /\ pc[Reaper] # "sweep" /\ \A t \in Admitters : pc[t] = "new"
  <2>1. pc[Reaper] \in {"off", "wait"}
    OBVIOUS
  <2>2. \A t \in Admitters : pc[t] = "new"
    OBVIOUS
  <2>3. pc[Stopper] = "idle"
    OBVIOUS
  <2>4. pc = [t \in Threads |-> pc[t]]
    OBVIOUS
  <2>5. \A t \in Threads : pc[t] \in {"off", "wait", "idle", "new"}
    BY <2>1, <2>2, <2>3 DEF Threads
  <2>6. pc \in [Threads -> {"off", "wait", "idle", "new"}]
    BY <2>4, <2>5
  <2>. QED BY <2>1, <2>2, <2>6
<1>2. TypeOK
  <2>1. pc \in [Threads -> RequestPcs \cup ReaperPcs \cup StopperPcs]
    BY <1>1 DEF RequestPcs, ReaperPcs, StopperPcs
  <2>2. 1 \in Entries /\ 1 \in 1..(N + 1) /\ 0 \in 0..Wait
    BY CatalogAssumption, SlotsAssumption DEF Entries
  <2>. QED BY <2>1, <2>2 DEF TypeOK
<1>3. LockIsExclusive /\ LoadsIntoAnEmptySlot
  BY <1>1 DEF LockIsExclusive, LoadsIntoAnEmptySlot, AdmittingPcs
<1>4. SlotsHoldTheirOwn /\ EveryProcessIsHeld /\ VictimsAreFair
  BY DEF SlotsHoldTheirOwn, EveryProcessIsHeld, VictimsAreFair, Existing, Occupied
<1>5. HandsMatchPlaces
  BY <1>1 DEF HandsMatchPlaces
<1>6. StartsAreFresh
  BY <1>1, CatalogAssumption DEF StartsAreFresh, BeforeStart, AdmittingPcs, Procs
<1>. QED BY <1>2, <1>3, <1>4, <1>5, <1>6 DEF SlotsInvariant

\* A step that changes nothing changes nothing of the invariant.
LEMMA StutterKeeps ==
  ASSUME SlotsInvariant, UNCHANGED vars
  PROVE  SlotsInvariant'
<1>. USE DEF SlotsInvariant, vars
<1>1. TypeOK' BY DEF TypeOK
<1>2. LockIsExclusive' /\ LoadsIntoAnEmptySlot' BY DEF LockIsExclusive, LoadsIntoAnEmptySlot, Occupied
<1>3. HandsMatchPlaces' /\ StartsAreFresh' BY DEF HandsMatchPlaces, StartsAreFresh, Existing
<1>4. VictimsAreFair' BY DEF VictimsAreFair, Occupied
<1>. QED BY <1>1, <1>2, <1>3, <1>4, QuietStep

\* Every step of every thread keeps the invariant.
LEMMA NextKeeps ==
  ASSUME SlotsInvariant, [Next]_vars
  PROVE  SlotsInvariant'
<1>1. CASE \E t \in Requests, e \in Entries : Arrive(t, e)
  BY <1>1, ArriveKeeps
<1>2. CASE \E e \in Entries : Warm(e)
  BY <1>2, WarmKeeps
<1>3. ASSUME NEW t \in Admitters, Work(t) PROVE SlotsInvariant'
  BY <1>3, FastKeeps, LockKeeps, RecheckKeeps, ModelFileKeeps, ProbeKeeps, SnapshotKeeps,
     DecideKeeps, UnloadKeeps, UnloadingKeeps, HoldKeeps, SpawnKeeps, LoadKeeps, InsertKeeps,
     TouchKeeps, ReleaseKeeps
     DEF Work
<1>4. CASE \E t \in Requests : Relay(t)
  BY <1>4, RelayKeeps
<1>5. CASE Sweep
  BY <1>5, WakeKeeps, SweepExitedKeeps, SweepNowKeeps, SweepSnapshotKeeps, SweepTakeKeeps,
     SweepDropKeeps
     DEF Sweep
<1>6. CASE Stop
  BY <1>6, StopCalledKeeps, ClearKeeps, ClearDropKeeps, StopReturnsKeeps, SecondSignalKeeps
     DEF Stop
<1>7. CASE Tick
  BY <1>7, TickKeeps
<1>8. CASE \E p \in Procs : Crash(p)
  BY <1>8, CrashKeeps
<1>9. CASE UNCHANGED vars
  BY <1>9, StutterKeeps
<1>. QED BY <1>1, <1>2, <1>3, <1>4, <1>5, <1>6, <1>7, <1>8, <1>9 DEF Next

\* The table of children keeps its inductive invariant for ever.
THEOREM SlotsInvariantHolds == Spec => []SlotsInvariant
<1>1. Init => SlotsInvariant
  BY InitEstablishes
<1>2. SlotsInvariant /\ [Next]_vars => SlotsInvariant'
  BY NextKeeps
<1>. QED BY <1>1, <1>2, PTL DEF Spec

\* Every variable keeps its type: no walk over the slots leaves the catalog, no
\* deadline goes below zero, and admission is only ever asked about figures.
THEOREM TypesHold == Spec => []TypeOK
<1>1. SlotsInvariant => TypeOK
  BY DEF SlotsInvariant
<1>. QED BY <1>1, SlotsInvariantHolds, PTL

\* No eviction, sweep or stop ends a child that a request is answering from.
THEOREM ReadersKeepTheirChildren == Spec => []ReaderKeepsItsChild
<1>1. SlotsInvariant => ReaderKeepsItsChild
  BY ThreadFacts DEF SlotsInvariant, HandsMatchPlaces, ReaderKeepsItsChild
<1>. QED BY <1>1, SlotsInvariantHolds, PTL

\* While the router runs no process is left that nothing in it will end.
THEOREM NothingIsEverOrphaned == Spec => []NothingIsOrphaned
<1>1. SlotsInvariant => NothingIsOrphaned
  BY DEF SlotsInvariant, NothingIsOrphaned
<1>. QED BY <1>1, SlotsInvariantHolds, PTL

\* The slot a child is loaded for is empty from the second look to the insertion.
THEOREM LoadsGoIntoEmptySlots == Spec => []LoadsIntoAnEmptySlot
<1>1. SlotsInvariant => LoadsIntoAnEmptySlot
  BY DEF SlotsInvariant
<1>. QED BY <1>1, SlotsInvariantHolds, PTL

\* A slot is emptied by one of four: a look that finds a dead child nobody
\* holds, an eviction admission decided on, a sweep of an old entry, or stop.
LEMMA WhoEmptiesASlot ==
  ASSUME SlotsInvariant, Next, NEW e \in Entries, Occupied(e), slot'[e] = None
  PROVE  Exited(e) \/ e \in todo \/ e \in expired \/ pc[Stopper] = "clear"
<1>. USE DEF SlotsInvariant
<1>0. slot' # slot
  BY DEF Occupied
<1>1. ASSUME NEW t \in Admitters, Work(t)
      PROVE  Exited(e) \/ e \in todo
  <2>1. ASSUME HandOut(t, want[t]) PROVE FALSE
    BY <2>1, StampFacts DEF HandOut, TypeOK, Occupied
  <2>2. ASSUME NoneLive(t, want[t]) PROVE Exited(e)
    BY <2>2 DEF NoneLive, Empty, TypeOK, Occupied
  <2>3. CASE Fast(t) \/ Recheck(t)
    BY <2>1, <2>2, <2>3 DEF Fast, Recheck
  <2>4. CASE Unload(t)
    BY <1>0, <2>4 DEF Unload, Take, Empty, TypeOK, Occupied
  <2>5. CASE Insert(t)
    <3>1. PICK m \in Measurements :
            slot' = [slot EXCEPT ![want[t]] = [child  |-> <<t, want[t]>>,
                                               cost   |-> CostOf(want[t], m),
                                               device |-> DeviceOf(want[t], m),
                                               last   |-> 0]]
      BY <2>5 DEF Insert
    <3>2. want[t] \in Entries /\ <<t, want[t]>> \in Procs
      BY DEF TypeOK, Procs
    <3>3. [child |-> <<t, want[t]>>, cost |-> CostOf(want[t], m),
           device |-> DeviceOf(want[t], m), last |-> 0] \in Loaded
      BY <3>2, ChargesAreNat, SlotsAssumption DEF Loaded
    <3>. QED BY <3>1, <3>3, SlotsAssumption DEF TypeOK, Occupied
  <2>6. CASE Touch(t)
    <3>1. want[t] \in Entries
      BY DEF TypeOK
    <3>. QED BY <1>0, <2>6, <3>1, StampFacts DEF Touch, Occupied
  <2>7. CASE \/ Lock(t) \/ ModelFile(t) \/ Probe(t) \/ Snapshot(t) \/ Decide(t)
             \/ Unloading(t) \/ Hold(t) \/ Spawn(t) \/ Load(t) \/ Release(t)
    BY <1>0, <2>7 DEF Lock, ModelFile, Probe, Snapshot, Decide, Unloading, Hold, Spawn, Load, Release
  <2>. QED BY <1>1, <2>3, <2>4, <2>5, <2>6, <2>7 DEF Work
<1>2. CASE Sweep
  <2>1. CASE SweepExited
    BY <1>0, <2>1 DEF SweepExited, Empty, TypeOK, Occupied
  <2>2. CASE SweepTake
    BY <1>0, <2>2 DEF SweepTake, Take, Empty, TypeOK, Occupied
  <2>. QED BY <1>0, <1>2, <2>1, <2>2 DEF Sweep, Wake, SweepNow, SweepSnapshot, SweepDrop
<1>3. CASE Stop
  BY <1>0, <1>3 DEF Stop, StopCalled, Clear, ClearDrop, StopReturns, SecondSignal
<1>4. CASE Tick
  BY <1>4, TickFacts DEF Occupied
<1>. QED BY <1>0, <1>1, <1>2, <1>3, <1>4 DEF Next, Arrive, Warm, Relay, Crash

\* A resident is never unloaded to make room or for sitting idle: only its own
\* exit or Router::stop empties its slot.
THEOREM ResidentsStay == Spec => ResidentStays
<1>1. ASSUME SlotsInvariant, [Next]_vars
      PROVE  [\A e \in Resident : (Occupied(e) /\ slot'[e] = None) =>
                proc[slot[e].child] = "exited" \/ pc[Stopper] = "clear"]_vars
  <2>. SUFFICES ASSUME Next, NEW e \in Resident, Occupied(e), slot'[e] = None
                PROVE  proc[slot[e].child] = "exited" \/ pc[Stopper] = "clear"
    BY <1>1
  <2>1. e \in Entries
    BY CatalogAssumption
  <2>2. e \notin todo /\ e \notin expired
    BY <1>1 DEF SlotsInvariant, VictimsAreFair
  <2>. QED BY <1>1, <2>1, <2>2, WhoEmptiesASlot DEF Exited
<1>. QED BY <1>1, SlotsInvariantHolds, PTL DEF Spec, ResidentStays

\* A sweep takes nothing that was used within the window, although it decides
\* from a snapshot and takes later.
THEOREM SweepsSpareTheUsed == Spec => SweepSparesTheUsed
<1>1. ASSUME SlotsInvariant, [Next]_vars
      PROVE  [\A e \in Entries :
                (pc[Reaper] = "take" /\ pc'[Reaper] = "sweep" /\ Occupied(e) /\ slot'[e] = None)
                  => slot[e].last >= IdleWindow]_vars
  <2>. SUFFICES ASSUME Next, NEW e \in Entries, pc[Reaper] = "take", pc'[Reaper] = "sweep",
                       Occupied(e), slot'[e] = None
                PROVE  slot[e].last >= IdleWindow
    BY <1>1
  <2>1. Sweep
    <3>. USE ThreadFacts DEF SlotsInvariant, TypeOK, Goto
    <3>1. ASSUME NEW t \in Admitters, Work(t) PROVE pc'[Reaper] = pc[Reaper]
      BY <1>1, <3>1 DEF Work, Fast, Lock, Recheck, ModelFile, Probe, Snapshot, Decide, Unload,
           Unloading, Hold, Spawn, Load, Insert, Touch, Release, Fail
    <3>2. ASSUME Stop PROVE pc'[Reaper] = pc[Reaper]
      BY <1>1, <3>2 DEF Stop, StopCalled, Clear, ClearDrop, StopReturns, SecondSignal
    <3>. QED BY <1>1, <3>1, <3>2 DEF Next, Arrive, Warm, Relay, Tick, Crash
  <2>2. SweepTake
    BY <2>1 DEF Sweep, Wake, SweepExited, SweepNow, SweepSnapshot, SweepDrop
  <2>3. e \in old
    BY <1>1, <2>2 DEF SweepTake, Takeable, Take, Empty, Occupied, SlotsInvariant, TypeOK
  <2>. QED BY <1>1, <2>3 DEF SlotsInvariant, VictimsAreFair
<1>. QED BY <1>1, SlotsInvariantHolds, PTL DEF Spec, SweepSparesTheUsed


----------------------------------------------------------------------------
(* Sums over slots. *)

LEMMA EntriesAreFinite == \A S \in SUBSET Entries : IsFiniteSet(S)
<1>1. IsFiniteSet(1..N)
  BY CatalogAssumption, FS_Interval
<1>. QED BY <1>1, FS_Subset DEF Entries

\* Fewer slots at the same costs are charged no more.
LEMMA SmallerCharge ==
  ASSUME NEW S, IsFiniteSet(S), NEW T \in SUBSET S, NEW a, NEW b,
         \A e \in S : a[e].cost \in Nat, \A e \in T : b[e].cost = a[e].cost
  PROVE  /\ SumFunction([e \in S |-> a[e].cost]) \in Nat
         /\ SumFunction([e \in T |-> b[e].cost]) \in Nat
         /\ SumFunction([e \in T |-> b[e].cost]) <= SumFunction([e \in S |-> a[e].cost])
<1>. DEFINE f == [e \in S |-> a[e].cost]
            g == [e \in T |-> b[e].cost]
<1>1. SumFunction(f) = SumFunctionOnSet(f, S) /\ SumFunction(g) = SumFunctionOnSet(g, T)
  BY DEF SumFunction
<1>2. IsFiniteSet(T) /\ \A e \in T : f[e] = g[e]
  BY FS_Subset
<1>3. \A e \in S : f[e] \in Nat
  OBVIOUS
<1>. HIDE DEF f, g
<1>4. SumFunctionOnSet(g, T) = SumFunctionOnSet(f, T)
  BY <1>2, SumsAgree
<1>5. SumFunctionOnSet(f, T) <= SumFunctionOnSet(f, S)
  BY <1>3, SumIsMonotone
<1>6. SumFunctionOnSet(f, T) \in Nat /\ SumFunctionOnSet(f, S) \in Nat
  BY <1>3, SumIsNat
<1>7. SumFunction(f) \in Nat /\ SumFunction(g) \in Nat /\ SumFunction(g) <= SumFunction(f)
  BY <1>1, <1>4, <1>5, <1>6
<1>. QED BY <1>7 DEF f, g

\* What is in a slot is charged a whole number of MiB.
LEMMA ChargesOfSlots ==
  ASSUME TypeOK
  PROVE  \A e \in Full : slot[e].cost \in Nat
  BY DEF TypeOK, Full, Occupied, Loaded

----------------------------------------------------------------------------
(* The ledger. *)

\* No slot is filled, or charged differently.
Shrinks ==
  \A e \in Entries : slot'[e] # None => slot[e] # None /\ slot'[e].cost = slot[e].cost

\* Only the insertion of a child that was admitted fills a slot.
LEMMA SlotsShrink ==
  ASSUME SlotsInvariant, [Next]_vars
  PROVE  Shrinks \/ \E t \in Admitters : Insert(t)
<1>. USE DEF SlotsInvariant
<1>1. ASSUME UNCHANGED slot PROVE Shrinks
  BY <1>1 DEF Shrinks
<1>2. ASSUME NEW e \in Entries, Occupied(e), Stamp(e) PROVE Shrinks
  <2>1. slot[e] \in Loaded
    BY <1>2 DEF TypeOK, Occupied
  <2>2. slot' = [slot EXCEPT ![e] = [slot[e] EXCEPT !.last = 0]]
    BY <1>2 DEF Stamp
  <2>3. [slot[e] EXCEPT !.last = 0].cost = slot[e].cost
    BY <2>1 DEF Loaded
  <2>. QED BY <1>2, <2>2, <2>3 DEF TypeOK, Shrinks, Occupied
<1>3. ASSUME NEW e \in Entries, Empty(e) PROVE Shrinks
  BY <1>3 DEF Empty, TypeOK, Shrinks
<1>4. ASSUME NEW t \in Admitters, Work(t), ~Insert(t) PROVE Shrinks
  <2>1. want[t] \in Entries
    BY DEF TypeOK
  <2>2. CASE Fast(t) \/ Recheck(t)
    BY <1>2, <1>3, <2>1, <2>2 DEF Fast, Recheck, HandOut, NoneLive
  <2>3. CASE Unload(t)
    BY <1>1, <1>3, <2>3 DEF Unload, Take, TypeOK
  <2>4. CASE Touch(t)
    BY <1>1, <1>2, <2>1, <2>4 DEF Touch
  <2>5. CASE \/ Lock(t) \/ ModelFile(t) \/ Probe(t) \/ Snapshot(t) \/ Decide(t)
             \/ Unloading(t) \/ Hold(t) \/ Spawn(t) \/ Load(t) \/ Release(t)
    BY <1>1, <2>5 DEF Lock, ModelFile, Probe, Snapshot, Decide, Unloading, Hold, Spawn, Load, Release
  <2>. QED BY <1>4, <2>2, <2>3, <2>4, <2>5 DEF Work
<1>5. CASE Sweep
  <2>1. CASE SweepExited
    BY <1>1, <1>3, <2>1 DEF SweepExited, TypeOK
  <2>2. CASE SweepTake
    BY <1>1, <1>3, <2>2 DEF SweepTake, Take, TypeOK
  <2>. QED BY <1>1, <1>5, <2>1, <2>2 DEF Sweep, Wake, SweepNow, SweepSnapshot, SweepDrop
<1>6. CASE Stop
  BY <1>1, <1>3, <1>6 DEF Stop, StopCalled, Clear, ClearDrop, StopReturns, SecondSignal
<1>7. CASE Tick
  <2>1. \A e \in Entries : slot'[e] = IF Occupied(e) THEN [slot[e] EXCEPT !.last = Older(@)] ELSE None
    BY <1>7 DEF Tick
  <2>2. \A e \in Entries : Occupied(e) => [slot[e] EXCEPT !.last = Older(@)].cost = slot[e].cost
    BY DEF TypeOK, Occupied, Loaded
  <2>. QED BY <2>1, <2>2 DEF Shrinks, Occupied
<1>8. CASE \E t \in Requests, e \in Entries : Arrive(t, e)
  BY <1>1, <1>8 DEF Arrive
<1>9. CASE \E e \in Entries : Warm(e)
  BY <1>1, <1>9 DEF Warm
<1>10. CASE \E t \in Requests : Relay(t)
  BY <1>1, <1>10 DEF Relay
<1>11. CASE \E p \in Procs : Crash(p)
  BY <1>1, <1>11 DEF Crash
<1>12. CASE UNCHANGED vars
  BY <1>1, <1>12 DEF vars
<1>. QED BY <1>4, <1>5, <1>6, <1>7, <1>8, <1>9, <1>10, <1>11, <1>12 DEF Next

\* What thread t has under the admission lock is as it was.
Stands(t) ==
  /\ pc'[t] \in {"snapshot", "decide"} =>
       /\ pc[t] = pc'[t] /\ want'[t] = want[t] /\ next' = next
       /\ \A e \in Entries : /\ view[e] = None => view'[e] = None
                             /\ view[e] # None => view'[e] # None /\ view'[e].cost = view[e].cost
  /\ pc'[t] \in {"unload", "unloading"} =>
       pc[t] \in {"unload", "unloading"} /\ want'[t] = want[t] /\ todo' = todo
  /\ pc'[t] \in {"start", "loading", "insert"} =>
       pc[t] \in {"start", "loading", "insert"} /\ want'[t] = want[t]

\* Then the ledger still holds for it, if slots were only emptied.
LEMMA LedgerStands ==
  ASSUME SlotsInvariant, LedgerInvariant, Shrinks, \A t \in Admitters : Stands(t)
  PROVE  LedgerInvariant'
<1>. USE DEF SlotsInvariant, LedgerInvariant
<1>1. Full' \subseteq Full /\ \A e \in Full' : slot'[e].cost = slot[e].cost
  BY DEF Full, Occupied, Shrinks
<1>2. \A e \in Full : slot[e].cost \in Nat
  BY ChargesOfSlots
<1>3. IsFiniteSet(Full)
  BY EntriesAreFinite DEF Full
<1>4. SnapshotIsFaithful'
  <2>. SUFFICES ASSUME NEW t \in Admitters, pc'[t] \in {"snapshot", "decide"}
                PROVE  /\ view'[want'[t]] = None
                       /\ \A e \in Full' : (pc'[t] = "decide" \/ e < next') =>
                            view'[e] # None /\ view'[e].cost = slot'[e].cost
    BY DEF SnapshotIsFaithful
  <2>1. want[t] \in Entries /\ Full' \subseteq Entries
    BY DEF TypeOK, Full
  <2>. QED BY <1>1, <2>1 DEF Stands, SnapshotIsFaithful
<1>5. UnloadingMakesRoom'
  <2>. SUFFICES ASSUME NEW t \in Admitters, pc'[t] \in {"unload", "unloading"}, Limit # None
                PROVE  Charged(Full \ todo)' + Estimate[want'[t]] <= Limit
    BY DEF UnloadingMakesRoom
  <2>1. /\ pc[t] \in {"unload", "unloading"} /\ want'[t] = want[t] /\ todo' = todo
        /\ Charged(Full \ todo) + Estimate[want[t]] <= Limit
        /\ want[t] \in Entries
    BY DEF Stands, UnloadingMakesRoom, TypeOK
  <2>2. /\ IsFiniteSet(Full \ todo) /\ (Full' \ todo) \subseteq (Full \ todo)
    BY <1>1, <1>3, FS_Subset
  <2>3. /\ Charged(Full \ todo) \in Nat /\ Charged(Full \ todo)' \in Nat
        /\ Charged(Full \ todo)' <= Charged(Full \ todo)
    <3>. DEFINE S == Full \ todo
                T == Full' \ todo
                after == slot'
    <3>1. /\ Charged(Full \ todo) = SumFunction([e \in S |-> slot[e].cost])
          /\ Charged(Full \ todo)' = SumFunction([e \in T |-> after[e].cost])
      BY <2>1 DEF Charged
    <3>2. /\ IsFiniteSet(S) /\ T \in SUBSET S
          /\ \A e \in S : slot[e].cost \in Nat
          /\ \A e \in T : after[e].cost = slot[e].cost
      BY <1>1, <1>2, <2>2
    <3>. HIDE DEF S, T, after
    <3>3. /\ SumFunction([e \in S |-> slot[e].cost]) \in Nat
          /\ SumFunction([e \in T |-> after[e].cost]) \in Nat
          /\ SumFunction([e \in T |-> after[e].cost]) <= SumFunction([e \in S |-> slot[e].cost])
      BY <3>2, SmallerCharge
    <3>. QED BY <3>1, <3>3
  <2>4. Limit \in Nat /\ Estimate[want[t]] \in Nat
    BY <2>1, CatalogAssumption, SlotsAssumption
  <2>. QED BY <2>1, <2>3, <2>4
<1>6. LoadFitsTheLedger'
  <2>. SUFFICES ASSUME NEW t \in Admitters, pc'[t] \in {"start", "loading", "insert"}, Limit # None
                PROVE  Charged(Full)' + Estimate[want'[t]] <= Limit
    BY DEF LoadFitsTheLedger
  <2>1. /\ want'[t] = want[t] /\ want[t] \in Entries
        /\ Charged(Full) + Estimate[want[t]] <= Limit
    BY DEF Stands, LoadFitsTheLedger, TypeOK
  <2>2. Charged(Full) \in Nat /\ Charged(Full)' \in Nat /\ Charged(Full)' <= Charged(Full)
    <3>. DEFINE T == Full'
                after == slot'
    <3>1. /\ Charged(Full) = SumFunction([e \in Full |-> slot[e].cost])
          /\ Charged(Full)' = SumFunction([e \in T |-> after[e].cost])
      BY DEF Charged
    <3>2. T \in SUBSET Full /\ \A e \in T : after[e].cost = slot[e].cost
      BY <1>1
    <3>. HIDE DEF T, after
    <3>. QED BY <1>2, <1>3, <3>1, <3>2, SmallerCharge
  <2>3. Limit \in Nat /\ Estimate[want[t]] \in Nat
    BY <2>1, CatalogAssumption, SlotsAssumption
  <2>. QED BY <2>1, <2>2, <2>3
<1>. QED BY <1>4, <1>5, <1>6

\* One thread at a time is between Lock and Unlock.
LEMMA OthersAreOut ==
  ASSUME SlotsInvariant, NEW t \in Admitters, pc[t] \in AdmittingPcs
  PROVE  \A u \in Admitters : u # t => pc[u] \notin AdmittingPcs
  BY DEF SlotsInvariant, LockIsExclusive

LEMMA OutsidersStand ==
  ASSUME NEW u \in Admitters, pc'[u] = pc[u], pc[u] \notin AdmittingPcs
  PROVE  Stands(u)
  BY DEF Stands, AdmittingPcs

\* A thread whose place, want and stack are left alone stands.
LEMMA UntouchedStand ==
  ASSUME NEW u \in Admitters, pc'[u] = pc[u], want'[u] = want[u], UNCHANGED <<view, next, todo>>
  PROVE  Stands(u)
  BY DEF Stands

LEMMA MostStepsStand ==
  ASSUME SlotsInvariant, [Next]_vars
  PROVE  \/ \A u \in Admitters : Stands(u)
         \/ \E t \in Admitters : Probe(t) \/ Snapshot(t) \/ Decide(t) \/ Unload(t) \/ Insert(t)
<1>. USE ThreadFacts DEF SlotsInvariant, Goto
<1>1. ASSUME NEW t \in Admitters, Fast(t) \/ Lock(t) \/ Touch(t) \/ Release(t)
      PROVE  \A u \in Admitters : Stands(u)
  <2>. TAKE u \in Admitters
  <2>1. /\ pc' = [pc EXCEPT ![t] = pc'[t]] /\ UNCHANGED <<want, view, next, todo>>
        /\ pc'[t] \in {"drop", "relay", "queue", "recheck", "new", "done"}
    BY <1>1 DEF Fast, Lock, Touch, Release, Served, TypeOK, admitting
  <2>2. CASE u = t BY <2>1, <2>2 DEF Stands
  <2>3. CASE u # t BY <2>1, <2>3, UntouchedStand DEF TypeOK
  <2>. QED BY <2>2, <2>3
<1>2. ASSUME NEW t \in Admitters,
             Recheck(t) \/ ModelFile(t) \/ Unloading(t) \/ Hold(t) \/ Spawn(t) \/ Load(t)
      PROVE  \A u \in Admitters : Stands(u)
  <2>. TAKE u \in Admitters
  <2>1. pc[t] \in AdmittingPcs /\ pc' = [pc EXCEPT ![t] = pc'[t]]
    BY <1>2 DEF Recheck, ModelFile, Unloading, Hold, Spawn, Load, Fail, AdmittingPcs, TypeOK
  <2>2. CASE u # t BY <2>1, <2>2, OthersAreOut, OutsidersStand DEF TypeOK
  <2>3. want'[t] = want[t]
    BY <1>2 DEF Recheck, ModelFile, Unloading, Hold, Spawn, Load
  <2>4. CASE Recheck(t) \/ ModelFile(t) \/ Hold(t)
    <3>1. pc'[t] \notin {"snapshot", "decide", "unload", "unloading", "start", "loading", "insert"}
      BY <2>4 DEF Recheck, ModelFile, Hold, Fail, Served, TypeOK
    <3>2. Stands(t) BY <3>1 DEF Stands
    <3>. QED BY <2>2, <3>2
  <2>5. CASE Spawn(t) \/ Load(t)
    <3>1. pc[t] \in {"start", "loading"}
          /\ pc'[t] \notin {"snapshot", "decide", "unload", "unloading"}
      BY <2>5 DEF Spawn, Load, Fail, TypeOK
    <3>2. Stands(t) BY <2>3, <3>1 DEF Stands
    <3>. QED BY <2>2, <3>2
  <2>6. CASE Unloading(t)
    <3>1. pc[t] = "unloading" /\ pc'[t] = "unload" /\ todo' = todo
      BY <2>6 DEF Unloading, admitting, TypeOK
    <3>2. Stands(t) BY <2>3, <3>1 DEF Stands
    <3>. QED BY <2>2, <3>2
  <2>. QED BY <1>2, <2>4, <2>5, <2>6
<1>3. ASSUME NEW t \in Admitters,
             \/ \E e \in Entries : Arrive(t, e)
             \/ Relay(t)
             \/ t = Loader /\ \E e \in Entries : Warm(e)
      PROVE  \A u \in Admitters : Stands(u)
  <2>. TAKE u \in Admitters
  <2>1. /\ pc' = [pc EXCEPT ![t] = pc'[t]] /\ UNCHANGED <<view, next, todo>>
        /\ want' = [want EXCEPT ![t] = want'[t]]
        /\ pc'[t] \in {"fast", "touch", "drop"}
    BY <1>3 DEF Arrive, Warm, Relay, TypeOK, admitting
  <2>2. CASE u = t BY <2>1, <2>2 DEF Stands
  <2>3. CASE u # t BY <2>1, <2>3, UntouchedStand DEF TypeOK
  <2>. QED BY <2>2, <2>3
<1>4. ASSUME Sweep \/ Stop \/ (\E p \in Procs : Crash(p)) \/ UNCHANGED vars
      PROVE  \A u \in Admitters : Stands(u)
  <2>. TAKE u \in Admitters
  <2>1. UNCHANGED <<want, view, next, todo>>
    BY <1>4 DEF Sweep, Stop, Crash, vars, Wake, SweepExited, SweepNow, SweepSnapshot, SweepTake,
         SweepDrop, StopCalled, Clear, ClearDrop, StopReturns, SecondSignal, reaperLeaves,
         stopperLeaves, admitting
  <2>2. CASE Sweep
    BY <2>1, <2>2, UntouchedStand
       DEF Sweep, Wake, SweepExited, SweepNow, SweepSnapshot, SweepTake, SweepDrop, TypeOK
  <2>3. CASE Stop
    BY <2>1, <2>3, UntouchedStand
       DEF Stop, StopCalled, Clear, ClearDrop, StopReturns, SecondSignal, TypeOK
  <2>4. CASE (\E p \in Procs : Crash(p)) \/ UNCHANGED vars
    BY <2>1, <2>4, UntouchedStand DEF Crash, vars
  <2>. QED BY <1>4, <2>2, <2>3, <2>4
<1>5. ASSUME Tick PROVE \A u \in Admitters : Stands(u)
  <2>1. \A e \in Entries : /\ view[e] = None => view'[e] = None
                           /\ view[e] # None => view'[e] # None /\ view'[e].cost = view[e].cost
    <3>. TAKE e \in Entries
    <3>1. view'[e] = IF view[e] # None THEN [view[e] EXCEPT !.age = Older(@)] ELSE None
      BY <1>5 DEF Tick
    <3>2. CASE view[e] = None BY <3>1, <3>2
    <3>3. CASE view[e] # None
      <4>1. view[e] \in Held
        BY <3>3 DEF TypeOK
      <4>2. [view[e] EXCEPT !.age = Older(@)] \in Held
        BY <4>1, SlotsAssumption DEF Held, Older
      <4>3. [view[e] EXCEPT !.age = Older(@)].cost = view[e].cost
        BY <4>1 DEF Held
      <4>4. None \notin Held
        BY CatalogAssumption DEF Held
      <4>. QED BY <3>1, <3>3, <4>2, <4>3, <4>4
    <3>. QED BY <3>2, <3>3
  <2>. QED BY <1>5, <2>1 DEF Tick, Stands
<1>6. CASE \E t \in Admitters : Work(t)
  BY <1>1, <1>2, <1>6 DEF Work
<1>7. CASE \/ \E t \in Requests, e \in Entries : Arrive(t, e)
           \/ \E t \in Requests : Relay(t)
           \/ \E e \in Entries : Warm(e)
  BY <1>3, <1>7
<1>. QED BY <1>4, <1>5, <1>6, <1>7 DEF Next

\* Under the lock only the holder's own part of the ledger is to be shown.
LEMMA HoldersLedger ==
  ASSUME SlotsInvariant, NEW t \in Admitters, pc[t] \in AdmittingPcs,
         pc' = [pc EXCEPT ![t] = pc'[t]],
         pc'[t] \in {"snapshot", "decide"} =>
           /\ view'[want'[t]] = None
           /\ \A e \in Full' : (pc'[t] = "decide" \/ e < next') =>
                view'[e] # None /\ view'[e].cost = slot'[e].cost,
         (pc'[t] \in {"unload", "unloading"} /\ Limit # None) =>
           Charged(Full \ todo)' + Estimate[want'[t]] <= Limit,
         (pc'[t] \in {"start", "loading", "insert"} /\ Limit # None) =>
           Charged(Full)' + Estimate[want'[t]] <= Limit
  PROVE  LedgerInvariant'
<1>1. \A u \in Admitters : u # t => pc'[u] \notin AdmittingPcs
  BY OthersAreOut, ThreadFacts DEF SlotsInvariant, TypeOK
<1>2. SnapshotIsFaithful'
  BY <1>1 DEF SnapshotIsFaithful, AdmittingPcs
<1>3. UnloadingMakesRoom'
  BY <1>1 DEF UnloadingMakesRoom, AdmittingPcs
<1>4. LoadFitsTheLedger'
  BY <1>1 DEF LoadFitsTheLedger, AdmittingPcs
<1>. QED BY <1>2, <1>3, <1>4 DEF LedgerInvariant

LEMMA ProbeKeepsLedger ==
  ASSUME SlotsInvariant, LedgerInvariant, NEW t \in Admitters, Probe(t)
  PROVE  LedgerInvariant'
<1>. USE DEF SlotsInvariant, Probe, Goto
<1>1. /\ pc[t] \in AdmittingPcs /\ pc' = [pc EXCEPT ![t] = pc'[t]] /\ pc'[t] = "snapshot"
      /\ want'[t] \in Entries /\ next' = 1 /\ \A e \in Entries : view'[e] = None
  BY ThreadFacts DEF AdmittingPcs, TypeOK
<1>2. \A e \in Full' : ~(e < next')
  BY <1>1 DEF Full, Entries
<1>. QED BY <1>1, <1>2, HoldersLedger

LEMMA SnapshotKeepsLedger ==
  ASSUME SlotsInvariant, LedgerInvariant, NEW t \in Admitters, Snapshot(t)
  PROVE  LedgerInvariant'
<1>. USE DEF SlotsInvariant, Snapshot, Goto
<1>1. /\ pc[t] \in AdmittingPcs /\ pc[t] = "snapshot" /\ pc' = [pc EXCEPT ![t] = pc'[t]]
      /\ pc'[t] = IF next = N THEN "decide" ELSE "snapshot"
      /\ want[t] \in Entries /\ next \in Entries /\ next' = next + 1
      /\ UNCHANGED <<slot, want>> /\ Full' = Full /\ Full \subseteq Entries
  BY ThreadFacts DEF AdmittingPcs, TypeOK, LockIsExclusive, Full, Occupied
<1>2. \A e \in Entries : view'[e] = IF e = next THEN HeldNow(next) ELSE view[e]
  BY <1>1 DEF TypeOK
<1>3. view'[want'[t]] = None
  <2>1. ~Occupied(want[t])
    BY <1>1 DEF LoadsIntoAnEmptySlot, AdmittingPcs
  <2>2. view[want[t]] = None
    BY <1>1 DEF LedgerInvariant, SnapshotIsFaithful
  <2>. QED BY <1>1, <1>2, <2>1, <2>2 DEF HeldNow
<1>4. ASSUME NEW e \in Full', pc'[t] = "decide" \/ e < next'
      PROVE  view'[e] # None /\ view'[e].cost = slot'[e].cost
  <2>1. e \in Entries /\ e \in Full /\ (e = next \/ e < next)
    BY <1>1, <1>4, CatalogAssumption DEF Entries
  <2>2. CASE e = next
    <3>1. slot[e] \in Loaded
      BY <1>1, <2>1 DEF TypeOK, Full, Occupied
    <3>2. view'[e] = [cost |-> slot[e].cost, device |-> slot[e].device,
                      busy |-> Busy(e), age |-> slot[e].last]
      BY <1>2, <2>1, <2>2 DEF HeldNow, Full
    <3>3. Busy(e) \in BOOLEAN
      BY DEF Busy
    <3>4. view'[e] \in Held
      BY <3>1, <3>2, <3>3, SlotsAssumption DEF Loaded, Held
    <3>5. None \notin Held
      BY CatalogAssumption DEF Held
    <3>6. view'[e].cost = slot[e].cost
      BY <3>2
    <3>. QED BY <1>1, <3>4, <3>5, <3>6
  <2>3. CASE e # next
    BY <1>1, <1>2, <2>1, <2>3 DEF LedgerInvariant, SnapshotIsFaithful
  <2>. QED BY <2>2, <2>3
<1>5. pc'[t] \in {"snapshot", "decide"}
  BY <1>1
<1>6. \A e \in Full' : (pc'[t] = "decide" \/ e < next') =>
        view'[e] # None /\ view'[e].cost = slot'[e].cost
  BY <1>4
<1>. QED BY <1>1, <1>3, <1>5, <1>6, HoldersLedger

LEMMA DecideKeepsLedger ==
  ASSUME SlotsInvariant, LedgerInvariant, NEW t \in Admitters, Decide(t)
  PROVE  LedgerInvariant'
<1>. DEFINE said == Admit(view, want[t], Limit, free)
<1>1. /\ pc[t] \in AdmittingPcs /\ pc[t] = "decide"
      /\ want[t] \in Entries /\ view[want[t]] = None
      /\ view \in [Entries -> Held \cup {None}]
      /\ UNCHANGED <<slot, want>>
      /\ \A e \in Full : view[e] # None /\ view[e].cost = slot[e].cost
  BY DEF Decide, SlotsInvariant, TypeOK, AdmittingPcs, LedgerInvariant, SnapshotIsFaithful
<1>2. /\ pc' = [pc EXCEPT ![t] = pc'[t]]
      /\ pc'[t] \notin {"snapshot", "decide", "unloading", "loading", "insert"}
      /\ pc'[t] = "unload" => said.kind = "Unload" /\ todo' = said.ids
      /\ pc'[t] = "start" => said.kind = "Fits"
  BY ThreadFacts DEF Decide, Goto, Fail, SlotsInvariant, TypeOK
<1>3. ASSUME said.kind \in {"Fits", "Unload"}, Limit # None
      PROVE  /\ said.kind = "Fits" => said.ids = {}
             /\ SumFunction([e \in Full \ said.ids |-> slot[e].cost]) + Estimate[want[t]] <= Limit
  <2>1. Limit \in Nat
    BY <1>3, SlotsAssumption
  <2>2. /\ said.ids \subseteq LoadedIn(view)
        /\ said.kind = "Fits" => said.ids = {}
        /\ CostSum(view, LoadedIn(view) \ said.ids) + Estimate[want[t]] <= Limit
    <3>1. view \in [Entries -> Held \cup {None}] /\ want[t] \in Entries /\ view[want[t]] = None
      BY <1>1
    <3>2. LetsGoAhead(Admit(view, want[t], Limit, free))
      BY <1>3 DEF LetsGoAhead
    <3>3. MakesRoom(view, want[t], Limit, Admit(view, want[t], Limit, free))
      BY <2>1, <3>1, <3>2, AdmitMakesRoom
    <3>4. MakesRoom(view, want[t], Limit, said)
      BY <3>3
    <3>. HIDE DEF said
    <3>. QED BY <3>4 DEF MakesRoom
  <2>. HIDE DEF said
  <2>. DEFINE S == LoadedIn(view) \ said.ids
              T == Full \ said.ids
  <2>3. IsFiniteSet(S) /\ T \in SUBSET S
    BY <1>1, EntriesAreFinite DEF LoadedIn, Full
  <2>4. \A e \in S : view[e].cost \in Nat
    BY <1>1 DEF LoadedIn, Held
  <2>5. \A e \in T : slot[e].cost = view[e].cost
    BY <1>1
  <2>6. CostSum(view, S) = SumFunction([e \in S |-> view[e].cost])
    BY DEF CostSum
  <2>. HIDE DEF S, T
  <2>7. /\ SumFunction([e \in S |-> view[e].cost]) \in Nat
        /\ SumFunction([e \in T |-> slot[e].cost]) \in Nat
        /\ SumFunction([e \in T |-> slot[e].cost]) <= SumFunction([e \in S |-> view[e].cost])
    BY <2>3, <2>4, <2>5, SmallerCharge
  <2>8. CostSum(view, S) + Estimate[want[t]] <= Limit
    BY <2>2 DEF S
  <2>9. Estimate[want[t]] \in Nat
    BY <1>1, CatalogAssumption
  <2>10. SumFunction([e \in T |-> slot[e].cost]) + Estimate[want[t]] <= Limit
    BY <2>1, <2>6, <2>7, <2>8, <2>9
  <2>. QED BY <2>2, <2>10 DEF T
<1>. HIDE DEF said
<1>4. Full' = Full /\ want'[t] = want[t]
  BY <1>1 DEF Full, Occupied
<1>5. (pc'[t] = "unload" /\ Limit # None) => Charged(Full \ todo)' + Estimate[want'[t]] <= Limit
  BY <1>1, <1>2, <1>3, <1>4 DEF Charged
<1>6. (pc'[t] = "start" /\ Limit # None) => Charged(Full)' + Estimate[want'[t]] <= Limit
  <2>1. Full \ {} = Full OBVIOUS
  <2>. QED BY <1>1, <1>2, <1>3, <1>4, <2>1 DEF Charged
<1>. QED BY <1>1, <1>2, <1>5, <1>6, HoldersLedger

LEMMA UnloadKeepsLedger ==
  ASSUME SlotsInvariant, LedgerInvariant, NEW t \in Admitters, Unload(t)
  PROVE  LedgerInvariant'
<1>1. /\ pc[t] = "unload" /\ pc[t] \in AdmittingPcs /\ pc' = [pc EXCEPT ![t] = pc'[t]]
      /\ pc'[t] \in {"unload", "unloading", "hold", "start"}
      /\ want[t] \in Entries /\ want'[t] = want[t]
  BY ThreadFacts DEF Unload, Goto, SlotsInvariant, TypeOK, AdmittingPcs
<1>2. Limit # None => Charged(Full \ todo) + Estimate[want[t]] <= Limit
  BY <1>1 DEF LedgerInvariant, UnloadingMakesRoom
<1>3. pc'[t] = "start" => todo = {} /\ UNCHANGED slot
  BY ThreadFacts DEF Unload, Goto, SlotsInvariant, TypeOK
<1>4. ASSUME pc'[t] \in {"unload", "unloading"}
      PROVE  /\ (Full \ todo)' = Full \ todo
             /\ \A e \in Full \ todo : slot'[e] = slot[e]
  <2>1. PICK e \in todo :
          /\ todo' = todo \ {e}
          /\ \/ slot' = [slot EXCEPT ![e] = None]
             \/ UNCHANGED slot /\ ~Occupied(e)
    BY <1>4, ThreadFacts DEF Unload, Goto, Take, Empty, SlotsInvariant, TypeOK
  <2>2. \A f \in Entries : slot'[f] = IF f = e THEN None ELSE slot[f]
    BY <2>1 DEF SlotsInvariant, TypeOK, Occupied
  <2>. QED BY <2>1, <2>2 DEF Full, Occupied
<1>5. (pc'[t] \in {"unload", "unloading"} /\ Limit # None) =>
        Charged(Full \ todo)' + Estimate[want'[t]] <= Limit
  <2>. SUFFICES ASSUME pc'[t] \in {"unload", "unloading"}, Limit # None
                PROVE  Charged(Full \ todo)' = Charged(Full \ todo)
    BY <1>1, <1>2
  <2>. DEFINE S == Full \ todo
  <2>1. Charged(Full \ todo)' = SumFunction([e \in S |-> slot'[e].cost])
    BY <1>4 DEF Charged
  <2>2. [e \in S |-> slot'[e].cost] = [e \in S |-> slot[e].cost]
    BY <1>4
  <2>. QED BY <2>1, <2>2 DEF Charged
<1>6. (pc'[t] = "start" /\ Limit # None) => Charged(Full)' + Estimate[want'[t]] <= Limit
  <2>. SUFFICES ASSUME pc'[t] = "start", Limit # None
                PROVE  Charged(Full)' = Charged(Full \ todo)
    BY <1>1, <1>2
  <2>1. Full' = Full /\ Full \ todo = Full /\ slot' = slot
    BY <1>3 DEF Full, Occupied
  <2>. QED BY <2>1 DEF Charged
<1>. QED BY <1>1, <1>5, <1>6, HoldersLedger

LEMMA InsertKeepsLedger ==
  ASSUME SlotsInvariant, LedgerInvariant, NEW t \in Admitters, Insert(t)
  PROVE  LedgerInvariant'
<1>1. /\ pc[t] \in AdmittingPcs /\ pc' = [pc EXCEPT ![t] = pc'[t]]
      /\ pc'[t] \in {"relay", "drop"}
  BY ThreadFacts DEF Insert, Served, Goto, SlotsInvariant, TypeOK, AdmittingPcs
<1>. QED BY <1>1, HoldersLedger

LEMMA NextKeepsLedger ==
  ASSUME SlotsInvariant, LedgerInvariant, [Next]_vars
  PROVE  LedgerInvariant'
<1>1. CASE \E t \in Admitters : Probe(t) \/ Snapshot(t) \/ Decide(t) \/ Unload(t) \/ Insert(t)
  BY <1>1, ProbeKeepsLedger, SnapshotKeepsLedger, DecideKeepsLedger, UnloadKeepsLedger,
     InsertKeepsLedger
<1>2. CASE ~\E t \in Admitters : Probe(t) \/ Snapshot(t) \/ Decide(t) \/ Unload(t) \/ Insert(t)
  BY <1>2, SlotsShrink, MostStepsStand, LedgerStands
<1>. QED BY <1>1, <1>2

\* A load in progress always fits: from the decision to the insertion, what the
\* slots are charged for and the estimate of what is being loaded stay within
\* the budget, although the reaper, crashes and Router::stop work on the slots
\* between the snapshot, the decision, the unloading and the start.
THEOREM LoadsFitTheLedger == Spec => []LoadFitsTheLedger
<1>1. Init => LedgerInvariant
  <2>1. Init => \A t \in Admitters : pc[t] = "new"
    BY ThreadFacts DEF Init
  <2>. QED BY <2>1 DEF LedgerInvariant, SnapshotIsFaithful, UnloadingMakesRoom, LoadFitsTheLedger
<1>2. SlotsInvariant /\ LedgerInvariant /\ [Next]_vars => LedgerInvariant'
  BY NextKeepsLedger
<1>3. LedgerInvariant => LoadFitsTheLedger
  BY DEF LedgerInvariant
<1>. QED BY <1>1, <1>2, <1>3, SlotsInvariantHolds, PTL DEF Spec

----------------------------------------------------------------------------
(* One process per entry. *)

LEMMA ProcsHaveEntries == \A p \in Procs : EntryOf(p) \in Entries
  BY DEF Procs

\* Every child in its place leaves no room for two of an entry.
LEMMA PlacesAreSingle ==
  ASSUME SlotsInvariant, EveryChildHasItsPlace
  PROVE  OneChildPerEntry
<1>. SUFFICES ASSUME NEW p \in Existing, NEW q \in Existing, EntryOf(p) = EntryOf(q)
              PROVE  p = q
  BY DEF OneChildPerEntry
<1>1. CASE InItsSlot(p) /\ InItsSlot(q)
  BY <1>1 DEF InItsSlot
<1>2. ASSUME NEW t \in Admitters, pc[t] \in Carrying, p \in hand[t] \/ q \in hand[t]
      PROVE  p = q
  <2>1. ~InItsSlot(p) /\ ~InItsSlot(q)
    BY <1>2 DEF EveryChildHasItsPlace, InItsSlot
  <2>2. \A u \in Admitters : pc[u] \in Carrying => u = t
    BY <1>2, OthersAreOut DEF Carrying, AdmittingPcs
  <2>3. p \in hand[t] /\ q \in hand[t]
    BY <2>1, <2>2 DEF EveryChildHasItsPlace
  <2>. QED BY <1>2, <2>3 DEF EveryChildHasItsPlace
<1>. QED BY <1>1, <1>2 DEF EveryChildHasItsPlace

\* Nobody moves a handle, fills or empties a slot, or starts a process.
LEMMA PlacesStay ==
  ASSUME TypeOK, EveryChildHasItsPlace, Existing' \subseteq Existing, UNCHANGED hand,
         \A e \in Entries : /\ slot'[e] = None <=> slot[e] = None
                            /\ slot[e] # None => slot'[e].child = slot[e].child,
         \A t \in Admitters : hand[t] # {} => (pc'[t] \in Carrying <=> pc[t] \in Carrying)
  PROVE  EveryChildHasItsPlace'
<1>1. \A p \in Procs : InItsSlot(p)' <=> InItsSlot(p)
  BY ProcsHaveEntries DEF InItsSlot, Occupied
<1>2. \A p \in Procs : Occupied(EntryOf(p))' <=> Occupied(EntryOf(p))
  BY ProcsHaveEntries DEF Occupied
<1>3. Existing \subseteq Procs /\ \A t \in Admitters : hand[t] \subseteq Procs
  BY ThreadFacts DEF Existing, TypeOK
<1>4. ASSUME NEW p \in Existing'
      PROVE  InItsSlot(p)' \/ \E t \in Admitters : pc'[t] \in Carrying /\ p \in hand'[t]
  BY <1>1, <1>3 DEF EveryChildHasItsPlace
<1>5. ASSUME NEW t \in Admitters, NEW p \in hand'[t]
      PROVE  IF pc'[t] \in Carrying THEN hand'[t] = {p} /\ ~Occupied(EntryOf(p))' ELSE InItsSlot(p)'
  BY <1>1, <1>2, <1>3, <1>5 DEF EveryChildHasItsPlace
<1>. QED BY <1>4, <1>5 DEF EveryChildHasItsPlace

\* A child is handed out of its slot.
LEMMA HandOutPlaces ==
  ASSUME SlotsInvariant, EveryChildHasItsPlace, NEW t \in Admitters,
         pc[t] \in {"fast", "recheck"}, HandOut(t, want[t]), Goto(t, Served(t))
  PROVE  EveryChildHasItsPlace'
<1>. DEFINE c == slot[want[t]].child
<1>. USE ThreadFacts DEF SlotsInvariant
<1>1. /\ want[t] \in Entries /\ Occupied(want[t]) /\ c \in Procs /\ EntryOf(c) = want[t]
      /\ hand' = [hand EXCEPT ![t] = {c}] /\ UNCHANGED proc
  BY SlotChildFacts DEF TypeOK, HandOut, SlotsHoldTheirOwn
<1>2. \A f \in Entries : /\ slot'[f] = None <=> slot[f] = None
                         /\ slot[f] # None => slot'[f].child = slot[f].child
  BY <1>1, StampFacts DEF HandOut
<1>3. \A p \in Procs : /\ InItsSlot(p)' <=> InItsSlot(p)
                       /\ Occupied(EntryOf(p))' <=> Occupied(EntryOf(p))
  BY <1>2, ProcsHaveEntries DEF InItsSlot, Occupied
<1>4. Existing' = Existing /\ Existing \subseteq Procs /\ \A u \in Admitters : hand[u] \subseteq Procs
  BY <1>1 DEF Existing, TypeOK
<1>5. /\ \A u \in Admitters : hand'[u] = IF u = t THEN {c} ELSE hand[u]
      /\ \A u \in Admitters : u # t => pc'[u] = pc[u]
      /\ pc[t] \notin Carrying /\ pc'[t] \notin Carrying
  BY <1>1 DEF TypeOK, Goto, Served, Carrying
<1>6. ASSUME NEW p \in Existing'
      PROVE  InItsSlot(p)' \/ \E u \in Admitters : pc'[u] \in Carrying /\ p \in hand'[u]
  <2>1. InItsSlot(p) \/ \E u \in Admitters : pc[u] \in Carrying /\ p \in hand[u]
    BY <1>4 DEF EveryChildHasItsPlace
  <2>. QED BY <1>3, <1>4, <1>5, <2>1
<1>7. ASSUME NEW u \in Admitters, NEW p \in hand'[u]
      PROVE  IF pc'[u] \in Carrying THEN hand'[u] = {p} /\ ~Occupied(EntryOf(p))' ELSE InItsSlot(p)'
  <2>1. CASE u = t
    <3>1. p = c /\ InItsSlot(c)
      BY <1>1, <1>5, <1>7, <2>1 DEF InItsSlot
    <3>. QED BY <1>1, <1>3, <1>5, <2>1, <3>1
  <2>2. CASE u # t
    BY <1>3, <1>4, <1>5, <1>7, <2>2 DEF EveryChildHasItsPlace
  <2>. QED BY <2>1, <2>2
<1>. QED BY <1>6, <1>7 DEF EveryChildHasItsPlace

\* A slot whose child nobody else holds is emptied, and the child with it goes
\* or passes to the thread that ends it.
LEMMA EmptiedPlaces ==
  ASSUME SlotsInvariant, EveryChildHasItsPlace, NEW t \in Admitters, NEW e \in Entries,
         Occupied(e), ~Busy(e), hand[t] = {}, Empty(e),
         pc' = [pc EXCEPT ![t] = pc'[t]],
         \/ UNCHANGED hand /\ Existing' \subseteq Existing \ {slot[e].child}
         \/ /\ hand' = [hand EXCEPT ![t] = {slot[e].child}] /\ Existing' \subseteq Existing
            /\ pc'[t] \in Carrying
  PROVE  EveryChildHasItsPlace'
<1>. USE ThreadFacts DEF SlotsInvariant
<1>1. PICK c \in Procs : c = slot[e].child /\ EntryOf(c) = e
  BY SlotChildFacts DEF SlotsHoldTheirOwn
<1>2. \A f \in Entries : slot'[f] = IF f = e THEN None ELSE slot[f]
  BY DEF Empty, TypeOK
<1>3. \A p \in Procs : /\ (p # c /\ InItsSlot(p)) => InItsSlot(p)'
                       /\ ~Occupied(EntryOf(p)) => ~Occupied(EntryOf(p))'
  BY <1>1, <1>2, ProcsHaveEntries DEF InItsSlot, Occupied
<1>4. ~Occupied(EntryOf(c))'
  BY <1>1, <1>2 DEF Occupied
<1>5. /\ Existing \subseteq Procs /\ \A u \in Admitters : hand[u] \subseteq Procs
      /\ \A u \in Admitters : c \notin hand[u]
      /\ \A u \in Admitters : u # t => pc'[u] = pc[u] /\ hand'[u] = hand[u]
  <2>1. Existing \subseteq Procs /\ \A u \in Admitters : hand[u] \subseteq Procs
    BY DEF Existing, TypeOK
  <2>2. \A u \in Admitters : c \notin hand[u]
    BY <1>1 DEF Busy
  <2>3. \A u \in Admitters : u # t => pc'[u] = pc[u]
    BY DEF TypeOK
  <2>4. \A u \in Admitters : u # t => hand'[u] = hand[u]
    BY DEF TypeOK
  <2>. QED BY <2>1, <2>2, <2>3, <2>4
<1>6. ASSUME NEW p \in Existing'
      PROVE  InItsSlot(p)' \/ \E u \in Admitters : pc'[u] \in Carrying /\ p \in hand'[u]
  <2>1. p \in Existing /\ (p = c => pc'[t] \in Carrying /\ c \in hand'[t])
    BY <1>1 DEF TypeOK
  <2>2. InItsSlot(p) \/ \E u \in Admitters : u # t /\ pc[u] \in Carrying /\ p \in hand[u]
    BY <2>1 DEF EveryChildHasItsPlace
  <2>. QED BY <1>3, <1>5, <2>1, <2>2
<1>7. ASSUME NEW u \in Admitters, NEW p \in hand'[u]
      PROVE  IF pc'[u] \in Carrying THEN hand'[u] = {p} /\ ~Occupied(EntryOf(p))' ELSE InItsSlot(p)'
  <2>1. CASE u = t
    <3>1. p = c /\ hand'[t] = {c} /\ pc'[t] \in Carrying
      BY <1>1, <1>7, <2>1 DEF TypeOK
    <3>. QED BY <1>4, <2>1, <3>1
  <2>2. CASE u # t
    <3>1. p \in hand[u] /\ p \in Procs /\ p # c
      BY <1>5, <1>7, <2>2
    <3>2. IF pc[u] \in Carrying THEN hand[u] = {p} /\ ~Occupied(EntryOf(p)) ELSE InItsSlot(p)
      BY <3>1 DEF EveryChildHasItsPlace
    <3>3. pc'[u] = pc[u] /\ hand'[u] = hand[u]
      BY <1>5, <2>2
    <3>. QED BY <1>3, <3>1, <3>2, <3>3
  <2>. QED BY <2>1, <2>2
<1>. QED BY <1>6, <1>7 DEF EveryChildHasItsPlace

\* A thread lets go of what it has in hand: what it carried is ended, and what
\* is in a slot stays.
LEMMA DroppedPlaces ==
  ASSUME SlotsInvariant, EveryChildHasItsPlace, NobodyTakesTheIdle, NEW t \in Admitters,
         Drop(t, hand[t]), UNCHANGED slot, pc' = [pc EXCEPT ![t] = pc'[t]]
  PROVE  EveryChildHasItsPlace'
<1>. USE ThreadFacts DEF SlotsInvariant
<1>1. /\ \A u \in Threads : hand'[u] = IF u = t THEN {} ELSE hand[u]
      /\ \A u \in Admitters : u # t => pc'[u] = pc[u]
      /\ hand[t] \subseteq Procs /\ Existing \subseteq Procs
  BY DropAllFacts DEF TypeOK, Existing
<1>2. \A p \in Procs : /\ InItsSlot(p)' <=> InItsSlot(p)
                       /\ Occupied(EntryOf(p))' <=> Occupied(EntryOf(p))
  BY DEF InItsSlot, Occupied
<1>3. Existing' \subseteq Existing
  BY DEF Drop, Reap, Existing, TypeOK
<1>4. ASSUME NEW p \in hand[t], pc[t] \in Carrying PROVE p \notin Existing'
  <2>1. hand[t] = {p} /\ ~Occupied(EntryOf(p)) /\ p \in Procs
    BY <1>1, <1>4 DEF EveryChildHasItsPlace
  <2>2. \A e \in Entries : Occupied(e) => slot[e].child # p
    BY <2>1 DEF SlotsHoldTheirOwn
  <2>3. \A u \in Admitters : u # t => p \notin hand[u]
    <3>. SUFFICES ASSUME NEW u \in Admitters, u # t, p \in hand[u] PROVE FALSE
      OBVIOUS
    <3>1. pc[t] \in AdmittingPcs
      BY <1>4 DEF Carrying, AdmittingPcs
    <3>2. pc[u] \notin Carrying
      BY <3>1, OthersAreOut DEF Carrying, AdmittingPcs
    <3>. QED BY <2>1, <3>2 DEF EveryChildHasItsPlace, InItsSlot
  <2>4. hand[Reaper] = {} /\ hand[Stopper] = {}
    BY DEF NobodyTakesTheIdle, HandsMatchPlaces
  <2>5. \A u \in Threads \ {t} : p \notin hand[u]
    BY <2>3, <2>4 DEF Threads
  <2>6. p \in LastHandles(t, hand[t])
    BY <1>4, <2>2, <2>5 DEF LastHandles
  <2>7. proc'[p] = "gone"
    BY <2>1, <2>6 DEF Drop, Reap
  <2>. QED BY <2>7 DEF Existing
<1>5. ASSUME NEW p \in Existing'
      PROVE  InItsSlot(p)' \/ \E u \in Admitters : pc'[u] \in Carrying /\ p \in hand'[u]
  <2>1. p \in Existing /\ p \in Procs
    BY <1>1, <1>3, <1>5
  <2>2. CASE InItsSlot(p) BY <1>2, <2>1, <2>2
  <2>3. ASSUME NEW u \in Admitters, pc[u] \in Carrying, p \in hand[u]
        PROVE  pc'[u] \in Carrying /\ p \in hand'[u]
    BY <1>1, <1>4, <1>5, <2>3
  <2>. QED BY <2>1, <2>2, <2>3 DEF EveryChildHasItsPlace
<1>6. ASSUME NEW u \in Admitters, NEW p \in hand'[u]
      PROVE  IF pc'[u] \in Carrying THEN hand'[u] = {p} /\ ~Occupied(EntryOf(p))' ELSE InItsSlot(p)'
  <2>1. u # t /\ p \in hand[u] /\ p \in Procs /\ pc'[u] = pc[u] /\ hand'[u] = hand[u]
    BY <1>1, <1>6 DEF TypeOK
  <2>2. IF pc[u] \in Carrying THEN hand[u] = {p} /\ ~Occupied(EntryOf(p)) ELSE InItsSlot(p)
    BY <2>1 DEF EveryChildHasItsPlace
  <2>. QED BY <1>2, <2>1, <2>2
<1>. QED BY <1>5, <1>6 DEF EveryChildHasItsPlace

\* A process is started for an entry whose slot is empty.
LEMMA StartedPlaces ==
  ASSUME SlotsInvariant, EveryChildHasItsPlace, NEW t \in Admitters, pc[t] = "start",
         proc' = [proc EXCEPT ![<<t, want[t]>>] = "loading"],
         hand' = [hand EXCEPT ![t] = {<<t, want[t]>>}], Goto(t, "loading"), UNCHANGED slot
  PROVE  EveryChildHasItsPlace'
<1>. USE ThreadFacts DEF SlotsInvariant
<1>1. PICK q \in Procs : q = <<t, want[t]>> /\ EntryOf(q) = want[t]
  BY DEF TypeOK, Procs
<1>2. ~Occupied(EntryOf(q)) /\ hand[t] = {}
  BY <1>1 DEF LoadsIntoAnEmptySlot, AdmittingPcs, HandsMatchPlaces, NothingInHand
<1>3. /\ \A u \in Admitters : hand'[u] = IF u = t THEN {q} ELSE hand[u]
      /\ \A u \in Admitters : u # t => pc'[u] = pc[u]
      /\ pc'[t] = "loading" /\ Existing \subseteq Procs
      /\ \A u \in Admitters : hand[u] \subseteq Procs
  BY <1>1 DEF TypeOK, Goto, Existing
<1>4. \A p \in Procs : /\ InItsSlot(p)' <=> InItsSlot(p)
                       /\ Occupied(EntryOf(p))' <=> Occupied(EntryOf(p))
  BY DEF InItsSlot, Occupied
<1>5. Existing' = Existing \cup {q}
  BY <1>1 DEF Existing, TypeOK
<1>6. ASSUME NEW p \in Existing'
      PROVE  InItsSlot(p)' \/ \E u \in Admitters : pc'[u] \in Carrying /\ p \in hand'[u]
  <2>1. CASE p = q BY <1>3, <2>1 DEF Carrying
  <2>2. CASE p \in Existing
    <3>1. InItsSlot(p) \/ \E u \in Admitters : u # t /\ pc[u] \in Carrying /\ p \in hand[u]
      BY <1>2, <2>2 DEF EveryChildHasItsPlace
    <3>. QED BY <1>3, <1>4, <2>2, <3>1
  <2>. QED BY <1>5, <2>1, <2>2
<1>7. ASSUME NEW u \in Admitters, NEW p \in hand'[u]
      PROVE  IF pc'[u] \in Carrying THEN hand'[u] = {p} /\ ~Occupied(EntryOf(p))' ELSE InItsSlot(p)'
  <2>1. CASE u = t
    <3>1. p = q /\ hand'[u] = {p}
      BY <1>3, <1>7, <2>1
    <3>. QED BY <1>2, <1>3, <1>4, <2>1, <3>1 DEF Carrying
  <2>2. CASE u # t
    <3>1. p \in hand[u] /\ p \in Procs /\ pc'[u] = pc[u] /\ hand'[u] = hand[u]
      BY <1>3, <1>7, <2>2
    <3>2. IF pc[u] \in Carrying THEN hand[u] = {p} /\ ~Occupied(EntryOf(p)) ELSE InItsSlot(p)
      BY <3>1 DEF EveryChildHasItsPlace
    <3>. QED BY <1>4, <3>1, <3>2
  <2>. QED BY <2>1, <2>2
<1>. QED BY <1>6, <1>7 DEF EveryChildHasItsPlace

\* A loaded child is put in its slot.
LEMMA InsertedPlaces ==
  ASSUME SlotsInvariant, EveryChildHasItsPlace, NEW t \in Admitters, Insert(t)
  PROVE  EveryChildHasItsPlace'
<1>. USE ThreadFacts DEF SlotsInvariant
<1>1. PICK m \in Measurements, q \in Procs :
        /\ q = <<t, want[t]>> /\ EntryOf(q) = want[t]
        /\ slot' = [slot EXCEPT ![EntryOf(q)] = [child  |-> q,
                                                 cost   |-> CostOf(want[t], m),
                                                 device |-> DeviceOf(want[t], m),
                                                 last   |-> 0]]
  BY DEF Insert, TypeOK, Procs
<1>2. /\ EntryOf(q) \in Entries /\ ~Occupied(EntryOf(q)) /\ hand[t] = {q} /\ UNCHANGED <<proc, hand>>
      /\ pc[t] \in AdmittingPcs
  BY <1>1, ProcsHaveEntries
     DEF Insert, LoadsIntoAnEmptySlot, AdmittingPcs, HandsMatchPlaces, NothingInHand
<1>3. /\ \A u \in Admitters : u # t => pc'[u] = pc[u] /\ pc[u] \notin Carrying
      /\ pc'[t] \notin Carrying /\ Existing' = Existing /\ Existing \subseteq Procs
      /\ \A u \in Admitters : hand[u] \subseteq Procs
  <2>1. \A u \in Admitters : u # t => pc[u] \notin Carrying
    BY <1>2, OthersAreOut DEF Carrying, AdmittingPcs
  <2>2. Existing' = Existing /\ Existing \subseteq Procs
    BY <1>2 DEF Existing
  <2>. QED BY <2>1, <2>2 DEF Insert, Goto, Served, TypeOK, Carrying
<1>4. InItsSlot(q)'
  <2>1. slot'[EntryOf(q)] = [child  |-> q, cost |-> CostOf(want[t], m),
                             device |-> DeviceOf(want[t], m), last |-> 0]
    BY <1>1, <1>2 DEF TypeOK
  <2>2. slot'[EntryOf(q)].child = q
    BY <2>1
  <2>3. slot'[EntryOf(q)] # None
    <3>1. want[t] \in Entries
      BY DEF TypeOK
    <3>2. slot'[EntryOf(q)] \in Loaded
      BY <2>1, <3>1, ChargesAreNat, SlotsAssumption DEF Loaded
    <3>. QED BY <3>2, SlotsAssumption
  <2>. QED BY <2>2, <2>3 DEF InItsSlot, Occupied
<1>5. \A p \in Procs : InItsSlot(p) => InItsSlot(p)'
  BY <1>1, <1>2, ProcsHaveEntries DEF InItsSlot, Occupied, TypeOK
<1>6. ASSUME NEW p \in Existing'
      PROVE  InItsSlot(p)' \/ \E u \in Admitters : pc'[u] \in Carrying /\ p \in hand'[u]
  <2>1. InItsSlot(p) \/ p = q
    BY <1>2, <1>3 DEF EveryChildHasItsPlace
  <2>. QED BY <1>3, <1>4, <1>5, <2>1
<1>7. ASSUME NEW u \in Admitters, NEW p \in hand'[u]
      PROVE  IF pc'[u] \in Carrying THEN hand'[u] = {p} /\ ~Occupied(EntryOf(p))' ELSE InItsSlot(p)'
  <2>1. CASE u = t
    <3>1. p = q BY <1>2, <1>7, <2>1
    <3>. QED BY <1>3, <1>4, <2>1, <3>1
  <2>2. CASE u # t
    <3>1. p \in hand[u] /\ p \in Procs /\ pc[u] \notin Carrying /\ pc'[u] = pc[u]
      BY <1>2, <1>3, <1>7, <2>2
    <3>2. InItsSlot(p)
      BY <3>1 DEF EveryChildHasItsPlace
    <3>. QED BY <1>5, <3>1, <3>2
  <2>. QED BY <2>1, <2>2
<1>. QED BY <1>6, <1>7 DEF EveryChildHasItsPlace

\* Without a reaper and without a call of Router::stop, theirs is no step.
LEMMA NobodyElseSteps ==
  ASSUME OnlyRequests, NobodyTakesTheIdle
  PROVE  ~Sweep /\ ~Stop
<1>1. ~Sweep
  BY DEF Sweep, NobodyTakesTheIdle, Wake, SweepExited, SweepNow, SweepSnapshot, SweepTake, SweepDrop
<1>2. ~Stop
  BY DEF Stop, OnlyRequests, NobodyTakesTheIdle, Clear, ClearDrop, StopReturns, SecondSignal
<1>. QED BY <1>1, <1>2

\* The steps of a request or of the loader keep every child in its place.
LEMMA WorkKeepsPlaces ==
  ASSUME SlotsInvariant, NobodyTakesTheIdle, EveryChildHasItsPlace, NEW t \in Admitters, Work(t)
  PROVE  EveryChildHasItsPlace'
<1>. USE ThreadFacts DEF SlotsInvariant
<1>0. want[t] \in Entries
  BY DEF TypeOK
<1>1. ASSUME pc[t] \in NothingInHand, pc' = [pc EXCEPT ![t] = pc'[t]], UNCHANGED <<slot, proc, hand>>
      PROVE  EveryChildHasItsPlace'
  <2>1. hand[t] = {} /\ Existing' = Existing
    BY <1>1 DEF HandsMatchPlaces, Existing
  <2>2. \A u \in Admitters : hand[u] # {} => pc'[u] = pc[u]
    BY <1>1, <2>1 DEF TypeOK
  <2>. QED BY <1>1, <2>1, <2>2, PlacesStay
<1>2. CASE Lock(t) \/ ModelFile(t) \/ Probe(t) \/ Snapshot(t) \/ Decide(t) \/ Hold(t)
  <2>1. pc[t] \in NothingInHand /\ UNCHANGED <<slot, proc, hand>>
    BY <1>2 DEF Lock, ModelFile, Probe, Snapshot, Decide, Hold, NothingInHand
  <2>2. pc' = [pc EXCEPT ![t] = pc'[t]]
    BY <1>2 DEF Lock, ModelFile, Probe, Snapshot, Decide, Hold, Goto, Fail, TypeOK
  <2>. QED BY <1>1, <2>1, <2>2
<1>3. ASSUME pc[t] \in {"fast", "recheck"}, NoneLive(t, want[t]), pc' = [pc EXCEPT ![t] = pc'[t]]
      PROVE  EveryChildHasItsPlace'
  <2>1. hand[t] = {} /\ UNCHANGED hand
    BY <1>3 DEF NoneLive, HandsMatchPlaces, NothingInHand
  <2>2. CASE ~Occupied(want[t])
    <3>1. slot' = slot
      BY <1>0, <1>3, <2>2 DEF NoneLive, Empty, Occupied, TypeOK
    <3>2. proc' = proc
      BY <1>3, <2>2 DEF NoneLive, Reap, TypeOK
    <3>. QED BY <1>1, <1>3, <2>1, <3>1, <3>2 DEF NothingInHand
  <2>3. CASE Occupied(want[t])
    <3>1. ~Busy(want[t]) /\ Empty(want[t])
      BY <1>3, <2>3 DEF NoneLive, Exited
    <3>2. Existing' \subseteq Existing \ {slot[want[t]].child}
      BY <1>3, <2>3 DEF NoneLive, Reap, Existing, TypeOK
    <3>. QED BY <1>0, <1>3, <2>1, <2>3, <3>1, <3>2, EmptiedPlaces
  <2>. QED BY <2>2, <2>3
<1>4. CASE Fast(t) \/ Recheck(t)
  <2>1. pc[t] \in {"fast", "recheck"} /\ pc' = [pc EXCEPT ![t] = pc'[t]]
    BY <1>4 DEF Fast, Recheck, Goto, TypeOK
  <2>2. CASE NoneLive(t, want[t]) BY <1>3, <2>1, <2>2
  <2>3. CASE HandOut(t, want[t]) /\ Goto(t, Served(t)) BY <2>1, <2>3, HandOutPlaces
  <2>. QED BY <1>4, <2>2, <2>3 DEF Fast, Recheck
<1>5. CASE Unload(t)
  <2>1. pc[t] = "unload" /\ hand[t] = {} /\ pc' = [pc EXCEPT ![t] = pc'[t]] /\ UNCHANGED proc
    BY <1>5 DEF Unload, Goto, TypeOK, HandsMatchPlaces, NothingInHand
  <2>2. CASE UNCHANGED <<slot, hand>> BY <1>1, <2>1, <2>2 DEF NothingInHand
  <2>3. ASSUME NEW e \in todo, Takeable(e, TRUE), Take(t, e), Goto(t, "unloading")
        PROVE  EveryChildHasItsPlace'
    <3>1. e \in Entries /\ Occupied(e) /\ ~Busy(e) /\ Empty(e)
      BY <2>3 DEF TypeOK, Takeable, Take
    <3>2. hand' = [hand EXCEPT ![t] = {slot[e].child}] /\ Existing' = Existing
      BY <2>1, <2>3 DEF Take, Existing
    <3>3. pc'[t] \in Carrying
      BY <2>3 DEF Goto, TypeOK, Carrying
    <3>. QED BY <2>1, <3>1, <3>2, <3>3, EmptiedPlaces
  <2>. QED BY <1>5, <2>2, <2>3 DEF Unload
<1>6. CASE Unloading(t) \/ Release(t)
  <2>1. Drop(t, hand[t]) /\ UNCHANGED slot /\ pc' = [pc EXCEPT ![t] = pc'[t]]
    BY <1>6 DEF Unloading, Release, Goto, TypeOK
  <2>. QED BY <2>1, DroppedPlaces
<1>7. CASE Spawn(t)
  <2>1. pc[t] = "start" /\ pc' = [pc EXCEPT ![t] = pc'[t]] /\ UNCHANGED slot
    BY <1>7 DEF Spawn, Goto, Fail, TypeOK
  <2>2. CASE UNCHANGED <<proc, hand>> BY <1>1, <2>1, <2>2 DEF NothingInHand
  <2>3. CASE /\ proc' = [proc EXCEPT ![<<t, want[t]>>] = "loading"]
             /\ hand' = [hand EXCEPT ![t] = {<<t, want[t]>>}]
             /\ Goto(t, "loading")
    BY <2>1, <2>3, StartedPlaces
  <2>. QED BY <1>7, <2>2, <2>3 DEF Spawn
<1>8. CASE Load(t)
  <2>1. pc[t] = "loading" /\ pc' = [pc EXCEPT ![t] = pc'[t]] /\ UNCHANGED slot
    BY <1>8 DEF Load, Goto, Fail, TypeOK
  <2>2. CASE Drop(t, hand[t]) BY <2>1, <2>2, DroppedPlaces
  <2>3. CASE /\ proc' = [proc EXCEPT ![<<t, want[t]>>] = "ready"]
             /\ Goto(t, "insert") /\ UNCHANGED hand
    <3>1. <<t, want[t]>> \in Existing
      BY <2>1 DEF HandsMatchPlaces
    <3>2. Existing' \subseteq Existing
      BY <2>3, <3>1 DEF Existing, TypeOK
    <3>3. \A u \in Admitters : pc'[u] \in Carrying <=> pc[u] \in Carrying
      BY <2>1, <2>3 DEF Goto, TypeOK, Carrying
    <3>. QED BY <2>1, <2>3, <3>2, <3>3, PlacesStay
  <2>. QED BY <1>8, <2>2, <2>3 DEF Load
<1>9. CASE Insert(t) BY <1>9, InsertedPlaces
<1>10. CASE Touch(t)
  <2>1. \A f \in Entries : /\ slot'[f] = None <=> slot[f] = None
                           /\ slot[f] # None => slot'[f].child = slot[f].child
    <3>1. CASE Occupied(want[t]) /\ Stamp(want[t]) BY <1>0, <3>1, StampFacts
    <3>2. CASE UNCHANGED slot BY <3>2
    <3>. QED BY <1>10, <3>1, <3>2 DEF Touch
  <2>2. /\ \A u \in Admitters : pc'[u] \in Carrying <=> pc[u] \in Carrying
        /\ UNCHANGED hand /\ Existing' = Existing
    BY <1>10 DEF Touch, Goto, TypeOK, Carrying, Existing
  <2>. QED BY <2>1, <2>2, PlacesStay
<1>. QED BY <1>2, <1>4, <1>5, <1>6, <1>7, <1>8, <1>9, <1>10 DEF Work

LEMMA NextKeepsPlaces ==
  ASSUME SlotsInvariant, OnlyRequests, NobodyTakesTheIdle, EveryChildHasItsPlace, [Next]_vars
  PROVE  NobodyTakesTheIdle' /\ EveryChildHasItsPlace'
<1>. USE ThreadFacts DEF SlotsInvariant
<1>1. NobodyTakesTheIdle'
  <2>1. ASSUME NEW t \in Admitters, Work(t)
        PROVE  pc'[Reaper] = pc[Reaper] /\ pc'[Stopper] = pc[Stopper]
    BY <2>1 DEF Work, Fast, Lock, Recheck, ModelFile, Probe, Snapshot, Decide, Unload,
         Unloading, Hold, Spawn, Load, Insert, Touch, Release, Fail, Goto, TypeOK
  <2>2. ASSUME NEW t \in Admitters, Work(t)
        PROVE  hand'[Stopper] = hand[Stopper]
    BY <2>2 DEF Work, Fast, Lock, Recheck, ModelFile, Probe, Snapshot, Decide, Unload,
         Unloading, Hold, Spawn, Load, Insert, Touch, Release, HandOut, NoneLive, Take, Drop, TypeOK
  <2>3. CASE \E t \in Admitters : Work(t) BY <2>1, <2>2, <2>3 DEF NobodyTakesTheIdle
  <2>. QED BY <2>3, NobodyElseSteps
           DEF Next, Arrive, Warm, Relay, Tick, Crash, vars, Goto, TypeOK, NobodyTakesTheIdle
<1>. SUFFICES EveryChildHasItsPlace'
  BY <1>1
<1>2. CASE \E t \in Admitters : Work(t) BY <1>2, WorkKeepsPlaces
<1>3. ASSUME NEW t \in Admitters,
             \/ \E e \in Entries : Arrive(t, e)
             \/ Relay(t)
             \/ t = Loader /\ \E e \in Entries : Warm(e)
      PROVE  EveryChildHasItsPlace'
  <2>1. /\ UNCHANGED <<slot, proc, hand>> /\ Existing' = Existing
        /\ pc' = [pc EXCEPT ![t] = pc'[t]]
        /\ pc[t] \in {"new", "relay"} /\ pc'[t] \in {"fast", "touch", "drop"}
    BY <1>3 DEF Arrive, Warm, Relay, Goto, TypeOK, Existing
  <2>2. \A u \in Admitters : pc'[u] \in Carrying <=> pc[u] \in Carrying
    BY <2>1 DEF TypeOK, Carrying
  <2>. QED BY <2>1, <2>2, PlacesStay
<1>4. CASE Tick
  <2>1. UNCHANGED <<hand, pc>> /\ Existing' = Existing
    BY <1>4 DEF Tick, Existing
  <2>. QED BY <1>4, <2>1, TickFacts, PlacesStay
<1>5. ASSUME NEW p \in Procs, Crash(p) PROVE EveryChildHasItsPlace'
  <2>1. UNCHANGED <<slot, hand, pc>> /\ Existing' \subseteq Existing
    BY <1>5 DEF Crash, Existing, TypeOK
  <2>. QED BY <2>1, PlacesStay
<1>6. CASE UNCHANGED vars
  <2>1. UNCHANGED <<slot, hand, pc>> /\ Existing' \subseteq Existing
    BY <1>6 DEF vars, Existing
  <2>. QED BY <2>1, PlacesStay
<1>7. CASE \/ \E t \in Requests, e \in Entries : Arrive(t, e)
           \/ \E t \in Requests : Relay(t)
           \/ \E e \in Entries : Warm(e)
  BY <1>3, <1>7
<1>. QED BY <1>2, <1>4, <1>5, <1>6, <1>7, NobodyElseSteps DEF Next

LEMMA InitPlaces ==
  ASSUME OnlyRequests, Init
  PROVE  NobodyTakesTheIdle /\ EveryChildHasItsPlace
<1>. USE ThreadFacts DEF Init
<1>1. NobodyTakesTheIdle
  BY DEF OnlyRequests, NobodyTakesTheIdle
<1>2. EveryChildHasItsPlace
  BY DEF EveryChildHasItsPlace, Existing
<1>. QED BY <1>1, <1>2

\* In a router that neither sweeps nor is stopped, no entry is ever served by
\* two processes: an evicted child is gone before its successor is started.
\* (A sweep ends its victim after releasing every lock, and Router::stop empties
\* slots under readers, so with either the promise does not hold.)
THEOREM OneChildPerEntryHolds ==
  ASSUME OnlyRequests
  PROVE  Spec => []OneChildPerEntry
<1>1. Init => NobodyTakesTheIdle /\ EveryChildHasItsPlace
  BY InitPlaces
<1>2. SlotsInvariant /\ (NobodyTakesTheIdle /\ EveryChildHasItsPlace) /\ [Next]_vars
        => (NobodyTakesTheIdle /\ EveryChildHasItsPlace)'
  BY NextKeepsPlaces
<1>3. SlotsInvariant /\ EveryChildHasItsPlace => OneChildPerEntry
  BY PlacesAreSingle
<1>. QED BY <1>1, <1>2, <1>3, SlotsInvariantHolds, PTL DEF Spec

----------------------------------------------------------------------------
(* The machine's memory. *)

\* Loaded::of never charges less than the estimate.
LEMMA ChargeCoversEstimate ==
  ASSUME NEW e \in Entries, NEW m \in Measurements
  PROVE  CostOf(e, m) >= Estimate[e]
<1>1. /\ Estimate[e] \in Nat /\ None \notin Nat
      /\ m.resident \in Nat \cup {None} /\ m.device \in Nat \cup {None}
  BY CatalogAssumption, SlotsAssumption
<1>2. \A a, b \in Nat : Max({a, b}) >= b /\ Max({a, b}) \in Nat
  <2>. SUFFICES ASSUME NEW a \in Nat, NEW b \in Nat PROVE Max({a, b}) >= b /\ Max({a, b}) \in Nat
    OBVIOUS
  <2>1. \E x \in {a, b} : \A y \in {a, b} : x >= y
    <3>1. CASE a >= b BY <3>1
    <3>2. CASE b >= a BY <3>2
    <3>. QED BY <3>1, <3>2
  <2>. QED BY <2>1 DEF Max
<1>. DEFINE measured == IF DeviceNeed(e) = 0 THEN m.device ELSE Largest(m)
<1>3. measured \in Nat \cup {None}
  BY <1>1, <1>2 DEF Largest
<1>4. CASE measured = None BY <1>1, <1>4 DEF CostOf
<1>5. CASE measured # None
  <2>1. CostOf(e, m) = Max({measured, Estimate[e]})
    BY <1>5 DEF CostOf
  <2>. HIDE DEF measured
  <2>. QED BY <1>1, <1>2, <1>3, <1>5, <2>1
<1>. QED BY <1>4, <1>5

\* What is inserted is charged its estimate or more, and stays so.
LEMMA ChargesStayCovered ==
  ASSUME SlotsInvariant, ChargesCoverEstimates, [Next]_vars
  PROVE  ChargesCoverEstimates'
<1>1. CASE Shrinks
  BY <1>1 DEF Shrinks, ChargesCoverEstimates, Full, Occupied
<1>2. ASSUME NEW t \in Admitters, Insert(t) PROVE ChargesCoverEstimates'
  <2>1. want[t] \in Entries
    BY DEF SlotsInvariant, TypeOK
  <2>2. PICK m \in Measurements :
          slot' = [slot EXCEPT ![want[t]] = [child  |-> <<t, want[t]>>,
                                             cost   |-> CostOf(want[t], m),
                                             device |-> DeviceOf(want[t], m),
                                             last   |-> 0]]
    BY <1>2 DEF Insert
  <2>3. slot'[want[t]].cost = CostOf(want[t], m) /\ \A e \in Entries : e # want[t] => slot'[e] = slot[e]
    BY <2>1, <2>2 DEF SlotsInvariant, TypeOK
  <2>4. slot'[want[t]].cost >= Estimate[want[t]]
    BY <2>1, <2>3, ChargeCoversEstimate
  <2>. QED BY <2>3, <2>4 DEF ChargesCoverEstimates, Full, Occupied
<1>. QED BY <1>1, <1>2, SlotsShrink

EstimatesOf(S) == [p \in S |-> Estimate[EntryOf(p)]]

\* No more processes exist than there are entries.
LEMMA ProcessesAreFinite ==
  ASSUME OneChildPerEntry
  PROVE  /\ IsFiniteSet(Existing) /\ Existing \subseteq Procs
         /\ \A p, q \in Existing : EntryOf(p) = EntryOf(q) => p = q
         /\ \A p \in Existing : EntryOf(p) \in Entries
<1>. DEFINE m == [p \in Existing |-> EntryOf(p)]
<1>1. Existing \subseteq Procs
  BY DEF Existing
<1>2. \A p, q \in Existing : EntryOf(p) = EntryOf(q) => p = q
  BY <1>1 DEF OneChildPerEntry
<1>3. m \in [Existing -> Entries]
  BY <1>1, ProcsHaveEntries
<1>4. m \in Injection(Existing, Entries)
  BY <1>2, <1>3 DEF Injection, IsInjective
<1>5. IsFiniteSet(Entries)
  BY EntriesAreFinite
<1>6. IsFiniteSet(Existing)
  BY <1>4, <1>5, FS_Injection
<1>. QED BY <1>1, <1>2, <1>6, ProcsHaveEntries

\* A function that agrees with another on fewer points adds up to no more.
LEMMA SmallerSum ==
  ASSUME NEW S, IsFiniteSet(S), NEW T \in SUBSET S, NEW f, NEW g,
         \A x \in S : f[x] \in Nat, \A x \in T : f[x] = g[x]
  PROVE  /\ SumFunctionOnSet(g, T) <= SumFunctionOnSet(f, S)
         /\ SumFunctionOnSet(g, T) \in Nat /\ SumFunctionOnSet(f, S) \in Nat
<1>1. SumFunctionOnSet(f, T) = SumFunctionOnSet(g, T)
  BY SumsAgree, FS_Subset
<1>2. SumFunctionOnSet(f, T) <= SumFunctionOnSet(f, S)
  BY SumIsMonotone
<1>3. SumFunctionOnSet(f, T) \in Nat /\ SumFunctionOnSet(f, S) \in Nat
  BY SumIsNat
<1>. QED BY <1>1, <1>2, <1>3

\* Fewer processes need no more.
LEMMA FewerNeedLess ==
  ASSUME OneChildPerEntry, ExistingFit, Existing' \subseteq Existing
  PROVE  ExistingFit'
<1>. SUFFICES ASSUME Limit # None
              PROVE  SumFunction([p \in Existing' |-> Estimate[EntryOf(p)]]) <= Limit
  BY DEF ExistingFit
<1>. DEFINE S == Existing
            T == Existing'
            f == EstimatesOf(S)
            g == EstimatesOf(T)
<1>1. IsFiniteSet(S) /\ T \in SUBSET S
  BY ProcessesAreFinite
<1>2. \A p \in S : f[p] \in Nat
  BY ProcessesAreFinite, CatalogAssumption DEF EstimatesOf
<1>3. \A p \in T : f[p] = g[p]
  BY DEF EstimatesOf
<1>4. SumFunctionOnSet(f, S) <= Limit
  BY DEF ExistingFit, SumFunction, EstimatesOf
<1>5. SumFunction([p \in Existing' |-> Estimate[EntryOf(p)]]) = SumFunctionOnSet(g, T)
  BY DEF SumFunction, EstimatesOf
<1>. HIDE DEF S, T, f, g
<1>6. SumFunctionOnSet(g, T) <= SumFunctionOnSet(f, S) /\ SumFunctionOnSet(g, T) \in Nat
      /\ SumFunctionOnSet(f, S) \in Nat
  BY <1>1, <1>2, <1>3, SmallerSum
<1>. QED BY <1>4, <1>5, <1>6, SlotsAssumption

\* A process is started beside processes that are all in slots, which are
\* charged for them, and within what the ledger has left.
LEMMA StartedFits ==
  ASSUME SlotsInvariant, EveryChildHasItsPlace, ChargesCoverEstimates, LoadFitsTheLedger,
         NEW t \in Admitters, pc[t] = "start",
         proc' = [proc EXCEPT ![<<t, want[t]>>] = "loading"]
  PROVE  ExistingFit'
<1>. SUFFICES ASSUME Limit # None
              PROVE  SumFunction([p \in Existing' |-> Estimate[EntryOf(p)]]) <= Limit
  BY DEF ExistingFit
<1>. DEFINE q == <<t, want[t]>>
            S == Existing
            T == Existing'
            f == EstimatesOf(T)
            g == [e \in Full |-> slot[e].cost]
            m == [p \in S |-> EntryOf(p)]
<1>1. /\ q \in Procs /\ EntryOf(q) = want[t] /\ want[t] \in Entries /\ Estimate[want[t]] \in Nat
      /\ proc[q] = "none" /\ Limit \in Nat
  <2>1. want[t] \in Entries
    BY DEF SlotsInvariant, TypeOK
  <2>2. proc[q] = "none"
    BY <2>1, ThreadFacts DEF SlotsInvariant, StartsAreFresh, BeforeStart, AdmittingPcs, Admitters
  <2>. QED BY <2>1, <2>2, CatalogAssumption, SlotsAssumption DEF Procs
<1>2. T = S \cup {q} /\ q \notin S /\ T \ {q} = S
  BY <1>1 DEF Existing, SlotsInvariant, TypeOK
<1>3. /\ IsFiniteSet(S) /\ S \subseteq Procs
      /\ \A x, y \in S : EntryOf(x) = EntryOf(y) => x = y
      /\ \A x \in S : EntryOf(x) \in Entries
  BY ProcessesAreFinite, PlacesAreSingle
<1>4. \A p \in S : InItsSlot(p)
  <2>1. \A u \in Admitters : pc[u] \notin Carrying
    BY OthersAreOut DEF Carrying, AdmittingPcs
  <2>. QED BY <2>1 DEF EveryChildHasItsPlace
<1>5. \A p \in S : EntryOf(p) \in Full
  BY <1>3, <1>4 DEF InItsSlot, Full
<1>6. IsFiniteSet(T)
  BY <1>2, <1>3, FS_AddElement
<1>7. IsFiniteSet(Full) /\ \A e \in Full : g[e] \in Nat /\ g[e] >= Estimate[e]
  BY EntriesAreFinite, ChargesOfSlots DEF Full, SlotsInvariant, ChargesCoverEstimates
<1>8. /\ \A p \in T : f[p] \in Nat
      /\ f[q] = Estimate[want[t]]
      /\ \A p \in S : f[p] = Estimate[EntryOf(p)]
  BY <1>1, <1>2, <1>3, CatalogAssumption DEF EstimatesOf
<1>9. m \in [S -> Full] /\ \A x, y \in S : m[x] = m[y] => x = y
  BY <1>3, <1>5
<1>10. \A p \in S : f[p] <= g[m[p]]
  BY <1>5, <1>7, <1>8
<1>11. SumFunctionOnSet(g, Full) + Estimate[want[t]] <= Limit
  BY DEF LoadFitsTheLedger, Charged, SumFunction
<1>12. SumFunction([p \in Existing' |-> Estimate[EntryOf(p)]]) = SumFunctionOnSet(f, T)
  BY DEF SumFunction, EstimatesOf
<1>13. q \in T /\ S \subseteq T
  BY <1>2
<1>. HIDE DEF q, S, T, f, g, m
<1>14. SumFunctionOnSet(f, S) <= SumFunctionOnSet(g, Full)
  <2>1. \A p \in S : f[p] \in Nat
    BY <1>8, <1>13
  <2>2. \A e \in Full : g[e] \in Nat
    BY <1>7
  <2>. QED BY <1>3, <1>7, <1>9, <1>10, <2>1, <2>2, SumMoves
<1>15. SumFunctionOnSet(f, T) = f[q] + SumFunctionOnSet(f, T \ {q})
  BY <1>6, <1>8, <1>13, SumByAny
<1>16. SumFunctionOnSet(f, S) \in Nat
  BY <1>6, <1>8, <1>13, SumIsNat
<1>17. SumFunctionOnSet(g, Full) \in Nat
  BY <1>7, SumIsNat
<1>18. T \ {q} = S /\ f[q] = Estimate[want[t]] /\ Estimate[want[t]] \in Nat /\ Limit \in Nat
  BY <1>1, <1>2, <1>8
<1>19. SumFunctionOnSet(f, T) = Estimate[want[t]] + SumFunctionOnSet(f, S)
  BY <1>15, <1>18
<1>20. SumFunctionOnSet(f, T) <= Limit
  BY <1>11, <1>14, <1>16, <1>17, <1>18, <1>19
<1>. QED BY <1>12, <1>20

\* Processes come to exist by being started, and in no other way.
LEMMA OnlyStartsAdd ==
  ASSUME SlotsInvariant, [Next]_vars
  PROVE  \/ Existing' \subseteq Existing
         \/ \E t \in Admitters : pc[t] = "start" /\ proc' = [proc EXCEPT ![<<t, want[t]>>] = "loading"]
<1>. USE DEF SlotsInvariant
<1>1. ASSUME UNCHANGED proc PROVE Existing' \subseteq Existing
  BY <1>1 DEF Existing
<1>2. ASSUME NEW S, Reap(S) PROVE Existing' \subseteq Existing
  BY <1>2 DEF Reap, Existing
<1>3. ASSUME NEW t \in Admitters, Work(t), ~Spawn(t) PROVE Existing' \subseteq Existing
  <2>1. CASE Load(t)
    <3>1. <<t, want[t]>> \in Existing
      BY <2>1, ThreadFacts DEF Load, HandsMatchPlaces
    <3>2. CASE proc' = [proc EXCEPT ![<<t, want[t]>>] = "ready"]
      BY <3>1, <3>2 DEF Existing, TypeOK
    <3>. QED BY <1>2, <2>1, <3>2 DEF Load, Drop
  <2>2. CASE ~Load(t)
    BY <1>1, <1>2, <1>3, <2>2 DEF Work, Fast, Lock, Recheck, ModelFile, Probe, Snapshot, Decide,
       Unload, Unloading, Hold, Insert, Touch, Release, HandOut, NoneLive, Drop
  <2>. QED BY <2>1, <2>2
<1>4. CASE Sweep
  BY <1>1, <1>2, <1>4
     DEF Sweep, Wake, SweepExited, SweepNow, SweepSnapshot, SweepTake, SweepDrop, Drop
<1>5. CASE Stop
  BY <1>1, <1>2, <1>5 DEF Stop, StopCalled, Clear, ClearDrop, StopReturns, SecondSignal, Drop
<1>6. ASSUME NEW p \in Procs, Crash(p) PROVE Existing' \subseteq Existing
  BY <1>6 DEF Crash, Existing, TypeOK
<1>7. CASE \/ \E t \in Requests, e \in Entries : Arrive(t, e)
           \/ \E t \in Requests : Relay(t)
           \/ \E e \in Entries : Warm(e)
           \/ Tick
           \/ UNCHANGED vars
  BY <1>1, <1>7 DEF Arrive, Relay, Warm, Tick, vars
<1>8. ASSUME NEW t \in Admitters, Spawn(t)
      PROVE  \/ Existing' \subseteq Existing
             \/ pc[t] = "start" /\ proc' = [proc EXCEPT ![<<t, want[t]>>] = "loading"]
  BY <1>1, <1>8 DEF Spawn
<1>. QED BY <1>3, <1>4, <1>5, <1>6, <1>7, <1>8 DEF Next

\* What holds memory is part of what exists.
LEMMA ExistingCoversHolding ==
  ASSUME SlotsInvariant, BudgetInvariant
  PROVE  WithinBudget
<1>. SUFFICES ASSUME Limit # None
              PROVE  SumFunction([p \in Holding |-> Estimate[EntryOf(p)]]) <= Limit
  BY DEF WithinBudget
<1>. DEFINE S == Existing
            T == Holding
            f == EstimatesOf(S)
            g == EstimatesOf(T)
<1>1. IsFiniteSet(S) /\ T \in SUBSET S
  BY ProcessesAreFinite, PlacesAreSingle DEF BudgetInvariant, Holding, Existing
<1>2. \A p \in S : f[p] \in Nat
  BY ProcsHaveEntries, CatalogAssumption DEF EstimatesOf, Existing
<1>3. \A p \in T : f[p] = g[p]
  BY <1>1 DEF EstimatesOf
<1>4. SumFunctionOnSet(f, S) <= Limit
  BY DEF BudgetInvariant, ExistingFit, SumFunction, EstimatesOf
<1>5. SumFunction([p \in Holding |-> Estimate[EntryOf(p)]]) = SumFunctionOnSet(g, T)
  BY DEF SumFunction, EstimatesOf
<1>. HIDE DEF S, T, f, g
<1>6. SumFunctionOnSet(g, T) <= SumFunctionOnSet(f, S) /\ SumFunctionOnSet(g, T) \in Nat
      /\ SumFunctionOnSet(f, S) \in Nat
  BY <1>1, <1>2, <1>3, SmallerSum
<1>. QED BY <1>4, <1>5, <1>6, SlotsAssumption

\* In a router that neither sweeps nor is stopped, the estimates of all the
\* processes that hold memory, the one being loaded included, stay within the
\* budget at every moment, however evictions, crashes and loads interleave.
THEOREM BudgetHolds ==
  ASSUME OnlyRequests
  PROVE  Spec => []WithinBudget
<1>1. Init => BudgetInvariant
  <2>. SUFFICES ASSUME Init PROVE BudgetInvariant
    OBVIOUS
  <2>1. NobodyTakesTheIdle /\ EveryChildHasItsPlace
    BY InitPlaces
  <2>2. ChargesCoverEstimates
    BY DEF Init, ChargesCoverEstimates, Full, Occupied
  <2>3. ExistingFit
    <3>1. Existing = {} /\ [p \in Existing |-> Estimate[EntryOf(p)]] = EstimatesOf({})
      BY DEF Init, Existing, EstimatesOf
    <3>2. SumFunction(EstimatesOf({})) = 0
      BY SumOfNothing DEF SumFunction, EstimatesOf
    <3>. QED BY <3>1, <3>2, SlotsAssumption DEF ExistingFit
  <2>. QED BY <2>1, <2>2, <2>3 DEF BudgetInvariant
<1>2. SlotsInvariant /\ LoadFitsTheLedger /\ BudgetInvariant /\ [Next]_vars => BudgetInvariant'
  <2>. SUFFICES ASSUME SlotsInvariant, LoadFitsTheLedger, BudgetInvariant, [Next]_vars
                PROVE  BudgetInvariant'
    OBVIOUS
  <2>1. NobodyTakesTheIdle' /\ EveryChildHasItsPlace'
    BY NextKeepsPlaces DEF BudgetInvariant
  <2>2. ChargesCoverEstimates'
    BY ChargesStayCovered DEF BudgetInvariant
  <2>3. ExistingFit'
    <3>1. CASE Existing' \subseteq Existing
      BY <3>1, FewerNeedLess, PlacesAreSingle DEF BudgetInvariant
    <3>2. ASSUME NEW t \in Admitters, pc[t] = "start",
                 proc' = [proc EXCEPT ![<<t, want[t]>>] = "loading"]
          PROVE  ExistingFit'
      BY <3>2, StartedFits DEF BudgetInvariant
    <3>. QED BY <3>1, <3>2, OnlyStartsAdd
  <2>. QED BY <2>1, <2>2, <2>3 DEF BudgetInvariant
<1>3. SlotsInvariant /\ BudgetInvariant => WithinBudget
  BY ExistingCoversHolding
<1>. QED BY <1>1, <1>2, <1>3, SlotsInvariantHolds, LoadsFitTheLedger, PTL DEF Spec
=============================================================================
