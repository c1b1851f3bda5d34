------------------------------ MODULE Admission ------------------------------
(***************************************************************************)
(* The admission policy: what a loaded model counts for, and whether a     *)
(* wanted one may be started, perhaps after unloading others.  Pure: every *)
(* operator is a function of the snapshot it is given (admission.rs,       *)
(* admission/room.rs, admission/subject.rs).                               *)
(*                                                                         *)
(* Entries are numbered in catalog order.  A snapshot ("view") maps every  *)
(* entry to None or to what admission sees of its loaded child:            *)
(*   cost, device  what it counts for on the ledger and on the device, MiB *)
(*   busy          whether something besides its slot holds the child      *)
(*   age           how long ago it last answered                           *)
(***************************************************************************)
EXTENDS Integers, Sequences, FiniteSets, FiniteSetsExt, SequencesExt

CONSTANTS
  N,          \* entries of the catalog
  Resident,   \* the entries with Residency::Resident
  Estimate,   \* memory_estimate_mib of each entry
  OffDevice,  \* the entries whose flags keep every layer off the device
  None        \* Rust's None, and "not loaded" in a view

Entries == 1..N

ASSUME CatalogAssumption ==
  /\ N \in Nat \ {0}
  /\ Resident \subseteq Entries
  /\ OffDevice \subseteq Entries
  /\ Estimate \in [Entries -> Nat]
  /\ None \notin Int
  /\ None \notin [cost : Nat, device : Nat, busy : BOOLEAN, age : Nat]

\* admission::Loaded, without the id (the view's index) and the residency.
Held == [cost : Nat, device : Nat, busy : BOOLEAN, age : Nat]

----------------------------------------------------------------------------
(* What one entry counts for. *)

\* Flags that keep every layer off the device leave nothing to fit there.
DeviceNeed(e) == IF e \in OffDevice THEN 0 ELSE Estimate[e]

\* Measurement::largest_mib over the two sides that may each be unreadable.
Largest(m) ==
  CASE m.resident = None -> m.device
    [] m.device = None   -> m.resident
    [] OTHER             -> Max({m.resident, m.device})

\* Loaded::of: a measurement raises the cost and never lowers it, and an entry
\* kept off the device is charged for the device side alone.
CostOf(e, m) ==
  LET measured == IF DeviceNeed(e) = 0 THEN m.device ELSE Largest(m)
  IN  IF measured = None THEN Estimate[e] ELSE Max({measured, Estimate[e]})

DeviceOf(e, m) == IF m.device = None THEN DeviceNeed(e) ELSE m.device

----------------------------------------------------------------------------
(* Room on the two sides. *)

LoadedIn(view) == {e \in Entries : view[e] # None}

CostSum(view, S)   == SumFunction([e \in S |-> view[e].cost])
DeviceSum(view, S) == SumFunction([e \in S |-> view[e].device])

SaturatingSub(a, b) == IF b > a THEN 0 ELSE a - b

LedgerFits_Loose(view, w, limit, freed) ==
  \/ limit = None
  \/ SaturatingSub(CostSum(view, LoadedIn(view)), freed.cost) <= limit

LedgerFits(view, w, limit, freed) ==
  \/ limit = None
  \/ SaturatingSub(CostSum(view, LoadedIn(view)), freed.cost) + Estimate[w] <= limit

DeviceFits(w, free, freed) ==
  \/ free = None
  \/ free + freed.device >= DeviceNeed(w)

\* Room::short: which side has no room once "freed" is given back.
Short(view, w, limit, free, freed) ==
  CASE ~LedgerFits(view, w, limit, freed) -> "Ledger"
    [] ~DeviceFits(w, free, freed)        -> "Device"
    [] OTHER                              -> "neither"

Freed(view, S) == [cost |-> CostSum(view, S), device |-> DeviceSum(view, S)]

Enough(view, w, limit, free, S) == Short(view, w, limit, free, Freed(view, S)) = "neither"

----------------------------------------------------------------------------
(* The decision. *)

Candidates_Resident(view, w) == {e \in LoadedIn(view) : ~view[e].busy /\ e # w}

\* On-demand, idle, and not the entry being asked for.
Candidates(view, w) ==
  {e \in LoadedIn(view) : e \notin Resident /\ ~view[e].busy /\ e # w}

\* sort_by_key(last_used) is stable over the catalog's order.
Colder(view, e, f) ==
  view[e].age > view[f].age \/ (view[e].age = view[f].age /\ e < f)

\* The coldest-first prefixes of a set of candidates.
ColdPrefixes(view, C) ==
  {P \in SUBSET C : \A e \in P, f \in C : Colder(view, f, e) => f \in P}

\* What the loop over the candidates stops at: a prefix that is enough and
\* has no shorter prefix that is.
Unloads(view, w, limit, free) ==
  LET enough == {P \in ColdPrefixes(view, Candidates(view, w)) :
                    Enough(view, w, limit, free, P)}
  IN  {P \in enough : \A Q \in enough : P \subseteq Q}

FreesItself_Never(view, w) == FALSE

\* Whether anything holding room would be a candidate if it were idle.
FreesItself(view, w) ==
  \E e \in LoadedIn(view) : e \notin Resident /\ view[e].busy /\ e # w

TooLarge(w, limit) == limit # None /\ Estimate[w] > limit

Decision(kind, ids) == [kind |-> kind, ids |-> ids]

\* Budget::admit.  "ids" is the set to unload; Colder gives its order.
Admit(view, w, limit, free) ==
  IF w \in LoadedIn(view) THEN Decision("Fits", {})
  ELSE IF TooLarge(w, limit) THEN Decision("Refuse", {})
  ELSE IF Enough(view, w, limit, free, {}) THEN Decision("Fits", {})
  ELSE IF Unloads(view, w, limit, free) # {}
       THEN Decision("Unload", UNION Unloads(view, w, limit, free))
  ELSE IF FreesItself(view, w) THEN Decision("Blocked", {})
  ELSE Decision("Refuse", {})

----------------------------------------------------------------------------
(* The same decision as the code computes it: sort, then accumulate.       *)

LoopStart == [freed |-> [cost |-> 0, device |-> 0], ids |-> <<>>]

LoopPass_Eager(view, w, limit, free, acc, c) ==
  [freed |-> [cost   |-> acc.freed.cost + view[c].cost,
              device |-> acc.freed.device + view[c].device],
   ids   |-> Append(acc.ids, c)]

\* The device room a candidate gives back read from the wrong field.
LoopPass_WrongSide(view, w, limit, free, acc, c) ==
  IF Short(view, w, limit, free, acc.freed) = "neither" THEN acc
  ELSE [freed |-> [cost   |-> acc.freed.cost + view[c].cost,
                   device |-> acc.freed.device + view[c].cost],
        ids   |-> Append(acc.ids, c)]

\* One pass of the loop; a side that is no longer short makes it break, after
\* which every further pass would find the same.
LoopPass(view, w, limit, free, acc, c) ==
  IF Short(view, w, limit, free, acc.freed) = "neither" THEN acc
  ELSE [freed |-> [cost   |-> acc.freed.cost + view[c].cost,
                   device |-> acc.freed.device + view[c].device],
        ids   |-> Append(acc.ids, c)]

\* The last of a set of candidates in the order of the sort.
Hottest(view, P) == CHOOSE e \in P : \A f \in P \ {e} : Colder(view, f, e)

\* The sorted candidates go through the loop, so that the pass of the hottest
\* of them is the last.
Accumulated(view, w, limit, free) ==
  MapThenFoldSet(LAMBDA c, acc : LoopPass(view, w, limit, free, acc, c), LoopStart,
                 LAMBDA c : c, LAMBDA P : Hottest(view, P), Candidates(view, w))

\* Budget::admit with its loop and its vector of ids.
AdmitLoop(view, w, limit, free) ==
  IF w \in LoadedIn(view) THEN [kind |-> "Fits", ids |-> <<>>]
  ELSE IF TooLarge(w, limit) THEN [kind |-> "Refuse", ids |-> <<>>]
  ELSE IF Short(view, w, limit, free, LoopStart.freed) = "neither"
       THEN [kind |-> "Fits", ids |-> <<>>]
  ELSE LET end == Accumulated(view, w, limit, free)
       IN  IF Short(view, w, limit, free, end.freed) = "neither"
           THEN [kind |-> "Unload", ids |-> end.ids]
           ELSE [kind |-> IF FreesItself(view, w) THEN "Blocked" ELSE "Refuse",
                 ids  |-> <<>>]

----------------------------------------------------------------------------
(* Room::refusal, by the kind of message it writes. *)

Reserved_All(view) == CostSum(view, LoadedIn(view))

Reserved(view) == CostSum(view, LoadedIn(view) \cap Resident)

\* "can never load ... waiting cannot help", or the holders' list, or the device.
Refusal(view, w, limit, free) ==
  LET short == Short(view, w, limit, free, Accumulated(view, w, limit, free).freed)
  IN  CASE short = "Device" -> "device"
        [] short = "Ledger" /\ Estimate[w] + Reserved(view) > limit -> "never"
        [] OTHER -> "held"
==============================================================================
