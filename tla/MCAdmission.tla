----------------------------- MODULE MCAdmission -----------------------------
(***************************************************************************)
(* Every question admission can be asked about a small catalog: a snapshot *)
(* is taken slot by slot, in catalog order, and then one entry is wanted   *)
(* against one ceiling and one device reading.                             *)
(***************************************************************************)
EXTENDS Admission

CONSTANTS
  Ages,      \* how long ago a loaded entry can have answered
  Sides,     \* figures a side of a measurement can read, besides None
  Limits,    \* ceilings, besides none at all
  Frees      \* device readings, besides none

ASSUME QuestionsAssumption ==
  /\ Ages \subseteq Nat
  /\ Sides \subseteq Nat
  /\ Limits \subseteq Nat
  /\ Frees \subseteq Nat

VARIABLES
  view,   \* the snapshot: None until a slot is read, and for an empty one
  next,   \* the entry whose slot is read next
  ask     \* the question, once the snapshot is complete

vars == <<view, next, ask>>

Measurements == [resident : Sides \cup {None}, device : Sides \cup {None}]

NoAsk == [wanted |-> 0, limit |-> None, free |-> None]

Init ==
  /\ view = [e \in Entries |-> None]
  /\ next = 1
  /\ ask = NoAsk

\* Slots::held reads one occupied slot.
ReadHeld(m, busy, age) ==
  /\ next \in Entries
  /\ view' = [view EXCEPT ![next] = [cost   |-> CostOf(next, m),
                                     device |-> DeviceOf(next, m),
                                     busy   |-> busy,
                                     age    |-> age]]
  /\ next' = next + 1
  /\ UNCHANGED ask

ReadEmpty ==
  /\ next \in Entries
  /\ next' = next + 1
  /\ UNCHANGED <<view, ask>>

\* The ceilings under which admission can have loaded what the snapshot shows:
\* the last of these loads was admitted beside the others at its estimate.
CanHold(limit) ==
  (limit # None /\ LoadedIn(view) # {}) =>
     \E e \in LoadedIn(view) :
        CostSum(view, LoadedIn(view) \ {e}) + Estimate[e] <= limit

Ask(w, limit, free) ==
  /\ next = N + 1
  /\ ask = NoAsk
  /\ CanHold(limit)
  /\ ask' = [wanted |-> w, limit |-> limit, free |-> free]
  /\ UNCHANGED <<view, next>>

Next ==
  \/ \E m \in Measurements, b \in BOOLEAN, a \in Ages : ReadHeld(m, b, a)
  \/ ReadEmpty
  \/ \E w \in Entries, l \in Limits \cup {None}, f \in Frees \cup {None} : Ask(w, l, f)

Spec == Init /\ [][Next]_vars

----------------------------------------------------------------------------
Asked == ask # NoAsk

TypeOK ==
  /\ view \in [Entries -> Held \cup {None}]
  /\ next \in 1..(N + 1)
  /\ ask \in [wanted : Entries, limit : Limits \cup {None}, free : Frees \cup {None}] \cup {NoAsk}

Said == Admit(view, ask.wanted, ask.limit, ask.free)
SaidByLoop == AdmitLoop(view, ask.wanted, ask.limit, ask.free)

\* The snapshot with every reader gone: what waiting can bring about.
Quiet == [e \in Entries |-> IF view[e] = None THEN None
                            ELSE [view[e] EXCEPT !.busy = FALSE]]

\* The snapshot once the named entries have been ended.
Without(S) == [e \in Entries |-> IF e \in S THEN None ELSE view[e]]

\* The accumulating loop of Budget::admit decides what the definition over
\* coldest-first prefixes decides, and lists the victims coldest first.
LoopMeetsDefinition ==
  Asked =>
    /\ SaidByLoop.kind = Said.kind
    /\ Range(SaidByLoop.ids) = Said.ids
    /\ \A i, j \in 1..Len(SaidByLoop.ids) :
          i < j => Colder(view, SaidByLoop.ids[i], SaidByLoop.ids[j])

\* Ending what a decision names is enough: asked again of a machine without
\* those entries, and with the device room they gave back, admission answers
\* Fits.  make_room starts the child after unload without asking again.
UnloadingIsEnough ==
  (Asked /\ SaidByLoop.kind = "Unload") =>
    LET gone == Range(SaidByLoop.ids)
        free == IF ask.free = None THEN None ELSE ask.free + DeviceSum(view, gone)
    IN  Admit(Without(gone), ask.wanted, ask.limit, free).kind = "Fits"

\* No decision names a resident or a child with a reader, and it never ends
\* an entry while sparing a colder one it could have ended.
VictimsAreColdAndIdle ==
  (Asked /\ SaidByLoop.kind = "Unload") =>
    \A e \in Range(SaidByLoop.ids) :
      /\ e \notin Resident /\ ~view[e].busy
      /\ \A f \in Entries \ Range(SaidByLoop.ids) :
            (f \notin Resident /\ view[f] # None /\ ~view[f].busy)
               => view[f].age <= view[e].age

\* Decision::Refuse is permanent: with every reader gone the answer is still
\* Refuse, so a caller told not to wait lost nothing by it.
RefuseIsPermanent ==
  (Asked /\ SaidByLoop.kind = "Refuse") =>
    Admit(Quiet, ask.wanted, ask.limit, ask.free).kind = "Refuse"

\* The refusal that says waiting cannot help is only written when it cannot:
\* neither readers leaving nor every on-demand entry ending admits the entry.
NeverMeansNever ==
  (Asked /\ SaidByLoop.kind \in {"Refuse", "Blocked"} /\ ~TooLarge(ask.wanted, ask.limit)
    /\ Refusal(view, ask.wanted, ask.limit, ask.free) = "never") =>
    \A S \in SUBSET (Entries \ Resident) :
      LET left == [e \in Entries |-> IF e \in S THEN None ELSE Quiet[e]]
      IN  Admit(left, ask.wanted, ask.limit, None).kind = "Refuse"

\* What README.md says of Retry-After, which is sent for Blocked alone: it is
\* "sent exactly when waiting changes the answer".
BlockedMeansWaitingHelps ==
  (Asked /\ SaidByLoop.kind = "Blocked") =>
    Admit(Quiet, ask.wanted, ask.limit, ask.free).kind \in {"Fits", "Unload"}

CatalogEstimates == <<1, 2, 2>>
==============================================================================
