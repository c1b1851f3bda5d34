---------------------------- MODULE StartupProofs ----------------------------
(***************************************************************************)
(* Proofs about Startup, for every catalog, models root and environment.   *)
(* StartupInvariant is inductive; one lemma per action shows that the      *)
(* action preserves it, and theorems follow from it. The last sections are *)
(* about estimates: what a header says, what a layer holds, which shards   *)
(* there are, and EstimatesHold, which the steps keep beside it.           *)
(***************************************************************************)
EXTENDS Startup, SumLemmas, SequenceTheorems

----------------------------------------------------------------------------
(* What the operators of Catalog return. *)

LEMMA TheOne ==
  ASSUME NEW S, S # {}
  PROVE  The(S) \in S
  BY Zenon DEF The

\* A table of flags that was read is finite.
LEMMA FlagsAreFinite ==
  ASSUME NEW table, \A of \in Optional(table, "flags") : IsFiniteSet(DOMAIN of)
  PROVE  IsFiniteSet(DOMAIN Flags(table))
<1>. DEFINE found == Or(Optional(table, "flags"), {<< >>})
            of == The(found)
<1>1. of \in found
  <2>1. found # {}
    BY DEF Or, Nothing
  <2>. HIDE DEF found
  <2>. QED BY <2>1, TheOne
<1>2. IsFiniteSet(DOMAIN of)
  <2>1. CASE Optional(table, "flags") # Nothing
    BY <1>1, <2>1 DEF Or
  <2>2. CASE Optional(table, "flags") = Nothing
    <3>1. of = << >>
      BY <1>1, <2>2 DEF Or
    <3>2. DOMAIN << >> = {}
      OBVIOUS
    <3>. HIDE DEF of
    <3>. QED BY <3>1, <3>2, FS_EmptySet
  <2>. QED BY <2>1, <2>2
<1>3. DOMAIN Flags(table) = {j \in DOMAIN of : AsText(of[j]) # Nothing}
  BY DEF Flags
<1>. HIDE DEF of
<1>. QED BY <1>2, <1>3, FS_Subset

LEMMA MergedIsFinite ==
  ASSUME NEW a, NEW b, IsFiniteSet(DOMAIN Flags(a)), IsFiniteSet(DOMAIN Flags(b))
  PROVE  IsFiniteSet(DOMAIN Merged(a, b))
<1>1. DOMAIN Merged(a, b) = DOMAIN Flags(a) \cup DOMAIN Flags(b)
  BY DEF Merged
<1>. QED BY <1>1, FS_Union

\* The entry an identifier of the text is drafted as.
LEMMA EntryOfMeans ==
  ASSUME NEW id, NEW v, NEW defaults
  PROVE  /\ \A e \in EntryOf(id, v, defaults) : e.id = id /\ e.flags = Merged(v.of, defaults)
         /\ \A e, o \in EntryOf(id, v, defaults) : e = o
         /\ \A e \in EntryOf(id, v, defaults) : \A n :
              /\ [e EXCEPT !.estimate = n].id = e.id
              /\ [e EXCEPT !.estimate = n].path = e.path
              /\ [e EXCEPT !.estimate = n].draft = e.draft
              /\ [e EXCEPT !.estimate = n].projector = e.projector
              /\ [e EXCEPT !.estimate = n].flags = e.flags
         /\ EntryOf(id, v, defaults) # {} <=>
              /\ IsTable(v) /\ Optional(v.of, "path") # {}
              /\ Inherited(v.of, defaults, "context_size") # {}
<1>1. EntryOf(id, v, defaults) # {} <=>
        /\ IsTable(v) /\ Optional(v.of, "path") # {}
        /\ Inherited(v.of, defaults, "context_size") # {}
  BY DEF EntryOf, Nothing
<1>. SUFFICES ASSUME NEW e \in EntryOf(id, v, defaults), NEW o \in EntryOf(id, v, defaults), NEW n
              PROVE  /\ e.id = id /\ e.flags = Merged(v.of, defaults) /\ e = o
                     /\ [e EXCEPT !.estimate = n].id = e.id
                     /\ [e EXCEPT !.estimate = n].path = e.path
                     /\ [e EXCEPT !.estimate = n].draft = e.draft
                     /\ [e EXCEPT !.estimate = n].projector = e.projector
                     /\ [e EXCEPT !.estimate = n].flags = e.flags
  BY <1>1
<1>2. PICK p, d, j, c, r, m, f, x, u, t :
        EntryOf(id, v, defaults) =
          {[id |-> id, path |-> p, draft |-> d, projector |-> j, context |-> c, resident |-> r,
            estimate |-> m, format |-> f, effort |-> x, runtime |-> u, timeout |-> t,
            flags |-> Merged(v.of, defaults)]}
  BY Zenon DEF EntryOf, Nothing
<1>. QED BY <1>2

\* A known field that is there and of which nothing is reported was read.
LEMMA FieldsAreRight ==
  ASSUME NEW table, NEW known, NEW scope, FieldProblems(table, known, scope) = {},
         NEW f \in DOMAIN table, f \in known
  PROVE  Optional(table, f) # {}
<1>1. {<<scope, g, "is wrong">> : g \in {h \in DOMAIN table \cap known : Converted(h, table[h]) = Nothing}} = {}
  BY DEF FieldProblems
<1>2. Converted(f, table[f]) # Nothing
  BY <1>1
<1>. QED BY <1>2 DEF Optional, Nothing

LEMMA FieldsAreKnown ==
  ASSUME NEW table, NEW known, NEW scope
  PROVE  FieldProblems(table, known, scope) = {} <=>
           /\ DOMAIN table \subseteq known
           /\ \A f \in DOMAIN table \cap known : Converted(f, table[f]) # {}
           /\ \A of \in Optional(table, "flags") : \A j \in DOMAIN of : AsText(of[j]) # {}
<1>. DEFINE A == {<<scope, f, "is not recognised">> : f \in DOMAIN table \ known}
            B == {<<scope, f, "is wrong">> :
                    f \in {g \in DOMAIN table \cap known : Converted(g, table[g]) = Nothing}}
            K == UNION {{j \in DOMAIN of : AsText(of[j]) = Nothing} : of \in Optional(table, "flags")}
            C == {<<scope, "flags", "is wrong">> : k \in K}
<1>1. FieldProblems(table, known, scope) = A \cup B \cup C
  BY DEF FieldProblems
<1>2. A = {} <=> DOMAIN table \subseteq known
  OBVIOUS
<1>3. B = {} <=> \A f \in DOMAIN table \cap known : Converted(f, table[f]) # {}
  BY DEF Nothing
<1>4. C = {} <=> K = {}
  <2>. HIDE DEF K
  <2>. QED OBVIOUS
<1>5. K = {} <=> \A of \in Optional(table, "flags") : \A j \in DOMAIN of : AsText(of[j]) # {}
  BY DEF Nothing
<1>. HIDE DEF A, B, C, K
<1>. QED BY <1>1, <1>2, <1>3, <1>4, <1>5

\* A text without problems drafts every entry it names.
LEMMA DraftsAreThere ==
  ASSUME NEW t, DraftProblems(t) = {}, NEW id \in DOMAIN Models(t)
  PROVE  EntryOf(id, Models(t)[id], Defaults(t)) # {}
<1>. DEFINE v == Models(t)[id]
            d == Defaults(t)
<1>1. EntryProblems(id, v, d) = {}
  BY DEF DraftProblems
<1>. HIDE DEF v, d
<1>2. IsTable(v)
  BY <1>1 DEF EntryProblems
<1>3. /\ FieldProblems(v.of, EntryFields, Scope(id)) = {}
      /\ Required(v.of, id) = {} /\ SettledContext(v.of, d, id) = {}
  BY <1>1, <1>2 DEF EntryProblems
<1>4. Optional(v.of, "path") # {}
  <2>1. "path" \in DOMAIN v.of
    BY <1>3 DEF Required
  <2>2. "path" \in EntryFields
    BY DEF EntryFields, Places
  <2>. QED BY <1>3, <2>1, <2>2, FieldsAreRight
<1>5. Inherited(v.of, d, "context_size") # {}
  <2>1. CASE "context_size" \in DOMAIN v.of
    <3>1. "context_size" \in EntryFields
      BY DEF EntryFields, DefaultFields, Numbers
    <3>2. Optional(v.of, "context_size") # {}
      BY <1>3, <2>1, <3>1, FieldsAreRight
    <3>. QED BY <3>2 DEF Inherited, Or, Nothing
  <2>2. CASE "context_size" \notin DOMAIN v.of
    BY <1>3, <2>2 DEF SettledContext, Nothing
  <2>. QED BY <2>1, <2>2
<1>6. EntryOf(id, v, d) # {}
  BY <1>2, <1>4, <1>5, EntryOfMeans
<1>. QED BY <1>6 DEF v, d

\* The drafted entries, by identifier.
LEMMA DraftsMean ==
  ASSUME NEW t
  PROVE  /\ \A e \in DraftEntries(t) :
              e.id \in DOMAIN Models(t) /\ e \in EntryOf(e.id, Models(t)[e.id], Defaults(t))
         /\ \A e, o \in DraftEntries(t) : e.id = o.id => e = o
         /\ DraftProblems(t) = {} => {e.id : e \in DraftEntries(t)} = DOMAIN Models(t)
<1>1. \A e \in DraftEntries(t) :
        e.id \in DOMAIN Models(t) /\ e \in EntryOf(e.id, Models(t)[e.id], Defaults(t))
  <2>. SUFFICES ASSUME NEW e \in DraftEntries(t)
                PROVE  e.id \in DOMAIN Models(t) /\ e \in EntryOf(e.id, Models(t)[e.id], Defaults(t))
    OBVIOUS
  <2>1. PICK id \in DOMAIN Models(t) : e \in EntryOf(id, Models(t)[id], Defaults(t))
    BY DEF DraftEntries
  <2>2. e.id = id
    BY <2>1, EntryOfMeans
  <2>. QED BY <2>1, <2>2
<1>2. \A e, o \in DraftEntries(t) : e.id = o.id => e = o
  <2>. SUFFICES ASSUME NEW e \in DraftEntries(t), NEW o \in DraftEntries(t), e.id = o.id PROVE e = o
    OBVIOUS
  <2>. DEFINE E == EntryOf(e.id, Models(t)[e.id], Defaults(t))
  <2>1. e \in E /\ o \in E
    BY <1>1
  <2>2. \A a, b \in E : a = b
    BY EntryOfMeans
  <2>. HIDE DEF E
  <2>. QED BY <2>1, <2>2
<1>3. ASSUME DraftProblems(t) = {}, NEW id \in DOMAIN Models(t)
      PROVE  \E e \in DraftEntries(t) : e.id = id
  <2>1. PICK e : e \in EntryOf(id, Models(t)[id], Defaults(t))
    BY <1>3, DraftsAreThere
  <2>2. e.id = id
    BY <2>1, EntryOfMeans
  <2>. QED BY <2>1, <2>2 DEF DraftEntries
<1>4. DraftProblems(t) = {} => {e.id : e \in DraftEntries(t)} = DOMAIN Models(t)
  <2>1. {e.id : e \in DraftEntries(t)} \subseteq DOMAIN Models(t)
    BY <1>1
  <2>. QED BY <1>3, <2>1
<1>. QED BY <1>1, <1>2, <1>4

LEMMA DraftFlagsAreFinite ==
  ASSUME NEW t, TextOK(t), NEW e \in DraftEntries(t)
  PROVE  IsFiniteSet(DOMAIN e.flags)
<1>. DEFINE v == Models(t)[e.id]
<1>1. e.id \in DOMAIN Models(t) /\ e \in EntryOf(e.id, v, Defaults(t))
  BY DraftsMean
<1>2. IsTable(v) /\ e.flags = Merged(v.of, Defaults(t))
  BY <1>1, EntryOfMeans
<1>3. IsFiniteSet(DOMAIN Flags(v.of)) /\ IsFiniteSet(DOMAIN Flags(Defaults(t)))
  <2>1. \A of \in Optional(v.of, "flags") : IsFiniteSet(DOMAIN of)
    BY <1>1, <1>2 DEF TextOK
  <2>2. \A of \in Optional(Defaults(t), "flags") : IsFiniteSet(DOMAIN of)
    BY DEF TextOK
  <2>. HIDE DEF v
  <2>. QED BY <2>1, <2>2, FlagsAreFinite
<1>. HIDE DEF v
<1>. QED BY <1>2, <1>3, MergedIsFinite

\* What settling leaves alone.
LEMMA SettledMeans ==
  ASSUME NEW e \in DraftEntries(text)
  PROVE  /\ Settled(e).id = e.id /\ Settled(e).path = e.path /\ Settled(e).flags = e.flags
         /\ Settled(e).draft = e.draft /\ Settled(e).projector = e.projector
         /\ e.id \notin DraftUndeclared(text) => Settled(e) = e
<1>1. e \in EntryOf(e.id, Models(text)[e.id], Defaults(text))
  BY DraftsMean
<1>2. \A n : /\ [e EXCEPT !.estimate = n].id = e.id
             /\ [e EXCEPT !.estimate = n].path = e.path
             /\ [e EXCEPT !.estimate = n].draft = e.draft
             /\ [e EXCEPT !.estimate = n].projector = e.projector
             /\ [e EXCEPT !.estimate = n].flags = e.flags
  BY <1>1, EntryOfMeans
<1>3. Settled(e) = e \/ \E n : Settled(e) = [e EXCEPT !.estimate = n]
  BY DEF Settled
<1>4. e.id \notin DraftUndeclared(text) => Settled(e) = e
  BY DEF Settled
<1>. QED BY <1>2, <1>3, <1>4

\* A text that parse takes has nothing for read to complain of, and declares
\* every estimate.
LEMMA ParsedIsRead ==
  ASSUME NEW t, ParseProblems(t) = {}
  PROVE  /\ t.toml /\ DraftProblems(t) = {} /\ DraftUndeclared(t) = {}
         /\ ReadProblems(t) = {}
<1>1. t.toml /\ DraftProblems(t) = {}
  BY DEF ParseProblems
<1>2. DraftUndeclared(t) = {}
  BY <1>1 DEF ParseProblems
<1>3. Underivable(t) = {}
  BY <1>2 DEF Underivable
<1>. QED BY <1>1, <1>2, <1>3 DEF ReadProblems

----------------------------------------------------------------------------
(* What the machine's memory comes to. *)

LEMMA OneOrNone ==
  ASSUME NEW limit \in Int
  PROVE  /\ AboveZero(limit) \subseteq 1..MaxU32
         /\ \A a, b \in AboveZero(limit) : a = b
         /\ \A a \in AboveZero(limit) : a <= limit
<1>1. CASE limit > 0
  <2>1. MaxU32 \in Nat \ {0}
    BY UnitsAssumption
  <2>2. PICK m : m = Min({limit, MaxU32})
    OBVIOUS
  <2>3. m \in {limit, MaxU32} /\ m <= limit /\ m <= MaxU32
    <3>1. \E x \in {limit, MaxU32} : \A y \in {limit, MaxU32} : x =< y
      <4>1. CASE limit =< MaxU32
        BY <2>1, <4>1
      <4>2. CASE ~(limit =< MaxU32)
        BY <2>1, <4>2
      <4>. QED BY <4>1, <4>2
    <3>2. m \in {limit, MaxU32} /\ \A y \in {limit, MaxU32} : m =< y
      BY <2>2, <3>1, Zenon DEF Min
    <3>. QED BY <3>2
  <2>4. AboveZero(limit) = {m}
    BY <1>1, <2>2 DEF AboveZero
  <2>5. m \in 1..MaxU32
    BY <1>1, <2>1, <2>3
  <2>. QED BY <2>3, <2>4, <2>5
<1>2. CASE ~(limit > 0)
  BY <1>2 DEF AboveZero, Nothing
<1>. QED BY <1>1, <1>2

\* A total is a number, and there is one or none.
LEMMA DeviceTotals ==
  ASSUME NEW lines, lines \in Seq(ToSet(lines)), \A line \in ToSet(lines) : PrintedOK(line)
  PROVE  /\ \A d \in Device(lines) : d.total \in Nat
         /\ \A d, o \in Device(lines) : d = o
<1>. DEFINE devices == {i \in DOMAIN lines : lines[i].is = "device"}
            f == [i \in devices |-> lines[i].total]
            g == [i \in devices |-> lines[i].used]
<1>1. Device(lines) = {} \/ Device(lines) = {[total |-> SumFunction(f), used |-> SumFunction(g)]}
  BY DEF Device, Nothing
<1>2. SumFunction(f) \in Nat
  <2>1. IsFiniteSet(devices)
    <3>1. DOMAIN lines = 1..Len(lines) /\ Len(lines) \in Nat
      OBVIOUS
    <3>2. IsFiniteSet(DOMAIN lines)
      BY <3>1, FS_Interval
    <3>. QED BY <3>2, FS_Subset
  <2>2. \A i \in devices : f[i] \in Nat
    <3>. SUFFICES ASSUME NEW i \in devices PROVE lines[i].total \in Nat
      OBVIOUS
    <3>1. lines[i] \in ToSet(lines) /\ lines[i].is = "device"
      BY DEF ToSet
    <3>. QED BY <3>1 DEF PrintedOK
  <2>3. DOMAIN f = devices
    OBVIOUS
  <2>. HIDE DEF devices, f
  <2>4. SumFunctionOnSet(f, devices) \in Nat
    BY <2>1, <2>2, SumIsNat
  <2>. QED BY <2>3, <2>4 DEF SumFunction
<1>. HIDE DEF f, g
<1>. QED BY <1>1, <1>2

\* A derived budget is above zero, fits its width and leaves the margin alone.
LEMMA DerivedBudgetMeans ==
  ASSUME NEW device, \A d \in device : d.total \in Nat, \A d, o \in device : d = o,
         NEW system \in SUBSET Nat, \A a, b \in system : a = b
  PROVE  /\ DerivedBudget(device, system) \subseteq 0..MaxU32
         /\ \A a, b \in DerivedBudget(device, system) : a = b
         /\ 0 \notin DerivedBudget(device, system)
         /\ \A d \in device : \A limit \in DerivedBudget(device, system) : limit + MinMargin <= d.total
<1>. USE DEF Nothing
<1>1. CASE device # {}
  <2>1. The(device) \in device
    BY <1>1, TheOne
  <2>2. PICK total \in Nat : total = The(device).total
    BY <2>1
  <2>3. \A d \in device : d.total = total
    BY <2>1, <2>2
  <2>4. MinMargin \in Nat
    BY MachineAssumption
  <2>5. PICK tenth \in Nat : tenth = total \div 10
    OBVIOUS
  <2>6. PICK m : m = Max({tenth, MinMargin})
    OBVIOUS
  <2>7. m \in {tenth, MinMargin} /\ m >= MinMargin
    <3>1. \E x \in {tenth, MinMargin} : \A y \in {tenth, MinMargin} : x >= y
      <4>1. CASE tenth >= MinMargin
        BY <2>4, <2>5, <4>1
      <4>2. CASE ~(tenth >= MinMargin)
        BY <2>4, <2>5, <4>2
      <4>. QED BY <4>1, <4>2
    <3>2. m \in {tenth, MinMargin} /\ \A y \in {tenth, MinMargin} : m >= y
      BY <2>6, <3>1, Zenon DEF Max
    <3>. QED BY <3>2
  <2>8. PICK limit \in Int : limit = total - m
    BY <2>4, <2>5, <2>7
  <2>9. DerivedBudget(device, system) = AboveZero(limit)
    BY <1>1, <2>2, <2>5, <2>6, <2>8 DEF DerivedBudget
  <2>10. /\ AboveZero(limit) \subseteq 1..MaxU32
         /\ \A a, b \in AboveZero(limit) : a = b
         /\ \A a \in AboveZero(limit) : a <= limit
    BY OneOrNone
  <2>11. \A a \in AboveZero(limit) : a + MinMargin <= total
    BY <2>4, <2>5, <2>7, <2>8, <2>10
  <2>. QED BY <2>3, <2>9, <2>10, <2>11
<1>2. CASE device = {}
  <2>1. CASE system = {}
    BY <1>2, <2>1 DEF DerivedBudget
  <2>2. CASE system # {}
    <3>1. PICK total \in system : system = {total}
      BY <2>2
    <3>2. SystemShare \in Nat /\ total \in Nat
      BY <3>1, MachineAssumption
    <3>3. PICK product \in Nat : product = total * SystemShare
      BY <3>2
    <3>4. PICK limit \in Int : limit = product \div 100
      BY <3>3
    <3>5. DerivedBudget(device, system) = AboveZero(limit)
      BY <1>2, <3>1, <3>3, <3>4 DEF DerivedBudget
    <3>6. /\ AboveZero(limit) \subseteq 1..MaxU32
          /\ \A a, b \in AboveZero(limit) : a = b
      BY OneOrNone
    <3>. QED BY <1>2, <3>5, <3>6
  <2>. QED BY <2>1, <2>2
<1>. QED BY <1>1, <1>2

----------------------------------------------------------------------------
(* The invariant holds at first, and through every step of the tool. *)

LEMMA Starts == Init => StartupInvariant
<1>. SUFFICES ASSUME Init PROVE StartupInvariant
  OBVIOUS
<1>1. PICK s \in Scenarios :
        /\ command = s.command /\ env = s.env
        /\ text = s.text /\ root = s.root /\ rootName = s.rootName
  BY DEF Init
<1>2. InputsHold
  BY <1>1, ScenariosAssumption DEF Init, InputsHold
<1>3. PlaceHolds
  BY DEF Init, CatalogInit, PlaceHolds, NoTool
<1>4. ToolHolds
  <2>1. PICK n \in Nat : n = Len(env.prints)
    BY <1>2 DEF InputsHold, EnvironmentOK
  <2>2. PipeSize \in Nat \ {0}
    BY MachineAssumption
  <2>3. tool = NoTool
    BY DEF Init
  <2>. QED BY <2>1, <2>2, <2>3 DEF ToolHolds, NoTool, Nothing
<1>5. LimitsHold
  BY MachineAssumption DEF Init, CatalogInit, LimitsHold, Nothing
<1>6. ReportHolds /\ EntriesHold /\ DiscoveryHolds
  BY DEF Init, CatalogInit, ReportHolds, EntriesHold, DiscoveryHolds
<1>. QED BY <1>2, <1>3, <1>4, <1>5, <1>6 DEF StartupInvariant

LEMMA ReadProblemsStay ==
  ASSUME UNCHANGED <<text, root>>
  PROVE  ReadProblems(text)' = ReadProblems(text)
  BY DEF ReadProblems, Underivable

\* A step that leaves the catalog alone.
LEMMA CatalogStays ==
  ASSUME StartupInvariant, UNCHANGED <<catalogVars, command, env>>
  PROVE  InputsHold' /\ ReportHolds' /\ EntriesHold' /\ DiscoveryHolds'
<1>. USE DEF StartupInvariant, catalogVars
<1>1. InputsHold'
  BY DEF InputsHold
<1>2. ReportHolds'
  BY ReadProblemsStay DEF ReportHolds
<1>3. EntriesHold'
  BY DEF EntriesHold
<1>4. DiscoveryHolds'
  BY DEF DiscoveryHolds, Accounted
<1>. QED BY <1>1, <1>2, <1>3, <1>4

\* A step of the serve command, or the last of check, once the catalog was read.
LEMMA OnceRead ==
  ASSUME StartupInvariant, at \notin {"text", "discover", "refused"}, at' \notin {"text", "discover"},
         at' = "refused" => command = "serve" /\ \A q \in problems' : q[1] = <<"serve">>,
         at' # "refused" => problems' = problems,
         UNCHANGED <<text, root, reading, entries, derived, discovered, notes, walk, taken, command, env>>
  PROVE  InputsHold' /\ ReportHolds' /\ EntriesHold' /\ DiscoveryHolds'
<1>. USE DEF StartupInvariant
<1>1. InputsHold'
  BY DEF InputsHold
<1>2. at' = "refused" => reading # "read"
  BY DEF InputsHold
<1>3. ReportHolds'
  BY <1>2, ReadProblemsStay DEF ReportHolds
<1>4. EntriesHold'
  BY <1>2 DEF EntriesHold
<1>5. DiscoveryHolds'
  BY <1>2 DEF DiscoveryHolds, Accounted
<1>. QED BY <1>1, <1>3, <1>4, <1>5

LEMMA PrintsKept ==
  ASSUME StartupInvariant, ToolPrints
  PROVE  StartupInvariant'
<1>1. InputsHold' /\ ReportHolds' /\ EntriesHold' /\ DiscoveryHolds'
  BY CatalogStays DEF ToolPrints, ToolOnly
<1>2. PlaceHolds'
  BY DEF StartupInvariant, PlaceHolds, ToolHolds, ToolPrints, ToolOnly, catalogVars, NoTool
<1>3. ToolHolds'
  <2>1. PICK n \in Nat : n = Len(env.prints)
    BY DEF StartupInvariant, InputsHold, EnvironmentOK
  <2>2. PipeSize \in Nat
    BY MachineAssumption
  <2>3. PICK p \in 0..n, i \in 0..PipeSize, r \in Nat :
          /\ tool.printed = p /\ tool.pipe = i /\ tool.read = r /\ p = i + r
          /\ p + 1 \in 0..n /\ i + 1 \in 0..PipeSize
          /\ tool' = [tool EXCEPT !.printed = p + 1, !.pipe = i + 1]
    <3>1. tool.printed \in 0..n /\ tool.pipe \in 0..PipeSize /\ tool.read \in Nat
      BY <2>1 DEF StartupInvariant, ToolHolds
    <3>2. tool.printed = tool.pipe + tool.read
      BY DEF StartupInvariant, ToolHolds
    <3>3. /\ tool.printed < n /\ tool.pipe < PipeSize
          /\ tool' = [tool EXCEPT !.printed = tool.printed + 1, !.pipe = tool.pipe + 1]
      BY <2>1 DEF ToolPrints
    <3>4. tool.printed + 1 \in 0..n /\ tool.pipe + 1 \in 0..PipeSize
      BY <2>1, <2>2, <3>1, <3>3
    <3>. QED BY <3>1, <3>2, <3>3, <3>4
  <2>4. /\ tool' \in [state : {"none", "running", "done", "failed", "killed"}, printed : 0..Len(env.prints),
                      pipe : 0..PipeSize, read : Nat, drained : BOOLEAN, late : BOOLEAN,
                      watch : {"idle", "polling", "joining", "joined"}, heard : SUBSET {env.prints}]
        /\ tool'.printed = p + 1 /\ tool'.pipe = i + 1 /\ tool'.read = r
        /\ tool'.state = "running" /\ tool.state = "running" /\ ~tool'.drained
        /\ tool'.watch = tool.watch /\ tool'.heard = tool.heard /\ tool'.late = tool.late
    BY <2>1, <2>3 DEF StartupInvariant, ToolHolds, ToolPrints
  <2>. QED BY <2>3, <2>4 DEF StartupInvariant, ToolHolds, ToolPrints, ToolOnly
<1>4. LimitsHold'
  BY DEF StartupInvariant, LimitsHold, ToolHolds, ToolPrints, ToolOnly, catalogVars
<1>. QED BY <1>1, <1>2, <1>3, <1>4 DEF StartupInvariant

LEMMA ExitsKept ==
  ASSUME StartupInvariant, ToolExits
  PROVE  StartupInvariant'
<1>1. InputsHold' /\ ReportHolds' /\ EntriesHold' /\ DiscoveryHolds'
  BY CatalogStays DEF ToolExits, ToolOnly
<1>2. PlaceHolds'
  BY DEF StartupInvariant, PlaceHolds, ToolHolds, ToolExits, ToolOnly, catalogVars, NoTool
<1>3. ToolHolds'
  BY DEF StartupInvariant, ToolHolds, ToolExits, ToolOnly, NoTool
<1>4. LimitsHold'
  BY DEF StartupInvariant, LimitsHold, ToolHolds, ToolExits, ToolOnly, catalogVars
<1>. QED BY <1>1, <1>2, <1>3, <1>4 DEF StartupInvariant

LEMMA ReadsKept ==
  ASSUME StartupInvariant, ReaderReads
  PROVE  StartupInvariant'
<1>1. InputsHold' /\ ReportHolds' /\ EntriesHold' /\ DiscoveryHolds'
  BY CatalogStays DEF ReaderReads, ToolOnly
<1>2. PlaceHolds'
  BY DEF StartupInvariant, PlaceHolds, ToolHolds, ReaderReads, CanRead, ToolOnly, catalogVars, NoTool
<1>3. ToolHolds'
  <2>1. PipeSize \in Nat
    BY MachineAssumption
  <2>2. PICK p \in 0..Len(env.prints), i \in 0..PipeSize, r \in Nat :
          /\ tool.printed = p /\ tool.pipe = i /\ tool.read = r /\ p = i + r
          /\ i - 1 \in 0..PipeSize /\ r + 1 \in Nat /\ p = (i - 1) + (r + 1)
          /\ tool' = [tool EXCEPT !.pipe = i - 1, !.read = r + 1]
    <3>1. tool.printed \in 0..Len(env.prints) /\ tool.pipe \in 0..PipeSize /\ tool.read \in Nat
      BY DEF StartupInvariant, ToolHolds
    <3>2. tool.printed = tool.pipe + tool.read
      BY DEF StartupInvariant, ToolHolds
    <3>3. tool.pipe > 0 /\ tool' = [tool EXCEPT !.pipe = tool.pipe - 1, !.read = tool.read + 1]
      BY DEF ReaderReads, CanRead
    <3>4. /\ tool.pipe - 1 \in 0..PipeSize /\ tool.read + 1 \in Nat
          /\ tool.pipe + tool.read = (tool.pipe - 1) + (tool.read + 1)
      BY <2>1, <3>1, <3>3
    <3>. QED BY <3>1, <3>2, <3>3, <3>4
  <2>3. /\ tool' \in [state : {"none", "running", "done", "failed", "killed"}, printed : 0..Len(env.prints),
                      pipe : 0..PipeSize, read : Nat, drained : BOOLEAN, late : BOOLEAN,
                      watch : {"idle", "polling", "joining", "joined"}, heard : SUBSET {env.prints}]
        /\ tool'.printed = p /\ tool'.pipe = i - 1 /\ tool'.read = r + 1
        /\ tool'.state = tool.state /\ tool'.drained = tool.drained
        /\ tool'.watch = tool.watch /\ tool'.heard = tool.heard /\ tool'.late = tool.late
    BY <2>2 DEF StartupInvariant, ToolHolds
  <2>4. tool.state # "none" /\ ~tool.drained
    BY <2>1 DEF StartupInvariant, ToolHolds, ReaderReads, CanRead, NoTool
  <2>. QED BY <2>2, <2>3, <2>4 DEF StartupInvariant, ToolHolds, ReaderReads, ToolOnly
<1>4. LimitsHold'
  BY DEF StartupInvariant, LimitsHold, ToolHolds, ReaderReads, ToolOnly, catalogVars
<1>. QED BY <1>1, <1>2, <1>3, <1>4 DEF StartupInvariant

LEMMA EndsKept ==
  ASSUME StartupInvariant, ReaderEnds
  PROVE  StartupInvariant'
<1>1. InputsHold' /\ ReportHolds' /\ EntriesHold' /\ DiscoveryHolds'
  BY CatalogStays DEF ReaderEnds, ToolOnly
<1>2. PlaceHolds'
  BY DEF StartupInvariant, PlaceHolds, ToolHolds, ReaderEnds, ToolOnly, catalogVars, NoTool
<1>3. ToolHolds'
  BY DEF StartupInvariant, ToolHolds, ReaderEnds, ToolOnly, NoTool
<1>4. LimitsHold'
  BY DEF StartupInvariant, LimitsHold, ToolHolds, ReaderEnds, ToolOnly, catalogVars
<1>. QED BY <1>1, <1>2, <1>3, <1>4 DEF StartupInvariant

\* The deadline passes for no healthy tool: one that is blocked has a full pipe,
\* and a full pipe can be read.
LEMMA DeadlineKept ==
  ASSUME StartupInvariant, Deadline
  PROVE  StartupInvariant'
<1>1. InputsHold' /\ ReportHolds' /\ EntriesHold' /\ DiscoveryHolds'
  BY CatalogStays DEF Deadline, ToolOnly
<1>2. PlaceHolds'
  BY DEF StartupInvariant, PlaceHolds, ToolHolds, Deadline, ToolOnly, catalogVars, NoTool
<1>3. ToolHolds'
  <2>1. PipeSize \in Nat \ {0}
    BY MachineAssumption
  <2>2. ~env.healthy
    BY <2>1 DEF Deadline, CanRead
  <2>. QED BY <2>2 DEF StartupInvariant, ToolHolds, Deadline, ToolOnly, NoTool
<1>4. LimitsHold'
  BY DEF StartupInvariant, LimitsHold, ToolHolds, Deadline, ToolOnly, catalogVars
<1>. QED BY <1>1, <1>2, <1>3, <1>4 DEF StartupInvariant

LEMMA PollKept ==
  ASSUME StartupInvariant, Poll
  PROVE  StartupInvariant'
<1>1. InputsHold' /\ ReportHolds' /\ EntriesHold' /\ DiscoveryHolds'
  BY CatalogStays DEF Poll, ToolOnly
<1>2. PlaceHolds'
  BY DEF StartupInvariant, PlaceHolds, ToolHolds, Poll, ToolOnly, catalogVars, NoTool
<1>3. ToolHolds'
  BY DEF StartupInvariant, ToolHolds, Poll, ToolOnly, NoTool
<1>4. LimitsHold'
  BY DEF StartupInvariant, LimitsHold, ToolHolds, Poll, ToolOnly, catalogVars
<1>. QED BY <1>1, <1>2, <1>3, <1>4 DEF StartupInvariant

\* The reader has read all that a tool which ended well has printed.
LEMMA JoinKept ==
  ASSUME StartupInvariant, Join
  PROVE  StartupInvariant'
<1>. DEFINE heard == IF tool.state = "done" THEN {SubSeq(env.prints, 1, tool.read)} ELSE Nothing
            budget == DerivedBudget(UNION {Device(lines) : lines \in heard}, env.system)
<1>1. /\ tool.watch = "joining" /\ tool.drained
      /\ tool' = [tool EXCEPT !.watch = "joined", !.heard = heard]
      /\ at' = "limits" /\ limits' = [limits EXCEPT !.budget = budget]
      /\ UNCHANGED <<text, root, rootName, reading, entries, derived, discovered, problems, notes, walk,
                     taken, command, env>>
  BY DEF Join, Budgeted
<1>2. at = "tool" /\ command = "serve" /\ env.budget.is = "unset"
  BY <1>1 DEF StartupInvariant, PlaceHolds, LimitsHold
<1>3. InputsHold' /\ ReportHolds' /\ EntriesHold' /\ DiscoveryHolds'
  BY <1>1, <1>2, OnceRead
<1>4. heard = IF tool.state = "done" THEN {env.prints} ELSE Nothing
  <2>. SUFFICES ASSUME tool.state = "done" PROVE SubSeq(env.prints, 1, tool.read) = env.prints
    OBVIOUS
  <2>1. env.prints \in Seq(ToSet(env.prints))
    BY DEF StartupInvariant, InputsHold, EnvironmentOK
  <2>2. PICK n \in Nat : n = Len(env.prints)
    BY <2>1
  <2>3. tool.pipe = 0 /\ tool.read \in Nat /\ tool.printed = n /\ tool.printed = tool.pipe + tool.read
    BY <1>1, <2>2 DEF StartupInvariant, ToolHolds
  <2>4. tool.read = n
    BY <2>2, <2>3
  <2>. QED BY <2>1, <2>2, <2>4
<1>5. tool.state \in {"done", "failed", "killed"}
  BY <1>1 DEF StartupInvariant, ToolHolds
<1>. HIDE DEF heard
<1>6. PlaceHolds'
  BY <1>1, <1>2 DEF StartupInvariant, PlaceHolds, ToolHolds
<1>7. ToolHolds'
  BY <1>1, <1>4, <1>5 DEF StartupInvariant, ToolHolds, Nothing
<1>8. LimitsHold'
  <2>1. tool'.heard = heard
    BY <1>1 DEF StartupInvariant, ToolHolds
  <2>2. PICK device : device = UNION {Device(lines) : lines \in heard}
    OBVIOUS
  <2>3. /\ \A d \in device : d.total \in Nat
        /\ \A d, o \in device : d = o
        /\ \A lines \in heard : Device(lines) \subseteq device
    <3>1. /\ \A d \in Device(env.prints) : d.total \in Nat
          /\ \A d, o \in Device(env.prints) : d = o
      BY DeviceTotals DEF StartupInvariant, InputsHold, EnvironmentOK
    <3>2. device \subseteq Device(env.prints)
      BY <1>4, <2>2 DEF Nothing
    <3>. QED BY <2>2, <3>1, <3>2
  <2>4. env.system \in SUBSET Nat /\ \A a, b \in env.system : a = b
    BY DEF StartupInvariant, InputsHold, EnvironmentOK
  <2>5. PICK b : b = budget
    OBVIOUS
  <2>6. /\ b \subseteq 0..MaxU32
        /\ \A x, y \in b : x = y
        /\ 0 \notin b
        /\ \A d \in device : \A limit \in b : limit + MinMargin <= d.total
    <3>1. b = DerivedBudget(device, env.system)
      BY <2>2, <2>5
    <3>. QED BY <2>3, <2>4, <3>1, DerivedBudgetMeans
  <2>7. limits' = [limits EXCEPT !.budget = b] /\ limits'.budget = b
    BY <1>1, <2>5 DEF StartupInvariant, LimitsHold
  <2>. HIDE DEF budget
  <2>. QED BY <1>1, <1>2, <2>1, <2>3, <2>6, <2>7 DEF StartupInvariant, LimitsHold
<1>. QED BY <1>3, <1>6, <1>7, <1>8 DEF StartupInvariant

----------------------------------------------------------------------------
(* The commands. *)

LEMMA CheckKept ==
  ASSUME StartupInvariant, Check
  PROVE  StartupInvariant'
<1>1. InputsHold' /\ ReportHolds' /\ EntriesHold' /\ DiscoveryHolds'
  BY OnceRead DEF Check
<1>2. PlaceHolds'
  BY DEF StartupInvariant, PlaceHolds, Check
<1>3. ToolHolds' /\ LimitsHold'
  BY DEF StartupInvariant, ToolHolds, LimitsHold, Check
<1>. QED BY <1>1, <1>2, <1>3 DEF StartupInvariant

\* A refusal of serve, wherever it comes.
LEMMA RefusalKept ==
  ASSUME StartupInvariant, NEW what, Refuse(what), command = "serve",
         at \in {"read", "budget", "limits"},
         UNCHANGED <<text, root, rootName, reading, entries, derived, discovered, notes, walk, taken, command, env>>
  PROVE  StartupInvariant'
<1>a. <<<<"serve">>, what, "">>[1] = <<"serve">>
  OBVIOUS
<1>b. PICK p : p = <<<<"serve">>, what, "">>
  OBVIOUS
<1>c. p[1] = <<"serve">>
  BY <1>a, <1>b, Zenon
<1>d. /\ at' = "refused" /\ problems' = {p} /\ UNCHANGED <<tool, limits>>
  BY <1>b, Zenon DEF Refuse
<1>1. /\ at' = "refused" /\ problems' # {} /\ UNCHANGED <<tool, limits>>
      /\ \A q \in problems' : q[1] = <<"serve">>
  BY <1>c, <1>d, Zenon
<1>2. InputsHold' /\ ReportHolds' /\ EntriesHold' /\ DiscoveryHolds'
  BY <1>1, OnceRead
<1>3. PlaceHolds'
  BY <1>1 DEF StartupInvariant, PlaceHolds
<1>4. ToolHolds' /\ LimitsHold'
  BY <1>1 DEF StartupInvariant, ToolHolds, LimitsHold
<1>. QED BY <1>2, <1>3, <1>4 DEF StartupInvariant

LEMMA LocateKept ==
  ASSUME StartupInvariant, Locate
  PROVE  StartupInvariant'
<1>1. CASE \E what : Refuse(what)
  BY <1>1, RefusalKept DEF Locate
<1>2. CASE at' = "budget" /\ UNCHANGED <<problems, tool, limits>>
  <2>1. InputsHold' /\ ReportHolds' /\ EntriesHold' /\ DiscoveryHolds'
    BY <1>2, OnceRead DEF Locate
  <2>2. PlaceHolds'
    BY <1>2 DEF StartupInvariant, PlaceHolds, Locate
  <2>3. ToolHolds' /\ LimitsHold'
    BY <1>2 DEF StartupInvariant, ToolHolds, LimitsHold, Locate
  <2>. QED BY <2>1, <2>2, <2>3 DEF StartupInvariant
<1>. QED BY <1>1, <1>2 DEF Locate

LEMMA ConfiguredKept ==
  ASSUME StartupInvariant, Configured
  PROVE  StartupInvariant'
<1>1. /\ at = "budget" /\ command = "serve" /\ tool = NoTool /\ problems = {}
      /\ UNCHANGED <<text, root, rootName, reading, entries, derived, discovered, notes, walk, taken, command, env>>
  BY DEF StartupInvariant, PlaceHolds, Configured
<1>2. \/ env.budget.is = "unset" \/ env.budget.is = "wrong"
      \/ env.budget.is = "number" /\ env.budget.n \in 0..MaxU32
  BY DEF StartupInvariant, InputsHold, EnvironmentOK, Setting
<1>3. CASE Refuse("budget")
  BY <1>1, <1>3, RefusalKept
<1>4. ASSUME NEW b, Budgeted(b), env.budget.is # "wrong", UNCHANGED <<problems, tool>>,
             b \subseteq 0..MaxU32, \A x, y \in b : x = y,
             env.budget.is = "number" => b = {env.budget.n},
             env.budget.is = "unset" => 0 \notin b
      PROVE  StartupInvariant'
  <2>1. at' = "limits" /\ limits' = [limits EXCEPT !.budget = b]
    BY <1>4 DEF Budgeted
  <2>2. InputsHold' /\ ReportHolds' /\ EntriesHold' /\ DiscoveryHolds'
    BY <1>1, <1>4, <2>1, OnceRead
  <2>3. PlaceHolds'
    BY <1>1, <1>4, <2>1 DEF StartupInvariant, PlaceHolds, NoTool
  <2>4. ToolHolds'
    BY <1>1, <1>4 DEF StartupInvariant, ToolHolds
  <2>5. tool'.heard = {}
    BY <1>1, <1>4 DEF NoTool, Nothing
  <2>6. LimitsHold'
    BY <1>1, <1>4, <2>1, <2>5 DEF StartupInvariant, LimitsHold
  <2>. QED BY <2>2, <2>3, <2>4, <2>6 DEF StartupInvariant
<1>5. CASE env.budget.is = "number" /\ Budgeted({env.budget.n}) /\ UNCHANGED <<problems, tool>>
  <2>1. PICK b : b = {env.budget.n}
    OBVIOUS
  <2>2. b \subseteq 0..MaxU32 /\ (\A x, y \in b : x = y) /\ Budgeted(b)
    BY <1>2, <1>5, <2>1
  <2>. QED BY <1>4, <1>5, <2>1, <2>2
<1>6. CASE /\ env.budget.is \notin {"number", "wrong"}
           /\ Budgeted(DerivedBudget(Nothing, env.system)) /\ UNCHANGED <<problems, tool>>
  <2>1. PICK b : b = DerivedBudget(Nothing, env.system)
    OBVIOUS
  <2>2. env.system \in SUBSET Nat /\ \A x, y \in env.system : x = y
    BY DEF StartupInvariant, InputsHold, EnvironmentOK
  <2>3. PICK device : device = {}
    OBVIOUS
  <2>4. b \subseteq 0..MaxU32 /\ (\A x, y \in b : x = y) /\ 0 \notin b
    <3>1. b = DerivedBudget(device, env.system)
      BY <2>1, <2>3 DEF Nothing
    <3>. QED BY <2>2, <2>3, <3>1, DerivedBudgetMeans
  <2>5. Budgeted(b)
    BY <1>6, <2>1
  <2>. QED BY <1>2, <1>4, <1>6, <2>4, <2>5
<1>7. CASE /\ env.budget.is \notin {"number", "wrong"} /\ at' = "tool"
           /\ tool' = [NoTool EXCEPT !.state = "running", !.watch = "polling"]
           /\ UNCHANGED <<problems, limits>>
  <2>1. InputsHold' /\ ReportHolds' /\ EntriesHold' /\ DiscoveryHolds'
    BY <1>1, <1>7, OnceRead
  <2>2. tool' = [state |-> "running", printed |-> 0, pipe |-> 0, read |-> 0, drained |-> FALSE,
                 late |-> FALSE, watch |-> "polling", heard |-> {}]
    BY <1>7 DEF NoTool, Nothing
  <2>3. PlaceHolds'
    BY <1>1, <1>7, <2>2 DEF StartupInvariant, PlaceHolds
  <2>4. ToolHolds'
    <3>1. PICK n \in Nat : n = Len(env.prints)
      BY DEF StartupInvariant, InputsHold, EnvironmentOK
    <3>2. PipeSize \in Nat
      BY MachineAssumption
    <3>. QED BY <1>1, <2>2, <3>1, <3>2 DEF ToolHolds, Nothing
  <2>5. LimitsHold'
    BY <1>1, <1>2, <1>7 DEF StartupInvariant, LimitsHold
  <2>. QED BY <2>1, <2>3, <2>4, <2>5 DEF StartupInvariant
<1>. QED BY <1>3, <1>5, <1>6, <1>7 DEF Configured

LEMMA BindKept ==
  ASSUME StartupInvariant, Bind
  PROVE  StartupInvariant'
<1>1. /\ at = "limits" /\ command = "serve" /\ problems = {}
      /\ UNCHANGED <<text, root, rootName, reading, entries, derived, discovered, notes, walk, taken, command, env>>
  BY DEF StartupInvariant, PlaceHolds, Bind
<1>2. CASE \E what : Refuse(what)
  BY <1>1, <1>2, RefusalKept
<1>3. CASE /\ env.idle.is # "wrong" /\ env.wait.is # "wrong" /\ at' = "serving"
           /\ limits' = [limits EXCEPT !.idle = IdleWindow(env.idle), !.wait = WaitOf(env.wait)]
           /\ UNCHANGED <<problems, tool>>
  <2>1. InputsHold' /\ ReportHolds' /\ EntriesHold' /\ DiscoveryHolds'
    BY <1>1, <1>3, OnceRead
  <2>2. PlaceHolds'
    BY <1>1, <1>3 DEF StartupInvariant, PlaceHolds
  <2>3. ToolHolds'
    BY <1>1, <1>3 DEF StartupInvariant, ToolHolds
  <2>4. IdleWindow(env.idle) \subseteq Nat /\ WaitOf(env.wait) \in Nat
    BY MachineAssumption
       DEF StartupInvariant, InputsHold, EnvironmentOK, Setting, IdleWindow, WaitOf, Nothing
  <2>5. PICK i, w : i = IdleWindow(env.idle) /\ w = WaitOf(env.wait)
    OBVIOUS
  <2>6. LimitsHold'
    BY <1>1, <1>3, <2>4, <2>5 DEF StartupInvariant, LimitsHold
  <2>. QED BY <2>1, <2>2, <2>3, <2>6 DEF StartupInvariant
<1>. QED BY <1>2, <1>3 DEF Bind

LEMMA FinishKept ==
  ASSUME StartupInvariant, Finish, UNCHANGED <<command, env, tool, limits>>
  PROVE  StartupInvariant'
<1>. USE DEF StartupInvariant
<1>1. InputsHold' /\ PlaceHolds'
  BY DEF InputsHold, PlaceHolds, Finish
<1>2. ToolHolds' /\ LimitsHold'
  BY DEF ToolHolds, LimitsHold, Finish
<1>3. ReportHolds'
  BY ReadProblemsStay DEF ReportHolds, PlaceHolds, Finish
<1>4. EntriesHold'
  BY DEF EntriesHold, PlaceHolds, Finish
<1>5. DiscoveryHolds'
  BY DEF DiscoveryHolds, Accounted, PlaceHolds, Finish
<1>. QED BY <1>1, <1>2, <1>3, <1>4, <1>5

----------------------------------------------------------------------------
(* Sift is a fold over the positions of a sequence, the last position taken    *)
(* first: MapThenFoldSet looks its result up in a table over the sets of       *)
(* positions.  That there is such a table, and what it holds, is   *)
(* shown by ruling out a smallest set of positions for which it is wrong.      *)

\* Numbers, under a name that keeps them apart from the sets of sets below.
Positions(S) == S \subseteq Int

LEMMA MaxIsIn ==
  ASSUME NEW S, Positions(S), IsFiniteSet(S)
  PROVE  \A T \in SUBSET S : T # {} => Max(T) \in T /\ \A y \in T : Max(T) >= y
<1>. DEFINE HasMax(T) == \E x \in T : \A y \in T : x >= y
            Bad == {T \in SUBSET S : T # {} /\ ~HasMax(T)}
<1>1. Bad = {}
  <2>1. SUFFICES ASSUME Bad # {} PROVE FALSE
    OBVIOUS
  <2>2. PICK T \in Bad : \A U \in SUBSET T : U \in Bad => U = T
    <3>1. Bad \in SUBSET SUBSET S
      OBVIOUS
    <3>. HIDE DEF Bad
    <3>. QED BY <2>1, <3>1, SmallestSubset
  <2>0. T \in SUBSET S /\ T # {} /\ ~HasMax(T)
    OBVIOUS
  <2>3. PICK x \in T : x \in Int
    <3>. HIDE DEF HasMax, Bad
    <3>. QED BY <2>0 DEF Positions
  <2>4. CASE T \ {x} = {}
    <3>1. \A y \in T : x >= y
      BY <2>3, <2>4
    <3>. QED BY <2>2, <2>3, <3>1
  <2>5. CASE T \ {x} # {}
    <3>1. T \ {x} \notin Bad
      <4>1. T \ {x} \in SUBSET T /\ T \ {x} # T
        BY <2>3
      <4>. HIDE DEF Bad
      <4>. QED BY <2>2, <4>1
    <3>2. PICK z \in T \ {x} : \A y \in T \ {x} : z >= y
      <4>1. T \ {x} \in SUBSET S
        BY <2>0
      <4>2. HasMax(T \ {x})
        <5>. HIDE DEF HasMax
        <5>. QED BY <2>5, <3>1, <4>1
      <4>. QED BY <4>2
    <3>3. z \in Int /\ \A y \in T : y \in Int
      BY <2>0 DEF Positions
    <3>4. CASE z >= x
      <4>1. \A y \in T : z >= y
        BY <3>2, <3>4
      <4>. QED BY <2>2, <3>2, <4>1
    <3>5. CASE ~(z >= x)
      <4>1. \A y \in T : x >= y
        BY <2>3, <3>2, <3>3, <3>5
      <4>. QED BY <2>2, <2>3, <4>1
    <3>. QED BY <3>4, <3>5
  <2>. QED BY <2>4, <2>5
<1>. SUFFICES ASSUME NEW T \in SUBSET S, T # {} PROVE Max(T) \in T /\ \A y \in T : Max(T) >= y
  OBVIOUS
<1>2. \E x \in T : \A y \in T : x >= y
  BY <1>1
<1>. QED BY <1>2, Zenon DEF Max

SiftPass(seq, wanted, out, i) == IF seq[i] \in wanted THEN Append(out, seq[i]) ELSE out

SiftStep(seq, wanted, it, P) ==
  IF P = {} THEN << >> ELSE SiftPass(seq, wanted, it[P \ {Max(P)}], Max(P))

IsSiftTable(it, seq, wanted, S) == it = [P \in SUBSET S |-> SiftStep(seq, wanted, it, P)]

SiftTable(seq, wanted, S) == CHOOSE it : IsSiftTable(it, seq, wanted, S)

LEMMA SiftIsLookedUp ==
  ASSUME NEW seq, NEW wanted
  PROVE  Sift(seq, wanted) = SiftTable(seq, wanted, DOMAIN seq)[DOMAIN seq]
  BY Zenon DEF Sift, FoldLeft, MapThenFoldSet, SiftTable, IsSiftTable, SiftStep, SiftPass

\* Two tables agree where both have an entry.
LEMMA SiftTablesAgree ==
  ASSUME NEW seq, NEW wanted, NEW S, Positions(S), IsFiniteSet(S), NEW T \in SUBSET S, NEW a, NEW b,
         IsSiftTable(a, seq, wanted, S), IsSiftTable(b, seq, wanted, T)
  PROVE  \A s \in SUBSET T : a[s] = b[s]
<1>. DEFINE Bad == {s \in SUBSET T : a[s] # b[s]}
<1>1. SUFFICES ASSUME Bad # {} PROVE FALSE
  OBVIOUS
<1>2. PICK s \in Bad : \A U \in SUBSET s : U \in Bad => U = s
  <2>1. IsFiniteSet(T) /\ Bad \in SUBSET SUBSET T
    BY FS_Subset
  <2>. HIDE DEF Bad
  <2>. QED BY <1>1, <2>1, SmallestSubset
<1>3. a[s] = SiftStep(seq, wanted, a, s) /\ b[s] = SiftStep(seq, wanted, b, s)
  BY DEF IsSiftTable
<1>4. CASE s = {}
  BY <1>2, <1>3, <1>4 DEF SiftStep
<1>5. CASE s # {}
  <2>1. Max(s) \in s
    <3>1. s \in SUBSET S
      OBVIOUS
    <3>. QED BY <1>5, <3>1, MaxIsIn
  <2>2. s \ {Max(s)} \notin Bad
    BY <1>2, <2>1
  <2>3. a[s \ {Max(s)}] = b[s \ {Max(s)}]
    BY <2>2
  <2>. QED BY <1>2, <1>3, <1>5, <2>3 DEF SiftStep
<1>. QED BY <1>4, <1>5

LEMMA SiftTableExists ==
  ASSUME NEW seq, NEW wanted, NEW S, Positions(S), IsFiniteSet(S)
  PROVE  \A s \in SUBSET S : IsSiftTable(SiftTable(seq, wanted, s), seq, wanted, s)
<1>. DEFINE Tab(s) == SiftTable(seq, wanted, s)
            Is(it, s) == IsSiftTable(it, seq, wanted, s)
            Bad == {s \in SUBSET S : ~Is(Tab(s), s)}
<1>1. SUFFICES ASSUME Bad # {} PROVE FALSE
  OBVIOUS
<1>2. PICK T \in Bad : \A U \in SUBSET T : U \in Bad => U = T
  <2>1. Bad \in SUBSET SUBSET S
    OBVIOUS
  <2>. HIDE DEF Bad
  <2>. QED BY <1>1, <2>1, SmallestSubset
<1>3. \A U \in SUBSET T : U # T => Is(Tab(U), U)
  BY <1>2
<1>4. T \in SUBSET S /\ \A U \in SUBSET T : Positions(U) /\ IsFiniteSet(U)
  BY FS_Subset DEF Positions
<1>5. \A U \in SUBSET T : U # {} => Max(U) \in U
  BY <1>4, MaxIsIn
<1>. DEFINE Below(s) == Tab(s \ {Max(s)})[s \ {Max(s)}]
            it == [s \in SUBSET T |-> IF s = {} THEN << >> ELSE SiftPass(seq, wanted, Below(s), Max(s))]
<1>6. \A U \in SUBSET T : U # T => it[U] = Tab(U)[U]
  <2>. SUFFICES ASSUME NEW U \in SUBSET T, U # T PROVE it[U] = Tab(U)[U]
    OBVIOUS
  <2>1. Is(Tab(U), U)
    BY <1>3
  <2>2. Tab(U)[U] = SiftStep(seq, wanted, Tab(U), U)
    BY <2>1 DEF IsSiftTable
  <2>3. CASE U = {}
    BY <2>2, <2>3 DEF SiftStep
  <2>4. CASE U # {}
    <3>. DEFINE V == U \ {Max(U)}
    <3>1. V \in SUBSET T /\ V # T /\ V \in SUBSET U
      BY <1>5, <2>4
    <3>2. Is(Tab(V), V)
      BY <1>3, <3>1
    <3>3. Tab(U)[V] = Tab(V)[V]
      <4>1. Positions(U) /\ IsFiniteSet(U)
        BY <1>4
      <4>. HIDE DEF V, Tab
      <4>. QED BY <2>1, <3>1, <3>2, <4>1, SiftTablesAgree
    <3>4. it[U] = SiftPass(seq, wanted, Tab(V)[V], Max(U))
      BY <2>4
    <3>5. Tab(U)[U] = SiftPass(seq, wanted, Tab(U)[V], Max(U))
      BY <2>2, <2>4 DEF SiftStep
    <3>. HIDE DEF it, Tab, V
    <3>. QED BY <3>3, <3>4, <3>5
  <2>. QED BY <2>3, <2>4
<1>7. Is(it, T)
  <2>1. \A s \in SUBSET T : it[s] = SiftStep(seq, wanted, it, s)
    <3>. SUFFICES ASSUME NEW s \in SUBSET T PROVE it[s] = SiftStep(seq, wanted, it, s)
      OBVIOUS
    <3>1. CASE s = {}
      BY <3>1 DEF SiftStep
    <3>2. CASE s # {}
      <4>1. Max(s) \in s
        BY <1>5, <3>2
      <4>2. it[s \ {Max(s)}] = Below(s)
        <5>. DEFINE V == s \ {Max(s)}
        <5>1. V \in SUBSET T /\ V # T
          BY <4>1
        <5>2. it[V] = Tab(V)[V]
          <6>. HIDE DEF V, it, Tab
          <6>. QED BY <1>6, <5>1
        <5>. QED BY <5>2
      <4>3. it[s] = SiftPass(seq, wanted, Below(s), Max(s))
        BY <3>2
      <4>. HIDE DEF it, Below
      <4>. QED BY <3>2, <4>2, <4>3 DEF SiftStep
    <3>. QED BY <3>1, <3>2
  <2>2. it = [s \in SUBSET T |-> it[s]]
    OBVIOUS
  <2>. HIDE DEF it
  <2>. QED BY <2>1, <2>2 DEF IsSiftTable
<1>8. Is(Tab(T), T)
  <2>. HIDE DEF it
  <2>. QED BY <1>7, Zenon DEF SiftTable
<1>. QED BY <1>2, <1>8

\* It lists what is wanted, and nothing else.
LEMMA SiftMeans ==
  ASSUME NEW seq, NEW wanted, seq \in Seq(ToSet(seq))
  PROVE  /\ Sift(seq, wanted) \in Seq(ToSet(Sift(seq, wanted)))
         /\ ToSet(Sift(seq, wanted)) = ToSet(seq) \cap wanted
<1>. DEFINE S == DOMAIN seq
            it == SiftTable(seq, wanted, S)
            Sifted(P) == {seq[i] : i \in {j \in P : seq[j] \in wanted}}
            Right(P) == it[P] \in Seq(Sifted(P)) /\ \A f \in Sifted(P) : \E i \in 1..Len(it[P]) : it[P][i] = f
            Bad == {P \in SUBSET S : ~Right(P)}
<1>1. Positions(S) /\ IsFiniteSet(S)
  <2>1. S = 1..Len(seq) /\ Len(seq) \in Nat
    OBVIOUS
  <2>. QED BY <2>1, FS_Interval DEF Positions
<1>2. IsSiftTable(it, seq, wanted, S)
  <2>. HIDE DEF S
  <2>. QED BY <1>1, SiftTableExists
<1>3. Bad = {}
  <2>1. SUFFICES ASSUME Bad # {} PROVE FALSE
    OBVIOUS
  <2>2. PICK P \in Bad : \A U \in SUBSET P : U \in Bad => U = P
    <3>1. Bad \in SUBSET SUBSET S
      OBVIOUS
    <3>. HIDE DEF Bad, S
    <3>. QED BY <1>1, <2>1, <3>1, SmallestSubset
  <2>3. P \in SUBSET S /\ ~Right(P)
    BY <2>2
  <2>4. it[P] = SiftStep(seq, wanted, it, P)
    <3>. HIDE DEF it, S
    <3>. QED BY <1>2, <2>3 DEF IsSiftTable
  <2>. HIDE DEF it
  <2>5. CASE P = {}
    <3>1. it[P] = << >> /\ Sifted(P) = {}
      BY <2>4, <2>5 DEF SiftStep
    <3>. QED BY <2>3, <3>1
  <2>6. CASE P # {}
    <3>1. PICK m \in P : m = Max(P)
      <4>. HIDE DEF S
      <4>. QED BY <1>1, <2>3, <2>6, MaxIsIn
    <3>2. PICK V : V = P \ {m}
      OBVIOUS
    <3>3. Right(V)
      <4>1. V \in SUBSET P /\ V # P /\ V \in SUBSET S
        BY <2>3, <3>1, <3>2
      <4>2. V \notin Bad
        <5>. HIDE DEF Bad
        <5>. QED BY <2>2, <4>1
      <4>. HIDE DEF Right
      <4>. QED BY <4>1, <4>2
    <3>4. it[P] = SiftPass(seq, wanted, it[V], m)
      BY <2>4, <2>6, <3>1, <3>2 DEF SiftStep
    <3>5. PICK out : out = it[V]
      OBVIOUS
    <3>6. CASE seq[m] \in wanted
      <4>1. it[P] = Append(out, seq[m])
        BY <3>4, <3>5, <3>6 DEF SiftPass
      <4>2. Sifted(P) = Sifted(V) \cup {seq[m]}
        BY <3>1, <3>2, <3>6
      <4>3. PICK W : W = Sifted(V)
        OBVIOUS
      <4>4. PICK f : f = seq[m]
        OBVIOUS
      <4>5. out \in Seq(W) /\ \A g \in W : \E i \in 1..Len(out) : out[i] = g
        BY <3>3, <3>5, <4>3
      <4>. HIDE DEF Sifted
      <4>6. Append(out, f) \in Seq(W \cup {f})
        <5>1. out \in Seq(W \cup {f})
          BY <4>5
        <5>. QED BY <5>1
      <4>7. PICK n \in Nat : n = Len(out)
        BY <4>5
      <4>8. /\ Len(Append(out, f)) = n + 1
            /\ \A i \in 1..n : Append(out, f)[i] = out[i]
            /\ Append(out, f)[n + 1] = f
        BY <4>5, <4>7
      <4>9. \A g \in W \cup {f} : \E i \in 1..(n + 1) : Append(out, f)[i] = g
        BY <4>5, <4>7, <4>8
      <4>. QED BY <2>3, <4>1, <4>2, <4>3, <4>4, <4>6, <4>8, <4>9
    <3>7. CASE ~seq[m] \in wanted
      <4>1. it[P] = it[V] /\ Sifted(P) = Sifted(V)
        BY <3>1, <3>2, <3>4, <3>7 DEF SiftPass
      <4>. QED BY <2>3, <3>3, <4>1
    <3>. QED BY <3>6, <3>7
  <2>. QED BY <2>5, <2>6
<1>4. Right(S)
  BY <1>3
<1>5. PICK out : out = Sift(seq, wanted)
  OBVIOUS
<1>6. out = it[S]
  BY <1>5, SiftIsLookedUp
<1>7. Sifted(S) = ToSet(seq) \cap wanted
  BY DEF ToSet
<1>8. PICK W : W = Sifted(S)
  OBVIOUS
<1>9. out \in Seq(W) /\ \A f \in W : \E i \in 1..Len(out) : out[i] = f
  BY <1>4, <1>6, <1>8
<1>10. ToSet(out) = W
  BY <1>9 DEF ToSet
<1>. HIDE DEF Sifted
<1>. QED BY <1>5, <1>7, <1>8, <1>9, <1>10

Walked(f) == Reached(f) /\ IsModel(f.path)

\* The walk lists the model files it may reach, and nothing else.
LEMMA WalkMeans ==
  ASSUME NEW files, files \in Seq(ToSet(files))
  PROVE  /\ Walk(files) \in Seq(ToSet(Walk(files)))
         /\ ToSet(Walk(files)) = {f \in ToSet(files) : Walked(f)}
<1>1. PICK W : W = {f \in ToSet(files) : Walked(f)}
  OBVIOUS
<1>2. Walk(files) = Sift(files, W)
  BY <1>1 DEF Walk, Walked
<1>3. ToSet(files) \cap W = W
  BY <1>1
<1>. QED BY <1>1, <1>2, <1>3, SiftMeans

----------------------------------------------------------------------------
(* Reading the catalog. *)

LEMMA ParseKept ==
  ASSUME StartupInvariant, Parse, UNCHANGED <<command, env, tool, limits>>
  PROVE  StartupInvariant'
<1>. USE DEF StartupInvariant
<1>1. InputsHold' /\ ToolHolds'
  BY DEF InputsHold, ToolHolds, Parse
<1>2. PlaceHolds'
  BY DEF PlaceHolds, Parse
<1>3. LimitsHold'
  BY DEF LimitsHold, Parse
<1>4. ReportHolds'
  BY DEF ReportHolds, Parse
<1>5. EntriesHold'
  <2>1. \A e \in entries' : IsFiniteSet(DOMAIN e.flags)
    BY DraftFlagsAreFinite DEF InputsHold, Parse
  <2>. QED BY <2>1 DEF EntriesHold, Parse
<1>6. DiscoveryHolds'
  BY DEF DiscoveryHolds, Parse
<1>. QED BY <1>1, <1>2, <1>3, <1>4, <1>5, <1>6

LEMMA SettleKept ==
  ASSUME StartupInvariant, Settle, UNCHANGED <<command, env, tool, limits>>
  PROVE  StartupInvariant'
<1>. USE DEF StartupInvariant
<1>1. InputsHold' /\ ToolHolds'
  BY DEF InputsHold, ToolHolds, Settle
<1>2. PlaceHolds'
  BY DEF PlaceHolds, Settle
<1>3. LimitsHold'
  BY DEF LimitsHold, Settle
<1>4. ReadProblems(text)' = ReadProblems(text)
  BY ReadProblemsStay DEF Settle
<1>5. CASE problems' # {}
  <2>1. at' = "refused" /\ reading' = "read" /\ UNCHANGED <<entries, derived, discovered>>
    BY <1>5 DEF Settle
  <2>2. ReportHolds'
    BY <1>4, <2>1 DEF ReportHolds, Settle
  <2>3. EntriesHold' /\ DiscoveryHolds'
    BY <2>1 DEF EntriesHold, DiscoveryHolds, Settle
  <2>. QED BY <1>1, <1>2, <1>3, <2>2, <2>3
<1>6. CASE problems' = {}
  <2>1. /\ entries' = {Settled(e) : e \in DraftEntries(text)}
        /\ derived' = DraftUndeclared(text) /\ walk' = Walk(root)
        /\ taken' = {e.id : e \in entries'} \cup Reserved
        /\ at = "text" /\ at' = "discover" /\ reading = "read"
        /\ UNCHANGED <<text, root, rootName, reading, discovered>>
    BY <1>6 DEF Settle
  <2>2. text.toml /\ DraftProblems(text) = {}
    BY <1>6 DEF Settle, ReadProblems
  <2>3. discovered = {}
    BY <2>1 DEF EntriesHold
  <2>4. \A e \in entries' : \E d \in DraftEntries(text) :
          /\ e = Settled(d) /\ e.id = d.id /\ e.flags = d.flags
          /\ d.id \notin DraftUndeclared(text) => e = d
    BY <2>1, SettledMeans
  <2>5. \A d \in DraftEntries(text) : Settled(d) \in entries' /\ Settled(d).id = d.id
    BY <2>1, SettledMeans
  <2>6. {e.id : e \in entries'} = DOMAIN Models(text)
    <3>1. {d.id : d \in DraftEntries(text)} = DOMAIN Models(text)
      BY <2>2, DraftsMean
    <3>2. {e.id : e \in entries'} = {d.id : d \in DraftEntries(text)}
      <4>1. PICK E, D : E = entries' /\ D = DraftEntries(text)
        OBVIOUS
      <4>2. /\ \A e \in E : \E d \in D : e.id = d.id
            /\ \A d \in D : \E e \in E : e.id = d.id
        BY <2>4, <2>5, <4>1
      <4>3. {e.id : e \in E} = {d.id : d \in D}
        BY <4>2
      <4>. QED BY <4>1, <4>3
    <3>. QED BY <3>1, <3>2
  <2>7. ReportHolds'
    BY <2>1, <2>2 DEF ReportHolds
  <2>8. EntriesHold'
    <3>1. \A e \in entries' : IsFiniteSet(DOMAIN e.flags)
      <4>1. \A d \in DraftEntries(text) : IsFiniteSet(DOMAIN d.flags)
        BY DraftFlagsAreFinite DEF InputsHold
      <4>. QED BY <2>4, <4>1
    <3>2. derived' \subseteq {e.id : e \in entries'}
      BY <2>1, <2>6 DEF DraftUndeclared
    <3>. QED BY <2>1, <2>3, <3>1, <3>2 DEF EntriesHold
  <2>9. DiscoveryHolds'
    <3>1. {e \in entries' : e.id \in discovered'} = {} /\ discovered' = {}
      BY <2>1, <2>3
    <3>2. \A e, o \in entries' : e.id = o.id => e = o
      <4>1. \A d, o \in DraftEntries(text) : d.id = o.id => d = o
        BY DraftsMean
      <4>. QED BY <2>4, <4>1
    <3>3. ParseProblems(text) = {} => entries' = DraftEntries(text)
      <4>. SUFFICES ASSUME ParseProblems(text) = {} PROVE entries' = DraftEntries(text)
        OBVIOUS
      <4>1. DraftUndeclared(text) = {}
        BY ParsedIsRead
      <4>2. \A d \in DraftEntries(text) : Settled(d) = d
        BY <4>1, SettledMeans
      <4>. QED BY <2>1, <4>2
    <3>4. walk' \in Seq(ToSet(walk'))
      BY <2>1, WalkMeans DEF InputsHold, RootOK
    <3>5. ToSet(walk') = {f \in ToSet(root) : Walked(f)}
      BY <2>1, WalkMeans DEF InputsHold, RootOK
    <3>6. \A f \in ToSet(root) : IsModel(f.path) => f \in ToSet(walk') \/ Accounted(f)'
      BY <3>5 DEF Walked, Accounted, LeftInSilence
    <3>. QED BY <2>1, <2>6, <3>1, <3>2, <3>3, <3>4, <3>6 DEF DiscoveryHolds
  <2>. QED BY <1>1, <1>2, <1>3, <2>7, <2>8, <2>9
<1>. QED BY <1>5, <1>6

\* The entry a file becomes.
LEMMA DiscoveredMeans ==
  ASSUME NEW id, NEW f
  PROVE  /\ \A e \in DiscoveredEntry(id, f) :
              e.id = id /\ e.path = f.path /\ e.flags = Flags(Defaults(text))
         /\ \A e, o \in DiscoveredEntry(id, f) : e = o
<1>. DEFINE defaults == Defaults(text)
            trained == TrainedFor(f)
            wanted == The(Or(Optional(defaults, "context_size"), Or(trained, {Fallback})))
            bare == [id |-> id, path |-> f.path, draft |-> Nothing, projector |-> Nothing,
                     context |-> Min({wanted} \cup trained), resident |-> FALSE, estimate |-> 0,
                     format |-> Optional(defaults, "reasoning_format"),
                     effort |-> Optional(defaults, "reasoning_effort"), runtime |-> Nothing,
                     timeout |-> The(Or(Optional(defaults, "startup_timeout_seconds"), {DefaultTimeout})),
                     flags |-> Flags(defaults)]
<1>1. DiscoveredEntry(id, f) = {[bare EXCEPT !.estimate = d.mib] : d \in Derive(bare, root)}
  BY Zenon DEF DiscoveredEntry
<1>2. PICK D : D = Derive(bare, root)
  OBVIOUS
<1>3. \A d, o \in D : d = o
  <2>. HIDE DEF bare
  <2>. QED BY <1>2 DEF Derive, Nothing
<1>4. DiscoveredEntry(id, f) = {[bare EXCEPT !.estimate = d.mib] : d \in D}
  BY <1>1, <1>2
<1>5. \A n : /\ [bare EXCEPT !.estimate = n].id = id
             /\ [bare EXCEPT !.estimate = n].path = f.path
             /\ [bare EXCEPT !.estimate = n].flags = Flags(Defaults(text))
  OBVIOUS
<1>. HIDE DEF bare
<1>. QED BY <1>3, <1>4, <1>5

\* The identifier a file gets is nobody else's.
LEMMA IdentifierIsFree ==
  ASSUME NEW path
  PROVE  /\ Identifier(path) \cap taken = {}
         /\ \A a, b \in Identifier(path) : a = b
<1>1. CASE path.name = << >>
  BY <1>1 DEF Identifier, Nothing
<1>2. CASE path.name # << >> /\ path.name \notin taken
  BY <1>2 DEF Identifier
<1>3. CASE path.name # << >> /\ path.name \in taken
  <2>1. PICK other : other = Parent(path) \o path.name
    OBVIOUS
  <2>2. Identifier(path) = IF Parent(path) = << >> \/ other \in taken THEN {} ELSE {other}
    BY <1>3, <2>1 DEF Identifier, Nothing
  <2>. QED BY <2>2
<1>. QED BY <1>1, <1>2, <1>3

\* One file: its identifier is new, its entry too, and it is accounted for.
LEMMA DiscoverKept ==
  ASSUME StartupInvariant, Discover, UNCHANGED <<command, env, tool, limits>>
  PROVE  StartupInvariant'
<1>. USE DEF StartupInvariant
<1>1. PICK f, ids, new :
        /\ f = Head(walk)
        /\ ids = IF Passed(f.path) THEN Nothing ELSE Identifier(f.path)
        /\ new = UNION {DiscoveredEntry(id, f) : id \in ids}
        /\ entries' = entries \cup new
        /\ discovered' = discovered \cup {e.id : e \in new}
        /\ derived' = derived \cup {e.id : e \in new}
        /\ taken' = taken \cup ids
        /\ notes' = notes \cup (IF ids = Nothing THEN PassedNotes(f.path)
                                ELSE IF new = {} THEN {<<"skipped", f.path>>}
                                ELSE {<<"discovered", f.path>>})
  BY Zenon DEF Discover
<1>2. /\ at = "discover" /\ walk # << >> /\ walk' = Tail(walk)
      /\ UNCHANGED <<text, root, rootName, reading, at, problems>>
  BY DEF Discover
<1>3. InputsHold' /\ ToolHolds'
  BY <1>2 DEF InputsHold, ToolHolds
<1>4. PlaceHolds' /\ LimitsHold' /\ ReportHolds'
  BY <1>2 DEF PlaceHolds, LimitsHold, ReportHolds
<1>5. reading = "read"
  BY <1>2 DEF PlaceHolds
<1>6. /\ ids \cap taken = {} /\ \A a, b \in ids : a = b
      /\ ids # {} => ~Passed(f.path)
  BY <1>1, IdentifierIsFree DEF Nothing
<1>7. /\ \A e \in new : e.id \in ids /\ e.path = f.path /\ e.flags = Flags(Defaults(text))
      /\ \A e, o \in new : e = o
  <2>1. \A e \in new : \E id \in ids : e \in DiscoveredEntry(id, f)
    BY <1>1
  <2>2. \A e \in new : e.id \in ids /\ e.path = f.path /\ e.flags = Flags(Defaults(text))
    BY <2>1, DiscoveredMeans
  <2>3. \A e, o \in new : e = o
    BY <1>6, <2>1, DiscoveredMeans
  <2>. QED BY <2>2, <2>3
<1>8. PICK given : given = {e \in entries : e.id \in discovered}
  OBVIOUS
<1>9. /\ \A e, o \in entries : e.id = o.id => e = o
      /\ {e.id : e \in entries} \cup Reserved \subseteq taken
      /\ DOMAIN Models(text) \subseteq {e.id : e \in entries \ given}
      /\ discovered \cap (Reserved \cup DOMAIN Models(text)) = {}
      /\ ParseProblems(text) = {} => entries \ given = DraftEntries(text)
      /\ \A e \in given : e.path \notin Referenced(entries \ given)
      /\ walk \in Seq(ToSet(walk))
      /\ \A g \in ToSet(root) : IsModel(g.path) => g \in ToSet(walk) \/ Accounted(g)
  BY <1>2, <1>5, <1>8 DEF DiscoveryHolds
<1>10. \A e \in new : e.id \notin taken
  BY <1>6, <1>7
<1>11. EntriesHold'
  <2>1. \A e \in entries' : IsFiniteSet(DOMAIN e.flags)
    <3>1. IsFiniteSet(DOMAIN Flags(Defaults(text)))
      BY FlagsAreFinite DEF InputsHold, TextOK
    <3>2. \A e \in new : IsFiniteSet(DOMAIN e.flags)
      BY <1>7, <3>1
    <3>. QED BY <1>1, <3>2 DEF EntriesHold
  <2>2. discovered' \subseteq derived' /\ derived' \subseteq {e.id : e \in entries'}
    BY <1>1 DEF EntriesHold
  <2>. QED BY <1>2, <1>5, <2>1, <2>2 DEF EntriesHold
<1>12. DiscoveryHolds'
  <2>1. PICK given2 : given2 = {e \in entries' : e.id \in discovered'}
    OBVIOUS
  <2>2. \A e \in entries : e.id \in taken
    BY <1>9
  <2>3. given2 = given \cup new
    <3>1. \A e \in entries : e.id \in discovered' <=> e.id \in discovered
      BY <1>1, <1>10, <2>2
    <3>2. \A e \in new : e.id \in discovered'
      BY <1>1
    <3>. QED BY <1>1, <1>8, <2>1, <3>1, <3>2
  <2>4. entries' \ given2 = entries \ given
    BY <1>1, <1>10, <2>2, <2>3
  <2>5. \A e, o \in entries' : e.id = o.id => e = o
    BY <1>1, <1>7, <1>9, <1>10, <2>2
  <2>6. {e.id : e \in entries'} \cup Reserved \subseteq taken'
    BY <1>1, <1>7, <1>9
  <2>7. discovered' \cap (Reserved \cup DOMAIN Models(text)) = {}
    <3>1. Reserved \cup DOMAIN Models(text) \subseteq taken
      BY <1>8, <1>9
    <3>. QED BY <1>1, <1>9, <1>10, <3>1
  <2>8. \A e \in given2 : e.path \notin Referenced(entries' \ given2)
    <3>1. {e \in entries : e.id \notin discovered} = entries \ given
      BY <1>8
    <3>2. ids # {} => f.path \notin Referenced(entries \ given)
      BY <1>6, <3>1 DEF Passed
    <3>3. \A e \in new : e.path \notin Referenced(entries \ given)
      BY <1>7, <3>2
    <3>. QED BY <1>9, <2>3, <2>4, <3>3
  <2>9. \A g : Accounted(g) => Accounted(g)'
    <3>1. entries \subseteq entries' /\ notes \subseteq notes'
      BY <1>1
    <3>2. Referenced(entries) \subseteq Referenced(entries')
      BY <3>1 DEF Referenced
    <3>. QED BY <3>1, <3>2 DEF Accounted
  <2>10. Accounted(f)'
    <3>1. CASE f.path \in Referenced(entries)
      BY <2>9, <3>1 DEF Accounted
    <3>2. CASE f.path.name = << >>
      BY <3>2 DEF Accounted, LeftInSilence
    <3>3. CASE f.path \notin Referenced(entries) /\ f.path.name # << >>
      <4>1. f.path \notin Referenced({e \in entries : e.id \notin discovered})
        BY <3>3 DEF Referenced
      <4>2. CASE ids = {}
        BY <1>1, <3>3, <4>1, <4>2 DEF Accounted, PassedNotes, Nothing
      <4>3. CASE ids # {} /\ new = {}
        BY <1>1, <4>3 DEF Accounted, Nothing
      <4>4. CASE ids # {} /\ new # {}
        <5>1. PICK e : e \in new
          BY <4>4
        <5>2. e \in entries' /\ e.path = f.path
          BY <1>1, <1>7, <5>1
        <5>3. f.path \in Referenced(entries')
          BY <5>2 DEF Referenced
        <5>. QED BY <5>3 DEF Accounted
      <4>. QED BY <4>2, <4>3, <4>4
    <3>. QED BY <3>1, <3>2, <3>3
  <2>11. /\ walk' \in Seq(ToSet(walk'))
         /\ \A g \in ToSet(walk) : g = f \/ g \in ToSet(walk')
    <3>1. PICK n \in Nat : n = Len(walk) /\ n >= 1
      BY <1>2, <1>9
    <3>2. /\ Tail(walk) \in Seq(ToSet(walk)) /\ Len(Tail(walk)) = n - 1
          /\ \A i \in 1..(n - 1) : Tail(walk)[i] = walk[i + 1]
          /\ DOMAIN walk = 1..n /\ DOMAIN Tail(walk) = 1..(n - 1)
          /\ f = walk[1]
      BY <1>1, <1>2, <1>9, <3>1
    <3>3. Tail(walk) \in Seq(ToSet(Tail(walk)))
      <4>1. PICK rest, S : rest = Tail(walk) /\ S = ToSet(walk)
        OBVIOUS
      <4>2. rest \in Seq(S)
        BY <3>2, <4>1
      <4>3. rest \in Seq(ToSet(rest))
        BY <4>2 DEF ToSet
      <4>. QED BY <4>1, <4>3
    <3>4. ASSUME NEW g \in ToSet(walk), g # f PROVE g \in ToSet(Tail(walk))
      <4>1. PICK i \in 1..n : g = walk[i]
        BY <3>2 DEF ToSet
      <4>2. i # 1 /\ i - 1 \in 1..(n - 1)
        BY <3>2, <3>4, <4>1
      <4>3. Tail(walk)[i - 1] = g
        BY <3>2, <4>1, <4>2
      <4>. QED BY <3>2, <4>2, <4>3 DEF ToSet
    <3>. QED BY <1>2, <3>3, <3>4
  <2>12. \A g \in ToSet(root) : IsModel(g.path) => g \in ToSet(walk') \/ Accounted(g)'
    BY <1>9, <2>9, <2>10, <2>11
  <2>. QED BY <1>2, <1>9, <2>1, <2>4, <2>5, <2>6, <2>7, <2>8, <2>11, <2>12 DEF DiscoveryHolds
<1>. QED BY <1>3, <1>4, <1>11, <1>12

\* What is left of a sequence when one element is taken out: the a before it and
\* the b behind it.
LeftOf(S, s, a, b, r) ==
  /\ r \in Seq(S) /\ Len(r) = a + b
  /\ \A k \in 1..a : r[k] = s[k]
  /\ \A k \in 1..b : r[a + k] = s[a + 1 + k]

LEMMA RemovedParts ==
  ASSUME NEW S, NEW s \in Seq(S), NEW a \in Nat, NEW b \in Nat, Len(s) = a + 1 + b
  PROVE  LeftOf(S, s, a, b, RemoveAt(s, a + 1))
<1>1. PICK before, behind : before = SubSeq(s, 1, a) /\ behind = SubSeq(s, a + 2, a + 1 + b)
  OBVIOUS
<1>2. before \in Seq(S) /\ Len(before) = a /\ \A k \in 1..a : before[k] = s[k]
  BY <1>1
<1>3. behind \in Seq(S) /\ Len(behind) = b /\ \A k \in 1..b : behind[k] = s[a + 1 + k]
  <2>1. behind \in Seq(S) /\ Len(behind) = b
    BY <1>1
  <2>2. ASSUME NEW k \in 1..b PROVE behind[k] = s[a + 1 + k]
    BY <1>1
  <2>. QED BY <2>1, <2>2
<1>4. RemoveAt(s, a + 1) = before \o behind
  <2>1. (a + 1) - 1 = a /\ (a + 1) + 1 = a + 2
    OBVIOUS
  <2>. QED BY <1>1, <2>1 DEF RemoveAt
<1>5. before \o behind \in Seq(S) /\ Len(before \o behind) = a + b
  BY <1>2, <1>3
<1>6. ASSUME NEW k \in 1..a PROVE (before \o behind)[k] = s[k]
  BY <1>2, <1>3
<1>7. ASSUME NEW k \in 1..b PROVE (before \o behind)[a + k] = s[a + 1 + k]
  <2>1. (before \o behind)[a + k] = behind[k]
    BY <1>2, <1>3
  <2>. QED BY <1>3, <2>1
<1>. QED BY <1>4, <1>5, <1>6, <1>7 DEF LeftOf

LEMMA RemovedMeans ==
  ASSUME NEW s, s \in Seq(ToSet(s)), NEW i \in DOMAIN s
  PROVE  /\ RemoveAt(s, i) \in Seq(ToSet(RemoveAt(s, i)))
         /\ ToSet(RemoveAt(s, i)) \subseteq ToSet(s)
         /\ ToSet(s) \ ToSet(RemoveAt(s, i)) \subseteq {s[i]}
<1>1. PICK S : S = ToSet(s) /\ s \in Seq(S)
  OBVIOUS
<1>2. PICK n \in Nat : n = Len(s) /\ DOMAIN s = 1..n /\ i \in 1..n
  BY <1>1
<1>3. PICK a \in Nat, b \in Nat : i = a + 1 /\ n = a + 1 + b
  <2>1. i - 1 \in Nat /\ n - i \in Nat /\ i = (i - 1) + 1 /\ n = (i - 1) + 1 + (n - i)
    BY <1>2
  <2>. QED BY <2>1
<1>4. PICK r : r = RemoveAt(s, i)
  OBVIOUS
<1>5. /\ r \in Seq(S) /\ Len(r) = a + b
      /\ \A k \in 1..a : r[k] = s[k]
      /\ \A k \in 1..b : r[a + k] = s[a + 1 + k]
  <2>1. Len(s) = a + 1 + b /\ r = RemoveAt(s, a + 1)
    BY <1>2, <1>3, <1>4
  <2>2. LeftOf(S, s, a, b, r)
    BY <1>1, <2>1, RemovedParts
  <2>. QED BY <2>2 DEF LeftOf
<1>6. ToSet(r) \subseteq S /\ r \in Seq(ToSet(r))
  <2>1. r \in Seq(S)
    BY <1>5
  <2>. QED BY <2>1 DEF ToSet
<1>7. ASSUME NEW k \in 1..n, k # i PROVE s[k] \in ToSet(r)
  <2>0. DOMAIN r = 1..(a + b)
    BY <1>5
  <2>1. CASE k \in 1..a
    <3>1. k \in DOMAIN r /\ r[k] = s[k]
      BY <1>5, <2>0, <2>1
    <3>. QED BY <3>1 DEF ToSet
  <2>2. CASE k \notin 1..a
    <3>1. PICK q \in 1..b : k = a + 1 + q
      <4>1. k - (a + 1) \in 1..b /\ k = a + 1 + (k - (a + 1))
        BY <1>3, <1>7, <2>2
      <4>. QED BY <4>1
    <3>2. a + q \in DOMAIN r /\ r[a + q] = s[k]
      <4>0. a + q \in 1..(a + b)
        OBVIOUS
      <4>1. a + q \in 1..(a + b) /\ r[a + q] = s[a + 1 + q]
        BY <1>5, <4>0, Zenon
      <4>. QED BY <2>0, <3>1, <4>1
    <3>. QED BY <3>2 DEF ToSet
  <2>. QED BY <2>1, <2>2
<1>8. ToSet(s) \ ToSet(r) \subseteq {s[i]}
  BY <1>2, <1>7 DEF ToSet
<1>. QED BY <1>1, <1>4, <1>6, <1>8

LEMMA GoneKept ==
  ASSUME StartupInvariant, Gone
  PROVE  StartupInvariant'
<1>. USE DEF StartupInvariant
<1>1. PICK i \in DOMAIN root : root' = RemoveAt(root, i)
  BY DEF Gone, Vanish
<1>2. /\ at = "discover"
      /\ UNCHANGED <<text, rootName, reading, at, entries, derived, discovered, problems, notes, walk,
                     taken, command, env, tool, limits>>
  BY DEF Gone, Vanish
<1>3. root' \in Seq(ToSet(root')) /\ ToSet(root') \subseteq ToSet(root)
  BY <1>1, RemovedMeans DEF InputsHold, RootOK
<1>4. RootOK(root')
  BY <1>3 DEF InputsHold, RootOK
<1>5. InputsHold' /\ PlaceHolds' /\ ToolHolds' /\ LimitsHold'
  BY <1>2, <1>4 DEF InputsHold, PlaceHolds, ToolHolds, LimitsHold
<1>6. ReportHolds' /\ EntriesHold'
  BY <1>2 DEF ReportHolds, EntriesHold
<1>7. DiscoveryHolds'
  BY <1>2, <1>3 DEF DiscoveryHolds, Accounted
<1>. QED BY <1>5, <1>6, <1>7

----------------------------------------------------------------------------
(* The theorems. *)

LEMMA StepKept ==
  ASSUME StartupInvariant, [Next]_vars
  PROVE  StartupInvariant'
<1>1. CASE Reading
  BY <1>1, ParseKept, SettleKept, DiscoverKept, FinishKept DEF Reading, CatalogNext
<1>2. CASE UNCHANGED vars
  <2>1. InputsHold' /\ ReportHolds' /\ EntriesHold' /\ DiscoveryHolds'
    BY <1>2, CatalogStays DEF vars
  <2>2. PlaceHolds' /\ ToolHolds' /\ LimitsHold'
    BY <1>2 DEF vars, catalogVars, StartupInvariant, PlaceHolds, ToolHolds, LimitsHold
  <2>. QED BY <2>1, <2>2 DEF StartupInvariant
<1>. QED BY <1>1, <1>2, CheckKept, LocateKept, ConfiguredKept, BindKept, ReadsKept, EndsKept, PollKept,
            JoinKept, GoneKept, PrintsKept, ExitsKept, DeadlineKept DEF Next, Main

\* The inductive invariant of startup: what is known of the inputs, the tool, the
\* limits, the report and the entries at every place the commands come through.
THEOREM InvariantHolds == Spec => []StartupInvariant
<1>1. Init => StartupInvariant
  BY Starts
<1>2. StartupInvariant /\ [Next]_vars => StartupInvariant'
  BY StepKept
<1>. QED BY <1>1, <1>2, PTL DEF Spec

\* Every reachable state is well typed: a refusal and its report come together, a
\* budget is a u32 or none, and the pipe of the tool holds what was printed and
\* not yet read.
THEOREM TypeCorrect == Spec => []TypeOK
<1>1. StartupInvariant => TypeOK
  <2>. SUFFICES ASSUME StartupInvariant PROVE TypeOK
    OBVIOUS
  <2>1. Cardinality(limits.budget) <= 1
    <3>1. PICK b : b = limits.budget /\ \A x, y \in b : x = y
      BY DEF StartupInvariant, LimitsHold
    <3>2. CASE b = {}
      BY <3>1, <3>2, FS_EmptySet
    <3>3. CASE b # {}
      <4>1. PICK x : b = {x}
        BY <3>1, <3>3
      <4>2. Cardinality({x}) = 1
        BY FS_Singleton
      <4>. QED BY <3>1, <4>1, <4>2
    <3>. QED BY <3>2, <3>3
  <2>. QED BY <2>1 DEF StartupInvariant, PlaceHolds, EntriesHold, LimitsHold, ToolHolds, TypeOK
<1>. QED BY <1>1, InvariantHolds, PTL

\* memory::command::output hears a tool that does its work to the end, however much
\* it prints and however small the pipe is, and hears nothing of one that ended
\* badly or was killed.
THEOREM HealthyToolsAreHeard == Spec => []HealthyToolIsHeard
<1>1. StartupInvariant => HealthyToolIsHeard
  BY DEF StartupInvariant, ToolHolds, HealthyToolIsHeard, Nothing
<1>. QED BY <1>1, InvariantHolds, PTL

\* serve is bound with what the environment says, a zero included; a budget taken
\* from the machine is above zero and leaves the margin of the device alone.
THEOREM ServedAsConfigured == Spec => []ServesAsConfigured
<1>1. StartupInvariant => ServesAsConfigured
  <2>. SUFFICES ASSUME StartupInvariant, at = "serving"
                PROVE  /\ "wrong" \notin {env.budget.is, env.idle.is, env.wait.is}
                       /\ env.budget.is = "number" => limits.budget = {env.budget.n}
                       /\ env.budget.is = "unset" =>
                            /\ 0 \notin limits.budget
                            /\ \A lines \in tool.heard : \A d \in Device(lines) :
                                 \A limit \in limits.budget : limit + MinMargin <= d.total
                       /\ env.idle.is = "number" /\ env.idle.n > 0 <=> limits.idle # Nothing
                       /\ env.wait.is = "number" => limits.wait = env.wait.n
    BY DEF ServesAsConfigured
  <2>1. limits.idle = IdleWindow(env.idle) /\ limits.wait = WaitOf(env.wait)
    BY DEF StartupInvariant, LimitsHold
  <2>2. env.idle.is = "number" /\ env.idle.n > 0 <=> limits.idle # Nothing
    BY <2>1 DEF IdleWindow, Nothing
  <2>3. env.wait.is = "number" => limits.wait = env.wait.n
    BY <2>1 DEF WaitOf
  <2>. QED BY <2>2, <2>3 DEF StartupInvariant, LimitsHold
<1>. QED BY <1>1, InvariantHolds, PTL

\* A catalog that Catalog::parse takes, Catalog::read takes as well, and with the
\* same entries, whatever files are under the root and whenever they go.
THEOREM WhatIsServedWasChecked == Spec => []ServedIsChecked
<1>1. StartupInvariant => ServedIsChecked
  <2>. SUFFICES ASSUME StartupInvariant, reading = "read", ParseProblems(text) = {}
                PROVE  /\ at # "refused"
                       /\ at = "valid" => {e \in entries : e.id \notin discovered} = DraftEntries(text)
    BY DEF ServedIsChecked
  <2>1. at # "refused"
    <3>1. ReadProblems(text) = {}
      BY ParsedIsRead
    <3>. QED BY <3>1 DEF StartupInvariant, PlaceHolds, ReportHolds
  <2>2. ASSUME at = "valid" PROVE {e \in entries : e.id \notin discovered} = DraftEntries(text)
    <3>1. entries \ {e \in entries : e.id \in discovered} = DraftEntries(text)
      BY <2>1, <2>2 DEF StartupInvariant, DiscoveryHolds
    <3>. QED BY <3>1
  <2>. QED BY <2>1, <2>2
<1>. QED BY <1>1, InvariantHolds, PTL

\* However many files are under the root and whichever of them vanish on the way:
\* no identifier is given twice or taken from the text or the router, and every
\* model file still there is an entry's, is noted as skipped, or is one of those
\* discovery says nothing of: too deep, in a directory that cannot be read or
\* listed, of a name that is no text, or of a name with nothing left of it.
THEOREM FilesAreAccountedFor == Spec => []EveryFileIsAccountedFor
<1>1. StartupInvariant => EveryFileIsAccountedFor
  <2>. SUFFICES ASSUME StartupInvariant, at = "valid", reading = "read"
                PROVE  EveryFileIsAccountedFor
    BY DEF EveryFileIsAccountedFor
  <2>1. PICK found : found = {e \in entries : e.id \in discovered}
    OBVIOUS
  <2>2. /\ \A e, o \in entries : e.id = o.id => e = o
        /\ discovered \cap (Reserved \cup DOMAIN Models(text)) = {}
        /\ \A e \in found : e.path \notin Referenced(entries \ found)
        /\ walk = << >>
        /\ \A f \in ToSet(root) : IsModel(f.path) => f \in ToSet(walk) \/ Accounted(f)
    BY <2>1 DEF StartupInvariant, DiscoveryHolds
  <2>3. ToSet(walk) = {}
    BY <2>2 DEF ToSet
  <2>. QED BY <2>1, <2>2, <2>3 DEF EveryFileIsAccountedFor, Accounted
<1>. QED BY <1>1, InvariantHolds, PTL

----------------------------------------------------------------------------
(* The command line of a child. *)

IsSequence(s) == \E A : s \in Seq(A)

LEMMA SequencesJoin ==
  ASSUME NEW s, NEW t, IsSequence(s), IsSequence(t)
  PROVE  IsSequence(s \o t)
<1>1. PICK A, B : s \in Seq(A) /\ t \in Seq(B)
  BY DEF IsSequence
<1>2. PICK C : C = A \cup B
  OBVIOUS
<1>3. s \in Seq(C) /\ t \in Seq(C)
  BY <1>1, <1>2
<1>4. s \o t \in Seq(C)
  BY <1>3
<1>. QED BY <1>4 DEF IsSequence

LEMMA ShortSequences == IsSequence(<< >>) /\ \A x : IsSequence(<<x>>)
<1>1. << >> \in Seq({})
  OBVIOUS
<1>2. \A x : <<x>> \in Seq({x})
  OBVIOUS
<1>. QED BY <1>1, <1>2 DEF IsSequence

LEMMA ModelArgumentsAreASequence ==
  ASSUME NEW e
  PROVE  IsSequence(ModelArguments(e))
<1>. DEFINE a == ByRouter(<<"model">>, {e.path})
            b == IF e.draft = Nothing THEN << >> ELSE <<ByRouter(<<"model-draft">>, e.draft)>>
            c == IF e.projector = Nothing THEN << >> ELSE <<ByRouter(<<"mmproj">>, e.projector)>>
            d == ByRouter(<<"ctx-size">>, {e.context})
            f == IF e.format = Nothing THEN << >> ELSE <<ByRouter(<<"reasoning-format">>, e.format)>>
            g == IF e.effort = Nothing THEN << >> ELSE <<ByRouter(<<"reasoning-effort">>, e.effort)>>
<1>1. ModelArguments(e) = <<a>> \o b \o c \o <<d>> \o f \o g
  BY Zenon DEF ModelArguments
<1>2. IsSequence(<<a>>) /\ IsSequence(b) /\ IsSequence(c) /\ IsSequence(<<d>>) /\ IsSequence(f) /\ IsSequence(g)
  BY ShortSequences, Zenon
<1>. HIDE DEF a, b, c, d, f, g
<1>3. IsSequence(<<a>> \o b)
  BY <1>2, SequencesJoin, Zenon
<1>4. IsSequence(<<a>> \o b \o c)
  BY <1>2, <1>3, SequencesJoin, Zenon
<1>5. IsSequence(<<a>> \o b \o c \o <<d>>)
  BY <1>2, <1>4, SequencesJoin, Zenon
<1>6. IsSequence(<<a>> \o b \o c \o <<d>> \o f)
  BY <1>2, <1>5, SequencesJoin, Zenon
<1>7. IsSequence(<<a>> \o b \o c \o <<d>> \o f \o g)
  BY <1>2, <1>6, SequencesJoin, Zenon
<1>. QED BY <1>1, <1>7, Zenon

LEMMA FlagArgumentsAreASequence ==
  ASSUME NEW e, IsFiniteSet(DOMAIN e.flags)
  PROVE  IsSequence(FlagArguments(e))
<1>1. PICK S : S = DOMAIN e.flags
  OBVIOUS
<1>2. PICK n \in Nat : n = Cardinality(S)
  BY <1>1, FS_CardinalityType
<1>3. PICK keys : keys = SetToSeq(S)
  OBVIOUS
<1>4. keys \in [1..n -> S]
  <2>1. \E f \in [1..Cardinality(S) -> S] : IsInjective(f)
    BY <1>1, FS_CardinalityType DEF ExistsBijection, Bijection, Injection
  <2>. QED BY <1>2, <1>3, <2>1, Zenon DEF SetToSeq
<1>5. FlagArguments(e) = [i \in 1..n |-> OptionOf(keys[i], e.flags[keys[i]])]
  BY <1>1, <1>3, <1>4 DEF FlagArguments
<1>6. PICK g : g = [i \in 1..n |-> OptionOf(keys[i], e.flags[keys[i]])]
  OBVIOUS
<1>7. g \in Seq({g[i] : i \in 1..n})
  BY <1>6
<1>. QED BY <1>5, <1>6, <1>7 DEF IsSequence

\* Of an option that comes several times the last one is the router's own.
LEMMA OwnArgumentsComeLast ==
  ASSUME NEW e, IsFiniteSet(DOMAIN e.flags), NEW option \in {<<"host">>, <<"port">>, <<"alias">>}
  PROVE  LET given == {i \in DOMAIN Invocation(e) : Invocation(e)[i].option = option}
         IN  Invocation(e)[Max(given)].from = "router"
<1>1. PICK front : front = ModelArguments(e) \o FlagArguments(e)
  OBVIOUS
<1>2. IsSequence(front)
  BY <1>1, ModelArgumentsAreASequence, FlagArgumentsAreASequence, SequencesJoin
<1>3. PICK own : own = OwnArguments(e)
  OBVIOUS
<1>4. PICK a, h, p :
        /\ own = <<a, h, p>>
        /\ a.option = <<"alias">> /\ h.option = <<"host">> /\ p.option = <<"port">>
        /\ a.from = "router" /\ h.from = "router" /\ p.from = "router"
  <2>1. PICK a : a = ByRouter(<<"alias">>, {e.id})
    OBVIOUS
  <2>2. PICK h : h = ByRouter(<<"host">>, {"127.0.0.1"})
    OBVIOUS
  <2>3. PICK p : p = ByRouter(<<"port">>, {"probed"})
    OBVIOUS
  <2>4. own = <<a, h, p>>
    BY <1>3, <2>1, <2>2, <2>3, Zenon DEF OwnArguments
  <2>. QED BY <2>1, <2>2, <2>3, <2>4 DEF ByRouter
<1>5. PICK A : front \in Seq(A)
  BY <1>2 DEF IsSequence
<1>6. PICK n \in Nat : n = Len(front)
  BY <1>5
<1>7. PICK all : all = front \o own
  OBVIOUS
<1>8. Invocation(e) = all
  BY <1>1, <1>3, <1>7 DEF Invocation
<1>9. /\ DOMAIN all = 1..(n + 3)
      /\ all[n + 1] = a /\ all[n + 2] = h /\ all[n + 3] = p
  <2>1. PICK C : C = A \cup {a, h, p}
    OBVIOUS
  <2>2. front \in Seq(C) /\ own \in Seq(C) /\ Len(own) = 3
    BY <1>4, <1>5, <2>1
  <2>3. own[1] = a /\ own[2] = h /\ own[3] = p
    BY <1>4
  <2>4. /\ all \in Seq(C) /\ Len(all) = n + 3
        /\ \A i \in 1..(n + 3) : all[i] = IF i <= n THEN front[i] ELSE own[i - n]
    <3>1. /\ front \o own \in Seq(C)
          /\ Len(front \o own) = Len(front) + Len(own)
          /\ \A i \in 1..(Len(front) + Len(own)) :
               (front \o own)[i] = IF i <= Len(front) THEN front[i] ELSE own[i - Len(front)]
      BY <2>2, ConcatProperties, Zenon
    <3>2. Len(front) = n /\ Len(own) = 3 /\ front \o own = all
      BY <1>6, <1>7, <2>2
    <3>. QED BY <3>1, <3>2, Zenon
  <2>5. DOMAIN all = 1..(n + 3)
    BY <2>4
  <2>6. all[n + 1] = own[1] /\ all[n + 2] = own[2] /\ all[n + 3] = own[3]
    <3>1. \A i \in 1..3 : n + i \in 1..(n + 3) /\ ~(n + i <= n) /\ (n + i) - n = i
      OBVIOUS
    <3>2. \A i \in 1..3 : all[n + i] = own[i]
      BY <2>4, <3>1
    <3>. QED BY <3>2
  <2>. QED BY <2>3, <2>5, <2>6
<1>10. PICK given : given = {i \in DOMAIN all : all[i].option = option}
  OBVIOUS
<1>11. PICK k \in 1..3 : n + k \in given
  <2>1. CASE option = <<"alias">>
    <3>1. n + 1 \in given
      BY <1>4, <1>9, <1>10, <2>1
    <3>. QED BY <3>1
  <2>2. CASE option = <<"host">>
    <3>1. n + 2 \in given
      BY <1>4, <1>9, <1>10, <2>2
    <3>. QED BY <3>1
  <2>3. CASE option = <<"port">>
    <3>1. n + 3 \in given
      BY <1>4, <1>9, <1>10, <2>3
    <3>. QED BY <3>1
  <2>. QED BY <2>1, <2>2, <2>3
<1>12. Max(given) \in given /\ Max(given) >= n + k
  <2>1. given \subseteq 1..(n + 3)
    BY <1>9, <1>10
  <2>2. IsFiniteSet(given)
    <3>1. n + 3 \in Int
      OBVIOUS
    <3>2. IsFiniteSet(1..(n + 3))
      BY <3>1, FS_Interval
    <3>. QED BY <2>1, <3>2, FS_Subset
  <2>3. Positions(given)
    BY <2>1 DEF Positions
  <2>. QED BY <1>11, <2>2, <2>3, MaxIsIn
<1>13. PICK m : m = Max(given)
  OBVIOUS
<1>14. m \in {n + 1, n + 2, n + 3}
  <2>1. m \in 1..(n + 3) /\ m >= n + 1
    BY <1>9, <1>10, <1>11, <1>12, <1>13
  <2>. QED BY <2>1
<1>15. all[m].from = "router"
  BY <1>4, <1>9, <1>14
<1>. QED BY <1>8, <1>10, <1>13, <1>15

\* Whatever is in the flags of an entry, invocation::of ends with the router's own
\* name, address and port, so that the child is where the router looks for it.
THEOREM ChildrenAreWhereTheRouterLooks == Spec => []ChildIsWhereTheRouterLooks
<1>1. StartupInvariant => ChildIsWhereTheRouterLooks
  <2>1. ASSUME StartupInvariant, NEW e \in entries PROVE IsFiniteSet(DOMAIN e.flags)
    BY <2>1 DEF StartupInvariant, EntriesHold
  <2>. QED BY <2>1, OwnArgumentsComeLast DEF ChildIsWhereTheRouterLooks
<1>. QED BY <1>1, InvariantHolds, PTL

----------------------------------------------------------------------------
(* A text mended in the places that a report names. *)

LEMMA GoodFields ==
  /\ \A f \in Needed : Converted(f, GoodValue(f)) # {}
  /\ AsPositive(GoodValue("version")) # {}
<1>1. 1 \in 1..MaxU32
  BY UnitsAssumption
<1>2. ASSUME NEW f \in {"context_size", "memory_estimate_mib", "version"} PROVE AsPositive(GoodValue(f)) # {}
  <2>1. f \notin Places
    BY <1>2 DEF Places
  <2>2. GoodValue(f) = [is |-> "number", n |-> 1]
    BY <2>1 DEF GoodValue
  <2>. QED BY <1>1, <2>2 DEF AsPositive
<1>3. Converted("path", GoodValue("path")) # {}
  <2>1. PICK p : GoodValue("path") = [is |-> "place", at |-> p, anchored |-> FALSE]
    BY DEF GoodValue, Places
  <2>2. Converted("path", GoodValue("path")) = AsLocation(GoodValue("path"))
    BY DEF Converted, Numbers, Words, Places
  <2>. QED BY <2>1, <2>2 DEF AsLocation
<1>4. ASSUME NEW f \in Numbers, NEW v PROVE Converted(f, v) = AsPositive(v)
  BY DEF Converted, Numbers, Words, Places
<1>5. {"context_size", "memory_estimate_mib"} \subseteq Numbers
  BY DEF Numbers
<1>. QED BY <1>2, <1>3, <1>4, <1>5 DEF Needed

LEMMA OptionalMended ==
  ASSUME NEW table, NEW named, NEW needed, needed \subseteq Needed, NEW f
  PROVE  /\ f \notin named => Optional(Mended(table, named, needed), f) = Optional(table, f)
         /\ f \in named \cap needed => Optional(Mended(table, named, needed), f) # {}
         /\ f \in named \ needed => Optional(Mended(table, named, needed), f) = {}
<1>1. PICK m : m = Mended(table, named, needed)
  OBVIOUS
<1>2. /\ DOMAIN m = (DOMAIN table \ named) \cup (named \cap needed)
      /\ f \in named \cap needed => m[f] = GoodValue(f)
      /\ f \in DOMAIN table \ named => m[f] = table[f]
  BY <1>1 DEF Mended
<1>3. CASE f \notin named
  BY <1>1, <1>2, <1>3 DEF Optional
<1>4. CASE f \in named \cap needed
  <2>1. Converted(f, GoodValue(f)) # {}
    BY <1>4, GoodFields
  <2>. QED BY <1>1, <1>2, <1>4, <2>1 DEF Optional
<1>5. CASE f \in named \ needed
  BY <1>1, <1>2, <1>5 DEF Optional, Nothing
<1>. QED BY <1>3, <1>4, <1>5

\* Once every field that was complained of is set right or gone, nothing is left
\* to complain of.
LEMMA FieldsMended ==
  ASSUME NEW table, NEW known, NEW scope, NEW named, NEW needed,
         needed \subseteq Needed, needed \subseteq known,
         \A q \in FieldProblems(table, known, scope) : q[2] \in named
  PROVE  FieldProblems(Mended(table, named, needed), known, scope) = {}
<1>1. PICK m : m = Mended(table, named, needed)
  OBVIOUS
<1>2. /\ DOMAIN m = (DOMAIN table \ named) \cup (named \cap needed)
      /\ \A f \in named \cap needed : m[f] = GoodValue(f)
      /\ \A f \in DOMAIN table \ named : m[f] = table[f]
  BY <1>1 DEF Mended
<1>3. ASSUME NEW f \in DOMAIN table \ named PROVE f \in known /\ Converted(f, table[f]) # {}
  <2>1. ASSUME f \notin known PROVE FALSE
    <3>1. <<scope, f, "is not recognised">> \in FieldProblems(table, known, scope)
      BY <2>1 DEF FieldProblems
    <3>2. <<scope, f, "is not recognised">>[2] = f
      OBVIOUS
    <3>. QED BY <3>1, <3>2
  <2>2. ASSUME f \in known, Converted(f, table[f]) = {} PROVE FALSE
    <3>1. <<scope, f, "is wrong">> \in FieldProblems(table, known, scope)
      BY <2>2 DEF FieldProblems, Nothing
    <3>2. <<scope, f, "is wrong">>[2] = f
      OBVIOUS
    <3>. QED BY <3>1, <3>2
  <2>. QED BY <2>1, <2>2
<1>4. \A f \in named \cap needed : f \in known /\ Converted(f, m[f]) # {}
  BY <1>2, GoodFields
<1>5. ASSUME NEW of \in Optional(m, "flags"), NEW j \in DOMAIN of PROVE AsText(of[j]) # {}
  <2>1. "flags" \notin needed
    BY DEF Needed
  <2>2. "flags" \notin named /\ Optional(m, "flags") = Optional(table, "flags")
    BY <1>1, <2>1, OptionalMended
  <2>3. ASSUME AsText(of[j]) = {} PROVE FALSE
    <3>1. <<scope, "flags", "is wrong">> \in FieldProblems(table, known, scope)
      <4>1. j \in UNION {{k \in DOMAIN o : AsText(o[k]) = Nothing} : o \in Optional(table, "flags")}
        BY <2>2, <2>3 DEF Nothing
      <4>. QED BY <4>1 DEF FieldProblems
    <3>2. <<scope, "flags", "is wrong">>[2] = "flags"
      OBVIOUS
    <3>. QED BY <2>2, <3>1, <3>2
  <2>. QED BY <2>3
<1>6. FieldProblems(m, known, scope) = {}
  <2>1. DOMAIN m \subseteq known /\ \A f \in DOMAIN m \cap known : Converted(f, m[f]) # {}
    BY <1>2, <1>3, <1>4
  <2>. QED BY <1>5, <2>1, FieldsAreKnown
<1>. QED BY <1>1, <1>6

\* A report that leaves out nothing the drafts are wrong in, and blames the defaults
\* for nothing but their own fields.
Reports(R, t) ==
  /\ DraftProblems(t) \subseteq R
  /\ \A q \in R : q[1] = Shared => q \in FieldProblems(Defaults(t), DefaultFields, Shared)

LEMMA MendedParts ==
  ASSUME NEW t, NEW R
  PROVE  /\ Defaults(MendedText(t, R)) = Mended(Defaults(t), Named(R, Shared), {})
         /\ DOMAIN Models(MendedText(t, R)) = DOMAIN Models(t)
         /\ \A id \in DOMAIN Models(t) :
              Models(MendedText(t, R))[id] = MendedEntry(Models(t)[id], Named(R, Scope(id)))
         /\ MendedText(t, R).toml
<1>1. PICK d, m, v :
        /\ d = Mended(Defaults(t), Named(R, Shared), {})
        /\ m = [id \in DOMAIN Models(t) |-> MendedEntry(Models(t)[id], Named(R, Scope(id)))]
        /\ v = IF "version" \in Named(R, Whole) THEN {GoodValue("version")} ELSE t.version
  OBVIOUS
<1>2. PICK x : x = MendedText(t, R)
  OBVIOUS
<1>3. x = [toml |-> TRUE, version |-> v, defaults |-> {TableOf(d)}, models |-> {TableOf(m)}]
  BY <1>1, <1>2 DEF MendedText
<1>4. The({TableOf(d)}) = TableOf(d) /\ The({TableOf(m)}) = TableOf(m)
  <2>1. The({TableOf(d)}) \in {TableOf(d)} /\ The({TableOf(m)}) \in {TableOf(m)}
    BY TheOne
  <2>. QED BY <2>1
<1>5. /\ IsTable(TableOf(d)) /\ TableOf(d).of = d
      /\ IsTable(TableOf(m)) /\ TableOf(m).of = m
  BY DEF IsTable, TableOf
<1>6. Defaults(x) = d
  <2>1. x.defaults = {TableOf(d)}
    BY <1>3
  <2>. QED BY <1>4, <1>5, <2>1 DEF Defaults, Nothing
<1>7. Models(x) = m
  <2>1. x.models = {TableOf(m)}
    BY <1>3
  <2>. QED BY <1>4, <1>5, <2>1 DEF Models, Nothing
<1>8. x.toml
  BY <1>3
<1>. QED BY <1>1, <1>2, <1>6, <1>7, <1>8

LEMMA NamedMeans ==
  ASSUME NEW R, NEW scope, NEW f, NEW what, <<scope, f, what>> \in R
  PROVE  f \in Named(R, scope)
<1>1. PICK q \in R : q = <<scope, f, what>>
  OBVIOUS
<1>2. q[1] = scope /\ q[2] = f
  BY <1>1
<1>. QED BY <1>2 DEF Named

\* A complaint of the drafts is in its scope.
LEMMA FieldScope ==
  ASSUME NEW table, NEW known, NEW scope, NEW q \in FieldProblems(table, known, scope)
  PROVE  \E f, what : q = <<scope, f, what>>
  BY DEF FieldProblems

\* A default that is right stays.
LEMMA DefaultsStay ==
  ASSUME NEW t, NEW R, Reports(R, t), NEW f \in DefaultFields \ {"flags"}, Optional(Defaults(t), f) # {}
  PROVE  Optional(Mended(Defaults(t), Named(R, Shared), {}), f) # {}
<1>1. PICK d : d = Defaults(t)
  OBVIOUS
<1>2. f \in DOMAIN d /\ Converted(f, d[f]) # {}
  BY <1>1 DEF Optional, Nothing
<1>3. f \notin Named(R, Shared)
  <2>. SUFFICES ASSUME f \in Named(R, Shared) PROVE FALSE
    OBVIOUS
  <2>1. PICK q \in R : q[1] = Shared /\ q[2] = f
    BY DEF Named
  <2>2. q \in FieldProblems(d, DefaultFields, Shared)
    BY <1>1, <2>1 DEF Reports
  <2>3. \/ \E g \in DOMAIN d \ DefaultFields : q = <<Shared, g, "is not recognised">>
        \/ \E g \in DOMAIN d \cap DefaultFields :
             Converted(g, d[g]) = Nothing /\ q = <<Shared, g, "is wrong">>
        \/ q = <<Shared, "flags", "is wrong">>
    BY <2>2 DEF FieldProblems
  <2>4. \/ f \in DOMAIN d \ DefaultFields
        \/ Converted(f, d[f]) = {}
        \/ f = "flags"
    <3>0. \A g, what : <<Shared, g, what>>[2] = g
      OBVIOUS
    <3>1. ASSUME NEW g \in DOMAIN d \ DefaultFields, q = <<Shared, g, "is not recognised">>
          PROVE  f \in DOMAIN d \ DefaultFields
      <4>1. g = f
        BY <2>1, <3>0, <3>1, Zenon
      <4>. QED BY <3>1, <4>1
    <3>2. ASSUME NEW g \in DOMAIN d \cap DefaultFields, Converted(g, d[g]) = Nothing,
                 q = <<Shared, g, "is wrong">>
          PROVE  Converted(f, d[f]) = {}
      <4>1. g = f
        BY <2>1, <3>0, <3>2, Zenon
      <4>. QED BY <3>2, <4>1 DEF Nothing
    <3>3. ASSUME q = <<Shared, "flags", "is wrong">> PROVE f = "flags"
      BY <2>1, <3>0, <3>3, Zenon
    <3>. QED BY <2>3, <3>1, <3>2, <3>3
  <2>. QED BY <1>2, <2>4
<1>. QED BY <1>1, <1>3, OptionalMended

\* What becomes of an entry: nothing is wrong with it, and whatever number it had,
\* or was told to have, it has.
LEMMA EntryMended ==
  ASSUME NEW t, NEW R, Reports(R, t), NEW id \in DOMAIN Models(t), NEW v, NEW d,
         v = MendedEntry(Models(t)[id], Named(R, Scope(id))),
         d = Mended(Defaults(t), Named(R, Shared), {})
  PROVE  /\ EntryProblems(id, v, d) = {}
         /\ \/ "memory_estimate_mib" \in Named(R, Scope(id))
            \/ ~Undeclared(Models(t)[id], Defaults(t))
            \/ "" \in Named(R, Scope(id))
            => ~Undeclared(v, d)
<1>1. PICK old, N, D : old = Models(t)[id] /\ N = Named(R, Scope(id)) /\ D = Defaults(t)
  OBVIOUS
<1>2. \A q \in EntryProblems(id, old, D) : q \in R
  BY <1>1 DEF Reports, DraftProblems
<1>3. {"path", "context_size", "memory_estimate_mib"} \subseteq EntryFields /\ Needed \subseteq EntryFields
  BY DEF EntryFields, DefaultFields, Numbers, Places, Needed
<1>4. CASE "" \in N
  <2>1. PICK m : m = Mended(<< >>, Needed, Needed)
    OBVIOUS
  <2>2. v = TableOf(m)
    BY <1>1, <1>4, <2>1 DEF MendedEntry
  <2>3. v.of = m /\ IsTable(v)
    BY <2>2 DEF TableOf, IsTable
  <2>4. DOMAIN m = Needed /\ \A f \in Needed : Optional(m, f) # {}
    <3>1. DOMAIN m = Needed
      <4>1. DOMAIN << >> = {}
        OBVIOUS
      <4>. QED BY <2>1, <4>1 DEF Mended
    <3>2. \A f \in Needed : Optional(m, f) # {}
      BY <2>1, OptionalMended
    <3>. QED BY <3>1, <3>2
  <2>5. FieldProblems(m, EntryFields, Scope(id)) = {}
    <3>1. \A q \in FieldProblems(<< >>, EntryFields, Scope(id)) : q[2] \in Needed
      <4>1. DOMAIN << >> = {}
        OBVIOUS
      <4>. QED BY <4>1 DEF FieldProblems, Optional, Nothing
    <3>. QED BY <1>3, <2>1, <3>1, FieldsMended
  <2>6. Required(m, id) = {} /\ SettledContext(m, d, id) = {}
    BY <2>4 DEF Required, SettledContext, Needed
  <2>7. EntryProblems(id, v, d) = {}
    BY <2>3, <2>5, <2>6 DEF EntryProblems
  <2>8. ~Undeclared(v, d)
    BY <2>3, <2>4 DEF Undeclared, Inherited, Or, Nothing, Needed
  <2>. QED BY <2>7, <2>8
<1>5. CASE "" \notin N
  <2>1. IsTable(old)
    <3>. SUFFICES ASSUME ~IsTable(old) PROVE FALSE
      OBVIOUS
    <3>1. <<Scope(id), "", "must be a table">> \in R
      BY <1>2 DEF EntryProblems
    <3>. QED BY <1>1, <1>5, <3>1, NamedMeans
  <2>2. PICK m : m = Mended(old.of, N, Needed)
    OBVIOUS
  <2>3. v = TableOf(m)
    BY <1>1, <1>5, <2>1, <2>2 DEF MendedEntry
  <2>4. v.of = m /\ IsTable(v)
    BY <2>3 DEF TableOf, IsTable
  <2>5. /\ \A q \in FieldProblems(old.of, EntryFields, Scope(id)) : q \in R
        /\ \A q \in Required(old.of, id) : q \in R
        /\ \A q \in SettledContext(old.of, D, id) : q \in R
    BY <1>2, <2>1 DEF EntryProblems
  <2>6. FieldProblems(m, EntryFields, Scope(id)) = {}
    <3>1. \A q \in FieldProblems(old.of, EntryFields, Scope(id)) : q[2] \in N
      <4>. SUFFICES ASSUME NEW q \in FieldProblems(old.of, EntryFields, Scope(id)) PROVE q[2] \in N
        OBVIOUS
      <4>1. PICK f, what : q = <<Scope(id), f, what>>
        BY FieldScope
      <4>2. f \in N
        BY <1>1, <2>5, <4>1, NamedMeans
      <4>. QED BY <4>1, <4>2
    <3>. QED BY <1>3, <2>2, <3>1, FieldsMended
  <2>7. DOMAIN m = (DOMAIN old.of \ N) \cup (N \cap Needed)
    BY <2>2 DEF Mended
  <2>8. Required(m, id) = {}
    <3>. SUFFICES ASSUME "path" \notin DOMAIN m PROVE FALSE
      BY DEF Required
    <3>1. "path" \notin N /\ "path" \notin DOMAIN old.of
      BY <2>7 DEF Needed
    <3>2. <<Scope(id), "path", "is required">> \in R
      BY <2>5, <3>1 DEF Required
    <3>. QED BY <1>1, <3>1, <3>2, NamedMeans
  <2>9. ASSUME NEW f \in {"context_size", "memory_estimate_mib"},
               f \in N \/ Inherited(old.of, D, f) # {}
        PROVE  Inherited(m, d, f) # {}
    <3>1. f \in Needed /\ f \in DefaultFields \ {"flags"}
      BY <2>9 DEF Needed, DefaultFields, Numbers
    <3>2. CASE f \in N
      <4>1. Optional(m, f) # {}
        BY <2>2, <3>1, <3>2, OptionalMended
      <4>. QED BY <4>1 DEF Inherited, Or, Nothing
    <3>3. CASE f \notin N /\ Optional(old.of, f) # {}
      <4>1. Optional(m, f) # {}
        BY <2>2, <3>3, OptionalMended
      <4>. QED BY <4>1 DEF Inherited, Or, Nothing
    <3>4. CASE f \notin N /\ Optional(old.of, f) = {}
      <4>1. Optional(D, f) # {}
        BY <2>9, <3>4 DEF Inherited, Or, Nothing
      <4>2. Optional(d, f) # {}
        BY <1>1, <3>1, <4>1, DefaultsStay
      <4>. QED BY <4>2 DEF Inherited, Or, Nothing
    <3>. QED BY <3>2, <3>3, <3>4
  <2>10. SettledContext(m, d, id) = {}
    <3>. SUFFICES ASSUME Inherited(m, d, "context_size") = {}, "context_size" \notin DOMAIN m PROVE FALSE
      BY DEF SettledContext, Nothing
    <3>1. "context_size" \notin N /\ "context_size" \notin DOMAIN old.of
      BY <2>7 DEF Needed
    <3>2. Inherited(old.of, D, "context_size") = {}
      BY <2>9
    <3>3. <<Scope(id), "context_size", "is required">> \in R
      BY <2>5, <3>1, <3>2 DEF SettledContext, Nothing
    <3>. QED BY <1>1, <3>1, <3>3, NamedMeans
  <2>11. EntryProblems(id, v, d) = {}
    BY <2>4, <2>6, <2>8, <2>10 DEF EntryProblems
  <2>12. ASSUME "memory_estimate_mib" \in N \/ ~Undeclared(old, D) PROVE ~Undeclared(v, d)
    <3>1. "memory_estimate_mib" \in N \/ Inherited(old.of, D, "memory_estimate_mib") # {}
      BY <2>1, <2>12 DEF Undeclared, Nothing
    <3>2. Inherited(m, d, "memory_estimate_mib") # {}
      BY <2>9, <3>1
    <3>. QED BY <2>4, <3>2 DEF Undeclared, Nothing
  <2>. QED BY <1>1, <1>5, <2>11, <2>12
<1>. QED BY <1>4, <1>5

LEMMA TopMended ==
  ASSUME NEW t, NEW R, Reports(R, t)
  PROVE  TopProblems(MendedText(t, R)) = {}
<1>1. PICK d, m, v :
        /\ d = TableOf(Mended(Defaults(t), Named(R, Shared), {}))
        /\ m = TableOf([id \in DOMAIN Models(t) |-> MendedEntry(Models(t)[id], Named(R, Scope(id)))])
        /\ v = IF "version" \in Named(R, Whole) THEN {GoodValue("version")} ELSE t.version
  OBVIOUS
<1>2. PICK x : x = MendedText(t, R)
  OBVIOUS
<1>3. x = [toml |-> TRUE, version |-> v, defaults |-> {d}, models |-> {m}]
  BY <1>1, <1>2 DEF MendedText
<1>4. x.version = v /\ x.defaults = {d} /\ x.models = {m}
  BY <1>3
<1>5. The({d}) = d /\ The({m}) = m /\ IsTable(d) /\ IsTable(m)
  <2>1. The({d}) \in {d} /\ The({m}) \in {m}
    BY TheOne
  <2>2. IsTable(d) /\ IsTable(m)
    BY <1>1 DEF IsTable, TableOf
  <2>. QED BY <2>1, <2>2
<1>6. v # {} /\ AsPositive(The(v)) # {}
  <2>1. CASE "version" \in Named(R, Whole)
    <3>1. v = {GoodValue("version")}
      BY <1>1, <2>1
    <3>2. The({GoodValue("version")}) \in {GoodValue("version")}
      BY TheOne
    <3>. QED BY <3>1, <3>2, GoodFields
  <2>2. CASE "version" \notin Named(R, Whole)
    <3>1. v = t.version
      BY <1>1, <2>2
    <3>2. \A what : <<Whole, "version", what>> \notin R
      BY <2>2, NamedMeans
    <3>3. TopProblems(t) \subseteq R
      BY DEF Reports, DraftProblems
    <3>4. \A what : <<Whole, "version", what>> \notin TopProblems(t)
      BY <3>2, <3>3
    <3>5. t.version # {}
      <4>. SUFFICES ASSUME t.version = {} PROVE FALSE
        OBVIOUS
      <4>1. <<Whole, "version", "is required">> \in TopProblems(t)
        BY DEF TopProblems, Nothing
      <4>. QED BY <3>4, <4>1
    <3>6. AsPositive(The(t.version)) # {}
      <4>. SUFFICES ASSUME AsPositive(The(t.version)) = {} PROVE FALSE
        OBVIOUS
      <4>1. <<Whole, "version", "is wrong">> \in TopProblems(t)
        BY <3>5 DEF TopProblems, Nothing
      <4>. QED BY <3>4, <4>1
    <3>. QED BY <3>1, <3>5, <3>6
  <2>. QED BY <2>1, <2>2
<1>7. TopProblems(x) = {}
  BY <1>4, <1>5, <1>6 DEF TopProblems, Nothing
<1>. QED BY <1>2, <1>7

LEMMA DraftsMended ==
  ASSUME NEW t, NEW R, Reports(R, t)
  PROVE  DraftProblems(MendedText(t, R)) = {}
<1>1. PICK x, d : x = MendedText(t, R) /\ d = Mended(Defaults(t), Named(R, Shared), {})
  OBVIOUS
<1>2. Defaults(x) = d /\ DOMAIN Models(x) = DOMAIN Models(t)
  BY <1>1, MendedParts
<1>3. TopProblems(x) = {}
  BY <1>1, TopMended
<1>4. FieldProblems(d, DefaultFields, Shared) = {}
  <2>1. \A q \in FieldProblems(Defaults(t), DefaultFields, Shared) : q[2] \in Named(R, Shared)
    <3>. SUFFICES ASSUME NEW q \in FieldProblems(Defaults(t), DefaultFields, Shared)
                  PROVE  q[2] \in Named(R, Shared)
      OBVIOUS
    <3>1. q \in R
      BY DEF Reports, DraftProblems
    <3>2. PICK f, what : q = <<Shared, f, what>>
      BY FieldScope
    <3>3. f \in Named(R, Shared)
      BY <3>1, <3>2, NamedMeans
    <3>. QED BY <3>2, <3>3
  <2>2. PICK none : none = {}
    OBVIOUS
  <2>3. none \subseteq Needed /\ none \subseteq DefaultFields /\ d = Mended(Defaults(t), Named(R, Shared), none)
    BY <1>1, <2>2
  <2>. QED BY <2>1, <2>3, FieldsMended
<1>5. \A id \in DOMAIN Models(x) : EntryProblems(id, Models(x)[id], Defaults(x)) = {}
  <2>. SUFFICES ASSUME NEW id \in DOMAIN Models(x)
                PROVE  EntryProblems(id, Models(x)[id], Defaults(x)) = {}
    OBVIOUS
  <2>1. PICK v : v = MendedEntry(Models(t)[id], Named(R, Scope(id)))
    OBVIOUS
  <2>2. Models(x)[id] = v
    BY <1>1, <1>2, <2>1, MendedParts
  <2>3. EntryProblems(id, v, d) = {}
    BY <1>1, <1>2, <2>1, EntryMended
  <2>. QED BY <1>2, <2>2, <2>3
<1>6. DraftProblems(x) = {}
  BY <1>2, <1>3, <1>4, <1>5 DEF DraftProblems
<1>. QED BY <1>1, <1>6

\* The drafts blame the defaults for nothing but their own fields: a scope is the
\* catalog's, the defaults' or an entry's.
LEMMA ScopesDiffer ==
  ASSUME NEW t, TextOK(t)
  PROVE  /\ \A id \in DOMAIN Models(t) : Scope(id) # Shared
         /\ \A q \in DraftProblems(t) :
              q[1] = Shared => q \in FieldProblems(Defaults(t), DefaultFields, Shared)
<1>1. ASSUME NEW id \in DOMAIN Models(t) PROVE Scope(id) # Shared
  <2>1. PICK A : id \in Seq(A)
    BY DEF TextOK
  <2>2. PICK C : C = A \cup {"entry"}
    OBVIOUS
  <2>3. id \in Seq(C) /\ <<"entry">> \in Seq(C) /\ Len(<<"entry">>) = 1 /\ Len(id) \in Nat
    BY <2>1, <2>2
  <2>4. (<<"entry">> \o id)[1] = "entry"
    BY <2>3
  <2>5. <<"defaults">>[1] = "defaults"
    OBVIOUS
  <2>. QED BY <2>4, <2>5 DEF Scope, Shared
<1>2. ASSUME NEW q \in TopProblems(t) PROVE q[1] # Shared
  <2>1. \E f, what : q = <<Whole, f, what>>
    BY DEF TopProblems
  <2>2. PICK f, what : q = <<Whole, f, what>>
    BY <2>1
  <2>3. q[1] = Whole
    BY <2>2
  <2>4. Whole # Shared
    BY DEF Whole, Shared
  <2>. QED BY <2>3, <2>4
<1>3. ASSUME NEW id \in DOMAIN Models(t), NEW q \in EntryProblems(id, Models(t)[id], Defaults(t))
      PROVE  q[1] # Shared
  <2>1. PICK v, d, s : v = Models(t)[id] /\ d = Defaults(t) /\ s = Scope(id)
    OBVIOUS
  <2>2. s # Shared
    BY <1>1, <2>1
  <2>3. q[1] = s
    <3>1. CASE ~IsTable(v)
      <4>1. q = <<s, "", "must be a table">>
        BY <2>1, <3>1 DEF EntryProblems
      <4>. QED BY <4>1
    <3>2. CASE IsTable(v) /\ q \in FieldProblems(v.of, EntryFields, s)
      <4>1. PICK f, what : q = <<s, f, what>>
        BY <3>2, FieldScope
      <4>. QED BY <4>1
    <3>3. CASE IsTable(v) /\ q \in Required(v.of, id) \cup SettledContext(v.of, d, id)
      <4>1. q = <<s, "path", "is required">> \/ q = <<s, "context_size", "is required">>
        BY <2>1, <3>3 DEF Required, SettledContext
      <4>2. \A f, what : <<s, f, what>>[1] = s
        OBVIOUS
      <4>. QED BY <4>1, <4>2, Zenon
    <3>. QED BY <2>1, <3>1, <3>2, <3>3 DEF EntryProblems
  <2>. QED BY <2>2, <2>3
<1>4. ASSUME NEW q \in DraftProblems(t), q[1] = Shared
      PROVE  q \in FieldProblems(Defaults(t), DefaultFields, Shared)
  BY <1>2, <1>3, <1>4 DEF DraftProblems
<1>. QED BY <1>1, <1>4

\* Whatever is in a report for other reasons, the text mended by it parses.
LEMMA ParseMended ==
  ASSUME NEW t, NEW R, Reports(R, t), t.toml, ParseProblems(t) \subseteq R
  PROVE  ParseProblems(MendedText(t, R)) = {}
<1>1. PICK x, d : x = MendedText(t, R) /\ d = Mended(Defaults(t), Named(R, Shared), {})
  OBVIOUS
<1>2. x.toml /\ DraftProblems(x) = {} /\ Defaults(x) = d /\ DOMAIN Models(x) = DOMAIN Models(t)
  BY <1>1, MendedParts, DraftsMended
<1>3. \A id \in DOMAIN Models(x) : ~Undeclared(Models(x)[id], Defaults(x))
  <2>. SUFFICES ASSUME NEW id \in DOMAIN Models(t) PROVE ~Undeclared(Models(x)[id], d)
    BY <1>2
  <2>1. PICK v : v = MendedEntry(Models(t)[id], Named(R, Scope(id)))
    OBVIOUS
  <2>2. Models(x)[id] = v
    BY <1>1, <2>1, MendedParts
  <2>3. Undeclared(Models(t)[id], Defaults(t)) => "memory_estimate_mib" \in Named(R, Scope(id))
    <3>. SUFFICES ASSUME Undeclared(Models(t)[id], Defaults(t))
                  PROVE  "memory_estimate_mib" \in Named(R, Scope(id))
      OBVIOUS
    <3>1. id \in DraftUndeclared(t)
      BY DEF DraftUndeclared
    <3>2. <<Scope(id), "memory_estimate_mib", "is required">> \in R
      BY <3>1 DEF ParseProblems
    <3>. QED BY <3>2, NamedMeans
  <2>4. ~Undeclared(v, d)
    BY <1>1, <2>1, <2>3, EntryMended
  <2>. QED BY <2>2, <2>4
<1>4. DraftUndeclared(x) = {}
  BY <1>3 DEF DraftUndeclared
<1>5. ParseProblems(x) = {}
  BY <1>2, <1>4 DEF ParseProblems
<1>. QED BY <1>1, <1>5

LEMMA DeriveMeans ==
  ASSUME NEW e, NEW files
  PROVE  Derive(e, files) = {} <=> FileAt(files, e.path) = {}
  BY DEF Derive, Nothing

LEMMA EntryPath ==
  ASSUME NEW id, NEW v, NEW d, NEW e \in EntryOf(id, v, d)
  PROVE  e.path = The(Optional(v.of, "path"))
<1>1. PICK a, j, c, r, m, f, x, u, k, w :
        EntryOf(id, v, d) =
          {[id |-> id, path |-> The(Optional(v.of, "path")), draft |-> a, projector |-> j, context |-> c,
            resident |-> r, estimate |-> m, format |-> f, effort |-> x, runtime |-> u, timeout |-> k,
            flags |-> w]}
  BY Zenon DEF EntryOf, Nothing
<1>. QED BY <1>1

\* An entry that could be drafted before is at a file that is there, or has the
\* estimate that was asked for.
LEMMA ReadMended ==
  ASSUME NEW R, Reports(R, text), text.toml, ReadProblems(text) \subseteq R
  PROVE  ReadProblems(MendedText(text, R)) \subseteq
           {<<Scope(id), "memory_estimate_mib", "could not be derived">> :
              id \in DOMAIN Models(text) \ {e.id : e \in DraftEntries(text)}}
<1>1. PICK t, x, d : t = text /\ x = MendedText(t, R) /\ d = Mended(Defaults(t), Named(R, Shared), {})
  OBVIOUS
<1>2. /\ x.toml /\ DraftProblems(x) = {} /\ Defaults(x) = d /\ DOMAIN Models(x) = DOMAIN Models(t)
      /\ Reports(R, t) /\ t.toml
  BY <1>1, MendedParts, DraftsMended
<1>3. ReadProblems(x) =
        {<<Scope(id), "memory_estimate_mib", "could not be derived">> : id \in Underivable(x)}
  BY <1>2 DEF ReadProblems
<1>4. \A id \in Underivable(t) : <<Scope(id), "memory_estimate_mib", "could not be derived">> \in R
  BY <1>1, <1>2 DEF ReadProblems
<1>5. ASSUME NEW id \in Underivable(x), NEW e \in DraftEntries(t), e.id = id
      PROVE  FALSE
  <2>1. PICK e2 \in DraftEntries(x) : e2.id = id /\ Derive(e2, root) = {}
    BY DEF Underivable, Nothing
  <2>2. id \in DOMAIN Models(t) /\ Undeclared(Models(x)[id], d)
    BY <1>2 DEF Underivable, DraftUndeclared
  <2>3. PICK old, N, v : old = Models(t)[id] /\ N = Named(R, Scope(id)) /\ v = MendedEntry(old, N)
    OBVIOUS
  <2>4. Models(x)[id] = v
    BY <1>1, <2>2, <2>3, MendedParts
  <2>5. "memory_estimate_mib" \notin N /\ Undeclared(old, Defaults(t)) /\ "" \notin N
    <3>1. Models(t)[id] = old /\ v = MendedEntry(Models(t)[id], Named(R, Scope(id)))
      BY <2>3
    <3>2. \/ "memory_estimate_mib" \in Named(R, Scope(id))
          \/ ~Undeclared(Models(t)[id], Defaults(t))
          \/ "" \in Named(R, Scope(id))
          => ~Undeclared(v, d)
      BY <1>1, <1>2, <2>2, <3>1, EntryMended
    <3>. QED BY <2>2, <2>3, <2>4, <3>2
  <2>6. IsTable(old)
    BY <2>5 DEF Undeclared
  <2>7. PICK m : m = Mended(old.of, N, Needed)
    OBVIOUS
  <2>8. v.of = m
    BY <2>3, <2>5, <2>6, <2>7 DEF MendedEntry, TableOf
  <2>9. FileAt(root, e.path) # {}
    <3>. SUFFICES ASSUME FileAt(root, e.path) = {} PROVE FALSE
      OBVIOUS
    <3>1. Derive(e, root) = Nothing
      BY DeriveMeans DEF Nothing
    <3>2. id \in DraftUndeclared(t)
      BY <2>2, <2>3, <2>5 DEF DraftUndeclared
    <3>3. id \in Underivable(t)
      BY <1>5, <3>1, <3>2 DEF Underivable
    <3>. QED BY <1>4, <2>3, <2>5, <3>3, NamedMeans
  <2>10. e.path = The(Optional(old.of, "path"))
    <3>1. e \in EntryOf(id, old, Defaults(t))
      BY <1>5, <2>3, DraftsMean
    <3>. QED BY <3>1, EntryPath
  <2>11. e2.path = The(Optional(m, "path"))
    <3>1. e2 \in EntryOf(id, v, d)
      BY <1>2, <2>1, <2>4, DraftsMean
    <3>. QED BY <2>8, <3>1, EntryPath
  <2>12. CASE "path" \notin N
    <3>1. Optional(m, "path") = Optional(old.of, "path")
      BY <2>7, <2>12, OptionalMended
    <3>2. Derive(e2, root) # {}
      BY <2>9, <2>10, <2>11, <3>1, DeriveMeans
    <3>. QED BY <2>1, <3>2
  <2>13. CASE "path" \in N
    <3>1. "path" \in DOMAIN m /\ m["path"] = GoodValue("path")
      BY <2>7, <2>13 DEF Mended, Needed
    <3>2. GoodValue("path") = [is |-> "place", at |-> GoodPlace.path, anchored |-> FALSE]
      BY DEF GoodValue, Places
    <3>3. Converted("path", GoodValue("path")) = AsLocation(GoodValue("path"))
      BY DEF Converted, Numbers, Words, Places
    <3>4. Optional(m, "path") = {GoodPlace.path}
      BY <3>1, <3>2, <3>3 DEF Optional, AsLocation
    <3>5. e2.path = GoodPlace.path
      <4>1. The({GoodPlace.path}) \in {GoodPlace.path}
        BY TheOne
      <4>. QED BY <2>11, <3>4, <4>1
    <3>6. GoodPlace \in ToSet(root)
      <4>1. ToSet(root) # {}
        BY <2>9 DEF FileAt
      <4>. QED BY <4>1, Zenon DEF GoodPlace
    <3>7. FileAt(root, e2.path) # {}
      BY <3>5, <3>6 DEF FileAt
    <3>. QED BY <2>1, <3>7, DeriveMeans
  <2>. QED BY <2>12, <2>13
<1>6. Underivable(x) \subseteq DOMAIN Models(t) \ {e.id : e \in DraftEntries(t)}
  <2>1. Underivable(x) \subseteq DOMAIN Models(t)
    BY <1>2 DEF Underivable, DraftUndeclared
  <2>. QED BY <1>5, <2>1
<1>. QED BY <1>1, <1>3, <1>6

\* A report of Catalog::parse or Catalog::read names everything that is wrong: the
\* text mended in the places it names parses, and read can only miss the estimate
\* of an entry that could not be drafted before.  For any text and any root.
THEOREM OnePassSuffices == Spec => []OnePassIsEnough
<1>1. StartupInvariant => OnePassIsEnough
  <2>. SUFFICES ASSUME StartupInvariant, at = "refused", text.toml PROVE OnePassIsEnough
    BY DEF OnePassIsEnough
  <2>1. TextOK(text) /\ reading \in {"parse", "read"}
    BY DEF StartupInvariant, InputsHold
  <2>2. CASE reading = "parse"
    <3>1. ParseProblems(text) \subseteq problems
      BY <2>2 DEF StartupInvariant, ReportHolds
    <3>2. DraftProblems(text) \subseteq problems
      BY <3>1 DEF ParseProblems
    <3>3. \A q \in problems : q[1] = Shared => q \in FieldProblems(Defaults(text), DefaultFields, Shared)
      <4>. SUFFICES ASSUME NEW q \in problems, q[1] = Shared
                    PROVE  q \in DraftProblems(text)
        BY <2>1, ScopesDiffer
      <4>1. q \in ParseProblems(text)
        <5>1. <<"serve">> # Shared
          BY DEF Shared
        <5>. QED BY <2>2, <5>1 DEF StartupInvariant, ReportHolds
      <4>2. ASSUME NEW id \in DraftUndeclared(text),
                   q = <<Scope(id), "memory_estimate_mib", "is required">>
            PROVE  FALSE
        <5>1. q[1] = Scope(id)
          BY <4>2
        <5>2. id \in DOMAIN Models(text)
          BY DEF DraftUndeclared
        <5>. QED BY <2>1, <5>1, <5>2, ScopesDiffer
      <4>. QED BY <4>1, <4>2 DEF ParseProblems
    <3>4. Reports(problems, text)
      BY <3>2, <3>3 DEF Reports
    <3>5. ParseProblems(MendedText(text, problems)) = {}
      BY <3>1, <3>4, ParseMended
    <3>. QED BY <2>2, <3>5 DEF OnePassIsEnough
  <2>3. CASE reading = "read"
    <3>1. problems = ReadProblems(text)
      BY <2>3 DEF StartupInvariant, ReportHolds
    <3>2. DraftProblems(text) \subseteq problems
      BY <3>1 DEF ReadProblems
    <3>3. \A q \in problems : q[1] = Shared => q \in FieldProblems(Defaults(text), DefaultFields, Shared)
      <4>. SUFFICES ASSUME NEW q \in problems, q[1] = Shared
                    PROVE  q \in DraftProblems(text)
        BY <2>1, ScopesDiffer
      <4>1. ASSUME NEW id \in Underivable(text),
                   q = <<Scope(id), "memory_estimate_mib", "could not be derived">>
            PROVE  FALSE
        <5>1. q[1] = Scope(id)
          BY <4>1
        <5>2. id \in DOMAIN Models(text)
          BY DEF Underivable, DraftUndeclared
        <5>. QED BY <2>1, <5>1, <5>2, ScopesDiffer
      <4>. QED BY <3>1, <4>1 DEF ReadProblems
    <3>4. Reports(problems, text)
      BY <3>2, <3>3 DEF Reports
    <3>5. ReadProblems(MendedText(text, problems)) \subseteq
            {<<Scope(id), "memory_estimate_mib", "could not be derived">> :
               id \in DOMAIN Models(text) \ {e.id : e \in DraftEntries(text)}}
      BY <3>1, <3>4, ReadMended
    <3>. QED BY <2>3, <3>5 DEF OnePassIsEnough
  <2>. QED BY <2>1, <2>2, <2>3
<1>. QED BY <1>1, InvariantHolds, PTL
----------------------------------------------------------------------------
(* What a header says: at most one thing of a key, and of an array its      *)
(* largest element.                                                         *)

LEMMA MaxOfFinite ==
  ASSUME NEW S, IsFiniteSet(S), S \subseteq Nat, S # {}
  PROVE  Max(S) \in S /\ \A y \in S : y <= Max(S)
<1>1. Positions(S)
  BY DEF Positions
<1>2. Max(S) \in S /\ \A y \in S : Max(S) >= y
  BY <1>1, MaxIsIn, Zenon
<1>. QED BY <1>2

LEMMA UnsignedMeans ==
  ASSUME NEW kind, NEW v \in Int
  PROVE  Unsigned(kind, v) \subseteq Nat
  BY DEF Unsigned, Nothing

LEMMA UnsignedIsOne ==
  ASSUME NEW kind, NEW v
  PROVE  Unsigned(kind, v) # {} => Unsigned(kind, v) = {The(Unsigned(kind, v))}
<1>1. Unsigned(kind, v) = {} \/ \E x : Unsigned(kind, v) = {x}
  BY DEF Unsigned, Nothing
<1>2. \A x : The({x}) = x
  BY TheOne
<1>. QED BY <1>1, <1>2

LEMMA RangeOf ==
  ASSUME NEW A, NEW seq \in Seq(A)
  PROVE  /\ seq \in Seq(ToSet(seq)) /\ ToSet(seq) \subseteq A
         /\ \A i \in DOMAIN seq : seq[i] \in ToSet(seq)
         /\ IsFiniteSet(DOMAIN seq) /\ IsFiniteSet(ToSet(seq))
<1>1. ToSet(seq) = {seq[i] : i \in DOMAIN seq} /\ DOMAIN seq = 1..Len(seq) /\ Len(seq) \in Nat
  BY DEF ToSet
<1>2. IsFiniteSet(DOMAIN seq)
  BY <1>1, FS_Interval
<1>3. IsFiniteSet(ToSet(seq))
  <2>. DEFINE f == [i \in DOMAIN seq |-> seq[i]]
  <2>1. f \in Surjection(DOMAIN seq, ToSet(seq))
    BY <1>1 DEF Surjection
  <2>. HIDE DEF f
  <2>. QED BY <1>2, <2>1, FS_Surjection
<1>4. seq \in Seq(ToSet(seq)) /\ ToSet(seq) \subseteq A /\ \A i \in DOMAIN seq : seq[i] \in ToSet(seq)
  BY <1>1
<1>. QED BY <1>2, <1>3, <1>4

LEMMA ElementsMean ==
  ASSUME NEW p, PairOK(p)
  PROVE  Elements(p) \in Seq(Nat) /\ ToSet(Elements(p)) = NumbersIn(p)
<1>. DEFINE wanted == {v \in ToSet(p.values) : Unsigned(p.elem, v) # Nothing}
            numbers == Sift(p.values, wanted)
<1>1. p.values \in Seq(Int)
  BY DEF PairOK
<1>2. p.values \in Seq(ToSet(p.values)) /\ ToSet(p.values) \subseteq Int
  BY <1>1, RangeOf
<1>3. numbers \in Seq(ToSet(numbers)) /\ ToSet(numbers) = ToSet(p.values) \cap wanted
  <2>. HIDE DEF wanted
  <2>. QED BY <1>2, SiftMeans
<1>4. \A v \in ToSet(numbers) : The(Unsigned(p.elem, v)) \in Nat
  <2>. SUFFICES ASSUME NEW v \in ToSet(numbers) PROVE The(Unsigned(p.elem, v)) \in Nat
    OBVIOUS
  <2>1. v \in Int /\ Unsigned(p.elem, v) # {}
    <3>1. v \in wanted
      <4>. HIDE DEF wanted, numbers
      <4>. QED BY <1>3
    <3>. HIDE DEF numbers
    <3>. QED BY <1>2, <3>1 DEF Nothing
  <2>. HIDE DEF wanted, numbers
  <2>. QED BY <2>1, TheOne, UnsignedMeans
<1>5. Elements(p) = [i \in DOMAIN numbers |-> The(Unsigned(p.elem, numbers[i]))]
  BY DEF Elements
<1>. HIDE DEF wanted, numbers
<1>6. \A i \in DOMAIN numbers : The(Unsigned(p.elem, numbers[i])) \in Nat
  <2>1. \A i \in DOMAIN numbers : numbers[i] \in ToSet(numbers)
    BY <1>3, RangeOf
  <2>. QED BY <1>4, <2>1
<1>7. PICK k \in Nat : DOMAIN numbers = 1..k
  BY <1>3
<1>8. ToSet(Elements(p)) = {The(Unsigned(p.elem, v)) : v \in ToSet(numbers)}
  BY <1>3, <1>5, <1>7 DEF ToSet
<1>9. {The(Unsigned(p.elem, v)) : v \in ToSet(numbers)} = NumbersIn(p)
  <2>1. \A v \in ToSet(p.values) : v \in ToSet(numbers) <=> Unsigned(p.elem, v) # {}
    BY <1>3 DEF wanted, Nothing
  <2>2. \A v \in ToSet(p.values) : Unsigned(p.elem, v) # {} => Unsigned(p.elem, v) = {The(Unsigned(p.elem, v))}
    BY UnsignedIsOne
  <2>3. NumbersIn(p) = UNION {Unsigned(p.elem, v) : v \in ToSet(p.values)}
    BY DEF NumbersIn
  <2>4. ToSet(numbers) \subseteq ToSet(p.values)
    BY <1>3
  <2>5. ASSUME NEW v \in ToSet(numbers) PROVE The(Unsigned(p.elem, v)) \in NumbersIn(p)
    <3>1. v \in ToSet(p.values) /\ The(Unsigned(p.elem, v)) \in Unsigned(p.elem, v)
      BY <2>1, <2>4, TheOne
    <3>. QED BY <2>3, <3>1
  <2>6. ASSUME NEW n \in NumbersIn(p) PROVE \E v \in ToSet(numbers) : n = The(Unsigned(p.elem, v))
    <3>1. PICK v \in ToSet(p.values) : n \in Unsigned(p.elem, v)
      BY <2>3
    <3>2. v \in ToSet(numbers) /\ Unsigned(p.elem, v) = {The(Unsigned(p.elem, v))}
      BY <2>1, <2>2, <3>1
    <3>. QED BY <3>1, <3>2
  <2>. QED BY <2>5, <2>6
<1>10. Elements(p) \in Seq(Nat)
  BY <1>5, <1>6, <1>7
<1>11. ToSet(Elements(p)) = NumbersIn(p)
  BY <1>8, <1>9, Zenon
<1>. QED BY <1>10, <1>11

LayersAt(pairs) == {i \in DOMAIN pairs : IsLayers(pairs[i])}

NumbersAt(pairs) == LayersAt(pairs) \cup {i \in DOMAIN pairs : IsNumber(pairs[i])}

\* Where the value of a key is taken from.
LastAt(pairs, among, key) ==
  {j \in among : pairs[j].key = key /\ \A k \in among : k > j => pairs[k].key # key}

LEMMA LastIsOne ==
  ASSUME NEW pairs, pairs \in Seq(ToSet(pairs)), NEW among \in SUBSET DOMAIN pairs, NEW key
  PROVE  \A i, j \in LastAt(pairs, among, key) : i = j
<1>. SUFFICES ASSUME NEW i \in LastAt(pairs, among, key), NEW j \in LastAt(pairs, among, key) PROVE i = j
  OBVIOUS
<1>1. i \in Int /\ j \in Int
  <2>1. DOMAIN pairs \subseteq Int
    OBVIOUS
  <2>. QED BY <2>1 DEF LastAt
<1>2. ~(i > j) /\ ~(j > i)
  BY DEF LastAt
<1>. QED BY <1>1, <1>2

LEMMA LookedUp ==
  ASSUME NEW pairs, NEW key
  PROVE  /\ Lookup(MetadataOf(pairs).numbers, key) =
              {NumberOf(pairs[i]) : i \in LastAt(pairs, NumbersAt(pairs), key)}
         /\ Lookup(MetadataOf(pairs).layers, key) =
              {Elements(pairs[i]) : i \in LastAt(pairs, LayersAt(pairs), key)}
<1>0. \A a, b : <<a, b>>[1] = a /\ <<a, b>>[2] = b
  OBVIOUS
<1>. DEFINE Is(S) == {i \in S : \A k \in S : k > i => pairs[k].key # pairs[i].key}
            num == {<<pairs[i].key, NumberOf(pairs[i])>> : i \in Is(NumbersAt(pairs))}
            lay == {<<pairs[i].key, Elements(pairs[i])>> : i \in Is(LayersAt(pairs))}
<1>1. MetadataOf(pairs).numbers = num /\ MetadataOf(pairs).layers = lay
  BY DEF MetadataOf, ByKey, NumbersAt, LayersAt
<1>2. {entry[2] : entry \in {e \in num : e[1] = key}} =
        {NumberOf(pairs[i]) : i \in LastAt(pairs, NumbersAt(pairs), key)}
  <2>1. ASSUME NEW e \in num, e[1] = key
        PROVE  \E i \in LastAt(pairs, NumbersAt(pairs), key) : e[2] = NumberOf(pairs[i])
    <3>1. PICK i \in Is(NumbersAt(pairs)) : e = <<pairs[i].key, NumberOf(pairs[i])>>
      OBVIOUS
    <3>2. pairs[i].key = key /\ e[2] = NumberOf(pairs[i])
      BY <1>0, <2>1, <3>1
    <3>3. i \in LastAt(pairs, NumbersAt(pairs), key)
      BY <3>1, <3>2 DEF LastAt
    <3>. QED BY <3>2, <3>3
  <2>2. ASSUME NEW i \in LastAt(pairs, NumbersAt(pairs), key)
        PROVE  \E e \in num : e[1] = key /\ e[2] = NumberOf(pairs[i])
    <3>1. i \in Is(NumbersAt(pairs)) /\ pairs[i].key = key
      BY DEF LastAt
    <3>2. PICK e : e = <<pairs[i].key, NumberOf(pairs[i])>>
      OBVIOUS
    <3>3. e \in num
      BY <3>1, <3>2
    <3>4. e[1] = key /\ e[2] = NumberOf(pairs[i])
      BY <1>0, <3>1, <3>2
    <3>. QED BY <3>3, <3>4
  <2>. HIDE DEF num
  <2>. QED BY <2>1, <2>2
<1>3. {entry[2] : entry \in {e \in lay : e[1] = key}} =
        {Elements(pairs[i]) : i \in LastAt(pairs, LayersAt(pairs), key)}
  <2>1. ASSUME NEW e \in lay, e[1] = key
        PROVE  \E i \in LastAt(pairs, LayersAt(pairs), key) : e[2] = Elements(pairs[i])
    <3>1. PICK i \in Is(LayersAt(pairs)) : e = <<pairs[i].key, Elements(pairs[i])>>
      OBVIOUS
    <3>2. pairs[i].key = key /\ e[2] = Elements(pairs[i])
      BY <1>0, <2>1, <3>1
    <3>3. i \in LastAt(pairs, LayersAt(pairs), key)
      BY <3>1, <3>2 DEF LastAt
    <3>. QED BY <3>2, <3>3
  <2>2. ASSUME NEW i \in LastAt(pairs, LayersAt(pairs), key)
        PROVE  \E e \in lay : e[1] = key /\ e[2] = Elements(pairs[i])
    <3>1. i \in Is(LayersAt(pairs)) /\ pairs[i].key = key
      BY DEF LastAt
    <3>2. PICK e : e = <<pairs[i].key, Elements(pairs[i])>>
      OBVIOUS
    <3>3. e \in lay
      BY <3>1, <3>2
    <3>4. e[1] = key /\ e[2] = Elements(pairs[i])
      BY <1>0, <3>1, <3>2
    <3>. QED BY <3>3, <3>4
  <2>. HIDE DEF lay
  <2>. QED BY <2>1, <2>2
<1>. HIDE DEF num, lay
<1>. QED BY <1>1, <1>2, <1>3 DEF Lookup

\* The pairs of a header, as RootOK has them.
PairsOK(pairs) == pairs \in Seq(ToSet(pairs)) /\ \A p \in ToSet(pairs) : PairOK(p)

OneShape(pairs) == \A p, q \in ToSet(pairs) : p.key = q.key => (p.kind = Array <=> q.kind = Array)

AtMostOne(S) == \A x, y \in S : x = y

LEMMA NumberIsNat ==
  ASSUME NEW p, PairOK(p)
  PROVE  /\ IsLayers(p) => NumberOf(p) \in Nat /\ \A l \in DOMAIN Elements(p) : Elements(p)[l] <= NumberOf(p)
         /\ IsNumber(p) => NumberOf(p) \in Nat
<1>1. ASSUME IsLayers(p)
      PROVE  NumberOf(p) \in Nat /\ \A l \in DOMAIN Elements(p) : Elements(p)[l] <= NumberOf(p)
  <2>1. PICK s \in Seq(Nat) : s = Elements(p) /\ ToSet(s) = NumbersIn(p)
    BY ElementsMean
  <2>2. NumberOf(p) = Max(ToSet(s))
    BY <1>1, <2>1 DEF NumberOf, IsLayers
  <2>3. ToSet(s) \subseteq Nat /\ IsFiniteSet(ToSet(s)) /\ \A l \in DOMAIN s : s[l] \in ToSet(s)
    BY RangeOf
  <2>4. ToSet(s) # {}
    BY <1>1, <2>1 DEF IsLayers
  <2>5. Max(ToSet(s)) \in ToSet(s) /\ \A y \in ToSet(s) : y <= Max(ToSet(s))
    BY <2>3, <2>4, MaxOfFinite
  <2>. QED BY <2>1, <2>2, <2>3, <2>5
<1>2. ASSUME IsNumber(p)
      PROVE  NumberOf(p) \in Nat
  <2>1. p.kind \notin {Text, Array} /\ Unsigned(p.kind, p.values[1]) # {}
    BY <1>2 DEF IsNumber, Nothing
  <2>2. p.values \in Seq(Int) /\ Len(p.values) > 0
    BY <2>1 DEF PairOK
  <2>3. p.values[1] \in Int
    BY <2>2
  <2>4. The(Unsigned(p.kind, p.values[1])) \in Unsigned(p.kind, p.values[1])
    BY <2>1, TheOne
  <2>5. Unsigned(p.kind, p.values[1]) \subseteq Nat
    BY <2>3, UnsignedMeans
  <2>6. NumberOf(p) = The(Unsigned(p.kind, p.values[1]))
    BY <2>1 DEF NumberOf
  <2>. QED BY <2>4, <2>5, <2>6
<1>. QED BY <1>1, <1>2

LEMMA PairsAt ==
  ASSUME NEW pairs, PairsOK(pairs)
  PROVE  \A i \in DOMAIN pairs : pairs[i] \in ToSet(pairs) /\ PairOK(pairs[i])
  BY RangeOf DEF PairsOK

\* A key has at most one number and at most one array.
LEMMA KeysMean ==
  ASSUME NEW pairs, PairsOK(pairs), NEW key
  PROVE  /\ Lookup(MetadataOf(pairs).numbers, key) \subseteq Nat
         /\ AtMostOne(Lookup(MetadataOf(pairs).numbers, key))
         /\ Lookup(MetadataOf(pairs).layers, key) \subseteq Seq(Nat)
         /\ AtMostOne(Lookup(MetadataOf(pairs).layers, key))
<1>1. PICK N : N = LastAt(pairs, NumbersAt(pairs), key)
  OBVIOUS
<1>2. PICK L : L = LastAt(pairs, LayersAt(pairs), key)
  OBVIOUS
<1>3. LayersAt(pairs) \in SUBSET DOMAIN pairs /\ NumbersAt(pairs) \in SUBSET DOMAIN pairs
  BY DEF LayersAt, NumbersAt
<1>4. AtMostOne(N) /\ AtMostOne(L)
  BY <1>1, <1>2, <1>3, LastIsOne DEF AtMostOne, PairsOK
<1>5. \A i \in N : i \in DOMAIN pairs /\ (IsLayers(pairs[i]) \/ IsNumber(pairs[i]))
  BY <1>1 DEF LastAt, NumbersAt, LayersAt
<1>6. \A i \in L : i \in DOMAIN pairs
  BY <1>2 DEF LastAt, LayersAt
<1>7. \A i \in N : NumberOf(pairs[i]) \in Nat
  BY <1>5, PairsAt, NumberIsNat
<1>8. \A i \in L : Elements(pairs[i]) \in Seq(Nat)
  BY <1>6, PairsAt, ElementsMean
<1>9. Lookup(MetadataOf(pairs).numbers, key) = {NumberOf(pairs[i]) : i \in N}
  BY <1>1, LookedUp
<1>10. Lookup(MetadataOf(pairs).layers, key) = {Elements(pairs[i]) : i \in L}
  BY <1>2, LookedUp
<1>11. AtMostOne({NumberOf(pairs[i]) : i \in N})
  BY <1>4 DEF AtMostOne
<1>12. AtMostOne({Elements(pairs[i]) : i \in L})
  BY <1>4 DEF AtMostOne
<1>. QED BY <1>7, <1>8, <1>9, <1>10, <1>11, <1>12

\* When a key has one shape, its number bounds its array.
LEMMA KeyBoundsLayers ==
  ASSUME NEW pairs, PairsOK(pairs), OneShape(pairs), NEW key,
         NEW s \in Lookup(MetadataOf(pairs).layers, key)
  PROVE  /\ Lookup(MetadataOf(pairs).numbers, key) # {}
         /\ \A n \in Lookup(MetadataOf(pairs).numbers, key) : \A l \in DOMAIN s : s[l] <= n
<1>1. PICK i \in LastAt(pairs, LayersAt(pairs), key) : s = Elements(pairs[i])
  <2>1. Lookup(MetadataOf(pairs).layers, key) =
          {Elements(pairs[i]) : i \in LastAt(pairs, LayersAt(pairs), key)}
    BY LookedUp
  <2>. QED BY <2>1
<1>2. i \in DOMAIN pairs /\ IsLayers(pairs[i]) /\ pairs[i].key = key
  BY DEF LastAt, LayersAt
<1>3. i \in LastAt(pairs, NumbersAt(pairs), key)
  <2>1. i \in NumbersAt(pairs)
    BY <1>1 DEF LastAt, NumbersAt
  <2>2. ASSUME NEW k \in NumbersAt(pairs), k > i, pairs[k].key = key
        PROVE  FALSE
    <3>1. CASE k \in LayersAt(pairs)
      BY <1>1, <2>2, <3>1 DEF LastAt
    <3>2. CASE k \in DOMAIN pairs /\ IsNumber(pairs[k])
      <4>1. pairs[k] \in ToSet(pairs) /\ pairs[i] \in ToSet(pairs)
        BY <1>2, <3>2, PairsAt
      <4>2. pairs[i].kind = Array /\ pairs[k].kind # Array
        BY <1>2, <3>2 DEF IsLayers, IsNumber
      <4>. QED BY <1>2, <2>2, <4>1, <4>2 DEF OneShape
    <3>. QED BY <3>1, <3>2 DEF NumbersAt
  <2>. QED BY <1>2, <2>1, <2>2 DEF LastAt
<1>4. NumberOf(pairs[i]) \in Lookup(MetadataOf(pairs).numbers, key)
  BY <1>3, LookedUp
<1>5. \A l \in DOMAIN s : s[l] <= NumberOf(pairs[i])
  BY <1>1, <1>2, PairsAt, NumberIsNat
<1>6. AtMostOne(Lookup(MetadataOf(pairs).numbers, key))
  BY KeysMean
<1>. QED BY <1>4, <1>5, <1>6 DEF AtMostOne

\* What is known of the metadata of any file.
MetadataOK(m) ==
  /\ AtMostOne(m.architecture)
  /\ \A suffix : OfModel(m, suffix) \subseteq Nat /\ AtMostOne(OfModel(m, suffix))
  /\ \A suffix : PerLayer(m, suffix) \subseteq Seq(Nat) /\ AtMostOne(PerLayer(m, suffix))
  /\ SplitCount(m) \subseteq Nat /\ AtMostOne(SplitCount(m))

\* And of one whose keys have one shape.
NumbersBound(m) ==
  \A suffix : \A s \in PerLayer(m, suffix) :
    OfModel(m, suffix) # {} /\ \A n \in OfModel(m, suffix) : \A l \in DOMAIN s : s[l] <= n

LEMMA MetadataMeans ==
  ASSUME NEW f, PairsOK(f.pairs), NEW m \in Metadata({f})
  PROVE  /\ m = MetadataOf(f.pairs)
         /\ MetadataOK(m)
         /\ OneShape(f.pairs) => NumbersBound(m)
<1>1. m = MetadataOf(f.pairs)
  <2>1. UNION {Kept(g) : g \in {f}} \subseteq {f.pairs}
    BY DEF Kept, Nothing
  <2>. QED BY <2>1 DEF Metadata
<1>2. AtMostOne(m.architecture)
  <2>1. PICK names : m.architecture =
           {f.pairs[i].says : i \in {j \in names : j = Max(names) /\ f.pairs[j].count <= MaxKeptText}}
    BY <1>1 DEF MetadataOf
  <2>2. PICK big : big = Max(names)
    OBVIOUS
  <2>. QED BY <2>1, <2>2 DEF AtMostOne
<1>3. \A key : /\ Lookup(m.numbers, key) \subseteq Nat /\ AtMostOne(Lookup(m.numbers, key))
               /\ Lookup(m.layers, key) \subseteq Seq(Nat) /\ AtMostOne(Lookup(m.layers, key))
  BY <1>1, KeysMean
<1>4. \A suffix : OfModel(m, suffix) \subseteq Nat /\ AtMostOne(OfModel(m, suffix))
  <2>. SUFFICES ASSUME NEW suffix PROVE OfModel(m, suffix) \subseteq Nat /\ AtMostOne(OfModel(m, suffix))
    OBVIOUS
  <2>1. CASE m.architecture = {}
    BY <2>1 DEF OfModel, AtMostOne
  <2>2. CASE m.architecture # {}
    <3>1. PICK a : m.architecture = {a}
      BY <1>2, <2>2 DEF AtMostOne
    <3>2. PICK key : key = <<a, suffix>>
      OBVIOUS
    <3>3. OfModel(m, suffix) = Lookup(m.numbers, key)
      BY <3>1, <3>2 DEF OfModel
    <3>. QED BY <1>3, <3>3
  <2>. QED BY <2>1, <2>2
<1>5. \A suffix : PerLayer(m, suffix) \subseteq Seq(Nat) /\ AtMostOne(PerLayer(m, suffix))
  <2>. SUFFICES ASSUME NEW suffix PROVE PerLayer(m, suffix) \subseteq Seq(Nat) /\ AtMostOne(PerLayer(m, suffix))
    OBVIOUS
  <2>1. CASE m.architecture = {}
    BY <2>1 DEF PerLayer, AtMostOne
  <2>2. CASE m.architecture # {}
    <3>1. PICK a : m.architecture = {a}
      BY <1>2, <2>2 DEF AtMostOne
    <3>2. PICK key : key = <<a, suffix>>
      OBVIOUS
    <3>3. PerLayer(m, suffix) = Lookup(m.layers, key)
      BY <3>1, <3>2 DEF PerLayer
    <3>. QED BY <1>3, <3>3
  <2>. QED BY <2>1, <2>2
<1>6. ASSUME OneShape(f.pairs)
      PROVE  NumbersBound(m)
  <2>. SUFFICES ASSUME NEW suffix, NEW s \in PerLayer(m, suffix)
                PROVE  OfModel(m, suffix) # {} /\ \A n \in OfModel(m, suffix) : \A l \in DOMAIN s : s[l] <= n
    BY DEF NumbersBound
  <2>1. PICK a \in m.architecture : s \in Lookup(m.layers, <<a, suffix>>)
    BY DEF PerLayer
  <2>2. PICK key : key = <<a, suffix>>
    OBVIOUS
  <2>3. Lookup(m.numbers, key) # {} /\ \A n \in Lookup(m.numbers, key) : \A l \in DOMAIN s : s[l] <= n
    BY <1>1, <1>6, <2>1, <2>2, KeyBoundsLayers
  <2>4. OfModel(m, suffix) = Lookup(m.numbers, key)
    BY <1>2, <2>2 DEF OfModel, AtMostOne
  <2>. QED BY <2>3, <2>4
<1>7. SplitCount(m) \subseteq Nat /\ AtMostOne(SplitCount(m))
  BY <1>3 DEF SplitCount
<1>8. MetadataOK(m)
  BY <1>2, <1>4, <1>5, <1>7 DEF MetadataOK
<1>. QED BY <1>1, <1>6, <1>8

\* One file at a path, so its metadata once.
LEMMA OneFile ==
  ASSUME NEW files, RootOK(files), NEW path
  PROVE  /\ AtMostOne(FileAt(files, path))
         /\ \A f \in FileAt(files, path) :
              f \in ToSet(files) /\ f.path = path /\ FileAt(files, path) = {f} /\ PairsOK(f.pairs)
         /\ AtMostOne(Metadata(FileAt(files, path)))
         /\ \A m \in Metadata(FileAt(files, path)) :
              MetadataOK(m) /\ \E f \in FileAt(files, path) : m \in Metadata({f})
<1>1. AtMostOne(FileAt(files, path))
  BY DEF RootOK, FileAt, AtMostOne
<1>2. ASSUME NEW f \in FileAt(files, path)
      PROVE  f \in ToSet(files) /\ f.path = path /\ FileAt(files, path) = {f} /\ PairsOK(f.pairs)
  <2>1. f \in ToSet(files) /\ f.path = path
    BY DEF FileAt
  <2>2. f.pairs \in Seq(ToSet(f.pairs)) /\ \A p \in ToSet(f.pairs) : PairOK(p)
    BY <2>1 DEF RootOK
  <2>. QED BY <1>1, <2>1, <2>2 DEF PairsOK, AtMostOne
<1>3. ASSUME NEW m \in Metadata(FileAt(files, path))
      PROVE  \E f \in FileAt(files, path) : m \in Metadata({f})
  <2>1. PICK f \in FileAt(files, path) : TRUE
    BY DEF Metadata
  <2>. QED BY <1>2, <2>1
<1>4. \A m \in Metadata(FileAt(files, path)) : MetadataOK(m)
  BY <1>2, <1>3, MetadataMeans
<1>5. AtMostOne(Metadata(FileAt(files, path)))
  <2>1. ASSUME NEW f \in FileAt(files, path) PROVE \A m \in Metadata({f}) : m = MetadataOf(f.pairs)
    BY <1>2, MetadataMeans
  <2>. QED BY <1>1, <1>3, <2>1 DEF AtMostOne
<1>. QED BY <1>1, <1>2, <1>3, <1>4, <1>5

----------------------------------------------------------------------------
(* The cache an estimate is made of is no less than what the layers keep.   *)

LEMMA TheOnly ==
  ASSUME NEW S, AtMostOne(S), NEW x \in S
  PROVE  The(S) = x /\ S = {x}
<1>1. The(S) \in S
  BY TheOne
<1>. QED BY <1>1 DEF AtMostOne

\* A value that was found, or the one instead of it.
LEMMA FoundOr ==
  ASSUME NEW A, NEW S \in SUBSET A, NEW d \in A
  PROVE  The(Or(S, {d})) \in A
<1>1. CASE S = {}
  <2>1. Or(S, {d}) = {d}
    BY <1>1 DEF Or, Nothing
  <2>2. The({d}) \in {d}
    BY TheOne
  <2>. QED BY <2>1, <2>2
<1>2. CASE S # {}
  <2>1. Or(S, {d}) = S
    BY <1>2 DEF Or, Nothing
  <2>. QED BY <1>2, <2>1, TheOne
<1>. QED BY <1>1, <1>2

LEMMA DivIsNat ==
  ASSUME NEW a \in Nat, NEW b \in Nat \ {0}
  PROVE  /\ a \div b \in Nat /\ a % b \in 0..(b - 1)
         /\ a = (b * (a \div b)) + (a % b)
  OBVIOUS

LEMMA DivMonotone ==
  ASSUME NEW a \in Nat, NEW b \in Nat, a <= b
  PROVE  a \div 16 <= b \div 16 /\ a \div 16 \in Nat /\ b \div 16 \in Nat
  OBVIOUS

\* As many multiples up to a number as the division says.
LEMMA MultiplesCount ==
  ASSUME NEW n \in Nat, NEW k \in Nat \ {0}, NEW l \in 1..n, l % k = 0
  PROVE  l \div k \in 1..(n \div k) /\ l = k * (l \div k)
<1>1. PICK a \in Nat : a = l \div k
  BY DivIsNat
<1>2. PICK b \in Nat : b = n \div k
  BY DivIsNat
<1>3. l = k * a
  <2>1. l = (k * a) + (l % k)
    BY <1>1, DivIsNat
  <2>. QED BY <2>1
<1>4. n < k * (b + 1)
  <2>1. n = (k * b) + (n % k) /\ n % k \in 0..(k - 1)
    BY <1>2, DivIsNat
  <2>2. k * (b + 1) = (k * b) + k
    OBVIOUS
  <2>. QED BY <2>1, <2>2
<1>5. a >= 1
  <2>1. a = 0 => k * a = 0
    OBVIOUS
  <2>. QED BY <1>3, <2>1
<1>6. a <= b
  <2>1. a >= b + 1 => k * a >= k * (b + 1)
    OBVIOUS
  <2>2. k * a < k * (b + 1)
    BY <1>3, <1>4
  <2>. QED BY <2>1, <2>2
<1>. QED BY <1>1, <1>2, <1>3, <1>5, <1>6

LEMMA ProductIsNat ==
  ASSUME NEW a \in Nat, NEW b \in Nat, NEW c \in Nat
  PROVE  a * b * c \in Nat
  OBVIOUS

LEMMA ProductGrows ==
  ASSUME NEW a \in Nat, NEW b \in Nat, NEW c \in Nat, NEW h \in Nat, h <= b
  PROVE  a * h * c <= a * b * c
<1>1. a * h <= a * b /\ a * h \in Nat /\ a * b \in Nat
  OBVIOUS
<1>. QED BY <1>1

LEMMA ProductShifts ==
  ASSUME NEW q \in Nat, NEW a \in Nat, NEW b \in Nat, NEW c \in Nat
  PROVE  q * (a * b * c) = q * a * b * c
  OBVIOUS

LEMMA MinOfTwo ==
  ASSUME NEW a \in Nat, NEW b \in Nat
  PROVE  Min({a, b}) \in {a, b} /\ Min({a, b}) <= a /\ Min({a, b}) <= b
<1>1. \E x \in {a, b} : \A y \in {a, b} : x <= y
  OBVIOUS
<1>2. Min({a, b}) \in {a, b} /\ \A y \in {a, b} : Min({a, b}) <= y
  BY <1>1, Zenon DEF Min
<1>. QED BY <1>2

\* The lengths and the counts of heads are numbers.
LEMMA HeadsAreNat ==
  ASSUME NEW m, MetadataOK(m), KeyLength(m) # {}, HeadCount(m) # {}, NEW keys \in Nat, NEW values \in Nat
  PROVE  /\ The(HeadCount(m)) \in Nat
         /\ FullHead(m, keys, values) \in Nat
         /\ SlidingHead(m, keys, values) \in Nat
<1>0. \A suffix : OfModel(m, suffix) \subseteq Nat
  BY DEF MetadataOK
<1>1. The(HeadCount(m)) \in Nat
  <2>1. HeadCount(m) \subseteq Nat
    BY <1>0 DEF HeadCount, Or
  <2>. QED BY <2>1, TheOne
<1>2. KeyLength(m) \subseteq Nat
  <2>1. \A e \in OfModel(m, "embedding_length"), h \in OfModel(m, Heads) \ {0} : e \div h \in Nat
    BY <1>0, DivIsNat
  <2>2. OfModel(m, "attention.key_length") \subseteq Nat
    BY <1>0
  <2>. QED BY <2>1, <2>2 DEF KeyLength, Or
<1>3. PICK key \in Nat : key = The(KeyLength(m))
  BY <1>2, TheOne
<1>4. PICK value \in Nat : value = The(Or(OfModel(m, "attention.value_length"), {key}))
  BY <1>0, FoundOr
<1>5. FullHead(m, keys, values) = key * keys + value * values
  BY <1>3, <1>4 DEF FullHead, PerHead
<1>6. PICK sk \in Nat : sk = The(Or(OfModel(m, "attention.key_length_swa"), KeyLength(m)))
  <2>1. Or(OfModel(m, "attention.key_length_swa"), KeyLength(m)) \subseteq Nat
    BY <1>0, <1>2 DEF Or
  <2>2. Or(OfModel(m, "attention.key_length_swa"), KeyLength(m)) # {}
    BY DEF Or, Nothing
  <2>. QED BY <2>1, <2>2, TheOne
<1>7. PICK sv \in Nat : sv = The(Or(OfModel(m, "attention.value_length_swa"), {sk}))
  BY <1>0, FoundOr
<1>8. SlidingHead(m, keys, values) = sk * keys + sv * values
  BY <1>6, <1>7 DEF SlidingHead, PerHead
<1>. QED BY <1>1, <1>5, <1>8

LEMMA LayerHeadsAreNat ==
  ASSUME NEW m, MetadataOK(m), HeadCount(m) # {}, NEW l
  PROVE  /\ LayerHeads(m, l) \in Nat
         /\ NumbersBound(m) => LayerHeads(m, l) <= The(HeadCount(m))
<1>0. /\ \A suffix : OfModel(m, suffix) \subseteq Nat
      /\ PerLayer(m, HeadsKV) \subseteq Seq(Nat) /\ AtMostOne(PerLayer(m, HeadsKV))
  BY DEF MetadataOK
<1>1. The(HeadCount(m)) \in Nat /\ The(HeadCount(m)) \in HeadCount(m)
  <2>1. HeadCount(m) \subseteq Nat
    BY <1>0 DEF HeadCount, Or
  <2>. QED BY <2>1, TheOne
<1>2. CASE \E hs \in PerLayer(m, HeadsKV) : l \in DOMAIN hs
  <2>1. PICK hs \in PerLayer(m, HeadsKV) : l \in DOMAIN hs
    BY <1>2
  <2>2. LayerHeads(m, l) = hs[l]
    BY <1>0, <1>2, TheOnly DEF LayerHeads
  <2>3. hs \in Seq(Nat) /\ hs[l] \in Nat
    BY <1>0, <2>1
  <2>4. ASSUME NumbersBound(m) PROVE hs[l] <= The(HeadCount(m))
    <3>1. OfModel(m, HeadsKV) # {} /\ \A n \in OfModel(m, HeadsKV) : hs[l] <= n
      BY <2>1, <2>4 DEF NumbersBound
    <3>2. HeadCount(m) = OfModel(m, HeadsKV)
      BY <3>1 DEF HeadCount, Or, Nothing
    <3>. QED BY <1>1, <3>1, <3>2
  <2>. QED BY <2>2, <2>3, <2>4
<1>3. CASE ~\E hs \in PerLayer(m, HeadsKV) : l \in DOMAIN hs
  <2>1. LayerHeads(m, l) = The(HeadCount(m))
    BY <1>3 DEF LayerHeads
  <2>. QED BY <1>1, <2>1
<1>. QED BY <1>2, <1>3

\* The arrays say something of every layer.
LayersComplete(m) ==
  \A n \in OfModel(m, "block_count") :
    \A suffix \in {HeadsKV, WindowPattern} : \A s \in PerLayer(m, suffix) : Len(s) = n

\* What a file says when it says what its cache takes.
Complete(m) ==
  /\ MetadataOK(m) /\ LayersComplete(m) /\ NumbersBound(m)
  /\ CachingLayers(m) # {} /\ HeadCount(m) # {} /\ KeyLength(m) # {}

LEMMA BlockCount ==
  ASSUME NEW m, MetadataOK(m), CachingLayers(m) # {}
  PROVE  /\ The(OfModel(m, "block_count")) \in Nat
         /\ OfModel(m, "block_count") = {The(OfModel(m, "block_count"))}
         /\ CachingLayers(m) = {The(CachingLayers(m))} /\ The(CachingLayers(m)) \in Nat
         /\ LET n == The(OfModel(m, "block_count"))
                every == OfModel(m, "full_attention_interval")
            IN  \/ \E k \in every : k \in Nat \ {0} /\ every = {k} /\ k > 1 /\ The(CachingLayers(m)) = n \div k
                \/ ~(\E k \in every : k > 1) /\ The(CachingLayers(m)) = n
<1>0. \A suffix : OfModel(m, suffix) \subseteq Nat /\ AtMostOne(OfModel(m, suffix))
  BY DEF MetadataOK
<1>1. PICK blocks : blocks = OfModel(m, "block_count")
  OBVIOUS
<1>2. PICK every : every = OfModel(m, "full_attention_interval")
  OBVIOUS
<1>3. CachingLayers(m) = {IF \E n \in every : n > 1 THEN layers \div The(every) ELSE layers : layers \in blocks}
  BY <1>1, <1>2 DEF CachingLayers
<1>4. blocks # {} /\ AtMostOne(blocks) /\ blocks \subseteq Nat /\ every \subseteq Nat /\ AtMostOne(every)
  BY <1>0, <1>1, <1>2, <1>3
<1>5. PICK n \in blocks : n \in Nat
  BY <1>4
<1>6. blocks = {n} /\ The(blocks) = n
  BY <1>4, <1>5, TheOnly
<1>7. CASE \E k \in every : k > 1
  <2>1. PICK k \in every : k > 1
    BY <1>7
  <2>2. k \in Nat \ {0} /\ every = {k} /\ The(every) = k
    <3>1. every = {k} /\ The(every) = k
      BY <1>4, <2>1, TheOnly
    <3>. QED BY <1>4, <2>1, <3>1
  <2>3. CachingLayers(m) = {n \div k}
    BY <1>3, <1>6, <1>7, <2>2
  <2>4. n \div k \in Nat
    BY <1>5, <2>2, DivIsNat
  <2>5. The(CachingLayers(m)) = n \div k
    BY <2>3, TheOne
  <2>. QED BY <1>1, <1>2, <1>5, <1>6, <2>1, <2>2, <2>3, <2>4, <2>5
<1>8. CASE ~\E k \in every : k > 1
  <2>1. CachingLayers(m) = {n}
    BY <1>3, <1>6, <1>8
  <2>2. The(CachingLayers(m)) = n
    BY <2>1, TheOne
  <2>. QED BY <1>1, <1>2, <1>5, <1>6, <1>8, <2>1, <2>2
<1>. QED BY <1>7, <1>8

\* Every layer that keeps a cache has a place among those that are counted.
LEMMA KeepersCount ==
  ASSUME NEW m, MetadataOK(m), CachingLayers(m) # {}
  PROVE  \E place \in [Keepers(m) -> 1..The(CachingLayers(m))] :
            \A x, y \in Keepers(m) : place[x] = place[y] => x = y
<1>1. PICK n \in Nat : n = The(OfModel(m, "block_count"))
  BY BlockCount
<1>2. PICK every : every = OfModel(m, "full_attention_interval")
  OBVIOUS
<1>3. PICK q : q = The(CachingLayers(m))
  OBVIOUS
<1>4. Keepers(m) = {l \in 1..n : \A k \in every : k > 1 => l % k = 0}
  BY <1>1, <1>2 DEF Keepers
<1>5. \/ \E k \in every : k \in Nat \ {0} /\ every = {k} /\ k > 1 /\ q = n \div k
      \/ ~(\E k \in every : k > 1) /\ q = n
  BY <1>1, <1>2, <1>3, BlockCount
<1>6. CASE \E k \in every : k \in Nat \ {0} /\ every = {k} /\ k > 1 /\ q = n \div k
  <2>1. PICK k \in Nat \ {0} : every = {k} /\ k > 1 /\ q = n \div k
    BY <1>6
  <2>2. \A l \in Keepers(m) : l \in 1..n /\ l % k = 0
    BY <1>4, <2>1
  <2>3. \A l \in Keepers(m) : l \div k \in 1..q /\ l = k * (l \div k)
    BY <2>1, <2>2, MultiplesCount
  <2>. DEFINE place == [l \in Keepers(m) |-> l \div k]
  <2>4. place \in [Keepers(m) -> 1..q]
    BY <2>3
  <2>5. \A x, y \in Keepers(m) : place[x] = place[y] => x = y
    BY <2>3
  <2>. HIDE DEF place
  <2>. QED BY <1>3, <2>4, <2>5
<1>7. CASE ~(\E k \in every : k > 1) /\ q = n
  <2>. DEFINE place == [l \in Keepers(m) |-> l]
  <2>1. place \in [Keepers(m) -> 1..q]
    BY <1>4, <1>7
  <2>2. \A x, y \in Keepers(m) : place[x] = place[y] => x = y
    OBVIOUS
  <2>. HIDE DEF place
  <2>. QED BY <1>3, <2>1, <2>2
<1>. QED BY <1>5, <1>6, <1>7

LEMMA HeadsOfLayer ==
  ASSUME NEW m, Complete(m), NEW l \in 1..The(OfModel(m, "block_count"))
  PROVE  HeadsOf(m, l) = LayerHeads(m, l)
<1>1. PICK n \in Nat : n = The(OfModel(m, "block_count")) /\ n \in OfModel(m, "block_count")
  BY BlockCount DEF Complete
<1>2. PICK P : P = PerLayer(m, HeadsKV)
  OBVIOUS
<1>3. P \subseteq Seq(Nat) /\ AtMostOne(P) /\ \A s \in P : Len(s) = n
  BY <1>1, <1>2 DEF Complete, MetadataOK, LayersComplete
<1>4. CASE P = {}
  <2>1. HeadsOf(m, l) = The(HeadCount(m))
    BY <1>2, <1>4 DEF HeadsOf, HeadCount, Or, Nothing
  <2>2. LayerHeads(m, l) = The(HeadCount(m))
    BY <1>2, <1>4 DEF LayerHeads
  <2>. QED BY <2>1, <2>2
<1>5. CASE P # {}
  <2>1. PICK hs \in P : P = {hs}
    BY <1>3, <1>5 DEF AtMostOne
  <2>2. l \in DOMAIN hs
    BY <1>1, <1>3, <2>1
  <2>3. {s[l] : s \in P} = {hs[l]}
    BY <2>1
  <2>4. HeadsOf(m, l) = The({hs[l]})
    BY <1>2, <2>3 DEF HeadsOf, Or, Nothing
  <2>5. The({hs[l]}) = hs[l]
    BY TheOne
  <2>6. The(P) = hs
    BY <1>3, TheOnly
  <2>7. LayerHeads(m, l) = hs[l]
    BY <1>2, <2>2, <2>6 DEF LayerHeads
  <2>. QED BY <2>4, <2>5, <2>7
<1>. QED BY <1>4, <1>5

Pattern(m) == Or(PerLayer(m, WindowPattern), AssumedPattern(m))

Window(m) == OfModel(m, "attention.sliding_window")

\* The terms of WindowedCache.
Term(m, pattern, window, l, context, keys, values) ==
  IF pattern[l] = 0 THEN context * LayerHeads(m, l) * FullHead(m, keys, values)
  ELSE Min({context, window}) * LayerHeads(m, l) * SlidingHead(m, keys, values)

LEMMA TermIsNat ==
  ASSUME NEW m, MetadataOK(m), HeadCount(m) # {}, KeyLength(m) # {}, NEW pattern, NEW window \in Nat, NEW l,
         NEW context \in Nat, NEW keys \in Nat, NEW values \in Nat
  PROVE  /\ Term(m, pattern, window, l, context, keys, values) \in Nat
         /\ Min({context, window}) \in Nat
<1>1. LayerHeads(m, l) \in Nat /\ FullHead(m, keys, values) \in Nat /\ SlidingHead(m, keys, values) \in Nat
  BY LayerHeadsAreNat, HeadsAreNat
<1>2. Min({context, window}) \in Nat
  BY MinOfTwo
<1>3. context * LayerHeads(m, l) * FullHead(m, keys, values) \in Nat
  BY <1>1, ProductIsNat
<1>4. Min({context, window}) * LayerHeads(m, l) * SlidingHead(m, keys, values) \in Nat
  BY <1>1, <1>2, ProductIsNat
<1>. QED BY <1>2, <1>3, <1>4 DEF Term

LEMMA PatternMeans ==
  ASSUME NEW m, MetadataOK(m), CachingLayers(m) # {}, Pattern(m) # {}
  PROVE  /\ IsFiniteSet(DOMAIN The(Pattern(m)))
         /\ Complete(m) =>
              /\ DOMAIN The(Pattern(m)) = 1..The(OfModel(m, "block_count"))
              /\ \A l \in 1..The(OfModel(m, "block_count")) : Slides(m, l) <=> The(Pattern(m))[l] # 0
<1>1. PICK n \in Nat : n = The(OfModel(m, "block_count")) /\ OfModel(m, "block_count") = {n}
  BY BlockCount
<1>2. PICK P : P = PerLayer(m, WindowPattern)
  OBVIOUS
<1>3. P \subseteq Seq(Nat) /\ AtMostOne(P)
  BY <1>2 DEF MetadataOK
<1>4. CASE P # {}
  <2>1. PICK s \in P : s \in Seq(Nat)
    BY <1>3, <1>4
  <2>2. P = {s} /\ The(P) = s
    BY <1>3, <2>1, TheOnly
  <2>3. The(Pattern(m)) = s
    BY <1>2, <1>4, <2>2 DEF Pattern, Or, Nothing
  <2>4. IsFiniteSet(DOMAIN s)
    BY <2>1, RangeOf
  <2>5. ASSUME Complete(m)
        PROVE  DOMAIN s = 1..n /\ \A l \in 1..n : Slides(m, l) <=> s[l] # 0
    <3>1. Len(s) = n
      BY <1>1, <1>2, <2>5 DEF Complete, LayersComplete
    <3>2. DOMAIN s = 1..n
      BY <2>1, <3>1
    <3>3. \A l \in 1..n : Slides(m, l) <=> s[l] # 0
      BY <1>2, <2>2 DEF Slides, Nothing
    <3>. QED BY <3>2, <3>3
  <2>. QED BY <1>1, <2>3, <2>4, <2>5
<1>5. CASE P = {}
  <2>1. Pattern(m) = AssumedPattern(m)
    BY <1>2, <1>5 DEF Pattern, Or, Nothing
  <2>2. m.architecture = {"gemma3"}
    BY <2>1 DEF AssumedPattern, Nothing
  <2>. DEFINE s == [l \in 1..n |-> IF l % 6 = 0 THEN 0 ELSE 1]
  <2>3. Pattern(m) = {s}
    BY <1>1, <2>1, <2>2 DEF AssumedPattern
  <2>4. DOMAIN s = 1..n /\ \A l \in 1..n : s[l] # 0 <=> l % 6 # 0
    OBVIOUS
  <2>. HIDE DEF s
  <2>5. The(Pattern(m)) = s
    BY <2>3, TheOne
  <2>6. \A l : Slides(m, l) <=> l % 6 # 0
    BY <1>2, <1>5, <2>2 DEF Slides, Nothing
  <2>7. IsFiniteSet(1..n)
    BY FS_Interval
  <2>. QED BY <1>1, <2>4, <2>5, <2>6, <2>7
<1>. QED BY <1>4, <1>5

LEMMA KeepersAreFinite ==
  ASSUME NEW m, MetadataOK(m), CachingLayers(m) # {}
  PROVE  IsFiniteSet(Keepers(m)) /\ Keepers(m) \subseteq 1..The(OfModel(m, "block_count"))
<1>1. PICK n \in Nat : n = The(OfModel(m, "block_count"))
  BY BlockCount
<1>2. Keepers(m) \subseteq 1..n
  BY <1>1 DEF Keepers
<1>3. IsFiniteSet(1..n)
  BY FS_Interval
<1>. QED BY <1>1, <1>2, <1>3, FS_Subset

LEMMA WindowedIsNat ==
  ASSUME NEW m, MetadataOK(m), CachingLayers(m) # {}, HeadCount(m) # {}, KeyLength(m) # {},
         Pattern(m) # {}, Window(m) # {}, NEW context \in Nat, NEW keys \in Nat, NEW values \in Nat
  PROVE  WindowedCache(m, The(Pattern(m)), The(Window(m)), context, keys, values) \in Nat
<1>1. PICK pattern : pattern = The(Pattern(m)) /\ IsFiniteSet(DOMAIN pattern)
  BY PatternMeans
<1>2. PICK window \in Nat : window = The(Window(m))
  BY TheOne DEF Window, MetadataOK
<1>. DEFINE g == [l \in DOMAIN pattern |-> Term(m, pattern, window, l, context, keys, values)]
            D == DOMAIN pattern
<1>3. DOMAIN g = D /\ \A l \in D : g[l] \in Nat
  BY TermIsNat
<1>4. WindowedCache(m, pattern, window, context, keys, values) = SumFunctionOnSet(g, DOMAIN g) \div 16
  BY DEF WindowedCache, SumFunction, Term
<1>. HIDE DEF g
<1>5. SumFunctionOnSet(g, D) \in Nat
  <2>1. IsFiniteSet(D)
    BY <1>1
  <2>. HIDE DEF D
  <2>. QED BY <1>3, <2>1, SumIsNat
<1>6. SumFunctionOnSet(g, D) \div 16 \in Nat
  BY <1>5, DivMonotone
<1>. QED BY <1>1, <1>2, <1>3, <1>4, <1>6

\* One number, whatever it is counted from.
LEMMA CacheMeans ==
  ASSUME NEW m, MetadataOK(m), NEW context \in Nat, NEW keys \in Nat, NEW values \in Nat,
         NEW bytes \in CacheBytes(m, context, keys, values)
  PROVE  /\ bytes \in Nat /\ CacheBytes(m, context, keys, values) = {bytes}
         /\ CachingLayers(m) # {} /\ HeadCount(m) # {} /\ KeyLength(m) # {}
         /\ \/ /\ Pattern(m) # {} /\ Window(m) # {}
               /\ bytes = WindowedCache(m, The(Pattern(m)), The(Window(m)), context, keys, values)
            \/ /\ Pattern(m) = {} \/ Window(m) = {}
               /\ bytes = DenseCache(m, context, keys, values)
<1>1. CachingLayers(m) # {} /\ HeadCount(m) # {} /\ KeyLength(m) # {}
  BY DEF CacheBytes, Nothing
<1>2. CacheBytes(m, context, keys, values) =
        IF Pattern(m) # {} /\ Window(m) # {}
        THEN {WindowedCache(m, The(Pattern(m)), The(Window(m)), context, keys, values)}
        ELSE {DenseCache(m, context, keys, values)}
  BY <1>1 DEF CacheBytes, Pattern, Window, Nothing
<1>3. CASE Pattern(m) # {} /\ Window(m) # {}
  <2>1. PICK whole : whole = WindowedCache(m, The(Pattern(m)), The(Window(m)), context, keys, values)
    OBVIOUS
  <2>2. whole \in Nat
    BY <1>1, <1>3, <2>1, WindowedIsNat
  <2>. QED BY <1>1, <1>2, <1>3, <2>1, <2>2
<1>4. CASE ~(Pattern(m) # {} /\ Window(m) # {})
  <2>1. PICK q \in Nat : q = The(CachingLayers(m))
    BY <1>1, BlockCount
  <2>2. PICK h \in Nat : h = The(HeadCount(m))
    BY <1>1, HeadsAreNat
  <2>3. PICK per \in Nat : per = FullHead(m, keys, values)
    BY <1>1, HeadsAreNat
  <2>4. q * context * h * per \in Nat
    OBVIOUS
  <2>5. DenseCache(m, context, keys, values) = (q * context * h * per) \div 16
    BY <2>1, <2>2, <2>3 DEF DenseCache
  <2>6. (q * context * h * per) \div 16 \in Nat
    BY <2>4, DivMonotone
  <2>. QED BY <1>1, <1>2, <1>4, <2>5, <2>6
<1>. QED BY <1>3, <1>4

\* The cache of the layers that keep one, at the costs an estimate is made with.
LayerCosts(m, l, context, keys, values) ==
  LET window == OfModel(m, "attention.sliding_window")
  IN  IF Slides(m, l) /\ window # Nothing
      THEN Min({context, The(window)}) * HeadsOf(m, l) * SlidingHead(m, keys, values)
      ELSE context * HeadsOf(m, l) * FullHead(m, keys, values)

Costs(m, context, keys, values) ==
  SumFunction([l \in Keepers(m) |-> LayerCosts(m, l, context, keys, values)]) \div 16

\* What a layer keeps is the term that stands for it, or no more than any dense
\* layer is taken to keep.
LEMMA LayerIsTerm ==
  ASSUME NEW m, Complete(m), NEW l \in 1..The(OfModel(m, "block_count")),
         NEW context \in Nat, NEW keys \in Nat, NEW values \in Nat,
         Pattern(m) # {}, NEW window, window = The(Window(m)), Window(m) # {}
  PROVE  /\ LayerCosts(m, l, context, keys, values) = Term(m, The(Pattern(m)), window, l, context, keys, values)
         /\ LayerCosts(m, l, context, keys, values) \in Nat
<1>0. MetadataOK(m) /\ CachingLayers(m) # {} /\ HeadCount(m) # {} /\ KeyLength(m) # {}
  BY DEF Complete
<1>1. HeadsOf(m, l) = LayerHeads(m, l)
  BY HeadsOfLayer
<1>2. LayerCosts(m, l, context, keys, values) =
        IF Slides(m, l) THEN Min({context, window}) * LayerHeads(m, l) * SlidingHead(m, keys, values)
        ELSE context * LayerHeads(m, l) * FullHead(m, keys, values)
  BY <1>1 DEF LayerCosts, Window, Nothing
<1>3. window \in Nat
  BY <1>0, TheOne DEF Window, MetadataOK
<1>4. Slides(m, l) <=> The(Pattern(m))[l] # 0
  BY <1>0, PatternMeans
<1>5. LayerCosts(m, l, context, keys, values) = Term(m, The(Pattern(m)), window, l, context, keys, values)
  BY <1>2, <1>4 DEF Term
<1>6. Term(m, The(Pattern(m)), window, l, context, keys, values) \in Nat
  BY <1>0, <1>3, TermIsNat
<1>. QED BY <1>5, <1>6

LEMMA KeepersAreTerms ==
  ASSUME NEW m, Complete(m), NEW context \in Nat, NEW keys \in Nat, NEW values \in Nat,
         Pattern(m) # {}, NEW window, window = The(Window(m)), Window(m) # {}
  PROVE  \A l \in Keepers(m) :
           LayerCosts(m, l, context, keys, values) = Term(m, The(Pattern(m)), window, l, context, keys, values)
<1>. SUFFICES ASSUME NEW l \in Keepers(m)
              PROVE  LayerCosts(m, l, context, keys, values) = Term(m, The(Pattern(m)), window, l, context, keys, values)
  OBVIOUS
<1>1. l \in 1..The(OfModel(m, "block_count"))
  BY KeepersAreFinite DEF Complete
<1>. QED BY <1>1, LayerIsTerm

LEMMA LayerIsBounded ==
  ASSUME NEW m, Complete(m), NEW l \in 1..The(OfModel(m, "block_count")),
         NEW context \in Nat, NEW keys \in Nat, NEW values \in Nat,
         Pattern(m) = {} \/ Window(m) = {}
  PROVE  /\ LayerCosts(m, l, context, keys, values) <= context * The(HeadCount(m)) * FullHead(m, keys, values)
         /\ LayerCosts(m, l, context, keys, values) \in Nat
<1>0. MetadataOK(m) /\ NumbersBound(m) /\ CachingLayers(m) # {} /\ HeadCount(m) # {} /\ KeyLength(m) # {}
  BY DEF Complete
<1>1. HeadsOf(m, l) = LayerHeads(m, l)
  BY HeadsOfLayer
<1>2. Pattern(m) = {} => ~Slides(m, l)
  <2>. SUFFICES ASSUME Pattern(m) = {} PROVE ~Slides(m, l)
    OBVIOUS
  <2>1. PerLayer(m, WindowPattern) = {} /\ AssumedPattern(m) = {}
    BY DEF Pattern, Or, Nothing
  <2>2. m.architecture # {"gemma3"}
    <3>. SUFFICES ASSUME m.architecture = {"gemma3"} PROVE FALSE
      OBVIOUS
    <3>1. PICK n : n \in OfModel(m, "block_count")
      BY <1>0, BlockCount
    <3>2. AssumedPattern(m) = {[i \in 1..k |-> IF i % 6 = 0 THEN 0 ELSE 1] : k \in OfModel(m, "block_count")}
      BY Zenon DEF AssumedPattern
    <3>3. [i \in 1..n |-> IF i % 6 = 0 THEN 0 ELSE 1] \in AssumedPattern(m)
      BY <3>1, <3>2, Zenon
    <3>. QED BY <2>1, <3>3
  <2>. QED BY <2>1, <2>2 DEF Slides
<1>3. PICK h \in Nat : h = LayerHeads(m, l) /\ h <= The(HeadCount(m))
  BY <1>0, LayerHeadsAreNat
<1>4. PICK full \in Nat : full = FullHead(m, keys, values)
  BY <1>0, HeadsAreNat
<1>5. LayerCosts(m, l, context, keys, values) = context * h * full
  BY <1>1, <1>2, <1>3, <1>4 DEF LayerCosts, Window, Nothing
<1>6. PICK most \in Nat : most = The(HeadCount(m))
  BY <1>0, HeadsAreNat
<1>7. context * h * full <= context * most * full
  BY <1>3, <1>6, ProductGrows
<1>8. context * h * full \in Nat
  BY ProductIsNat
<1>. QED BY <1>4, <1>5, <1>6, <1>7, <1>8

LEMMA LayerCostIsNat ==
  ASSUME NEW m, Complete(m), NEW l \in 1..The(OfModel(m, "block_count")),
         NEW context \in Nat, NEW keys \in Nat, NEW values \in Nat
  PROVE  LayerCosts(m, l, context, keys, values) \in Nat
<1>1. CASE Pattern(m) = {} \/ Window(m) = {}
  BY <1>1, LayerIsBounded
<1>2. CASE Pattern(m) # {} /\ Window(m) # {}
  <2>1. PICK window : window = The(Window(m))
    OBVIOUS
  <2>. QED BY <1>2, <2>1, LayerIsTerm
<1>. QED BY <1>1, <1>2

\* At those costs the layers come to no more than the cache that was counted.
LEMMA CostsAreCounted ==
  ASSUME NEW m, MetadataOK(m), LayersComplete(m), NumbersBound(m),
         NEW context \in Nat, NEW keys \in Nat, NEW values \in Nat,
         NEW bytes \in CacheBytes(m, context, keys, values)
  PROVE  Costs(m, context, keys, values) \in Nat /\ Costs(m, context, keys, values) <= bytes
<1>0. Complete(m) /\ CachingLayers(m) # {} /\ HeadCount(m) # {} /\ KeyLength(m) # {}
  BY CacheMeans DEF Complete
<1>1. PICK K : K = Keepers(m)
  OBVIOUS
<1>2. PICK n \in Nat : n = The(OfModel(m, "block_count"))
  BY <1>0, BlockCount
<1>3. IsFiniteSet(K) /\ K \in SUBSET (1..n)
  BY <1>0, <1>1, <1>2, KeepersAreFinite
<1>. DEFINE f == [l \in K |-> LayerCosts(m, l, context, keys, values)]
<1>4. DOMAIN f = K /\ \A l \in K : f[l] = LayerCosts(m, l, context, keys, values)
  OBVIOUS
<1>5. Costs(m, context, keys, values) = SumFunctionOnSet(f, DOMAIN f) \div 16
  BY <1>1 DEF Costs, SumFunction
<1>. HIDE DEF f
<1>6. \A l \in K : l \in 1..The(OfModel(m, "block_count"))
  BY <1>2, <1>3
<1>7. \A l \in K : f[l] \in Nat
  BY <1>0, <1>4, <1>6, LayerCostIsNat
<1>10. PICK total \in Nat : total = SumFunctionOnSet(f, K)
  BY <1>3, <1>7, SumIsNat
<1>8. CASE Pattern(m) # {} /\ Window(m) # {}
  <2>1. PICK pattern : pattern = The(Pattern(m)) /\ DOMAIN pattern = 1..n
    BY <1>0, <1>2, <1>8, PatternMeans
  <2>2. PICK window \in Nat : window = The(Window(m))
    BY <1>8, TheOne DEF Window, MetadataOK
  <2>. DEFINE g == [l \in DOMAIN pattern |-> Term(m, pattern, window, l, context, keys, values)]
  <2>3. DOMAIN g = 1..n /\ \A l \in 1..n : g[l] = Term(m, pattern, window, l, context, keys, values)
    BY <2>1
  <2>4. WindowedCache(m, pattern, window, context, keys, values) = SumFunctionOnSet(g, DOMAIN g) \div 16
    BY DEF WindowedCache, SumFunction, Term
  <2>. HIDE DEF g
  <2>5. \A l \in 1..n : g[l] \in Nat
    <3>1. \A l : Term(m, pattern, window, l, context, keys, values) \in Nat
      BY <1>0, TermIsNat
    <3>. QED BY <2>3, <3>1
  <2>6. \A l \in K : f[l] = g[l]
    <3>1. \A l \in K : f[l] = Term(m, pattern, window, l, context, keys, values)
      <4>1. \A l \in K : LayerCosts(m, l, context, keys, values) =
                            Term(m, The(Pattern(m)), window, l, context, keys, values)
        BY <1>0, <1>1, <1>8, <2>2, KeepersAreTerms
      <4>. QED BY <1>4, <2>1, <4>1
    <3>. QED BY <1>3, <2>3, <3>1
  <2>7. SumFunctionOnSet(f, K) = SumFunctionOnSet(g, K)
    <3>1. \A s \in SUBSET K : SumFunctionOnSet(f, s) = SumFunctionOnSet(g, s)
      BY <1>3, <2>6, SumsAgree
    <3>. QED BY <3>1
  <2>8. IsFiniteSet(1..n)
    BY FS_Interval
  <2>9. SumFunctionOnSet(g, K) <= SumFunctionOnSet(g, 1..n) /\ SumFunctionOnSet(g, 1..n) \in Nat
    BY <1>3, <2>5, <2>8, SumIsMonotone, SumIsNat
  <2>10. total <= SumFunctionOnSet(g, 1..n)
    BY <1>10, <2>7, <2>9
  <2>11. total \div 16 <= SumFunctionOnSet(g, 1..n) \div 16 /\ total \div 16 \in Nat
    BY <2>9, <2>10, DivMonotone
  <2>12. bytes = SumFunctionOnSet(g, 1..n) \div 16
    BY <1>8, <2>1, <2>2, <2>3, <2>4, CacheMeans
  <2>. QED BY <1>4, <1>5, <1>10, <2>11, <2>12
<1>9. CASE Pattern(m) = {} \/ Window(m) = {}
  <2>1. PICK q \in Nat : q = The(CachingLayers(m))
    BY <1>0, BlockCount
  <2>2. PICK h \in Nat : h = The(HeadCount(m))
    BY <1>0, HeadsAreNat
  <2>3. PICK full \in Nat : full = FullHead(m, keys, values)
    BY <1>0, HeadsAreNat
  <2>4. PICK most \in Nat : most = context * h * full
    BY ProductIsNat
  <2>5. \A l \in K : f[l] <= most
    <3>1. \A l \in 1..The(OfModel(m, "block_count")) :
             LayerCosts(m, l, context, keys, values) <= context * The(HeadCount(m)) * FullHead(m, keys, values)
      BY <1>0, <1>9, LayerIsBounded
    <3>. QED BY <1>4, <1>6, <2>2, <2>3, <2>4, <3>1
  <2>6. PICK place \in [K -> 1..q] : \A x, y \in K : place[x] = place[y] => x = y
    BY <1>0, <1>1, <2>1, KeepersCount
  <2>7. total <= q * most
    BY <1>3, <1>7, <1>10, <2>5, <2>6, SumIsBounded
  <2>8. q * most = q * context * h * full /\ q * most \in Nat
    BY <2>4, ProductShifts
  <2>9. total \div 16 <= (q * most) \div 16 /\ total \div 16 \in Nat
    BY <2>7, <2>8, DivMonotone
  <2>10. bytes = (q * most) \div 16
    <3>1. bytes = DenseCache(m, context, keys, values)
      BY <1>9, CacheMeans
    <3>2. DenseCache(m, context, keys, values) = (q * context * h * full) \div 16
      BY <2>1, <2>2, <2>3 DEF DenseCache
    <3>. QED BY <2>8, <3>1, <3>2
  <2>. QED BY <1>4, <1>5, <1>10, <2>9, <2>10
<1>. QED BY <1>8, <1>9

----------------------------------------------------------------------------
(* And what they hold is no more than what they are taken to cost.          *)

LEMMA ElementIsNat == \A type : ElementHolds(type) \in Nat
  BY DEF ElementHolds

LEMMA HeldKeyMeans ==
  ASSUME NEW m, MetadataOK(m), KeyLength(m) # {}
  PROVE  KeyLength(m) = {HeldKey(m)} /\ HeldKey(m) \in Nat
<1>0. \A suffix : OfModel(m, suffix) \subseteq Nat /\ AtMostOne(OfModel(m, suffix))
  BY DEF MetadataOK
<1>1. PICK given : given = OfModel(m, "attention.key_length")
  OBVIOUS
<1>2. CASE given # {}
  <2>1. PICK key \in given : given = {key} /\ The(given) = key
    BY <1>0, <1>1, <1>2, TheOnly
  <2>2. KeyLength(m) = given
    BY <1>1, <1>2 DEF KeyLength, Or, Nothing
  <2>3. HeldKey(m) = key
    BY <1>1, <2>1 DEF HeldKey, Or, Nothing
  <2>. QED BY <1>0, <1>1, <2>1, <2>2, <2>3
<1>3. CASE given = {}
  <2>1. PICK embedding : embedding = OfModel(m, "embedding_length")
    OBVIOUS
  <2>2. PICK heads : heads = OfModel(m, Heads)
    OBVIOUS
  <2>3. KeyLength(m) = {e \div h : e \in embedding, h \in heads \ {0}}
    BY <1>1, <1>3, <2>1, <2>2 DEF KeyLength, Or, Nothing
  <2>4. PICK e \in embedding, h \in heads \ {0} : TRUE
    BY <2>3
  <2>5. embedding = {e} /\ The(embedding) = e /\ heads = {h} /\ The(heads) = h /\ e \in Nat /\ h \in Nat \ {0}
    <3>1. embedding = {e} /\ The(embedding) = e
      BY <1>0, <2>1, TheOnly
    <3>2. heads = {h} /\ The(heads) = h
      BY <1>0, <2>2, TheOnly
    <3>3. e \in Nat /\ h \in Nat \ {0}
      BY <1>0, <2>1, <2>2
    <3>. QED BY <3>1, <3>2, <3>3
  <2>6. e \div h \in Nat
    BY <2>5, DivIsNat
  <2>7. KeyLength(m) = {e \div h}
    BY <2>3, <2>5
  <2>8. HeldKey(m) = The({e \div h})
    BY <1>1, <1>3, <2>1, <2>2, <2>5 DEF HeldKey, Or, Nothing
  <2>9. The({e \div h}) = e \div h
    BY TheOne
  <2>. QED BY <2>6, <2>7, <2>8, <2>9
<1>. QED BY <1>2, <1>3

LEMMA PairsCompare ==
  ASSUME NEW a \in Nat, NEW b \in Nat, NEW x \in Nat, NEW y \in Nat, NEW k \in Nat, NEW v \in Nat, NEW w \in Nat,
         x <= k, y <= v, b <= w
  PROVE  a * x + b * y \in Nat /\ a * x + b * y <= a * k + w * v
<1>1. a * x <= a * k /\ a * x \in Nat /\ a * k \in Nat
  OBVIOUS
<1>2. b * y <= b * v /\ b * y \in Nat /\ b * v \in Nat
  OBVIOUS
<1>3. b * v <= w * v /\ w * v \in Nat
  OBVIOUS
<1>. QED BY <1>1, <1>2, <1>3

\* A key and a value of either kind take no more than they are charged.
LEMMA CellsAreCovered ==
  ASSUME NEW m, MetadataOK(m), KeyLength(m) # {}, NEW keys \in Nat, NEW values \in Nat,
         NEW keyType, NEW valueType, ElementHolds(keyType) <= keys, ElementHolds(valueType) <= values
  PROVE  /\ CellHolds(HeldKey(m), HeldValue(m), keyType, valueType) \in Nat
         /\ CellHolds(HeldKey(m), HeldValue(m), keyType, valueType) <= FullHead(m, keys, values)
         /\ CellHolds(SlidingKey(m), SlidingValue(m), keyType, valueType) \in Nat
         /\ OfModel(m, "attention.value_length_swa") # {} \/ SlidingValue(m) <= SlidingKey(m) =>
              CellHolds(SlidingKey(m), SlidingValue(m), keyType, valueType) <= SlidingHead(m, keys, values)
<1>0. \A suffix : OfModel(m, suffix) \subseteq Nat
  BY DEF MetadataOK
<1>1. PICK x \in Nat : x = ElementHolds(keyType) /\ x <= keys
  BY ElementIsNat
<1>2. PICK y \in Nat : y = ElementHolds(valueType) /\ y <= values
  BY ElementIsNat
<1>3. PICK key \in Nat : key = HeldKey(m) /\ KeyLength(m) = {key} /\ The(KeyLength(m)) = key
  <2>1. KeyLength(m) = {HeldKey(m)} /\ HeldKey(m) \in Nat
    BY HeldKeyMeans
  <2>2. The({HeldKey(m)}) = HeldKey(m)
    BY TheOne
  <2>. QED BY <2>1, <2>2
<1>4. PICK value \in Nat : value = The(Or(OfModel(m, "attention.value_length"), {key}))
  BY <1>0, FoundOr
<1>5. HeldValue(m) = value
  BY <1>3, <1>4 DEF HeldValue
<1>6. FullHead(m, keys, values) = key * keys + value * values
  BY <1>3, <1>4 DEF FullHead, PerHead
<1>7. CellHolds(HeldKey(m), HeldValue(m), keyType, valueType) = key * x + value * y
  BY <1>1, <1>2, <1>3, <1>5 DEF CellHolds
<1>8. PICK sk \in Nat : sk = The(Or(OfModel(m, "attention.key_length_swa"), {key}))
  BY <1>0, FoundOr
<1>9. SlidingKey(m) = sk
  BY <1>3, <1>8 DEF SlidingKey
<1>10. PICK given : given = OfModel(m, "attention.value_length_swa")
  OBVIOUS
<1>11. PICK sv \in Nat : sv = The(Or(given, {value}))
  BY <1>0, <1>10, FoundOr
<1>12. SlidingValue(m) = sv
  BY <1>5, <1>10, <1>11 DEF SlidingValue
<1>13. PICK charged \in Nat : charged = The(Or(given, {sk}))
  BY <1>0, <1>10, FoundOr
<1>14. SlidingHead(m, keys, values) = sk * keys + charged * values
  BY <1>3, <1>8, <1>10, <1>13 DEF SlidingHead, PerHead
<1>15. ASSUME given # {} \/ sv <= sk PROVE sv <= charged
  <2>1. CASE given = {}
    <3>1. sv <= sk
      BY <1>15, <2>1
    <3>2. charged = The({sk})
      BY <1>13, <2>1 DEF Or, Nothing
    <3>3. The({sk}) = sk
      BY TheOne
    <3>. QED BY <3>1, <3>2, <3>3
  <2>2. CASE given # {}
    BY <1>11, <1>13, <2>2 DEF Or, Nothing
  <2>. QED BY <2>1, <2>2
<1>16. CellHolds(SlidingKey(m), SlidingValue(m), keyType, valueType) = sk * x + sv * y
  BY <1>1, <1>2, <1>9, <1>12 DEF CellHolds
<1>17. key * x + value * y \in Nat /\ key * x + value * y <= key * keys + value * values
  BY <1>1, <1>2, PairsCompare
<1>18. sv <= charged => sk * x + sv * y <= sk * keys + charged * values
  BY <1>1, <1>2, PairsCompare
<1>19. sk * x + sv * y \in Nat
  BY <1>1, <1>2
<1>. QED BY <1>6, <1>7, <1>9, <1>10, <1>12, <1>14, <1>15, <1>16, <1>17, <1>18, <1>19

LEMMA ProductsCompare ==
  ASSUME NEW a \in Nat, NEW h \in Nat, NEW b \in Nat, NEW c \in Nat, b <= c
  PROVE  a * h * b \in Nat /\ a * h * b <= a * h * c
<1>1. PICK n \in Nat : n = a * h
  OBVIOUS
<1>2. n * b \in Nat /\ n * b <= n * c
  OBVIOUS
<1>. QED BY <1>1, <1>2

LEMMA LayerIsCovered ==
  ASSUME NEW m, Complete(m), SaysLengths(m), NEW l \in Keepers(m),
         NEW context \in Nat, NEW keys \in Nat, NEW values \in Nat,
         NEW keyType, NEW valueType, ElementHolds(keyType) <= keys, ElementHolds(valueType) <= values
  PROVE  /\ LayerHolds(m, l, context, keyType, valueType) \in Nat
         /\ LayerHolds(m, l, context, keyType, valueType) <= LayerCosts(m, l, context, keys, values)
<1>0. MetadataOK(m) /\ HeadCount(m) # {} /\ KeyLength(m) # {}
  BY DEF Complete
<1>. l \in 1..The(OfModel(m, "block_count"))
  BY DEF Keepers
<1>1. PICK h \in Nat : h = HeadsOf(m, l)
  BY <1>0, HeadsOfLayer, LayerHeadsAreNat
<1>2. PICK W : W = Window(m)
  OBVIOUS
<1>3. PICK full : full = CellHolds(HeldKey(m), HeldValue(m), keyType, valueType)
  OBVIOUS
<1>4. PICK sliding : sliding = CellHolds(SlidingKey(m), SlidingValue(m), keyType, valueType)
  OBVIOUS
<1>5. PICK fullCost \in Nat : fullCost = FullHead(m, keys, values)
  BY <1>0, HeadsAreNat
<1>6. PICK slidingCost \in Nat : slidingCost = SlidingHead(m, keys, values)
  BY <1>0, HeadsAreNat
<1>7. /\ full \in Nat /\ full <= fullCost /\ sliding \in Nat
      /\ OfModel(m, "attention.value_length_swa") # {} \/ SlidingValue(m) <= SlidingKey(m) =>
           sliding <= slidingCost
  BY <1>0, <1>3, <1>4, <1>5, <1>6, CellsAreCovered
<1>8. LayerHolds(m, l, context, keyType, valueType) =
        IF Slides(m, l) /\ W # {} THEN Min({context, The(W)}) * h * sliding ELSE context * h * full
  BY <1>1, <1>2, <1>3, <1>4 DEF LayerHolds, Window, Nothing
<1>9. LayerCosts(m, l, context, keys, values) =
        IF Slides(m, l) /\ W # {} THEN Min({context, The(W)}) * h * slidingCost ELSE context * h * fullCost
  BY <1>1, <1>2, <1>5, <1>6 DEF LayerCosts, Window, Nothing
<1>10. CASE Slides(m, l) /\ W # {}
  <2>1. The(W) \in Nat
    BY <1>0, <1>2, <1>10, TheOne DEF Window, MetadataOK
  <2>2. PICK least \in Nat : least = Min({context, The(W)})
    BY <2>1, MinOfTwo
  <2>3. sliding <= slidingCost
    BY <1>7, <1>10 DEF SaysLengths, Nothing
  <2>4. least * h * sliding \in Nat /\ least * h * sliding <= least * h * slidingCost
    BY <1>7, <2>3, ProductsCompare
  <2>. QED BY <1>8, <1>9, <1>10, <2>2, <2>4
<1>11. CASE ~(Slides(m, l) /\ W # {})
  <2>1. context * h * full \in Nat /\ context * h * full <= context * h * fullCost
    BY <1>7, ProductsCompare
  <2>. QED BY <1>8, <1>9, <1>11, <2>1
<1>. QED BY <1>10, <1>11

\* The layers together keep no more than the cache that was counted.
LEMMA HeldIsCounted ==
  ASSUME NEW m, MetadataOK(m), LayersComplete(m), NumbersBound(m), SaysLengths(m),
         NEW context \in Nat, NEW keys \in Nat, NEW values \in Nat,
         NEW keyType, NEW valueType, ElementHolds(keyType) <= keys, ElementHolds(valueType) <= values,
         NEW bytes \in CacheBytes(m, context, keys, values)
  PROVE  Held(m, context, keyType, valueType) \in Nat /\ Held(m, context, keyType, valueType) <= bytes
<1>0. Complete(m) /\ CachingLayers(m) # {} /\ bytes \in Nat
  BY CacheMeans DEF Complete
<1>1. PICK K : K = Keepers(m)
  OBVIOUS
<1>2. IsFiniteSet(K) /\ K \subseteq 1..The(OfModel(m, "block_count"))
  BY <1>0, <1>1, KeepersAreFinite
<1>. DEFINE f == [l \in K |-> LayerHolds(m, l, context, keyType, valueType)]
            g == [l \in K |-> LayerCosts(m, l, context, keys, values)]
            same == [l \in K |-> l]
<1>3. Held(m, context, keyType, valueType) = SumFunctionOnSet(f, DOMAIN f) \div 16
  BY <1>1 DEF Held, SumFunction
<1>4. Costs(m, context, keys, values) = SumFunctionOnSet(g, DOMAIN g) \div 16
  BY <1>1 DEF Costs, SumFunction
<1>5. DOMAIN f = K /\ DOMAIN g = K
  OBVIOUS
<1>6. same \in [K -> K] /\ \A a, b \in K : same[a] = same[b] => a = b
  OBVIOUS
<1>7. \A l \in K : f[l] \in Nat /\ f[l] <= g[same[l]]
  <2>. SUFFICES ASSUME NEW l \in K PROVE f[l] \in Nat /\ f[l] <= g[same[l]]
    OBVIOUS
  <2>1. /\ LayerHolds(m, l, context, keyType, valueType) \in Nat
        /\ LayerHolds(m, l, context, keyType, valueType) <= LayerCosts(m, l, context, keys, values)
    BY <1>0, <1>1, LayerIsCovered
  <2>. QED BY <2>1
<1>8. \A l \in K : g[l] \in Nat
  BY <1>0, <1>2, LayerCostIsNat
<1>. HIDE DEF f, g, same
<1>9. \A l \in K : f[l] \in Nat
  BY <1>7
<1>10. \A l \in K : f[l] <= g[same[l]]
  BY <1>7
<1>11. SumFunctionOnSet(f, K) <= SumFunctionOnSet(g, K)
  BY <1>2, <1>6, <1>8, <1>9, <1>10, SumMoves
<1>12. PICK held \in Nat : held = SumFunctionOnSet(f, K)
  BY <1>2, <1>9, SumIsNat
<1>13. PICK cost \in Nat : cost = SumFunctionOnSet(g, K)
  BY <1>2, <1>8, SumIsNat
<1>14. held \div 16 <= cost \div 16 /\ held \div 16 \in Nat
  BY <1>11, <1>12, <1>13, DivMonotone
<1>15. Costs(m, context, keys, values) <= bytes
  BY CostsAreCounted
<1>. QED BY <1>0, <1>3, <1>4, <1>5, <1>12, <1>13, <1>14, <1>15, DivMonotone

----------------------------------------------------------------------------
(* The files that are weighed are all that are loaded.                      *)

LEMMA SizeIsNat ==
  ASSUME NEW files, RootOK(files), NEW path
  PROVE  SizeOf(files, path) \in Nat
<1>1. {f.length : f \in FileAt(files, path)} \in SUBSET Nat
  BY DEF FileAt, RootOK
<1>. QED BY <1>1, FoundOr DEF SizeOf

LEMMA ShardIs ==
  ASSUME NEW p, NEW path, PathOK(p), PathOK(path),
         [p EXCEPT !.shard = 1] = [path EXCEPT !.shard = 1]
  PROVE  p = [path EXCEPT !.shard = p.shard]
<1>1. PICK dir, name, shard, role, legible, carried, depth :
        p = [dir |-> dir, name |-> name, shard |-> shard, role |-> role, legible |-> legible,
             carried |-> carried, depth |-> depth]
  BY DEF PathOK
<1>2. PICK dir2, name2, shard2, role2, legible2, carried2, depth2 :
        path = [dir |-> dir2, name |-> name2, shard |-> shard2, role |-> role2, legible |-> legible2,
                carried |-> carried2, depth |-> depth2]
  BY DEF PathOK
<1>. QED BY <1>1, <1>2

LEMMA OwnShard ==
  ASSUME NEW path, PathOK(path)
  PROVE  [path EXCEPT !.shard = path.shard] = path /\ path.shard \in Nat
  BY DEF PathOK

LEMMA ShardsAreFinite ==
  ASSUME NEW files, RootOK(files), NEW path
  PROVE  IsFiniteSet(Shards(path, files))
<1>1. CASE path.shard = 0
  BY <1>1, FS_Singleton DEF Shards
<1>2. CASE path.shard # 0
  <2>. DEFINE among == {g \in ToSet(files) :
                          g.path.shard # 0 /\ [g.path EXCEPT !.shard = 1] = [path EXCEPT !.shard = 1]}
              of == [g \in among |-> g.path]
  <2>1. Shards(path, files) = {g.path : g \in among}
    BY <1>2 DEF Shards
  <2>2. IsFiniteSet(ToSet(files)) /\ among \in SUBSET ToSet(files)
    BY RangeOf DEF RootOK
  <2>3. of \in Surjection(among, Shards(path, files))
    <3>. HIDE DEF among
    <3>. QED BY <2>1 DEF Surjection
  <2>4. IsFiniteSet(among)
    BY <2>2, FS_Subset
  <2>. HIDE DEF among, of
  <2>. QED BY <2>3, <2>4, FS_Surjection
<1>. QED BY <1>1, <1>2

\* A shard is at the path of the model but for its number.
LEMMA ShardsMean ==
  ASSUME NEW files, RootOK(files), NEW f \in ToSet(files), f.path.shard # 0
  PROVE  /\ f.path \in Shards(f.path, files)
         /\ \A p \in Shards(f.path, files) : p = [f.path EXCEPT !.shard = p.shard] /\ p.shard \in Nat
<1>1. \A g \in ToSet(files) : PathOK(g.path)
  BY DEF RootOK
<1>2. f.path \in Shards(f.path, files)
  BY DEF Shards
<1>3. ASSUME NEW p \in Shards(f.path, files)
      PROVE  p = [f.path EXCEPT !.shard = p.shard] /\ p.shard \in Nat
  <2>1. PICK g \in ToSet(files) : p = g.path /\ [g.path EXCEPT !.shard = 1] = [f.path EXCEPT !.shard = 1]
    BY DEF Shards
  <2>2. PathOK(p) /\ PathOK(f.path)
    BY <1>1, <2>1
  <2>. QED BY <2>1, <2>2, ShardIs, OwnShard
<1>. QED BY <1>2, <1>3

\* The count that is taken, of a split file that says one.
LEMMA ShardsCounted ==
  ASSUME NEW files, RootOK(files), NEW path, NEW f \in FileAt(files, path), NEW m \in Metadata({f}),
         WellFormed(f, files), path.shard # 0
  PROVE  \E n \in Nat :
            /\ The(Or(UNION {SplitCount(k) : k \in Metadata(FileAt(files, path))}, {1})) = n
            /\ \A p \in Shards(path, files) : p.shard \in 1..n
<1>1. f \in ToSet(files) /\ f.path = path /\ FileAt(files, path) = {f} /\ PairsOK(f.pairs)
  BY OneFile
<1>2. AtMostOne(Metadata({f}))
  BY <1>1, OneFile
<1>3. Metadata({f}) = {m}
  BY <1>2 DEF AtMostOne
<1>4. MetadataOK(m)
  BY <1>1, MetadataMeans
<1>5. \A p \in Shards(path, files) : \E n \in SplitCount(m) : p.shard \in 1..n
  BY <1>1 DEF WellFormed
<1>6. path \in Shards(path, files)
  BY <1>1, ShardsMean
<1>7. PICK n \in SplitCount(m) : path.shard \in 1..n
  BY <1>5, <1>6
<1>8. n \in Nat /\ SplitCount(m) = {n} /\ The(SplitCount(m)) = n
  <2>1. SplitCount(m) \subseteq Nat /\ AtMostOne(SplitCount(m))
    BY <1>4 DEF MetadataOK
  <2>2. SplitCount(m) = {n} /\ The(SplitCount(m)) = n
    BY <2>1, TheOnly
  <2>. QED BY <2>1, <2>2
<1>9. UNION {SplitCount(k) : k \in Metadata(FileAt(files, path))} = SplitCount(m)
  BY <1>1, <1>3
<1>10. The(Or(SplitCount(m), {1})) = n
  BY <1>8 DEF Or, Nothing
<1>. QED BY <1>5, <1>8, <1>9, <1>10

\* What is weighed of a model is every shard there is.
LEMMA ShardsAreWeighed ==
  ASSUME NEW files, RootOK(files), NEW path, NEW f \in FileAt(files, path), NEW m \in Metadata({f}),
         WellFormed(f, files), NEW z, \A p \in Shards(path, files) : z[p] = SizeOf(files, p)
  PROVE  /\ WeightsOf(files, path) \in Nat
         /\ SumFunctionOnSet(z, Shards(path, files)) <= WeightsOf(files, path)
<1>0. f \in ToSet(files) /\ f.path = path /\ PathOK(path)
  BY OneFile DEF RootOK
<1>1. PICK own \in Nat : own = SizeOf(files, path)
  BY SizeIsNat
<1>2. CASE path.shard = 0
  <2>. DEFINE g == [i \in {} |-> SizeOf(files, [path EXCEPT !.shard = i])]
  <2>1. DOMAIN g = {}
    OBVIOUS
  <2>2. WeightsOf(files, path) = own + SumFunctionOnSet(g, DOMAIN g)
    BY <1>1, <1>2 DEF WeightsOf, SumFunction
  <2>. HIDE DEF g
  <2>3. WeightsOf(files, path) = own
    BY <2>1, <2>2, SumOfNothing
  <2>4. Shards(path, files) = {path}
    BY <1>2 DEF Shards
  <2>5. z[path] = own /\ \A x \in {path} : z[x] = own
    BY <1>1, <2>4
  <2>6. IsFiniteSet({path}) /\ Cardinality({path}) = 1
    BY FS_Singleton
  <2>7. SumFunctionOnSet(z, {path}) = 1 * own
    BY <2>5, <2>6, SumOfEqualTerms
  <2>. QED BY <2>3, <2>4, <2>7
<1>3. CASE path.shard # 0
  <2>1. PICK n \in Nat :
          /\ The(Or(UNION {SplitCount(k) : k \in Metadata(FileAt(files, path))}, {1})) = n
          /\ \A p \in Shards(path, files) : p.shard \in 1..n
    BY <1>3, ShardsCounted
  <2>2. PICK S : S = Shards(path, files)
    OBVIOUS
  <2>3. path \in S /\ \A p \in S : p = [path EXCEPT !.shard = p.shard]
    BY <1>0, <1>3, <2>2, ShardsMean
  <2>4. IsFiniteSet(S) /\ \A p \in S : p.shard \in 1..n
    BY <2>1, <2>2, ShardsAreFinite
  <2>5. PICK s \in 1..n : s = path.shard
    BY <2>3, <2>4
  <2>. DEFINE others == (1..n) \ {s}
              g == [i \in others |-> SizeOf(files, [path EXCEPT !.shard = i])]
              all == [i \in 1..n |-> SizeOf(files, [path EXCEPT !.shard = i])]
  <2>6. WeightsOf(files, path) = own + SumFunctionOnSet(g, DOMAIN g)
    BY <1>1, <1>3, <2>1, <2>5 DEF WeightsOf, SumFunction
  <2>7. DOMAIN g = others /\ others \in SUBSET (1..n) /\ \A i \in others : g[i] = all[i]
    OBVIOUS
  <2>8. \A i \in 1..n : all[i] = SizeOf(files, [path EXCEPT !.shard = i]) /\ all[i] \in Nat
    BY SizeIsNat
  <2>9. all[s] = own
    <3>1. [path EXCEPT !.shard = s] = path
      BY <1>0, <2>5, OwnShard
    <3>. QED BY <1>1, <2>8, <3>1
  <2>. HIDE DEF g, all
  <2>10. IsFiniteSet(1..n) /\ IsFiniteSet(others)
    <3>1. IsFiniteSet(1..n)
      BY FS_Interval
    <3>. QED BY <3>1, FS_RemoveElement
  <2>11. SumFunctionOnSet(all, 1..n) = own + SumFunctionOnSet(all, others)
    <3>1. \A part \in SUBSET (1..n) : \A x \in part :
             SumFunctionOnSet(all, part) = all[x] + SumFunctionOnSet(all, part \ {x})
      BY <2>8, <2>10, SumByAny
    <3>. QED BY <2>9, <3>1
  <2>12. SumFunctionOnSet(g, others) = SumFunctionOnSet(all, others)
    <3>. HIDE DEF others
    <3>1. \A part \in SUBSET others : SumFunctionOnSet(g, part) = SumFunctionOnSet(all, part)
      BY <2>7, <2>10, SumsAgree
    <3>. QED BY <3>1
  <2>13. SumFunctionOnSet(all, 1..n) \in Nat
    BY <2>8, <2>10, SumIsNat
  <2>14. SumFunctionOnSet(z, S) <= SumFunctionOnSet(all, 1..n)
    <3>. DEFINE place == [p \in S |-> p.shard]
    <3>1. place \in [S -> 1..n]
      BY <2>4
    <3>2. \A x, y \in S : place[x] = place[y] => x = y
      <4>1. \A x, y \in S : x.shard = y.shard => x = y
        <5>. SUFFICES ASSUME NEW x \in S, NEW y \in S, x.shard = y.shard PROVE x = y
          OBVIOUS
        <5>1. x = [path EXCEPT !.shard = x.shard] /\ y = [path EXCEPT !.shard = y.shard]
          BY <2>3
        <5>2. [path EXCEPT !.shard = x.shard] = [path EXCEPT !.shard = y.shard]
          OBVIOUS
        <5>. QED BY <5>1, <5>2
      <4>. QED BY <4>1
    <3>3. \A p \in S : z[p] \in Nat /\ z[p] <= all[place[p]]
      <4>. SUFFICES ASSUME NEW p \in S PROVE z[p] \in Nat /\ z[p] <= all[place[p]]
        OBVIOUS
      <4>1. PICK i \in 1..n : i = p.shard
        BY <2>4
      <4>2. p = [path EXCEPT !.shard = i]
        BY <2>3, <4>1
      <4>3. all[i] = SizeOf(files, p) /\ all[i] \in Nat
        BY <2>8, <4>2
      <4>4. z[p] = all[i] /\ place[p] = i
        BY <2>2, <4>1, <4>3
      <4>. QED BY <4>3, <4>4
    <3>. HIDE DEF place
    <3>4. \A x \in S : z[x] \in Nat
      BY <3>3
    <3>5. \A x \in S : z[x] <= all[place[x]]
      BY <3>3
    <3>. QED BY <2>4, <2>8, <2>10, <3>1, <3>2, <3>4, <3>5, SumMoves
  <2>. QED BY <2>2, <2>6, <2>7, <2>11, <2>12, <2>13, <2>14
<1>. QED BY <1>2, <1>3

LEMMA WeightsCover ==
  ASSUME NEW files, RootOK(files), NEW e, IsFiniteSet(e.draft), IsFiniteSet(e.projector),
         NEW f \in FileAt(files, e.path), NEW m \in Metadata({f}), WellFormed(f, files)
  PROVE  /\ HeldWeights(e, files) \in Nat /\ Weights(e, files) \in Nat
         /\ HeldWeights(e, files) <= Weights(e, files)
<1>1. PICK S : S = Shards(e.path, files)
  OBVIOUS
<1>2. PICK D : D = e.draft
  OBVIOUS
<1>3. PICK J : J = e.projector
  OBVIOUS
<1>4. IsFiniteSet(S) /\ IsFiniteSet(D) /\ IsFiniteSet(J)
  BY <1>1, <1>2, <1>3, ShardsAreFinite
<1>. DEFINE z == [p \in S \cup D \cup J |-> SizeOf(files, p)]
            d == [p \in D |-> SizeOf(files, p)]
            j == [p \in J |-> SizeOf(files, p)]
<1>5. HeldWeights(e, files) = SumFunctionOnSet(z, DOMAIN z)
  BY <1>1, <1>2, <1>3 DEF HeldWeights, SumFunction
<1>6. Weights(e, files) = WeightsOf(files, e.path) + SumFunctionOnSet(d, DOMAIN d) + SumFunctionOnSet(j, DOMAIN j)
  BY <1>2, <1>3 DEF Weights, SumFunction
<1>7. /\ DOMAIN z = S \cup D \cup J /\ \A p \in S \cup D \cup J : z[p] = SizeOf(files, p)
      /\ DOMAIN d = D /\ \A p \in D : z[p] = d[p]
      /\ DOMAIN j = J /\ \A p \in J : z[p] = j[p]
  OBVIOUS
<1>. HIDE DEF z, d, j
<1>8. \A p \in S \cup D \cup J : z[p] \in Nat
  BY <1>7, SizeIsNat
<1>9. /\ WeightsOf(files, e.path) \in Nat
      /\ SumFunctionOnSet(z, S) <= WeightsOf(files, e.path)
  BY <1>1, <1>7, ShardsAreWeighed
<1>10. SumFunctionOnSet(z, D) = SumFunctionOnSet(d, D)
  <2>1. \A s \in SUBSET D : SumFunctionOnSet(z, s) = SumFunctionOnSet(d, s)
    BY <1>4, <1>7, SumsAgree
  <2>. QED BY <2>1
<1>11. SumFunctionOnSet(z, J) = SumFunctionOnSet(j, J)
  <2>1. \A s \in SUBSET J : SumFunctionOnSet(z, s) = SumFunctionOnSet(j, s)
    BY <1>4, <1>7, SumsAgree
  <2>. QED BY <2>1
<1>12. PICK SD : SD = S \cup D
  OBVIOUS
<1>13. IsFiniteSet(SD) /\ IsFiniteSet(SD \cup J)
  BY <1>4, <1>12, FS_Union
<1>14. SumFunctionOnSet(z, SD) <= SumFunctionOnSet(z, S) + SumFunctionOnSet(z, D)
  BY <1>4, <1>8, <1>12, SumOfUnion
<1>15. SumFunctionOnSet(z, SD \cup J) <= SumFunctionOnSet(z, SD) + SumFunctionOnSet(z, J)
  BY <1>4, <1>8, <1>12, <1>13, SumOfUnion
<1>16. /\ SumFunctionOnSet(z, SD \cup J) \in Nat /\ SumFunctionOnSet(z, SD) \in Nat
       /\ SumFunctionOnSet(z, S) \in Nat /\ SumFunctionOnSet(z, D) \in Nat /\ SumFunctionOnSet(z, J) \in Nat
  <2>1. \A s \in SUBSET (SD \cup J) : SumFunctionOnSet(z, s) \in Nat
    BY <1>8, <1>12, <1>13, SumIsNat
  <2>. QED BY <1>12, <2>1
<1>17. HeldWeights(e, files) = SumFunctionOnSet(z, SD \cup J)
  BY <1>5, <1>7, <1>12
<1>. QED BY <1>6, <1>7, <1>9, <1>10, <1>11, <1>14, <1>15, <1>16, <1>17

----------------------------------------------------------------------------
(* A derived estimate covers what is held.                                  *)

LEMMA SixteenthsAreNat ==
  ASSUME NEW flags, NEW names
  PROVE  Sixteenths(flags, names) \in Nat
  BY DEF Sixteenths

\* What the first of some names says is what one of them says.
LEMMA FirstIsAny ==
  ASSUME NEW flags, NEW names, DOMAIN names \subseteq 1..4, NEW v \in FirstOf(flags, names)
  PROVE  \E i \in DOMAIN names : names[i] \in DOMAIN flags /\ v = flags[names[i]]
<1>1. PICK S : S = {i \in DOMAIN names : names[i] \in DOMAIN flags}
  OBVIOUS
<1>2. S # {} /\ v = flags[names[Min(S)]]
  BY <1>1 DEF FirstOf, Nothing
<1>3. \A y \in S : y \in Int /\ 1 <= y /\ y <= 4
  BY <1>1
<1>4. \E x \in S : \A y \in S : x <= y
  <2>1. 1 \in S \/ 2 \in S \/ 3 \in S \/ 4 \in S
    <3>1. PICK x \in S : x \in Int /\ 1 <= x /\ x <= 4
      BY <1>2, <1>3
    <3>2. x = 1 \/ x = 2 \/ x = 3 \/ x = 4
      BY <3>1
    <3>. QED BY <3>1, <3>2
  <2>2. CASE 1 \in S
    BY <1>3, <2>2
  <2>3. CASE 1 \notin S /\ 2 \in S
    <3>1. \A y \in S : 2 <= y
      BY <1>3, <2>3
    <3>. QED BY <2>3, <3>1
  <2>4. CASE 1 \notin S /\ 2 \notin S /\ 3 \in S
    <3>1. \A y \in S : 3 <= y
      BY <1>3, <2>4
    <3>. QED BY <2>4, <3>1
  <2>5. CASE 1 \notin S /\ 2 \notin S /\ 3 \notin S /\ 4 \in S
    <3>1. \A y \in S : 4 <= y
      BY <1>3, <2>5
    <3>. QED BY <2>5, <3>1
  <2>. QED BY <2>1, <2>2, <2>3, <2>4, <2>5
<1>5. Min(S) \in S
  BY <1>4, Zenon DEF Min
<1>. QED BY <1>1, <1>2, <1>5

\* A mode that generates no text is the only one without a cache.
LEMMA GeneratingKeepsCache ==
  ASSUME NEW flags, Generates(flags)
  PROVE  ~KeepsNoCache(flags)
<1>1. SUFFICES ASSUME NEW v \in FirstOf(flags, ModeNames) PROVE ~IsOn(v)
  BY DEF KeepsNoCache
<1>2. DOMAIN ModeNames \subseteq 1..4
  BY DEF ModeNames
<1>3. PICK i \in DOMAIN ModeNames : ModeNames[i] \in DOMAIN flags /\ v = flags[ModeNames[i]]
  BY <1>2, FirstIsAny
<1>4. ModeNames[i] \in ToSet(ModeNames) \cap DOMAIN flags
  BY <1>3 DEF ToSet
<1>. QED BY <1>3, <1>4 DEF Generates

\* What is charged nothing keeps nothing.
LEMMA ChargedNothing ==
  ASSUME NEW flags
  PROVE  /\ RunsOnProcessor(flags) => OffTheDevice(flags)
         /\ PredictsTokens(flags) => IsHead(flags)
<1>1. ASSUME RunsOnProcessor(flags) PROVE OffTheDevice(flags)
  <2>1. PICK names : names = <<"n-gpu-layers", "gpu-layers", "ngl">>
    OBVIOUS
  <2>2. "0" \in FirstOf(flags, names)
    BY <1>1, <2>1 DEF RunsOnProcessor
  <2>3. DOMAIN names \subseteq 1..4 /\ \A i \in DOMAIN names : names[i] \in GpuNames
    BY <2>1 DEF GpuNames
  <2>4. PICK i \in DOMAIN names : names[i] \in DOMAIN flags /\ "0" = flags[names[i]]
    BY <2>2, <2>3, FirstIsAny
  <2>. QED BY <2>3, <2>4 DEF OffTheDevice
<1>2. ASSUME PredictsTokens(flags) PROVE IsHead(flags)
  <2>1. PICK names : names = <<"spec-type", "speculative-type">>
    OBVIOUS
  <2>2. PICK v \in {"mtp", "draft-mtp"} : v \in FirstOf(flags, names)
    BY <1>2, <2>1 DEF PredictsTokens
  <2>3. DOMAIN names \subseteq 1..4 /\ \A i \in DOMAIN names : names[i] \in SpecNames
    BY <2>1 DEF SpecNames
  <2>4. PICK i \in DOMAIN names : names[i] \in DOMAIN flags /\ v = flags[names[i]]
    BY <2>2, <2>3, FirstIsAny
  <2>. QED BY <2>3, <2>4 DEF IsHead
<1>. QED BY <1>1, <1>2

\* An element is charged what it holds.
LEMMA TypeIsCharged ==
  ASSUME NEW flags, NEW long, NEW short
  PROVE  ElementHolds(TypeTaken(flags, long, short)) = Sixteenths(flags, <<short, long>>)
<1>1. PICK S : S = {i \in DOMAIN <<short, long>> : <<short, long>>[i] \in DOMAIN flags}
  OBVIOUS
<1>2. FirstOf(flags, <<short, long>>) = IF S = {} THEN Nothing ELSE {flags[<<short, long>>[Min(S)]]}
  BY <1>1 DEF FirstOf
<1>3. /\ 1 \in S <=> short \in DOMAIN flags
      /\ 2 \in S <=> long \in DOMAIN flags
      /\ \A i \in S : i = 1 \/ i = 2
  BY <1>1
<1>4. Or(FirstOf(flags, <<short, long>>), {"f16"}) = {TypeTaken(flags, long, short)}
  <2>1. CASE short \in DOMAIN flags
    <3>1. \E x \in S : \A y \in S : x <= y
      BY <1>3, <2>1
    <3>2. Min(S) \in S /\ \A y \in S : Min(S) <= y
      BY <3>1, Zenon DEF Min
    <3>3. Min(S) = 1
      BY <1>3, <2>1, <3>2
    <3>4. FirstOf(flags, <<short, long>>) = {flags[short]}
      BY <1>2, <1>3, <2>1, <3>3
    <3>. QED BY <2>1, <3>4 DEF TypeTaken, Or, Nothing
  <2>2. CASE short \notin DOMAIN flags /\ long \in DOMAIN flags
    <3>1. \E x \in S : \A y \in S : x <= y
      BY <1>3, <2>2
    <3>2. Min(S) \in S
      BY <3>1, Zenon DEF Min
    <3>3. Min(S) = 2
      BY <1>3, <2>2, <3>2
    <3>4. FirstOf(flags, <<short, long>>) = {flags[long]}
      BY <1>2, <1>3, <2>2, <3>3
    <3>. QED BY <2>2, <3>4 DEF TypeTaken, Or, Nothing
  <2>3. CASE short \notin DOMAIN flags /\ long \notin DOMAIN flags
    <3>1. S = {}
      BY <1>3, <2>3
    <3>. QED BY <1>2, <2>3, <3>1 DEF TypeTaken, Or, Nothing
  <2>. QED BY <2>1, <2>2, <2>3
<1>5. PICK type : type = TypeTaken(flags, long, short)
  OBVIOUS
<1>6. Sixteenths(flags, <<short, long>>) =
        (CASE {type} = {"f32"} -> 64 [] {type} = {"q8_0"} -> 17 [] {type} = {"q4_0"} -> 9 [] OTHER -> 32)
  BY <1>4, <1>5 DEF Sixteenths
<1>7. CASE type = "f32"
  BY <1>5, <1>6, <1>7 DEF ElementHolds
<1>8. CASE type = "q8_0"
  BY <1>5, <1>6, <1>8 DEF ElementHolds
<1>9. CASE type = "q4_0"
  BY <1>5, <1>6, <1>9 DEF ElementHolds
<1>10. CASE type \notin {"f32", "q8_0", "q4_0"}
  BY <1>5, <1>6, <1>10 DEF ElementHolds
<1>. QED BY <1>7, <1>8, <1>9, <1>10

\* What is held of a file that says it, and what was counted.
IsCounted(h, files, path, context, keys, values) ==
  \E f \in FileAt(files, path) : \E m \in Metadata({f}) : \E c \in Nat :
    /\ WellFormed(f, files) /\ FileAt(files, path) = {f} /\ Metadata({f}) = {m}
    /\ CacheBytes(m, context, keys, values) = {c} /\ h <= c

\* Whether a file says what its cache takes is no matter of the context.
LEMMA SaysAnyway ==
  ASSUME NEW m, Says(m), NEW context, NEW keys, NEW values
  PROVE  SaysLengths(m) /\ CacheBytes(m, context, keys, values) # {}
<1>1. SaysLengths(m) /\ CacheBytes(m, 0, 0, 0) # {}
  BY DEF Says, Nothing
<1>2. CachingLayers(m) # {} /\ HeadCount(m) # {} /\ KeyLength(m) # {}
  BY <1>1 DEF CacheBytes, Nothing
<1>3. CacheBytes(m, context, keys, values) =
        IF Pattern(m) # {} /\ Window(m) # {}
        THEN {WindowedCache(m, The(Pattern(m)), The(Window(m)), context, keys, values)}
        ELSE {DenseCache(m, context, keys, values)}
  BY <1>2 DEF CacheBytes, Pattern, Window, Nothing
<1>. QED BY <1>1, <1>3

LEMMA HeldCacheMeans ==
  ASSUME NEW files, RootOK(files), NEW path, NEW context \in Nat, NEW keys \in Nat, NEW values \in Nat,
         NEW keyType, NEW valueType, ElementHolds(keyType) <= keys, ElementHolds(valueType) <= values,
         NEW h \in HeldCache(files, path, context, keyType, valueType)
  PROVE  h \in Nat /\ IsCounted(h, files, path, context, keys, values)
<1>0. PICK f \in FileAt(files, path) :
        /\ WellFormed(f, files)
        /\ \E m \in Metadata({f}) : Says(m) /\ h = Held(m, context, keyType, valueType)
  BY DEF HeldCache
<1>1. PICK m \in Metadata({f}) : Says(m) /\ h = Held(m, context, keyType, valueType)
  BY <1>0
<1>9. SaysLengths(m) /\ CacheBytes(m, context, keys, values) # {}
  BY <1>1, SaysAnyway
<1>2. f \in ToSet(files) /\ FileAt(files, path) = {f} /\ PairsOK(f.pairs)
  BY OneFile
<1>3. Metadata({f}) = {m}
  <2>1. AtMostOne(Metadata({f}))
    BY <1>2, OneFile
  <2>. QED BY <2>1 DEF AtMostOne
<1>4. MetadataOK(m) /\ NumbersBound(m)
  <2>1. OneShape(f.pairs)
    BY <1>0 DEF WellFormed, OneShape
  <2>. QED BY <1>2, <2>1, MetadataMeans
<1>5. LayersComplete(m)
  BY <1>0 DEF WellFormed, LayersComplete
<1>6. PICK c \in CacheBytes(m, context, keys, values) : TRUE
  BY <1>9
<1>7. c \in Nat /\ CacheBytes(m, context, keys, values) = {c}
  BY <1>4, CacheMeans
<1>8. h \in Nat /\ h <= c
  BY <1>1, <1>4, <1>5, <1>9, HeldIsCounted
<1>. QED BY <1>0, <1>1, <1>2, <1>3, <1>7, <1>8 DEF IsCounted

LEMMA CostsAreNat ==
  ASSUME NEW files, RootOK(files), NEW path, NEW context \in Nat, NEW keys \in Nat, NEW values \in Nat
  PROVE  UNION {CacheBytes(m, context, keys, values) : m \in Metadata(FileAt(files, path))} \subseteq Nat
<1>1. \A m \in Metadata(FileAt(files, path)) : CacheBytes(m, context, keys, values) \subseteq Nat
  BY OneFile, CacheMeans
<1>. QED BY <1>1

LEMMA DraftCacheIsNat ==
  ASSUME NEW files, RootOK(files), NEW e, e.context \in Nat
  PROVE  DraftCache(e, files) \in Nat
<1>1. CASE PredictsTokens(e.flags)
  BY <1>1 DEF DraftCache
<1>2. CASE ~PredictsTokens(e.flags)
  <2>1. PICK keys \in Nat : keys = Sixteenths(e.flags, <<"ctkd", "cache-type-k-draft">>)
    BY SixteenthsAreNat
  <2>2. PICK values \in Nat : values = Sixteenths(e.flags, <<"ctvd", "cache-type-v-draft">>)
    BY SixteenthsAreNat
  <2>3. PICK context \in Nat : context = e.context
    OBVIOUS
  <2>. DEFINE costs == UNION {CacheBytes(m, context, keys, values) :
                                m \in UNION {Metadata(FileAt(files, d)) : d \in e.draft}}
  <2>4. DraftCache(e, files) = The(Or(costs, {0}))
    BY <1>2, <2>1, <2>2, <2>3 DEF DraftCache
  <2>5. costs \in SUBSET Nat
    <3>1. \A d \in e.draft : UNION {CacheBytes(m, context, keys, values) : m \in Metadata(FileAt(files, d))} \subseteq Nat
      BY CostsAreNat
    <3>. QED BY <3>1
  <2>. HIDE DEF costs
  <2>6. 0 \in Nat
    OBVIOUS
  <2>7. The(Or(costs, {0})) \in Nat
    BY <2>5, <2>6, FoundOr, Zenon
  <2>. QED BY <2>4, <2>7
<1>. QED BY <1>1, <1>2

LEMMA DraftIsCounted ==
  ASSUME NEW files, RootOK(files), NEW e, NEW context \in Nat, context = e.context, AtMostOne(e.draft),
         NEW h \in DraftHeld(e, files, context)
  PROVE  h \in Nat /\ DraftCache(e, files) \in Nat /\ h <= DraftCache(e, files)
<1>0. DraftCache(e, files) \in Nat
  BY DraftCacheIsNat
<1>1. CASE IsHead(e.flags)
  <2>1. h = 0
    BY <1>1 DEF DraftHeld
  <2>. QED BY <1>0, <2>1
<1>2. CASE ~IsHead(e.flags)
  <2>0. ~PredictsTokens(e.flags)
    BY <1>2, ChargedNothing
  <2>1. PICK keys \in Nat : keys = Sixteenths(e.flags, <<"ctkd", "cache-type-k-draft">>)
    BY SixteenthsAreNat
  <2>2. PICK values \in Nat : values = Sixteenths(e.flags, <<"ctvd", "cache-type-v-draft">>)
    BY SixteenthsAreNat
  <2>3. PICK keyType : keyType = TypeTaken(e.flags, "cache-type-k-draft", "ctkd")
    OBVIOUS
  <2>6. PICK valueType : valueType = TypeTaken(e.flags, "cache-type-v-draft", "ctvd")
    OBVIOUS
  <2>7. ElementHolds(keyType) <= keys /\ ElementHolds(valueType) <= values
    <3>1. ElementHolds(keyType) = keys /\ ElementHolds(valueType) = values
      BY <2>1, <2>2, <2>3, <2>6, TypeIsCharged
    <3>. QED BY <3>1
  <2>. DEFINE costs == UNION {CacheBytes(m, context, keys, values) :
                                m \in UNION {Metadata(FileAt(files, d)) : d \in e.draft}}
              held == UNION {HeldCache(files, d, context, keyType, valueType) : d \in e.draft}
  <2>4. DraftCache(e, files) = The(Or(costs, {0}))
    BY <2>0, <2>1, <2>2 DEF DraftCache
  <2>5. h \in Or(held, {0})
    BY <1>2, <2>3, <2>6 DEF DraftHeld
  <2>8. CASE held = {}
    <3>1. h = 0
      BY <2>5, <2>8 DEF Or, Nothing
    <3>. QED BY <1>0, <3>1
  <2>9. CASE held # {}
    <3>1. h \in held
      BY <2>5, <2>9 DEF Or, Nothing
    <3>2. PICK d \in e.draft : h \in HeldCache(files, d, context, keyType, valueType)
      BY <3>1
    <3>3. e.draft = {d}
      BY <3>2 DEF AtMostOne
    <3>4. PICK f \in FileAt(files, d) : \E m \in Metadata({f}) : \E c \in Nat :
            /\ WellFormed(f, files) /\ FileAt(files, d) = {f} /\ Metadata({f}) = {m}
            /\ CacheBytes(m, context, keys, values) = {c} /\ h <= c
      <4>1. IsCounted(h, files, d, context, keys, values)
        BY <2>7, <3>2, HeldCacheMeans
      <4>. QED BY <4>1 DEF IsCounted
    <3>5. PICK m \in Metadata({f}), c \in Nat :
             /\ FileAt(files, d) = {f} /\ Metadata({f}) = {m}
             /\ CacheBytes(m, context, keys, values) = {c} /\ h <= c
      BY <3>4
    <3>6. h \in Nat
      BY <2>7, <3>2, HeldCacheMeans
    <3>7. costs = {c}
      BY <3>3, <3>5
    <3>8. DraftCache(e, files) = c
      <4>1. The({c}) \in {c}
        BY TheOne
      <4>. QED BY <2>4, <3>7, <4>1 DEF Or, Nothing
    <3>. QED BY <3>5, <3>6, <3>8
  <2>. QED BY <2>8, <2>9
<1>. QED BY <1>1, <1>2

LEMMA RoundedUp ==
  ASSUME NEW a \in Nat, NEW b \in Nat \ {0}
  PROVE  DivCeil(a, b) \in Nat /\ DivCeil(a, b) * b >= a
<1>1. PICK q \in Nat : q = DivCeil(a, b)
  BY DivIsNat DEF DivCeil
<1>2. a + b - 1 = (b * q) + ((a + b - 1) % b) /\ (a + b - 1) % b \in 0..(b - 1)
  <2>1. a + b - 1 \in Nat
    OBVIOUS
  <2>. QED BY <1>1, <2>1, DivIsNat DEF DivCeil
<1>3. b * q = q * b /\ b * q \in Nat
  OBVIOUS
<1>. QED BY <1>1, <1>2, <1>3

\* What an entry needs for its estimate to mean something.
Estimable(e) ==
  /\ e.context \in Nat /\ AtMostOne(e.draft)
  /\ IsFiniteSet(e.draft) /\ IsFiniteSet(e.projector)

\* Some arguments that give no other context than one.
GiveContext(s, context) ==
  IsSequence(s) /\ \A i \in DOMAIN s : s[i].option = <<"ctx-size">> => s[i].value \subseteq {context}

LEMMA ContextsJoin ==
  ASSUME NEW s, NEW t, NEW context, GiveContext(s, context), GiveContext(t, context)
  PROVE  GiveContext(s \o t, context)
<1>1. PICK A, B : s \in Seq(A) /\ t \in Seq(B)
  BY DEF GiveContext, IsSequence
<1>2. PICK C : C = A \cup B
  OBVIOUS
<1>3. s \in Seq(C) /\ t \in Seq(C)
  BY <1>1, <1>2
<1>4. PICK n \in Nat, k \in Nat : n = Len(s) /\ k = Len(t)
  BY <1>3
<1>5. PICK u : u = s \o t
  OBVIOUS
<1>6. /\ u \in Seq(C) /\ DOMAIN u = 1..(n + k)
      /\ \A i \in 1..(n + k) : u[i] = IF i <= n THEN s[i] ELSE t[i - n]
  BY <1>3, <1>4, <1>5
<1>7. DOMAIN s = 1..n /\ DOMAIN t = 1..k
  BY <1>3, <1>4
<1>8. ASSUME NEW i \in DOMAIN u PROVE u[i].option = <<"ctx-size">> => u[i].value \subseteq {context}
  <2>1. CASE i <= n
    <3>1. i \in DOMAIN s /\ u[i] = s[i]
      BY <1>6, <1>7, <2>1
    <3>. QED BY <3>1 DEF GiveContext
  <2>2. CASE ~(i <= n)
    <3>1. i - n \in DOMAIN t /\ u[i] = t[i - n]
      BY <1>6, <1>7, <2>2
    <3>. QED BY <3>1 DEF GiveContext
  <2>. QED BY <2>1, <2>2
<1>9. IsSequence(u)
  BY <1>6 DEF IsSequence
<1>. QED BY <1>5, <1>8, <1>9 DEF GiveContext

LEMMA ShortContexts ==
  ASSUME NEW context
  PROVE  /\ GiveContext(<< >>, context)
         /\ GiveContext(<<ByRouter(<<"ctx-size">>, {context})>>, context)
         /\ \A option, value : option # <<"ctx-size">> => GiveContext(<<ByRouter(option, value)>>, context)
<1>1. GiveContext(<< >>, context)
  <2>1. DOMAIN << >> = {}
    OBVIOUS
  <2>. QED BY <2>1, ShortSequences, Zenon DEF GiveContext
<1>2. ASSUME NEW x, x.option = <<"ctx-size">> => x.value \subseteq {context} PROVE GiveContext(<<x>>, context)
  <2>1. \A i \in DOMAIN <<x>> : <<x>>[i] = x
    OBVIOUS
  <2>. QED BY <1>2, <2>1, ShortSequences, Zenon DEF GiveContext
<1>3. \A option, value : ByRouter(option, value).option = option /\ ByRouter(option, value).value = value
  BY DEF ByRouter
<1>. QED BY <1>1, <1>2, <1>3

\* The arguments of the router's own give the context of the entry and no other.
LEMMA ContextIsGiven ==
  ASSUME NEW e, IsFiniteSet(DOMAIN e.flags)
  PROVE  GiveContext(Invocation(e), e.context)
<1>. DEFINE a == <<ByRouter(<<"model">>, {e.path})>>
            b == IF e.draft = Nothing THEN << >> ELSE <<ByRouter(<<"model-draft">>, e.draft)>>
            c == IF e.projector = Nothing THEN << >> ELSE <<ByRouter(<<"mmproj">>, e.projector)>>
            d == <<ByRouter(<<"ctx-size">>, {e.context})>>
            f == IF e.format = Nothing THEN << >> ELSE <<ByRouter(<<"reasoning-format">>, e.format)>>
            g == IF e.effort = Nothing THEN << >> ELSE <<ByRouter(<<"reasoning-effort">>, e.effort)>>
            x == <<ByRouter(<<"alias">>, {e.id})>>
            y == <<ByRouter(<<"host">>, {"127.0.0.1"})>>
            z == <<ByRouter(<<"port">>, {"probed"})>>
            Gives(s) == GiveContext(s, e.context)
<1>1. ModelArguments(e) = a \o b \o c \o d \o f \o g
  BY Zenon DEF ModelArguments
<1>2. OwnArguments(e) = x \o y \o z
  BY DEF OwnArguments
<1>3. \A option \in {<<"model">>, <<"model-draft">>, <<"mmproj">>, <<"reasoning-format">>, <<"reasoning-effort">>,
                     <<"alias">>, <<"host">>, <<"port">>} : option # <<"ctx-size">>
  OBVIOUS
<1>4. \A option \in {<<"model">>, <<"model-draft">>, <<"mmproj">>, <<"reasoning-format">>, <<"reasoning-effort">>,
                     <<"alias">>, <<"host">>, <<"port">>} : \A value : Gives(<<ByRouter(option, value)>>)
  BY <1>3, ShortContexts
<1>5. Gives(<< >>) /\ Gives(d)
  BY ShortContexts
<1>6. Gives(a) /\ Gives(b) /\ Gives(c) /\ Gives(f) /\ Gives(g) /\ Gives(x) /\ Gives(y) /\ Gives(z)
  <2>. HIDE DEF Gives
  <2>1. Gives(a) /\ Gives(x) /\ Gives(y) /\ Gives(z)
    BY <1>4, Zenon
  <2>2. Gives(b)
    BY <1>4, <1>5, Zenon
  <2>3. Gives(c)
    BY <1>4, <1>5, Zenon
  <2>4. Gives(f)
    BY <1>4, <1>5, Zenon
  <2>5. Gives(g)
    BY <1>4, <1>5, Zenon
  <2>. QED BY <2>1, <2>2, <2>3, <2>4, <2>5
<1>7. Gives(FlagArguments(e))
  <2>1. IsSequence(FlagArguments(e))
    BY FlagArgumentsAreASequence
  <2>2. \A i \in DOMAIN FlagArguments(e) : FlagArguments(e)[i].value = {}
    <3>1. \A key, value : OptionOf(key, value).value = {}
      BY DEF OptionOf, ByFlags, Nothing
    <3>. QED BY <3>1 DEF FlagArguments
  <2>. QED BY <2>1, <2>2 DEF GiveContext
<1>8. \A s, t : Gives(s) /\ Gives(t) => Gives(s \o t)
  BY ContextsJoin
<1>. HIDE DEF a, b, c, d, f, g, x, y, z, Gives
<1>9. Gives(a \o b) /\ Gives(x \o y)
  BY <1>6, <1>8, Zenon
<1>10. Gives(a \o b \o c) /\ Gives(x \o y \o z)
  BY <1>6, <1>8, <1>9, Zenon
<1>11. Gives(a \o b \o c \o d)
  BY <1>5, <1>8, <1>10, Zenon
<1>12. Gives(a \o b \o c \o d \o f)
  BY <1>6, <1>8, <1>11, Zenon
<1>13. Gives(ModelArguments(e)) /\ Gives(OwnArguments(e))
  BY <1>1, <1>2, <1>6, <1>8, <1>10, <1>12, Zenon
<1>14. Gives(ModelArguments(e) \o FlagArguments(e))
  BY <1>7, <1>8, <1>13, Zenon
<1>15. Gives(Invocation(e))
  BY <1>8, <1>13, <1>14, Zenon DEF Invocation
<1>. QED BY <1>15 DEF Gives

LEMMA ContextTakenMeans ==
  ASSUME NEW e, IsFiniteSet(DOMAIN e.flags), NEW context \in ContextTaken(e)
  PROVE  context = e.context
<1>1. PICK all : all = Invocation(e)
  OBVIOUS
<1>2. PICK i \in DOMAIN all : all[i].option = <<"ctx-size">> /\ context \in all[i].value
  BY <1>1 DEF ContextTaken
<1>3. GiveContext(all, e.context)
  BY <1>1, ContextIsGiven
<1>. QED BY <1>2, <1>3 DEF GiveContext

LEMMA DeriveCovers ==
  ASSUME NEW files, RootOK(files), NEW e, Estimable(e), IsFiniteSet(DOMAIN e.flags),
         NEW d \in Derive(e, files), e.estimate = d.mib
  PROVE  Covers(e, files)
<1>0. e.context \in Nat /\ AtMostOne(e.draft) /\ IsFiniteSet(e.draft) /\ IsFiniteSet(e.projector)
  BY DEF Estimable
<1>. SUFFICES ASSUME e.estimate < MaxU32, NEW context \in ContextTaken(e),
                     NEW cache \in ModelHeld(e, files, context), NEW draft \in DraftHeld(e, files, context)
              PROVE  e.estimate * Mib >= HeldBy(e, files, cache, draft)
  BY DEF Covers
<1>21. context = e.context
  BY ContextTakenMeans
<1>22. PICK keyType : keyType = TypeTaken(e.flags, "cache-type-k", "ctk")
  OBVIOUS
<1>23. PICK valueType : valueType = TypeTaken(e.flags, "cache-type-v", "ctv")
  OBVIOUS
<1>1. PICK keys \in Nat : keys = Sixteenths(e.flags, <<"ctk", "cache-type-k">>)
  BY SixteenthsAreNat
<1>2. PICK values \in Nat : values = Sixteenths(e.flags, <<"ctv", "cache-type-v">>)
  BY SixteenthsAreNat
<1>3. cache \in HeldCache(files, e.path, e.context, keyType, valueType)
  BY <1>21, <1>22, <1>23 DEF ModelHeld
<1>24. ElementHolds(keyType) = keys /\ ElementHolds(valueType) = values
  BY <1>1, <1>2, <1>22, <1>23, TypeIsCharged
<1>25. ElementHolds(keyType) <= keys /\ ElementHolds(valueType) <= values
  BY <1>24
<1>4. cache \in Nat /\ IsCounted(cache, files, e.path, e.context, keys, values)
  BY <1>0, <1>3, <1>25, HeldCacheMeans
<1>5. PICK f \in FileAt(files, e.path) : \E m \in Metadata({f}) : \E c \in Nat :
        /\ WellFormed(f, files) /\ FileAt(files, e.path) = {f} /\ Metadata({f}) = {m}
        /\ CacheBytes(m, e.context, keys, values) = {c} /\ cache <= c
  BY <1>4 DEF IsCounted
<1>6. PICK m \in Metadata({f}), c \in Nat :
        /\ WellFormed(f, files) /\ FileAt(files, e.path) = {f} /\ Metadata({f}) = {m}
        /\ CacheBytes(m, e.context, keys, values) = {c} /\ cache <= c
  BY <1>5
<1>7. ModelCache(e, files) = {c}
  <2>1. ModelCache(e, files) =
          UNION {CacheBytes(k, e.context, keys, values) : k \in Metadata(FileAt(files, e.path))}
    BY <1>1, <1>2 DEF ModelCache
  <2>. QED BY <1>6, <2>1
<1>8. The(ModelCache(e, files)) = c /\ ModelCache(e, files) # {}
  BY <1>7, TheOne
<1>9. PICK held \in Nat : held = HeldWeights(e, files) /\ held <= Weights(e, files)
  BY <1>0, <1>6, WeightsCover
<1>10. PICK loaded \in Nat : loaded = Weights(e, files)
  BY <1>0, <1>6, WeightsCover
<1>11. PICK other \in Nat : other = DraftCache(e, files) /\ draft <= other /\ draft \in Nat
  BY <1>0, <1>21, DraftIsCounted
<1>. DEFINE onProcessor == RunsOnProcessor(e.flags)
            weights == IF onProcessor THEN 0 ELSE loaded
            second == IF onProcessor THEN 0 ELSE other
            model == IF KeepsNoCache(e.flags) \/ onProcessor THEN 0 ELSE c
            bytes == weights + model + second + ((weights * 5) \div 100) + Overhead
<1>12. d.mib = Min({DivCeil(bytes, Mib), MaxU32})
  BY <1>6, <1>8, <1>10, <1>11 DEF Derive, Charged, Nothing
<1>13. weights \in Nat /\ second \in Nat /\ model \in Nat /\ (weights * 5) \div 100 \in Nat
  OBVIOUS
<1>14. Overhead \in Nat /\ Mib \in Nat \ {0} /\ MaxU32 \in Nat
  BY UnitsAssumption
<1>15. bytes \in Nat
  <2>. HIDE DEF weights, second, model
  <2>. QED BY <1>13, <1>14
<1>16. PICK q \in Nat : q = DivCeil(bytes, Mib) /\ q * Mib >= bytes
  <2>. HIDE DEF bytes
  <2>. QED BY <1>14, <1>15, RoundedUp
<1>17. e.estimate = q
  <2>1. e.estimate = Min({q, MaxU32})
    BY <1>12, <1>16
  <2>2. Min({q, MaxU32}) \in {q, MaxU32}
    BY <1>14, MinOfTwo
  <2>. QED BY <1>14, <2>1, <2>2
<1>18. bytes >= weights + model + second + Overhead
  <2>. HIDE DEF weights, second, model
  <2>1. PICK slack \in Nat : slack = (weights * 5) \div 100
    BY <1>13
  <2>. QED BY <1>13, <1>14, <2>1
<1>19. CASE OffTheDevice(e.flags)
  <2>1. bytes >= Overhead
    <3>. HIDE DEF weights, second, model, bytes
    <3>. QED BY <1>13, <1>14, <1>15, <1>18
  <2>. HIDE DEF bytes
  <2>2. HeldBy(e, files, cache, draft) = Overhead
    BY <1>14, <1>19 DEF HeldBy
  <2>. QED BY <1>14, <1>15, <1>16, <1>17, <2>1, <2>2
<1>26. CASE ~OffTheDevice(e.flags)
  <2>6. ~onProcessor
    BY <1>26, ChargedNothing
  <2>1. weights >= held /\ second >= draft
    BY <1>9, <1>10, <1>11, <2>6
  <2>2. Generates(e.flags) => model >= cache
    <3>1. Generates(e.flags) => ~KeepsNoCache(e.flags)
      BY GeneratingKeepsCache
    <3>. QED BY <1>4, <1>6, <2>6, <3>1
  <2>3. PICK kept \in Nat : kept = IF Generates(e.flags) THEN cache ELSE 0
    BY <1>4
  <2>4. model >= kept
    <3>. HIDE DEF model
    <3>. QED BY <1>4, <1>13, <2>2, <2>3
  <2>5. bytes >= Overhead + (held + draft + kept)
    <3>. HIDE DEF weights, second, model, bytes
    <3>. QED BY <1>11, <1>13, <1>14, <1>15, <1>18, <2>1, <2>3, <2>4
  <2>. HIDE DEF bytes
  <2>7. HeldBy(e, files, cache, draft) = Overhead + (held + draft + kept)
    BY <1>9, <1>26, <2>3 DEF HeldBy
  <2>. QED BY <1>9, <1>11, <1>14, <1>15, <1>16, <1>17, <2>3, <2>5, <2>7
<1>. QED BY <1>19, <1>26

\* An estimate is derived without looking at the one there is.
LEMMA DeriveIgnores ==
  ASSUME NEW files, NEW e, NEW o, e.flags = o.flags, e.path = o.path, e.draft = o.draft,
         e.projector = o.projector, e.context = o.context
  PROVE  Derive(e, files) = Derive(o, files)
<1>1. Weights(e, files) = Weights(o, files)
  BY DEF Weights
<1>2. DraftCache(e, files) = DraftCache(o, files)
  BY DEF DraftCache
<1>3. ModelCache(e, files) = ModelCache(o, files)
  BY DEF ModelCache
<1>. QED BY <1>1, <1>2, <1>3 DEF Derive

LEMMA PositiveMeans ==
  ASSUME NEW table, NEW field \in Numbers
  PROVE  Optional(table, field) \subseteq Nat \ {0}
<1>1. \A v : AsPositive(v) \subseteq Nat \ {0}
  BY UnitsAssumption DEF AsPositive, Nothing
<1>2. \A v : Converted(field, v) = AsPositive(v)
  BY DEF Converted, Numbers, Words, Places
<1>. QED BY <1>1, <1>2 DEF Optional, Nothing

LEMMA PlaceMeans ==
  ASSUME NEW table, NEW field \in Places
  PROVE  AtMostOne(Optional(table, field)) /\ IsFiniteSet(Optional(table, field))
<1>1. \A v : Converted(field, v) = AsLocation(v)
  BY DEF Converted, Places, Numbers, Words
<1>2. Optional(table, field) = {} \/ \E x : Optional(table, field) = {x}
  BY <1>1 DEF Optional, AsLocation, Nothing
<1>3. IsFiniteSet(Optional(table, field))
  BY <1>2, FS_EmptySet, FS_Singleton
<1>. QED BY <1>2, <1>3 DEF AtMostOne

LEMMA DraftsAreEstimable ==
  ASSUME NEW t, NEW e \in DraftEntries(t)
  PROVE  Estimable(e) /\ \A n : [e EXCEPT !.estimate = n].estimate = n /\ [e EXCEPT !.estimate = n].context = e.context
<1>1. PICK id, v : e \in EntryOf(id, v, Defaults(t))
  BY DEF DraftEntries
<1>2. PICK p, r, m, f, x, u, k, w :
        EntryOf(id, v, Defaults(t)) =
          {[id |-> id, path |-> p, draft |-> Optional(v.of, "draft_path"),
            projector |-> Optional(v.of, "projector_path"),
            context |-> The(Inherited(v.of, Defaults(t), "context_size")), resident |-> r,
            estimate |-> m, format |-> f, effort |-> x, runtime |-> u, timeout |-> k, flags |-> w]}
  BY <1>1, Zenon DEF EntryOf, Nothing
<1>3. /\ e.draft = Optional(v.of, "draft_path") /\ e.projector = Optional(v.of, "projector_path")
      /\ e.context = The(Inherited(v.of, Defaults(t), "context_size"))
      /\ \A n : [e EXCEPT !.estimate = n].estimate = n /\ [e EXCEPT !.estimate = n].context = e.context
  BY <1>1, <1>2
<1>4. Inherited(v.of, Defaults(t), "context_size") # {}
  BY <1>1, EntryOfMeans
<1>5. Inherited(v.of, Defaults(t), "context_size") \subseteq Nat
  <2>1. Optional(v.of, "context_size") \subseteq Nat /\ Optional(Defaults(t), "context_size") \subseteq Nat
    BY PositiveMeans DEF Numbers
  <2>. QED BY <2>1 DEF Inherited, Or
<1>6. e.context \in Nat
  BY <1>3, <1>4, <1>5, TheOne
<1>7. /\ AtMostOne(e.draft) /\ IsFiniteSet(e.draft) /\ IsFiniteSet(e.projector)
  BY <1>3, PlaceMeans DEF Places
<1>. QED BY <1>3, <1>6, <1>7 DEF Estimable

LEMMA DiscoveredIsEstimable ==
  ASSUME NEW id, NEW f, RootOK(root), NEW e \in DiscoveredEntry(id, f)
  PROVE  Estimable(e) /\ \E d \in Derive(e, root) : e.estimate = d.mib
<1>. DEFINE defaults == Defaults(text)
            trained == TrainedFor(f)
            wanted == The(Or(Optional(defaults, "context_size"), Or(trained, {Fallback})))
            bare == [id |-> id, path |-> f.path, draft |-> Nothing, projector |-> Nothing,
                     context |-> Min({wanted} \cup trained), resident |-> FALSE, estimate |-> 0,
                     format |-> Optional(defaults, "reasoning_format"),
                     effort |-> Optional(defaults, "reasoning_effort"), runtime |-> Nothing,
                     timeout |-> The(Or(Optional(defaults, "startup_timeout_seconds"), {DefaultTimeout})),
                     flags |-> Flags(defaults)]
<1>1. DiscoveredEntry(id, f) = {[bare EXCEPT !.estimate = d.mib] : d \in Derive(bare, root)}
  BY Zenon DEF DiscoveredEntry
<1>2. PICK d \in Derive(bare, root) : e = [bare EXCEPT !.estimate = d.mib]
  <2>. HIDE DEF bare
  <2>. QED BY <1>1
<1>3. AtMostOne(trained) /\ trained \subseteq Nat
  <2>1. \A m \in Metadata(FileAt(root, f.path)) :
           OfModel(m, "context_length") \subseteq Nat /\ AtMostOne(OfModel(m, "context_length"))
    BY OneFile DEF MetadataOK
  <2>2. AtMostOne(Metadata(FileAt(root, f.path)))
    BY OneFile
  <2>. QED BY <2>1, <2>2 DEF TrainedFor, AtMostOne
<1>4. wanted \in Nat
  <2>1. Optional(defaults, "context_size") \subseteq Nat
    BY PositiveMeans DEF Numbers
  <2>2. Fallback \in Nat
    BY DefaultsAssumption
  <2>. HIDE DEF trained, defaults
  <2>3. Or(trained, {Fallback}) \subseteq Nat /\ Or(trained, {Fallback}) # {}
    BY <1>3, <2>2 DEF Or, Nothing
  <2>4. Or(Optional(defaults, "context_size"), Or(trained, {Fallback})) \subseteq Nat
    BY <2>1, <2>3 DEF Or
  <2>5. Or(Optional(defaults, "context_size"), Or(trained, {Fallback})) # {}
    BY <2>3 DEF Or, Nothing
  <2>. QED BY <2>4, <2>5, TheOne
<1>5. Min({wanted} \cup trained) \in Nat
  <2>. HIDE DEF wanted, trained
  <2>1. CASE trained = {}
    <3>1. {wanted} \cup trained = {wanted, wanted}
      BY <2>1
    <3>. QED BY <1>4, <3>1, MinOfTwo
  <2>2. CASE trained # {}
    <3>1. PICK x \in Nat : trained = {x}
      BY <1>3, <2>2 DEF AtMostOne
    <3>2. {wanted} \cup trained = {wanted, x}
      BY <3>1
    <3>. QED BY <1>4, <3>2, MinOfTwo
  <2>. QED BY <2>1, <2>2
<1>6. /\ bare.flags = e.flags /\ bare.path = e.path /\ bare.draft = e.draft
      /\ bare.projector = e.projector /\ bare.context = e.context
      /\ e.estimate = d.mib /\ e.draft = {} /\ e.projector = {} /\ e.context = Min({wanted} \cup trained)
  <2>. HIDE DEF wanted, trained, defaults
  <2>. QED BY <1>2 DEF Nothing
<1>7. Derive(bare, root) = Derive(e, root)
  <2>. HIDE DEF bare
  <2>. QED BY <1>6, DeriveIgnores
<1>8. Estimable(e)
  <2>. HIDE DEF wanted, trained, bare
  <2>. QED BY <1>5, <1>6, FS_EmptySet DEF Estimable, AtMostOne
<1>. HIDE DEF bare
<1>. QED BY <1>2, <1>6, <1>7, <1>8

----------------------------------------------------------------------------
(* Files that vanish take nothing away from what is covered.                *)

\* What is left of a root when a file a discovery could look at is removed.
Fewer(after, files) ==
  /\ RootOK(files) /\ RootOK(after) /\ ToSet(after) \subseteq ToSet(files)
  /\ \A f \in ToSet(files) \ ToSet(after) : IsModel(f.path)

LEMMA ShardsStay ==
  ASSUME NEW after, NEW files, Fewer(after, files), NEW path
  PROVE  /\ Shards(path, after) \subseteq Shards(path, files)
         /\ path.shard # 0 => \A p \in Shards(path, files) \ Shards(path, after) : p.shard = 1
<1>1. CASE path.shard = 0
  BY <1>1 DEF Shards
<1>2. CASE path.shard # 0
  <2>. DEFINE Is(g) == g.path.shard # 0 /\ [g.path EXCEPT !.shard = 1] = [path EXCEPT !.shard = 1]
  <2>1. /\ Shards(path, after) = {g.path : g \in {k \in ToSet(after) : Is(k)}}
        /\ Shards(path, files) = {g.path : g \in {k \in ToSet(files) : Is(k)}}
    BY <1>2 DEF Shards
  <2>2. \A g : Is(g) => g.path.shard # 0
    OBVIOUS
  <2>. HIDE DEF Is
  <2>3. Shards(path, after) \subseteq Shards(path, files)
    BY <2>1 DEF Fewer
  <2>4. ASSUME NEW p \in Shards(path, files) \ Shards(path, after) PROVE p.shard = 1
    <3>1. PICK g \in ToSet(files) : Is(g) /\ p = g.path
      BY <2>1
    <3>2. g \notin ToSet(after)
      BY <2>1, <3>1
    <3>3. IsModel(p)
      BY <3>1, <3>2 DEF Fewer
    <3>. QED BY <2>2, <3>1, <3>3 DEF IsModel
  <2>. QED BY <2>3, <2>4
<1>. QED BY <1>1, <1>2

LEMMA WellFormedStays ==
  ASSUME NEW after, NEW files, Fewer(after, files), NEW f \in ToSet(after), WellFormed(f, after)
  PROVE  WellFormed(f, files)
<1>1. ASSUME NEW m \in Metadata({f}), f.path.shard # 0, NEW path \in Shards(f.path, files)
      PROVE  \E n \in SplitCount(m) : path.shard \in 1..n
  <2>0. \A p \in Shards(f.path, after) : \E n \in SplitCount(m) : p.shard \in 1..n
    BY <1>1 DEF WellFormed
  <2>1. CASE path \in Shards(f.path, after)
    BY <2>0, <2>1
  <2>2. CASE path \notin Shards(f.path, after)
    <3>1. path.shard = 1
      BY <1>1, <2>2, ShardsStay
    <3>2. f.path \in Shards(f.path, after)
      BY <1>1, ShardsMean DEF Fewer
    <3>3. PICK n \in SplitCount(m) : f.path.shard \in 1..n
      BY <2>0, <3>2
    <3>4. n \in Nat
      <4>1. f \in ToSet(after) /\ PairsOK(f.pairs)
        BY DEF Fewer, RootOK, PairsOK
      <4>2. MetadataOK(m)
        BY <4>1, MetadataMeans
      <4>. QED BY <4>2 DEF MetadataOK
    <3>5. 1 \in 1..n
      BY <3>3, <3>4
    <3>. QED BY <3>1, <3>5
  <2>. QED BY <2>1, <2>2
<1>. QED BY <1>1 DEF WellFormed

LEMMA HeldCacheStays ==
  ASSUME NEW after, NEW files, Fewer(after, files), NEW path, NEW context, NEW keyType, NEW valueType
  PROVE  HeldCache(after, path, context, keyType, valueType) \subseteq HeldCache(files, path, context, keyType, valueType)
<1>1. {g \in FileAt(after, path) : WellFormed(g, after)} \subseteq {g \in FileAt(files, path) : WellFormed(g, files)}
  BY WellFormedStays DEF FileAt, Fewer
<1>2. PICK A, B : /\ A = {g \in FileAt(after, path) : WellFormed(g, after)}
                  /\ B = {g \in FileAt(files, path) : WellFormed(g, files)} /\ A \subseteq B
  BY <1>1
<1>3. /\ HeldCache(after, path, context, keyType, valueType) =
           {Held(m, context, keyType, valueType) : m \in {k \in UNION {Metadata({f}) : f \in A} : Says(k)}}
      /\ HeldCache(files, path, context, keyType, valueType) =
           {Held(m, context, keyType, valueType) : m \in {k \in UNION {Metadata({f}) : f \in B} : Says(k)}}
  BY <1>2 DEF HeldCache
<1>. QED BY <1>2, <1>3

LEMMA SizeStays ==
  ASSUME NEW after, NEW files, Fewer(after, files), NEW path
  PROVE  SizeOf(after, path) <= SizeOf(files, path)
<1>0. RootOK(files) /\ RootOK(after) /\ FileAt(after, path) \subseteq FileAt(files, path)
  BY DEF Fewer, FileAt
<1>1. SizeOf(files, path) \in Nat
  BY <1>0, SizeIsNat
<1>2. CASE FileAt(after, path) = {}
  <2>1. {f.length : f \in FileAt(after, path)} = {}
    BY <1>2
  <2>2. SizeOf(after, path) = The({0})
    BY <2>1 DEF SizeOf, Or, Nothing
  <2>3. The({0}) = 0
    BY TheOne
  <2>. QED BY <1>1, <2>2, <2>3
<1>3. CASE FileAt(after, path) # {}
  <2>1. PICK f \in FileAt(after, path) : TRUE
    BY <1>3
  <2>2. FileAt(after, path) = {f} /\ FileAt(files, path) = {f}
    BY <1>0, OneFile
  <2>3. SizeOf(after, path) = SizeOf(files, path)
    BY <2>2 DEF SizeOf
  <2>. QED BY <1>1, <2>3
<1>. QED BY <1>2, <1>3

LEMMA HeldWeightsStay ==
  ASSUME NEW after, NEW files, Fewer(after, files), NEW e, IsFiniteSet(e.draft), IsFiniteSet(e.projector)
  PROVE  /\ HeldWeights(e, after) \in Nat /\ HeldWeights(e, files) \in Nat
         /\ HeldWeights(e, after) <= HeldWeights(e, files)
<1>0. RootOK(files) /\ RootOK(after)
  BY DEF Fewer
<1>1. PICK S : S = Shards(e.path, after) \cup e.draft \cup e.projector
  OBVIOUS
<1>2. PICK T : T = Shards(e.path, files) \cup e.draft \cup e.projector
  OBVIOUS
<1>3. S \subseteq T
  BY <1>1, <1>2, ShardsStay
<1>4. IsFiniteSet(S) /\ IsFiniteSet(T)
  <2>1. IsFiniteSet(Shards(e.path, after)) /\ IsFiniteSet(Shards(e.path, files))
    BY <1>0, ShardsAreFinite
  <2>2. IsFiniteSet(Shards(e.path, after) \cup e.draft) /\ IsFiniteSet(Shards(e.path, files) \cup e.draft)
    BY <2>1, FS_Union
  <2>. QED BY <1>1, <1>2, <2>2, FS_Union
<1>. DEFINE y == [p \in S |-> SizeOf(after, p)]
            z == [p \in T |-> SizeOf(files, p)]
            same == [p \in S |-> p]
<1>5. HeldWeights(e, after) = SumFunctionOnSet(y, DOMAIN y) /\ HeldWeights(e, files) = SumFunctionOnSet(z, DOMAIN z)
  BY <1>1, <1>2 DEF HeldWeights, SumFunction
<1>6. DOMAIN y = S /\ DOMAIN z = T
  OBVIOUS
<1>7. (\A p \in S : y[p] \in Nat) /\ (\A p \in T : z[p] \in Nat)
  BY <1>0, SizeIsNat
<1>8. same \in [S -> T] /\ \A a, b \in S : same[a] = same[b] => a = b
  BY <1>3
<1>9. \A p \in S : y[p] <= z[same[p]]
  BY <1>3, SizeStays
<1>. HIDE DEF y, z, same
<1>10. SumFunctionOnSet(y, S) <= SumFunctionOnSet(z, T)
  BY <1>4, <1>7, <1>8, <1>9, SumMoves
<1>11. SumFunctionOnSet(y, S) \in Nat /\ SumFunctionOnSet(z, T) \in Nat
  BY <1>4, <1>7, SumIsNat
<1>. QED BY <1>5, <1>6, <1>10, <1>11

LEMMA WeightsAreNat ==
  ASSUME NEW files, RootOK(files), NEW e, IsFiniteSet(e.draft), IsFiniteSet(e.projector)
  PROVE  Weights(e, files) \in Nat
<1>1. PICK path : path = e.path
  OBVIOUS
<1>2. PICK n \in Nat : n = The(Or(UNION {SplitCount(m) : m \in Metadata(FileAt(files, path))}, {1}))
  <2>. DEFINE counts == UNION {SplitCount(m) : m \in Metadata(FileAt(files, path))}
  <2>1. counts \in SUBSET Nat
    BY OneFile DEF MetadataOK
  <2>. HIDE DEF counts
  <2>2. 1 \in Nat
    OBVIOUS
  <2>3. The(Or(counts, {1})) \in Nat
    BY <2>1, <2>2, FoundOr, Zenon
  <2>. QED BY <2>3 DEF counts
<1>3. PICK others : others = (IF path.shard = 0 THEN {} ELSE (1..n) \ {path.shard})
  OBVIOUS
<1>4. IsFiniteSet(others)
  <2>1. IsFiniteSet(1..n)
    BY FS_Interval
  <2>2. others \subseteq 1..n
    BY <1>3
  <2>. QED BY <2>1, <2>2, FS_Subset
<1>. DEFINE g == [i \in others |-> SizeOf(files, [path EXCEPT !.shard = i])]
            d == [p \in e.draft |-> SizeOf(files, p)]
            j == [p \in e.projector |-> SizeOf(files, p)]
<1>5. Weights(e, files) = SizeOf(files, path) + SumFunctionOnSet(g, DOMAIN g)
                          + SumFunctionOnSet(d, DOMAIN d) + SumFunctionOnSet(j, DOMAIN j)
  BY <1>1, <1>2, <1>3 DEF Weights, WeightsOf, SumFunction
<1>6. /\ DOMAIN g = others /\ \A i \in others : g[i] \in Nat
      /\ DOMAIN d = e.draft /\ \A p \in e.draft : d[p] \in Nat
      /\ DOMAIN j = e.projector /\ \A p \in e.projector : j[p] \in Nat
  BY SizeIsNat
<1>. HIDE DEF g, d, j
<1>7. SumFunctionOnSet(g, DOMAIN g) \in Nat
  BY <1>4, <1>6, SumIsNat
<1>8. SumFunctionOnSet(d, DOMAIN d) \in Nat
  BY <1>6, SumIsNat
<1>9. SumFunctionOnSet(j, DOMAIN j) \in Nat
  BY <1>6, SumIsNat
<1>10. SizeOf(files, path) \in Nat
  BY SizeIsNat
<1>. QED BY <1>5, <1>7, <1>8, <1>9, <1>10

LEMMA DerivedIsNat ==
  ASSUME NEW files, RootOK(files), NEW e, Estimable(e), NEW d \in Derive(e, files)
  PROVE  d.mib \in Nat
<1>0. e.context \in Nat /\ AtMostOne(e.draft) /\ IsFiniteSet(e.draft) /\ IsFiniteSet(e.projector)
  BY DEF Estimable
<1>1. PICK loaded \in Nat : loaded = Weights(e, files)
  BY <1>0, WeightsAreNat
<1>2. PICK other \in Nat : other = DraftCache(e, files)
  BY <1>0, DraftCacheIsNat
<1>3. PICK costs \in SUBSET Nat : costs = ModelCache(e, files)
  <2>1. PICK keys \in Nat : keys = Sixteenths(e.flags, <<"ctk", "cache-type-k">>)
    BY SixteenthsAreNat
  <2>2. PICK values \in Nat : values = Sixteenths(e.flags, <<"ctv", "cache-type-v">>)
    BY SixteenthsAreNat
  <2>3. ModelCache(e, files) =
          UNION {CacheBytes(m, e.context, keys, values) : m \in Metadata(FileAt(files, e.path))}
    BY <2>1, <2>2 DEF ModelCache
  <2>4. PICK context \in Nat : context = e.context
    BY <1>0
  <2>5. UNION {CacheBytes(m, context, keys, values) : m \in Metadata(FileAt(files, e.path))} \subseteq Nat
    BY CostsAreNat
  <2>. QED BY <2>3, <2>4, <2>5
<1>. DEFINE onProcessor == RunsOnProcessor(e.flags)
            weights == IF onProcessor THEN 0 ELSE loaded
            second == IF onProcessor THEN 0 ELSE other
            model == IF KeepsNoCache(e.flags) \/ onProcessor THEN 0 ELSE The(costs)
            bytes == IF costs # {} THEN weights + model + second + ((weights * 5) \div 100) + Overhead
                     ELSE weights + (weights \div 4) + Overhead
<1>4. d.mib = Min({DivCeil(bytes, Mib), MaxU32})
  BY <1>1, <1>2, <1>3 DEF Derive, Charged, Nothing
<1>5. Overhead \in Nat /\ Mib \in Nat \ {0} /\ MaxU32 \in Nat
  BY UnitsAssumption
<1>6. weights \in Nat /\ second \in Nat
  OBVIOUS
<1>7. costs # {} => model \in Nat
  BY <1>3, TheOne
<1>8. bytes \in Nat
  <2>. HIDE DEF weights, second, model
  <2>1. (weights * 5) \div 100 \in Nat /\ weights \div 4 \in Nat
    BY <1>6
  <2>. QED BY <1>5, <1>6, <1>7, <2>1
<1>. HIDE DEF bytes
<1>9. DivCeil(bytes, Mib) \in Nat
  BY <1>5, <1>8, RoundedUp
<1>. QED BY <1>4, <1>5, <1>9, MinOfTwo

LEMMA ModelHeldIsNat ==
  ASSUME NEW files, RootOK(files), NEW e, NEW context \in Nat
  PROVE  ModelHeld(e, files, context) \subseteq Nat
<1>1. PICK keyType : keyType = TypeTaken(e.flags, "cache-type-k", "ctk")
  OBVIOUS
<1>2. PICK valueType : valueType = TypeTaken(e.flags, "cache-type-v", "ctv")
  OBVIOUS
<1>3. PICK keys \in Nat : keys = ElementHolds(keyType)
  BY ElementIsNat
<1>4. PICK values \in Nat : values = ElementHolds(valueType)
  BY ElementIsNat
<1>5. ASSUME NEW h \in HeldCache(files, e.path, context, keyType, valueType) PROVE h \in Nat
  <2>1. ElementHolds(keyType) <= keys /\ ElementHolds(valueType) <= values
    BY <1>3, <1>4
  <2>. QED BY <2>1, HeldCacheMeans
<1>. QED BY <1>1, <1>2, <1>5 DEF ModelHeld

\* What a draft holds less when files go.
LEMMA DraftHeldStays ==
  ASSUME NEW after, NEW files, Fewer(after, files), NEW e, e.context \in Nat, AtMostOne(e.draft),
         NEW draft \in DraftHeld(e, after, e.context)
  PROVE  \E h \in DraftHeld(e, files, e.context) : draft <= h
<1>0. RootOK(files) /\ RootOK(after)
  BY DEF Fewer
<1>1. draft \in Nat
  BY <1>0, DraftIsCounted
<1>2. CASE IsHead(e.flags)
  BY <1>1, <1>2 DEF DraftHeld
<1>3. CASE ~IsHead(e.flags)
  <2>1. PICK keyType : keyType = TypeTaken(e.flags, "cache-type-k-draft", "ctkd")
    OBVIOUS
  <2>2. PICK valueType : valueType = TypeTaken(e.flags, "cache-type-v-draft", "ctvd")
    OBVIOUS
  <2>. DEFINE was == UNION {HeldCache(files, d, e.context, keyType, valueType) : d \in e.draft}
              is == UNION {HeldCache(after, d, e.context, keyType, valueType) : d \in e.draft}
  <2>3. is \subseteq was
    BY HeldCacheStays
  <2>4. DraftHeld(e, after, e.context) = Or(is, {0}) /\ DraftHeld(e, files, e.context) = Or(was, {0})
    BY <1>3, <2>1, <2>2 DEF DraftHeld
  <2>. HIDE DEF is, was
  <2>5. CASE is # {}
    <3>1. draft \in was /\ was # {}
      BY <2>3, <2>4, <2>5 DEF Or, Nothing
    <3>2. draft \in DraftHeld(e, files, e.context)
      BY <2>4, <3>1 DEF Or, Nothing
    <3>. QED BY <1>1, <3>2
  <2>6. CASE is = {}
    <3>1. draft = 0
      BY <2>4, <2>6 DEF Or, Nothing
    <3>2. PICK h : h \in DraftHeld(e, files, e.context)
      <4>1. Or(was, {0}) # {}
        BY DEF Or, Nothing
      <4>. QED BY <2>4, <4>1
    <3>3. h \in Nat
      BY <1>0, <3>2, DraftIsCounted
    <3>. QED BY <3>1, <3>2, <3>3
  <2>. QED BY <2>5, <2>6
<1>. QED BY <1>2, <1>3

LEMMA CoversStays ==
  ASSUME NEW after, NEW files, Fewer(after, files), NEW e, Estimable(e), IsFiniteSet(DOMAIN e.flags),
         Covers(e, files), e.estimate \in Nat
  PROVE  Covers(e, after)
<1>0. /\ RootOK(files) /\ RootOK(after) /\ e.context \in Nat /\ AtMostOne(e.draft)
      /\ IsFiniteSet(e.draft) /\ IsFiniteSet(e.projector)
  BY DEF Fewer, Estimable
<1>. SUFFICES ASSUME Agree(e.flags), e.estimate < MaxU32, NEW context \in ContextTaken(e),
                     NEW cache \in ModelHeld(e, after, context), NEW draft \in DraftHeld(e, after, context)
              PROVE  e.estimate * Mib >= HeldBy(e, after, cache, draft)
  BY DEF Covers
<1>1. context = e.context /\ context \in Nat
  BY <1>0, ContextTakenMeans
<1>2. cache \in ModelHeld(e, files, context)
  BY HeldCacheStays DEF ModelHeld
<1>3. cache \in Nat
  BY <1>0, <1>1, <1>2, ModelHeldIsNat
<1>4. PICK h \in DraftHeld(e, files, context) : draft <= h
  BY <1>0, <1>1, DraftHeldStays
<1>5. h \in Nat /\ draft \in Nat
  BY <1>0, <1>1, DraftIsCounted
<1>6. PICK is \in Nat, was \in Nat : is = HeldWeights(e, after) /\ was = HeldWeights(e, files) /\ is <= was
  BY <1>0, HeldWeightsStay
<1>7. e.estimate * Mib >= HeldBy(e, files, cache, h)
  BY <1>2, <1>4 DEF Covers
<1>8. PICK kept \in Nat : kept = IF Generates(e.flags) THEN cache ELSE 0
  BY <1>3
<1>9. PICK sum \in Nat : sum = e.estimate * Mib
  BY UnitsAssumption
<1>10. Overhead \in Nat
  BY UnitsAssumption
<1>11. CASE OffTheDevice(e.flags)
  BY <1>7, <1>11 DEF HeldBy
<1>12. CASE ~OffTheDevice(e.flags)
  <2>1. sum >= Overhead + (was + h + kept)
    BY <1>6, <1>7, <1>8, <1>9, <1>12 DEF HeldBy
  <2>2. sum >= Overhead + (is + draft + kept)
    BY <1>4, <1>5, <1>6, <1>8, <1>9, <1>10, <2>1
  <2>. QED BY <1>6, <1>8, <1>9, <1>12, <2>2 DEF HeldBy
<1>. QED BY <1>11, <1>12

----------------------------------------------------------------------------
(* Every step keeps what the estimates cover.                               *)

LEMMA EstimatesStay ==
  ASSUME EstimatesHold, UNCHANGED <<entries, derived, discovered, text, root, walk>>
  PROVE  EstimatesHold'
  BY DEF EstimatesHold, EstimateErrsHigh, CutFileGivesItsSizeAlone, SizeAlone

LEMMA EstimatesMean ==
  EstimatesHold <=>
    /\ \A f \in ToSet(walk) : IsModel(f.path)
    /\ \A e \in entries : Estimable(e)
    /\ \A e \in entries : e.id \in derived => e.estimate \in Nat /\ Covers(e, root)
    /\ CutFileGivesItsSizeAlone
  BY DEF EstimatesHold, EstimateErrsHigh, Estimable, AtMostOne

LEMMA ParseCovers ==
  ASSUME StartupInvariant, EstimatesHold, Parse
  PROVE  EstimatesHold'
<1>1. /\ entries' = DraftEntries(text) \/ entries' = {}
      /\ derived' = {} /\ discovered' = {} /\ walk' = walk
  BY DEF Parse, StartupInvariant, EntriesHold
<1>2. \A e \in entries' : Estimable(e)
  BY <1>1, DraftsAreEstimable
<1>3. \A f \in ToSet(walk') : IsModel(f.path)
  BY <1>1 DEF EstimatesHold
<1>. QED BY <1>1, <1>2, <1>3 DEF EstimatesHold, EstimateErrsHigh, CutFileGivesItsSizeAlone, Estimable, AtMostOne

LEMMA SettleCovers ==
  ASSUME StartupInvariant, StartupInvariant', EstimatesHold, Settle
  PROVE  EstimatesHold'
<1>1. CASE problems' # {}
  <2>1. UNCHANGED <<entries, derived, discovered, text, root, walk>>
    BY <1>1 DEF Settle
  <2>. QED BY <2>1, EstimatesStay
<1>2. CASE problems' = {}
  <2>1. /\ entries' = {Settled(e) : e \in DraftEntries(text)}
        /\ derived' = DraftUndeclared(text) /\ walk' = Walk(root) /\ root' = root
        /\ ReadProblems(text) = {}
    BY <1>2 DEF Settle
  <2>2. Underivable(text) = {}
    BY <2>1 DEF ReadProblems
  <2>3. RootOK(root) /\ root \in Seq(ToSet(root))
    BY DEF StartupInvariant, InputsHold, RootOK
  <2>4. \A f \in ToSet(walk') : IsModel(f.path)
    BY <2>1, <2>3, WalkMeans DEF Walked
  <2>7. \A e \in entries' : IsFiniteSet(DOMAIN e.flags)
    BY DEF StartupInvariant, EntriesHold
  <2>5. ASSUME NEW e \in DraftEntries(text)
        PROVE  /\ Estimable(Settled(e))
               /\ Settled(e).id \in derived' => Settled(e).estimate \in Nat /\ Covers(Settled(e), root)
    <3>1. Estimable(e)
      BY DraftsAreEstimable
    <3>2. /\ Settled(e).id = e.id /\ Settled(e).path = e.path /\ Settled(e).flags = e.flags
          /\ Settled(e).draft = e.draft /\ Settled(e).projector = e.projector
      BY SettledMeans
    <3>3. Settled(e).context = e.context
      <4>1. Settled(e) = e \/ \E n : Settled(e) = [e EXCEPT !.estimate = n]
        BY DEF Settled
      <4>2. \A n : [e EXCEPT !.estimate = n].context = e.context
        BY DraftsAreEstimable
      <4>. QED BY <4>1, <4>2
    <3>4. Estimable(Settled(e))
      BY <3>1, <3>2, <3>3 DEF Estimable
    <3>6. IsFiniteSet(DOMAIN Settled(e).flags)
      BY <2>1, <2>7
    <3>5. ASSUME e.id \in DraftUndeclared(text) PROVE Settled(e).estimate \in Nat /\ Covers(Settled(e), root)
      <4>1. Derive(e, root) # {}
        BY <2>2, <3>5 DEF Underivable, Nothing
      <4>2. Settled(e) = [e EXCEPT !.estimate = The(Derive(e, root)).mib]
        BY <3>5, <4>1 DEF Settled, Nothing
      <4>3. PICK d \in Derive(e, root) : d = The(Derive(e, root))
        BY <4>1, TheOne
      <4>4. Settled(e).estimate = d.mib
        BY <4>2, <4>3, DraftsAreEstimable
      <4>5. Derive(Settled(e), root) = Derive(e, root)
        BY <3>2, <3>3, DeriveIgnores
      <4>6. Covers(Settled(e), root)
        BY <2>3, <3>4, <3>6, <4>3, <4>4, <4>5, DeriveCovers
      <4>7. d.mib \in Nat
        BY <2>3, <3>1, DerivedIsNat
      <4>. QED BY <4>4, <4>6, <4>7
    <3>. QED BY <2>1, <3>2, <3>4, <3>5
  <2>6. /\ \A e \in entries' : Estimable(e)
        /\ \A e \in entries' : e.id \in derived' => e.estimate \in Nat /\ Covers(e, root)
    BY <2>1, <2>5
  <2>8. discovered' = {}
    BY <1>2 DEF Settle, StartupInvariant, EntriesHold
  <2>9. CutFileGivesItsSizeAlone'
    BY <2>8 DEF CutFileGivesItsSizeAlone
  <2>. QED BY <2>1, <2>4, <2>6, <2>9 DEF EstimatesHold, EstimateErrsHigh, Estimable, AtMostOne
<1>. QED BY <1>1, <1>2

\* Of a file that ends before its metadata nothing is kept.
LEMMA CutFileKeepsNothing ==
  ASSUME RootOK(root), NEW path, NEW f \in FileAt(root, path), ~(Last(Ends(f)) <= f.length)
  PROVE  Metadata(FileAt(root, path)) = {}
<1>1. FileAt(root, path) = {f}
  BY OneFile
<1>2. Kept(f) = {}
  BY DEF Kept, Nothing
<1>3. UNION {Kept(g) : g \in FileAt(root, path)} = {}
  BY <1>1, <1>2
<1>. QED BY <1>3 DEF Metadata

LEMMA SingleFileWeighs ==
  ASSUME RootOK(root), NEW path, NEW f \in FileAt(root, path), IsModel(path), Metadata(FileAt(root, path)) = {}
  PROVE  WeightsOf(root, path) = f.length /\ f.length \in Nat
<1>1. FileAt(root, path) = {f} /\ f \in ToSet(root)
  BY OneFile
<1>2. f.length \in Nat
  BY <1>1 DEF RootOK
<1>3. SizeOf(root, path) = f.length
  <2>1. {g.length : g \in FileAt(root, path)} = {f.length}
    BY <1>1
  <2>2. The({f.length}) = f.length
    BY TheOne
  <2>. QED BY <2>1, <2>2 DEF SizeOf, Or, Nothing
<1>4. The(Or(UNION {SplitCount(m) : m \in Metadata(FileAt(root, path))}, {1})) = 1
  <2>1. UNION {SplitCount(m) : m \in Metadata(FileAt(root, path))} = {}
    OBVIOUS
  <2>2. The({1}) = 1
    BY TheOne
  <2>. QED BY <2>1, <2>2 DEF Or, Nothing
<1>5. (IF path.shard = 0 THEN {} ELSE (1..1) \ {path.shard}) = {}
  BY DEF IsModel
<1>. DEFINE g == [i \in {} |-> SizeOf(root, [path EXCEPT !.shard = i])]
<1>6. WeightsOf(root, path) = f.length + SumFunctionOnSet(g, DOMAIN g)
  BY <1>3, <1>4, <1>5 DEF WeightsOf, SumFunction
<1>7. DOMAIN g = {}
  OBVIOUS
<1>. HIDE DEF g
<1>. QED BY <1>2, <1>6, <1>7, SumOfNothing

LEMMA DiscoveredCutFile ==
  ASSUME RootOK(root), NEW id, NEW h, NEW e \in DiscoveredEntry(id, h), IsModel(h.path),
         NEW f \in FileAt(root, e.path)
  PROVE  Last(Ends(f)) <= f.length \/ SizeAlone(e, f)
<1>. SUFFICES ASSUME ~(Last(Ends(f)) <= f.length) PROVE SizeAlone(e, f)
  OBVIOUS
<1>1. e.path = h.path
  BY DiscoveredMeans
<1>2. Metadata(FileAt(root, e.path)) = {}
  BY CutFileKeepsNothing
<1>3. TrainedFor(h) = {}
  BY <1>1, <1>2 DEF TrainedFor
<1>4. e.draft = {} /\ e.projector = {} /\ e.context = The(Or(Optional(Defaults(text), "context_size"), {Fallback}))
  <2>. DEFINE defaults == Defaults(text)
              wanted == The(Or(Optional(defaults, "context_size"), Or(TrainedFor(h), {Fallback})))
              bare == [id |-> id, path |-> h.path, draft |-> Nothing, projector |-> Nothing,
                       context |-> Min({wanted} \cup TrainedFor(h)), resident |-> FALSE, estimate |-> 0,
                       format |-> Optional(defaults, "reasoning_format"),
                       effort |-> Optional(defaults, "reasoning_effort"), runtime |-> Nothing,
                       timeout |-> The(Or(Optional(defaults, "startup_timeout_seconds"), {DefaultTimeout})),
                       flags |-> Flags(defaults)]
  <2>1. DiscoveredEntry(id, h) = {[bare EXCEPT !.estimate = d.mib] : d \in Derive(bare, root)}
    BY Zenon DEF DiscoveredEntry
  <2>2. PICK d : e = [bare EXCEPT !.estimate = d.mib]
    <3>. HIDE DEF bare
    <3>. QED BY <2>1
  <2>3. e.draft = {} /\ e.projector = {} /\ e.context = Min({wanted} \cup TrainedFor(h))
    <3>. HIDE DEF wanted, defaults
    <3>. QED BY <2>2 DEF Nothing
  <2>4. Or(TrainedFor(h), {Fallback}) = {Fallback}
    BY <1>3 DEF Or, Nothing
  <2>5. wanted = The(Or(Optional(Defaults(text), "context_size"), {Fallback}))
    BY <2>4
  <2>6. wanted \in Nat
    <3>1. Optional(Defaults(text), "context_size") \in SUBSET Nat /\ Fallback \in Nat
      BY PositiveMeans, DefaultsAssumption DEF Numbers
    <3>2. The(Or(Optional(Defaults(text), "context_size"), {Fallback})) \in Nat
      BY <3>1, FoundOr, Zenon
    <3>. QED BY <2>5, <3>2
  <2>. HIDE DEF wanted
  <2>7. {wanted} \cup TrainedFor(h) = {wanted, wanted}
    BY <1>3
  <2>8. Min({wanted, wanted}) = wanted
    BY <2>6, MinOfTwo
  <2>. QED BY <2>3, <2>5, <2>7, <2>8
<1>5. PICK d \in Derive(e, root) : e.estimate = d.mib
  BY DiscoveredIsEstimable
<1>6. WeightsOf(root, e.path) = f.length /\ f.length \in Nat
  BY <1>1, <1>2, SingleFileWeighs
<1>7. Weights(e, root) = f.length
  <2>. DEFINE g == [p \in {} |-> SizeOf(root, p)]
  <2>1. Weights(e, root) = f.length + SumFunctionOnSet(g, DOMAIN g) + SumFunctionOnSet(g, DOMAIN g)
    BY <1>4, <1>6 DEF Weights, SumFunction
  <2>2. DOMAIN g = {}
    OBVIOUS
  <2>. HIDE DEF g
  <2>. QED BY <1>6, <2>1, <2>2, SumOfNothing
<1>8. ModelCache(e, root) = {}
  BY <1>2 DEF ModelCache
<1>9. PICK bytes : bytes = IF RunsOnProcessor(e.flags) THEN 0 ELSE f.length
  OBVIOUS
<1>10. d.mib = Min({DivCeil(bytes + (bytes \div 4) + Overhead, Mib), MaxU32})
  BY <1>5, <1>7, <1>8, <1>9 DEF Derive, Charged, Nothing
<1>. QED BY <1>4, <1>5, <1>9, <1>10 DEF SizeAlone

LEMMA DiscoverCovers ==
  ASSUME StartupInvariant, StartupInvariant', EstimatesHold, Discover
  PROVE  EstimatesHold'
<1>1. PICK f, ids, new :
        /\ f = Head(walk)
        /\ ids = IF Passed(f.path) THEN Nothing ELSE Identifier(f.path)
        /\ new = UNION {DiscoveredEntry(id, f) : id \in ids}
        /\ entries' = entries \cup new
        /\ derived' = derived \cup {e.id : e \in new}
        /\ discovered' = discovered \cup {e.id : e \in new}
  BY Zenon DEF Discover
<1>2. /\ at = "discover" /\ walk # << >> /\ walk' = Tail(walk) /\ root' = root /\ text' = text
      /\ reading = "read"
  BY DEF Discover, StartupInvariant, PlaceHolds
<1>3. RootOK(root)
  BY DEF StartupInvariant, InputsHold
<1>4. walk \in Seq(ToSet(walk)) /\ \A e \in entries : e.id \in taken
  BY <1>2 DEF StartupInvariant, DiscoveryHolds
<1>5. \A e \in new : e.id \notin taken
  <2>1. \A e \in new : \E id \in ids : e \in DiscoveredEntry(id, f)
    BY <1>1
  <2>2. ids \cap taken = {}
    BY <1>1, IdentifierIsFree DEF Nothing
  <2>. QED BY <2>1, <2>2, DiscoveredMeans
<1>11. \A e \in new : IsFiniteSet(DOMAIN e.flags)
  BY <1>1 DEF StartupInvariant, EntriesHold
<1>6. \A e \in new : Estimable(e) /\ e.estimate \in Nat /\ Covers(e, root)
  <2>1. \A e \in new : \E id \in ids : e \in DiscoveredEntry(id, f)
    BY <1>1
  <2>. SUFFICES ASSUME NEW e \in new PROVE Estimable(e) /\ e.estimate \in Nat /\ Covers(e, root)
    OBVIOUS
  <2>2. Estimable(e)
    BY <1>3, <2>1, DiscoveredIsEstimable
  <2>3. PICK d \in Derive(e, root) : e.estimate = d.mib
    BY <1>3, <2>1, DiscoveredIsEstimable
  <2>4. Covers(e, root)
    BY <1>3, <1>11, <2>2, <2>3, DeriveCovers
  <2>5. d.mib \in Nat
    BY <1>3, <2>2, DerivedIsNat
  <2>. QED BY <2>2, <2>3, <2>4, <2>5
<1>7. \A e \in entries : (e.id \in derived' => e.id \in derived) /\ (e.id \in discovered' => e.id \in discovered)
  BY <1>1, <1>4, <1>5
<1>8. /\ IsModel(f.path)
      /\ \A g \in ToSet(walk') : IsModel(g.path)
  <2>1. PICK n \in Nat : n = Len(walk) /\ n >= 1
    BY <1>2, <1>4
  <2>2. /\ DOMAIN walk = 1..n /\ DOMAIN Tail(walk) = 1..(n - 1)
        /\ \A i \in 1..(n - 1) : Tail(walk)[i] = walk[i + 1]
    BY <1>2, <1>4, <2>1
  <2>3. ToSet(Tail(walk)) \subseteq ToSet(walk)
    <3>1. \A i \in 1..(n - 1) : i + 1 \in 1..n
      OBVIOUS
    <3>. QED BY <2>2, <3>1 DEF ToSet
  <2>4. f \in ToSet(walk)
    <3>1. f = walk[1] /\ 1 \in DOMAIN walk
      BY <1>1, <1>2, <1>4, <2>1, <2>2
    <3>. QED BY <3>1 DEF ToSet
  <2>. QED BY <1>2, <2>3, <2>4 DEF EstimatesHold
<1>9. /\ \A e \in entries' : Estimable(e)
      /\ \A e \in entries' : e.id \in derived' => e.estimate \in Nat /\ Covers(e, root)
  BY <1>1, <1>6, <1>7, EstimatesMean
<1>10. CutFileGivesItsSizeAlone'
  <2>. SUFFICES ASSUME NEW e \in entries', e.id \in discovered', NEW g \in FileAt(root, e.path)
                PROVE  Last(Ends(g)) <= g.length \/ SizeAlone(e, g)
    BY <1>2 DEF CutFileGivesItsSizeAlone, SizeAlone
  <2>1. CASE e \in entries
    BY <1>7, <2>1 DEF EstimatesHold, CutFileGivesItsSizeAlone
  <2>2. CASE e \in new
    <3>1. PICK id \in ids : e \in DiscoveredEntry(id, f)
      BY <1>1, <2>2
    <3>. QED BY <1>3, <1>8, <3>1, DiscoveredCutFile
  <2>. QED BY <1>1, <2>1, <2>2
<1>. QED BY <1>2, <1>8, <1>9, <1>10 DEF EstimatesHold, EstimateErrsHigh, Estimable, AtMostOne

LEMMA GoneCovers ==
  ASSUME StartupInvariant, EstimatesHold, Gone
  PROVE  EstimatesHold'
<1>1. PICK i \in DOMAIN root : root[i].path = Head(walk).path /\ root' = RemoveAt(root, i)
  BY DEF Gone, Vanish
<1>2. /\ at = "discover" /\ reading = "read" /\ walk # << >>
      /\ UNCHANGED <<entries, derived, discovered, text, walk>>
  BY DEF Gone, Vanish, StartupInvariant, PlaceHolds
<1>3. RootOK(root) /\ root \in Seq(ToSet(root)) /\ walk \in Seq(ToSet(walk))
  BY <1>2 DEF StartupInvariant, InputsHold, RootOK, DiscoveryHolds
<1>4. IsModel(root[i].path)
  <2>1. Head(walk) \in ToSet(walk)
    <3>1. Len(walk) >= 1 /\ DOMAIN walk = 1..Len(walk) /\ Head(walk) = walk[1]
      BY <1>2, <1>3
    <3>. QED BY <3>1 DEF ToSet
  <2>. QED BY <1>1, <2>1 DEF EstimatesHold
<1>5. Fewer(root', root)
  <2>1. RootOK(root')
    BY GoneKept DEF StartupInvariant, InputsHold
  <2>2. ToSet(root') \subseteq ToSet(root) /\ ToSet(root) \ ToSet(root') \subseteq {root[i]}
    BY <1>1, <1>3, RemovedMeans
  <2>. QED BY <1>3, <1>4, <2>1, <2>2 DEF Fewer
<1>6. \A e \in entries : e.id \in derived => Covers(e, root')
  <2>1. \A e \in entries : IsFiniteSet(DOMAIN e.flags)
    BY DEF StartupInvariant, EntriesHold
  <2>. QED BY <1>5, <2>1, EstimatesMean, CoversStays
<1>7. CutFileGivesItsSizeAlone'
  <2>1. \A path : FileAt(root', path) \subseteq FileAt(root, path)
    BY <1>5 DEF Fewer, FileAt
  <2>2. CutFileGivesItsSizeAlone
    BY DEF EstimatesHold
  <2>. QED BY <1>2, <2>1, <2>2 DEF CutFileGivesItsSizeAlone, SizeAlone
<1>. QED BY <1>2, <1>6, <1>7 DEF EstimatesHold, EstimateErrsHigh

LEMMA EstimatesKept ==
  ASSUME StartupInvariant, StartupInvariant', EstimatesHold, [Next]_vars
  PROVE  EstimatesHold'
<1>1. CASE Reading
  <2>1. CASE Finish
    BY <2>1, EstimatesStay DEF Finish
  <2>. QED BY <1>1, <2>1, ParseCovers, SettleCovers, DiscoverCovers DEF Reading, CatalogNext
<1>2. CASE Gone
  BY <1>2, GoneCovers
<1>3. CASE UNCHANGED vars \/ Check \/ Locate \/ Configured \/ Bind
  <2>1. UNCHANGED <<entries, derived, discovered, text, root, walk>>
    BY <1>3 DEF vars, catalogVars, Check, Locate, Configured, Bind
  <2>. QED BY <2>1, EstimatesStay
<1>4. CASE ReaderReads \/ ReaderEnds \/ Poll \/ Join \/ ToolPrints \/ ToolExits \/ Deadline
  <2>1. UNCHANGED <<entries, derived, discovered, text, root, walk>>
    <3>1. CASE ReaderReads \/ ReaderEnds \/ ToolPrints \/ ToolExits \/ Deadline
      BY <3>1 DEF ToolOnly, catalogVars, ReaderReads, ReaderEnds, ToolPrints, ToolExits, Deadline
    <3>2. CASE Poll
      BY <3>2 DEF ToolOnly, catalogVars, Poll
    <3>3. CASE Join
      BY <3>3 DEF Join
    <3>. QED BY <1>4, <3>1, <3>2, <3>3
  <2>. QED BY <2>1, EstimatesStay
<1>. QED BY <1>1, <1>2, <1>3, <1>4 DEF Next, Main

\* At every step, while files vanish from the root, Catalog::read has settled an
\* estimate for each entry it derived one for, and each is what EstimateErrsHigh and
\* CutFileGivesItsSizeAlone say of it.
THEOREM EstimatesHoldAlways == Spec => []EstimatesHold
<1>1. Init => EstimatesHold
  <2>1. ToSet(<< >>) = {}
    BY DEF ToSet
  <2>. QED BY <2>1 DEF Init, CatalogInit, EstimatesHold, EstimateErrsHigh, CutFileGivesItsSizeAlone
<1>2. StartupInvariant /\ StartupInvariant' /\ EstimatesHold /\ [Next]_vars => EstimatesHold'
  BY EstimatesKept
<1>. QED BY <1>1, <1>2, InvariantHolds, PTL DEF Spec

\* The estimate Catalog::read derives for an entry from the metadata of its files
\* is never below what the child is going to hold at the context it is started
\* with, however many layers, heads, shards and files there are and whatever
\* vanishes while it reads.  That is said of headers that are well formed and say
\* how long a key and a value are, of as many shards as they count, and of an
\* estimate that a u32 holds; not of an entry whose flags give the context or two
\* answers to one question.
THEOREM EstimatesErrHigh == Spec => []EstimateErrsHigh
<1>1. EstimatesHold => EstimateErrsHigh
  BY DEF EstimatesHold
<1>. QED BY <1>1, EstimatesHoldAlways, PTL

\* Metadata::read of a file that ends before its metadata gives nothing, wherever
\* it was cut and whatever the pairs that are left would say: a model discovered
\* from one gets the context of the defaults and an estimate of its size alone.
THEOREM CutFilesGiveTheirSizeAlone == Spec => []CutFileGivesItsSizeAlone
<1>1. EstimatesHold => CutFileGivesItsSizeAlone
  BY DEF EstimatesHold
<1>. QED BY <1>1, EstimatesHoldAlways, PTL
=============================================================================
