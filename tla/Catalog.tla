------------------------------- MODULE Catalog -------------------------------
(***************************************************************************)
(* Reading a catalog.  The text is a table of tables: what it says is a    *)
(* function from field names to values, wrong ones included.  Parsing it   *)
(* needs nothing else; reading it against a models root also settles the   *)
(* estimates nobody declared and makes an entry of every model file the    *)
(* text does not name.                                                     *)
(***************************************************************************)
EXTENDS Estimate

CONSTANTS
  BinaryNames,   \* the texts that can be part of a binary's name
  MaxDepth,   \* MAX_DEPTH
  Fallback,   \* FALLBACK_CONTEXT
  DefaultTimeout   \* DEFAULT_STARTUP_TIMEOUT_SECONDS

ASSUME DefaultsAssumption == Fallback \in Nat \ {0}

VARIABLES
  text,       \* the catalog
  root,       \* the files under the models root
  rootName,
  reading,    \* "parse" or "read"
  at,         \* where the reading is
  entries,    \* the entries so far
  derived,    \* the identifiers whose estimate was derived
  discovered, \* the identifiers found under the root
  problems,   \* <<scope, field, complaint>>
  notes,      \* what the operator is told besides
  walk,       \* the files still to look at
  taken       \* the identifiers no further file may have

catalogVars == <<text, root, rootName, reading, at, entries, derived, discovered, problems,
                 notes, walk, taken>>

---------------------------------------------------------------------------
\* Fields.  A value is [is |-> "number", n], [is |-> "text", s],
\* [is |-> "place", at, anchored] or [is |-> "table", of].

Numbers == {"context_size", "memory_estimate_mib", "startup_timeout_seconds"}
Words == {"reasoning_format", "reasoning_effort"}
Places == {"path", "draft_path", "projector_path"}
DefaultFields == Numbers \cup Words \cup {"residency", "runtime", "flags"}
EntryFields == DefaultFields \cup Places

IsTable(v) == v.is = "table"

\* Whom a problem is about.
Whole == <<"catalog">>
Shared == <<"defaults">>
Scope(id) == <<"entry">> \o id

\* Zero is refused, and so is what a u32 does not hold.
AsPositive(v) == IF v.is = "number" /\ v.n \in 1..MaxU32 THEN {v.n} ELSE Nothing

AsText(v) == IF v.is = "text" THEN {v.s} ELSE Nothing

AsResidency(v) == AsText(v) \cap {"resident", "on-demand"}

AsRuntime(v) == AsText(v) \cap BinaryNames

AsLocation(v) == IF v.is = "place" /\ ~v.anchored THEN {v.at} ELSE Nothing

Converted(field, v) ==
  CASE field \in Numbers -> AsPositive(v)
    [] field \in Words -> AsText(v)
    [] field \in Places -> AsLocation(v)
    [] field = "residency" -> AsResidency(v)
    [] field = "runtime" -> AsRuntime(v)
    [] field = "flags" -> IF IsTable(v) THEN {v.of} ELSE Nothing

Optional(table, field) ==
  IF field \in DOMAIN table THEN Converted(field, table[field]) ELSE Nothing

\* Settings for the server, text only.
Flags(table) ==
  LET of == The(Or(Optional(table, "flags"), {<< >>}))
  IN  [k \in {j \in DOMAIN of : AsText(of[j]) # Nothing} |-> of[k].s]

\* Everything wrong with the fields of one table, the missing ones aside.
FieldProblems(table, known, scope) ==
  {<<scope, f, "is not recognised">> : f \in DOMAIN table \ known}
  \cup {<<scope, f, "is wrong">> :
          f \in {g \in DOMAIN table \cap known : Converted(g, table[g]) = Nothing}}
  \cup {<<scope, "flags", "is wrong">> :
          k \in UNION {{j \in DOMAIN of : AsText(of[j]) = Nothing} : of \in Optional(table, "flags")}}

---------------------------------------------------------------------------
\* One walk of the text: drafts.

Defaults(t) == IF t.defaults # Nothing /\ IsTable(The(t.defaults)) THEN The(t.defaults).of ELSE << >>

\* The entry's own value, else the default.
Inherited(table, defaults, field) == Or(Optional(table, field), Optional(defaults, field))

\* The entry's own flags win; the rest are inherited.
Merged(table, defaults) ==
  [k \in DOMAIN Flags(table) \cup DOMAIN Flags(defaults) |->
     IF k \in DOMAIN Flags(table) THEN Flags(table)[k] ELSE Flags(defaults)[k]]

Required(table, id) ==
  IF "path" \in DOMAIN table THEN {} ELSE {<<Scope(id), "path", "is required">>}

\* A context that is there but wrong is not also missing.
SettledContext(table, defaults, id) ==
  IF Inherited(table, defaults, "context_size") = Nothing /\ "context_size" \notin DOMAIN table
  THEN {<<Scope(id), "context_size", "is required">>} ELSE {}

EntryProblems(id, v, defaults) ==
  IF ~IsTable(v) THEN {<<Scope(id), "", "must be a table">>}
  ELSE FieldProblems(v.of, EntryFields, Scope(id)) \cup Required(v.of, id)
       \cup SettledContext(v.of, defaults, id)

\* An entry drafted although its estimate is nowhere.
Undeclared(v, defaults) ==
  IsTable(v) /\ Inherited(v.of, defaults, "memory_estimate_mib") = Nothing

EntryOf(id, v, defaults) ==
  LET t == v.of
      inherited(field) == Inherited(t, defaults, field)
  IN  IF ~IsTable(v) \/ Optional(t, "path") = Nothing \/ inherited("context_size") = Nothing
      THEN Nothing
      ELSE {[id |-> id, path |-> The(Optional(t, "path")),
             draft |-> Optional(t, "draft_path"), projector |-> Optional(t, "projector_path"),
             context |-> The(inherited("context_size")),
             resident |-> inherited("residency") = {"resident"},
             estimate |-> The(Or(inherited("memory_estimate_mib"), {0})),
             format |-> inherited("reasoning_format"), effort |-> inherited("reasoning_effort"),
             runtime |-> inherited("runtime"),
             timeout |-> The(Or(inherited("startup_timeout_seconds"), {DefaultTimeout})),
             flags |-> Merged(t, defaults)]}

\* The entries the text gives, by identifier.
Models(t) == IF t.models # Nothing /\ IsTable(The(t.models)) THEN The(t.models).of ELSE << >>

DraftEntries(t) == UNION {EntryOf(id, Models(t)[id], Defaults(t)) : id \in DOMAIN Models(t)}

\* What is taken of a text: a table of flags is finite, wherever it is, and an
\* identifier is its words.
TextOK(t) ==
  /\ t.toml \in BOOLEAN
  /\ \A id \in DOMAIN Models(t) : id \in Seq(ToSet(id))
  /\ \A of \in Optional(Defaults(t), "flags") : IsFiniteSet(DOMAIN of)
  /\ \A id \in DOMAIN Models(t) :
       IsTable(Models(t)[id]) => \A of \in Optional(Models(t)[id].of, "flags") : IsFiniteSet(DOMAIN of)

PathOK(path) ==
  path \in [dir : {path.dir}, name : {path.name}, shard : Nat, role : {path.role},
            legible : BOOLEAN, carried : BOOLEAN, depth : Nat]

\* A scalar has a value.
PairOK(p) ==
  /\ p \in [key : {p.key}, keyBytes : Nat, kind : Nat, elem : Nat, count : Nat,
             values : Seq(Int), says : {p.says}]
  /\ p.kind \notin {Text, Array} => Len(p.values) > 0

\* And of a root: its files are records, and at one path there is one file.
RootOK(files) ==
  /\ files \in Seq(ToSet(files))
  /\ \A f \in ToSet(files) :
       /\ f \in [path : {f.path}, listed : BOOLEAN, length : Nat, magic : BOOLEAN, version : Nat,
                 pairs : Seq(ToSet(f.pairs))]
       /\ PathOK(f.path) /\ \A p \in ToSet(f.pairs) : PairOK(p)
       /\ \A g \in ToSet(files) : f.path = g.path => f = g

DraftUndeclared(t) == {id \in DOMAIN Models(t) : Undeclared(Models(t)[id], Defaults(t))}

TopProblems(t) ==
  (IF t.version = Nothing THEN {<<Whole, "version", "is required">>}
   ELSE IF AsPositive(The(t.version)) = Nothing THEN {<<Whole, "version", "is wrong">>} ELSE {})
  \cup (IF t.defaults # Nothing /\ ~IsTable(The(t.defaults))
        THEN {<<Whole, "defaults", "must be a table">>} ELSE {})
  \cup (IF t.models = Nothing THEN {<<Whole, "models", "is required">>}
        ELSE IF ~IsTable(The(t.models)) THEN {<<Whole, "models", "must be a table">>} ELSE {})

\* Stops at the first entry that is wrong.
DraftProblems_First(t) ==
  LET wrong == {id \in DOMAIN Models(t) : EntryProblems(id, Models(t)[id], Defaults(t)) # {}}
  IN  TopProblems(t) \cup FieldProblems(Defaults(t), DefaultFields, Shared)
      \cup (IF wrong = {} THEN {} ELSE
              LET id == CHOOSE i \in wrong : TRUE IN EntryProblems(id, Models(t)[id], Defaults(t)))

DraftProblems(t) ==
  TopProblems(t) \cup FieldProblems(Defaults(t), DefaultFields, Shared)
  \cup UNION {EntryProblems(id, Models(t)[id], Defaults(t)) : id \in DOMAIN Models(t)}

\* Catalog::parse refuses an entry without an estimate.
ParseProblems(t) ==
  IF ~t.toml THEN {<<Whole, "", "is not valid TOML">>}
  ELSE DraftProblems(t) \cup {<<Scope(id), "memory_estimate_mib", "is required">> : id \in DraftUndeclared(t)}

---------------------------------------------------------------------------
\* Catalog::read settles every entry.

\* The derived figure wins over the declared one.
Settled_Derived(e) ==
  LET d == Derive(e, root) IN IF d = Nothing THEN e ELSE [e EXCEPT !.estimate = The(d).mib]

\* A declared estimate stands; one nobody declared is what the files give.
Settled(e) ==
  LET d == Derive(e, root)
  IN  IF e.id \notin DraftUndeclared(text) \/ d = Nothing THEN e
      ELSE [e EXCEPT !.estimate = The(d).mib]

Underivable(t) == {e.id : e \in {d \in DraftEntries(t) : Derive(d, root) = Nothing}} \cap DraftUndeclared(t)

ReadProblems(t) ==
  IF ~t.toml THEN {<<Whole, "", "is not valid TOML">>}
  ELSE DraftProblems(t)
       \cup {<<Scope(id), "memory_estimate_mib", "could not be derived">> : id \in Underivable(t)}

SettleNotes(e) ==
  {<<"declared below its files", e.id>> :
     d \in {x \in Derive(e, root) : e.id \notin DraftUndeclared(text) /\ x.mib > e.estimate}}
  \cup {<<"from its size alone", e.id>> :
     d \in {x \in Derive(e, root) : e.id \in DraftUndeclared(text) /\ x.basis = "size"}}

---------------------------------------------------------------------------
\* Discovery: what a name says, and the entry a file becomes.

Reserved == {<<"load">>, <<"unload">>, <<"sse">>, <<"props">>, <<"models">>}

\* Projectors, drafts and all shards but the first are no model of their own.
IsModel(path) == path.role = "model" /\ path.shard \in {0, 1}

\* What the walk comes to: a directory too deep, one that cannot be read and an
\* entry that comes as an error are left out without a word, and of a name that
\* is not text nobody asks whether it is a model's.
Reached(f) == f.listed /\ f.path.depth <= MaxDepth /\ f.path.legible

Walk(files) == Sift(files, {f \in ToSet(files) : Reached(f) /\ IsModel(f.path)})

Referenced(es) == {e.path : e \in es} \cup UNION {e.draft \cup e.projector : e \in es}

\* The name of the directory the file is in.
Parent(path) == IF path.depth = 0 THEN rootName ELSE path.dir

\* A name nobody compared with the others.
Identifier_AnyName(path) == IF path.name = << >> THEN Nothing ELSE {path.name}

\* The name of the file, or that with its directory's in front; nothing when
\* both are taken or nothing is left of the name.
Identifier(path) ==
  LET instead == Parent(path) \o path.name
  IN  IF path.name = << >> THEN Nothing
      ELSE IF path.name \notin taken THEN {path.name}
      ELSE IF Parent(path) = << >> \/ instead \in taken THEN Nothing
      ELSE {instead}

TrainedFor(f) == UNION {OfModel(g, "context_length") \cap 1..MaxU32 : g \in Metadata(FileAt(root, f.path))}

\* Nothing when the file has gone since the walk.
DiscoveredEntry(id, f) ==
  LET defaults == Defaults(text)
      trained == TrainedFor(f)
      wanted == The(Or(Optional(defaults, "context_size"), Or(trained, {Fallback})))
      bare == [id |-> id, path |-> f.path, draft |-> Nothing, projector |-> Nothing,
               context |-> Min({wanted} \cup trained), resident |-> FALSE, estimate |-> 0,
               format |-> Optional(defaults, "reasoning_format"),
               effort |-> Optional(defaults, "reasoning_effort"), runtime |-> Nothing,
               timeout |-> The(Or(Optional(defaults, "startup_timeout_seconds"), {DefaultTimeout})),
               flags |-> Flags(defaults)]
  IN  {[bare EXCEPT !.estimate = d.mib] : d \in Derive(bare, root)}

---------------------------------------------------------------------------

\* Nothing is read yet.
CatalogInit ==
  /\ at = "text"
  /\ entries = {} /\ derived = {} /\ discovered = {} /\ problems = {} /\ notes = {}
  /\ walk = << >> /\ taken = {}

\* Catalog::parse.
Parse ==
  /\ at = "text" /\ reading = "parse"
  /\ problems' = ParseProblems(text)
  /\ entries' = IF problems' = {} THEN DraftEntries(text) ELSE {}
  /\ at' = IF problems' = {} THEN "read" ELSE "refused"
  /\ UNCHANGED <<text, root, rootName, reading, derived, discovered, notes, walk, taken>>

\* Catalog::read, up to the report: drafts and settle.
Settle ==
  /\ at = "text" /\ reading = "read"
  /\ problems' = ReadProblems(text)
  /\ IF problems' # {}
     THEN at' = "refused" /\ UNCHANGED <<entries, derived, notes, walk, taken>>
     ELSE /\ entries' = {Settled(e) : e \in DraftEntries(text)}
          /\ derived' = DraftUndeclared(text)
          /\ notes' = UNION {SettleNotes(e) : e \in DraftEntries(text)}
          /\ walk' = Walk(root)
          /\ taken' = {e.id : e \in entries'} \cup Reserved
          /\ at' = "discover"
  /\ UNCHANGED <<text, root, rootName, reading, discovered>>

\* A file the text names, or one whose path it could not carry, or whose name
\* is taken, is passed over; of those the walk came to, only one the text names
\* and a name with nothing left are not remarked on.
Passed(path) ==
  \/ path \in Referenced({e \in entries : e.id \notin discovered})
  \/ ~path.carried
  \/ Identifier(path) = Nothing

PassedNotes(path) ==
  IF \/ path \in Referenced({e \in entries : e.id \notin discovered})
     \/ path.carried /\ path.name = << >>
  THEN {} ELSE {<<"skipped", path>>}

\* discover::under, one file.  The identifier of a file that has gone stays taken.
Discover ==
  /\ at = "discover" /\ walk # << >>
  /\ LET f == Head(walk)
         ids == IF Passed(f.path) THEN Nothing ELSE Identifier(f.path)
         found == UNION {DiscoveredEntry(id, f) : id \in ids}
     IN  /\ entries' = entries \cup found
         /\ discovered' = discovered \cup {e.id : e \in found}
         /\ derived' = derived \cup {e.id : e \in found}
         /\ taken' = taken \cup ids
         /\ notes' = notes \cup (IF ids = Nothing THEN PassedNotes(f.path)
                                 ELSE IF found = {} THEN {<<"skipped", f.path>>}
                                 ELSE {<<"discovered", f.path>>})
  /\ walk' = Tail(walk)
  /\ UNCHANGED <<text, root, rootName, reading, at, problems>>

\* Somebody removes the file that is looked at next.
Vanish ==
  /\ at = "discover" /\ walk # << >>
  /\ \E i \in DOMAIN root : root[i].path = Head(walk).path /\ root' = RemoveAt(root, i)
  /\ UNCHANGED <<text, rootName, reading, at, entries, derived, discovered, problems, notes, walk, taken>>

\* The reading is done when every file was looked at.
Finish ==
  /\ at = "discover" /\ walk = << >>
  /\ at' = "read"
  /\ UNCHANGED <<text, root, rootName, reading, entries, derived, discovered, problems, notes, walk, taken>>

CatalogNext == Parse \/ Settle \/ Discover \/ Finish
===============================================================================
