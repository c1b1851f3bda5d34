------------------------------- MODULE Startup -------------------------------
(***************************************************************************)
(* From the command line to a router that serves: the check and the serve  *)
(* command read a catalog, and serve then takes its limits from the        *)
(* environment and the machine.  The machine is asked by running a tool    *)
(* that may print, fail or hang as it likes, with a thread that drains     *)
(* what it prints and a deadline.                                          *)
(***************************************************************************)
EXTENDS Catalog

CONSTANTS
  Scenarios,      \* a command with its catalog, models root and environment
  PipeSize,       \* lines a pipe holds
  MinMargin,      \* MIN_DEVICE_MARGIN_MIB
  SystemShare,    \* SYSTEM_SHARE_PERCENT
  DefaultWait     \* queue::DEFAULT, in seconds

VARIABLES
  command,   \* "check" or "serve"
  env,
  tool,      \* the process asked for the device's memory, and who reads it
  limits     \* what the router is bound with

vars == <<catalogVars, command, env, tool, limits>>

Setting(v, numbers) == v.is \in {"unset", "wrong"} \/ (v.is = "number" /\ v.n \in numbers)

PrintedOK(line) ==
  \/ line.is \in {"blank", "unreadable"}
  \/ line.is = "device" /\ line.total \in Nat /\ line.used \in Nat

\* The three variables; whether a root is named and is there; what else the
\* command looks for; what the system and the tool say, and whether the tool
\* does its work.
EnvironmentOK(e) ==
  /\ Setting(e.budget, 0..MaxU32) /\ Setting(e.idle, Nat) /\ Setting(e.wait, Nat)
  /\ e.root \in {"none", "named", "there"}
  /\ {e.server, e.address, e.free, e.smi, e.healthy} \subseteq BOOLEAN
  /\ e.system \subseteq Nat /\ \A a, b \in e.system : a = b
  /\ e.prints \in Seq(ToSet(e.prints)) /\ \A line \in ToSet(e.prints) : PrintedOK(line)

ASSUME ScenariosAssumption ==
  \A s \in Scenarios :
    /\ s.command \in {"check", "serve"}
    /\ EnvironmentOK(s.env) /\ TextOK(s.text) /\ RootOK(s.root)
ASSUME MachineAssumption ==
  /\ PipeSize \in Nat \ {0} /\ MinMargin \in Nat /\ SystemShare \in 0..100
  /\ DefaultWait \in Nat

NoTool == [state |-> "none", printed |-> 0, pipe |-> 0, read |-> 0, drained |-> FALSE,
           late |-> FALSE, watch |-> "idle", heard |-> Nothing]

\* A missing root leaves check with the text alone.
Init ==
  /\ CatalogInit
  /\ \E s \in Scenarios :
       /\ command = s.command /\ env = s.env
       /\ text = s.text /\ root = s.root /\ rootName = s.rootName
  /\ reading = IF command = "check" /\ env.root = "there" THEN "read" ELSE "parse"
  /\ tool = NoTool
  /\ limits = [budget |-> Nothing, idle |-> Nothing, wait |-> DefaultWait]

---------------------------------------------------------------------------
\* The command line of a child: invocation::of.

ByRouter(option, value) == [option |-> option, from |-> "router", value |-> value]
ByFlags(option) == [option |-> option, from |-> "flags", value |-> Nothing]

LongForm(key) ==
  CASE key = "c" -> "ctx-size" [] key = "ctk" -> "cache-type-k" [] key = "ctv" -> "cache-type-v"
    [] key = "fa" -> "flash-attn" [] key = "np" -> "parallel" [] OTHER -> key

\* A negation is spelled from the key as written.
OptionOf(key, value) ==
  IF Spelled(value) = "false" THEN ByFlags(<<"no", key>>) ELSE ByFlags(<<LongForm(key)>>)

FlagArguments(e) == LET keys == SetToSeq(DOMAIN e.flags)
                    IN  [i \in DOMAIN keys |-> OptionOf(keys[i], e.flags[keys[i]])]

ModelArguments(e) ==
  <<ByRouter(<<"model">>, {e.path})>>
  \o (IF e.draft = Nothing THEN << >> ELSE <<ByRouter(<<"model-draft">>, e.draft)>>)
  \o (IF e.projector = Nothing THEN << >> ELSE <<ByRouter(<<"mmproj">>, e.projector)>>)
  \o <<ByRouter(<<"ctx-size">>, {e.context})>>
  \o (IF e.format = Nothing THEN << >> ELSE <<ByRouter(<<"reasoning-format">>, e.format)>>)
  \o (IF e.effort = Nothing THEN << >> ELSE <<ByRouter(<<"reasoning-effort">>, e.effort)>>)

OwnArguments(e) ==
  <<ByRouter(<<"alias">>, {e.id}), ByRouter(<<"host">>, {"127.0.0.1"}), ByRouter(<<"port">>, {"probed"})>>

Invocation_FlagsLast(e) == ModelArguments(e) \o OwnArguments(e) \o FlagArguments(e)

Invocation(e) == ModelArguments(e) \o FlagArguments(e) \o OwnArguments(e)

---------------------------------------------------------------------------
\* The machine's memory.

\* What the device tool printed: a line that cannot be read spoils it all.
Device(lines) ==
  LET devices == {i \in DOMAIN lines : lines[i].is = "device"}
  IN  IF devices = {} \/ \E i \in DOMAIN lines : lines[i].is = "unreadable" THEN Nothing
      ELSE {[total |-> SumFunction([i \in devices |-> lines[i].total]),
             used |-> SumFunction([i \in devices |-> lines[i].used])]}

\* As wide as the sum.
AboveZero_AsItIs(limit) == IF limit > 0 THEN {limit} ELSE Nothing

\* Nothing is no budget; a budget is a u32.
AboveZero(limit) == IF limit > 0 THEN {Min({limit, MaxU32})} ELSE Nothing

\* Budget::derived: the device less a margin, else a share of system memory.
DerivedBudget(device, system) ==
  IF device # Nothing
  THEN LET total == The(device).total IN AboveZero(total - Max({total \div 10, MinMargin}))
  ELSE UNION {AboveZero((total * SystemShare) \div 100) : total \in system}

---------------------------------------------------------------------------
\* The serve command up to the budget, and what check says.

\* The exit status is all that is left to tell.
Check ==
  /\ at = "read" /\ command = "check"
  /\ at' = "valid"
  /\ UNCHANGED <<text, root, rootName, reading, entries, derived, discovered, problems, notes, walk,
                 taken, command, env, tool, limits>>

Refuse(what) == at' = "refused" /\ problems' = {<<<<"serve">>, what, "">>} /\ UNCHANGED <<tool, limits>>

\* Where the models are, what runs them, and where to listen.
Locate ==
  /\ at = "read" /\ command = "serve"
  /\ IF env.root = "none" THEN Refuse("root")
     ELSE IF ~env.server THEN Refuse("server")
     ELSE IF ~env.address THEN Refuse("address")
     ELSE at' = "budget" /\ UNCHANGED <<problems, tool, limits>>
  /\ UNCHANGED <<text, root, rootName, reading, entries, derived, discovered, notes, walk, taken, command, env>>

Budgeted(limit) == at' = "limits" /\ limits' = [limits EXCEPT !.budget = limit]

\* A budget of nothing read as a budget nobody set.
Configured_ZeroIsUnset ==
  /\ at = "budget"
  /\ IF env.budget.is = "wrong" THEN Refuse("budget")
     ELSE IF env.budget.is = "number" /\ env.budget.n > 0
     THEN Budgeted({env.budget.n}) /\ UNCHANGED <<problems, tool>>
     ELSE Budgeted(DerivedBudget(Nothing, env.system)) /\ UNCHANGED <<problems, tool>>
  /\ UNCHANGED <<text, root, rootName, reading, entries, derived, discovered, notes, walk, taken, command, env>>

\* Budget::configured; only a budget nobody set asks the machine.
Configured ==
  /\ at = "budget"
  /\ IF env.budget.is = "wrong" THEN Refuse("budget")
     ELSE IF env.budget.is = "number" THEN Budgeted({env.budget.n}) /\ UNCHANGED <<problems, tool>>
     ELSE IF ~env.smi THEN Budgeted(DerivedBudget(Nothing, env.system)) /\ UNCHANGED <<problems, tool>>
     ELSE /\ at' = "tool"
          /\ tool' = [NoTool EXCEPT !.state = "running", !.watch = "polling"]
          /\ UNCHANGED <<problems, limits>>
  /\ UNCHANGED <<text, root, rootName, reading, entries, derived, discovered, notes, walk, taken, command, env>>

---------------------------------------------------------------------------
\* command::output.  The tool prints lines into a pipe that holds PipeSize of
\* them, a thread of its own drains it, and the caller polls for the exit.

ToolOnly == UNCHANGED <<catalogVars, command, env, limits>>

ToolPrints ==
  /\ tool.state = "running" /\ tool.printed < Len(env.prints) /\ tool.pipe < PipeSize
  /\ tool' = [tool EXCEPT !.printed = @ + 1, !.pipe = @ + 1]
  /\ ToolOnly

\* A healthy tool exits well, having printed all it has; another one may end
\* badly at any point, or never.
ToolExits ==
  /\ tool.state = "running"
  /\ \/ tool.printed = Len(env.prints) /\ tool' = [tool EXCEPT !.state = "done"]
     \/ ~env.healthy /\ tool' = [tool EXCEPT !.state = "failed"]
  /\ ToolOnly

\* Reads only what is left once the tool has ended.
CanRead_AfterTheExit == tool.pipe > 0 /\ tool.state # "running"

\* The thread that drains the pipe was spawned before anybody waits for the tool.
CanRead == tool.pipe > 0

ReaderReads ==
  /\ CanRead
  /\ tool' = [tool EXCEPT !.pipe = @ - 1, !.read = @ + 1]
  /\ ToolOnly

\* The pipe closes with the process.
ReaderEnds ==
  /\ tool.state \in {"done", "failed", "killed"} /\ tool.pipe = 0 /\ ~tool.drained
  /\ tool' = [tool EXCEPT !.drained = TRUE]
  /\ ToolOnly

\* The deadline is far off for a tool that does its work: it passes only when
\* that tool can do nothing more and nobody drains its pipe.
Deadline ==
  /\ tool.watch = "polling" /\ ~tool.late /\ tool.state = "running"
  /\ env.healthy => tool.printed < Len(env.prints) /\ tool.pipe = PipeSize /\ ~CanRead
  /\ tool' = [tool EXCEPT !.late = TRUE]
  /\ ToolOnly

\* Waits for the exit and for nothing else.
Poll_NoDeadline ==
  /\ tool.watch = "polling" /\ tool.state \in {"done", "failed"}
  /\ tool' = [tool EXCEPT !.watch = "joining"]
  /\ ToolOnly

\* An exit is taken even when it comes late; a tool still running then is
\* killed and waited for.
Poll ==
  /\ tool.watch = "polling"
  /\ \/ tool.state \in {"done", "failed"} /\ tool' = [tool EXCEPT !.watch = "joining"]
     \/ tool.state = "running" /\ tool.late
        /\ tool' = [tool EXCEPT !.watch = "joining", !.state = "killed"]
  /\ ToolOnly

\* The reader is joined; what it read counts only after a good exit.
Join ==
  /\ tool.watch = "joining" /\ tool.drained
  /\ LET heard == IF tool.state = "done" THEN {SubSeq(env.prints, 1, tool.read)} ELSE Nothing
     IN  /\ tool' = [tool EXCEPT !.watch = "joined", !.heard = heard]
         /\ Budgeted(DerivedBudget(UNION {Device(lines) : lines \in heard}, env.system))
  /\ UNCHANGED <<text, root, rootName, reading, entries, derived, discovered, problems, notes, walk,
                 taken, command, env>>

---------------------------------------------------------------------------

\* A window of no seconds is no window; a wait of none refuses at once.
IdleWindow(v) == IF v.is = "number" /\ v.n > 0 THEN {v.n} ELSE Nothing

WaitOf(v) == IF v.is = "number" THEN v.n ELSE DefaultWait

\* The other limits, and the bind.
Bind ==
  /\ at = "limits"
  /\ IF env.idle.is = "wrong" THEN Refuse("idle")
     ELSE IF env.wait.is = "wrong" THEN Refuse("wait")
     ELSE IF ~env.free THEN Refuse("port")
     ELSE /\ at' = "serving"
          /\ limits' = [limits EXCEPT !.idle = IdleWindow(env.idle), !.wait = WaitOf(env.wait)]
          /\ UNCHANGED <<problems, tool>>
  /\ UNCHANGED <<text, root, rootName, reading, entries, derived, discovered, notes, walk, taken, command, env>>

Reading == CatalogNext /\ UNCHANGED <<command, env, tool, limits>>

Gone == Vanish /\ UNCHANGED <<command, env, tool, limits>>

Main == Reading \/ Check \/ Locate \/ Configured \/ Bind

Next == Main \/ ReaderReads \/ ReaderEnds \/ Poll \/ Join \/ Gone \/ ToolPrints \/ ToolExits \/ Deadline

\* Exactly where Main is enabled, and what each of its steps changes.
MainReady == at \in {"text", "discover", "read", "budget", "limits"}
MainSteps == <<at, walk>>

\* The router's threads run and time passes; the tool and the disk do as they like,
\* but for a healthy tool.  The first conjunct is the weak fairness of Main.
Fairness ==
  /\ []<>~MainReady \/ []<><<MainReady>>_MainSteps
  /\ WF_vars(ReaderReads \/ ReaderEnds)
  /\ WF_vars(Poll \/ Join)
  /\ WF_vars(Deadline)
  /\ WF_vars(env.healthy /\ (ToolPrints \/ ToolExits))

Spec == Init /\ [][Next]_vars /\ Fairness

---------------------------------------------------------------------------
\* The text as its author mends it: every field the report names is set right
\* or taken out, and nothing else is touched.

GoodPlace == CHOOSE f \in ToSet(root) : TRUE

GoodValue(field) ==
  IF field \in Places THEN [is |-> "place", at |-> GoodPlace.path, anchored |-> FALSE]
  ELSE [is |-> "number", n |-> 1]

Mended(table, named, needed) ==
  LET set == named \cap needed
  IN  [f \in (DOMAIN table \ named) \cup set |-> IF f \in set THEN GoodValue(f) ELSE table[f]]

Named(report, scope) == {p[2] : p \in {q \in report : q[1] = scope}}

Needed == {"path", "context_size", "memory_estimate_mib"}

TableOf(of) == [is |-> "table", of |-> of]

\* What was no table at all becomes one.
MendedEntry(v, named) ==
  IF "" \in named THEN TableOf(Mended(<< >>, Needed, Needed))
  ELSE IF ~IsTable(v) THEN v
  ELSE TableOf(Mended(v.of, named, Needed))

MendedText(t, report) ==
  [toml |-> TRUE,
   version |-> IF "version" \in Named(report, Whole) THEN {GoodValue("version")} ELSE t.version,
   defaults |-> {TableOf(Mended(Defaults(t), Named(report, Shared), {}))},
   models |-> {TableOf([id \in DOMAIN Models(t) |->
                          MendedEntry(Models(t)[id], Named(report, Scope(id)))])}]

---------------------------------------------------------------------------

TypeOK ==
  /\ at \in {"text", "discover", "read", "refused", "valid", "budget", "tool", "limits", "serving"}
  /\ at = "refused" <=> problems # {}
  /\ discovered \subseteq derived /\ derived \subseteq {e.id : e \in entries}
  /\ limits.budget \subseteq 0..MaxU32 /\ Cardinality(limits.budget) <= 1
  /\ tool.pipe \in 0..PipeSize /\ tool.printed = tool.pipe + tool.read

\* A report names every problem, not the first: a text mended in the places it
\* names is accepted.  Catalog::read may still find out then that it cannot
\* derive an estimate, but only of an entry it could not draft before.
OnePassIsEnough ==
  at = "refused" /\ entries = {} /\ text.toml =>
    LET mended == MendedText(text, problems)
        drafted == {e.id : e \in DraftEntries(text)}
    IN  IF reading = "parse" THEN ParseProblems(mended) = {}
        ELSE ReadProblems(mended) \subseteq
               {<<Scope(id), "memory_estimate_mib", "could not be derived">> :
                  id \in DOMAIN Models(text) \ drafted}

\* What serve takes, check calls valid, and it speaks of the same entries: an
\* estimate that was declared is never replaced, whatever the files suggest.
ServedIsChecked ==
  reading = "read" /\ ParseProblems(text) = {}
    => /\ at # "refused"
       /\ at = "valid" => {e \in entries : e.id \notin discovered} = DraftEntries(text)

\* What discovery says nothing of: a file the walk does not come to, because of
\* its depth, of a directory it cannot read or of a name that is no text, and
\* one whose name has nothing left of it.
LeftInSilence(f) == ~Reached(f) \/ f.path.name = << >>

\* Discovery gives no identifier twice, none the router keeps for itself, and
\* makes no entry of a file the text names; every model file under the root is
\* an entry's, or remarked on, or one of those left in silence.
EveryFileIsAccountedFor ==
  at = "valid" /\ reading = "read" =>
    LET found == {e \in entries : e.id \in discovered}
    IN  /\ \A e, o \in entries : e.id = o.id => e = o
        /\ discovered \cap (Reserved \cup DOMAIN Models(text)) = {}
        /\ \A e \in found : e.path \notin Referenced(entries \ found)
        /\ \A f \in ToSet(root) : IsModel(f.path) =>
             \/ f.path \in Referenced(entries)
             \/ <<"skipped", f.path>> \in notes
             \/ LeftInSilence(f)

---------------------------------------------------------------------------
\* What a child is going to hold, layer by layer, of a file that says it: reckoned
\* from the header and the child's command line, apart from what Derive makes of
\* them.

\* Of an option given twice the server takes the last; the number a flag gives is
\* a text, and nobody knows it here.
ContextTaken(e) ==
  LET given == {i \in DOMAIN Invocation(e) : Invocation(e)[i].option = <<"ctx-size">>}
  IN  UNION {Invocation(e)[i].value : i \in {j \in given : \A k \in given : k <= j}}

\* The flags come in the order of their names, and the short one is behind.
TypeTaken(flags, long, short) ==
  IF short \in DOMAIN flags THEN flags[short]
  ELSE IF long \in DOMAIN flags THEN flags[long] ELSE "f16"

\* Sixteenths of a byte an element takes; the types come in blocks of 32.
ElementHolds(type) ==
  (CASE type = "f32" -> 128 [] type = "q8_0" -> 34 [] type = "q4_0" -> 18 [] OTHER -> 64) \div 2

GpuNames == {"n-gpu-layers", "gpu-layers", "ngl"}
SpecNames == {"spec-type", "speculative-type"}

\* No two names of one setting say different things.
Agree(flags) ==
  \A names \in {GpuNames, SpecNames} : \A a, b \in names \cap DOMAIN flags : flags[a] = flags[b]

OffTheDevice(flags) == \E n \in GpuNames \cap DOMAIN flags : flags[n] = "0"

\* A draft that is a head on the model keeps no cache of its own.
IsHead(flags) == \E n \in SpecNames \cap DOMAIN flags : flags[n] \in {"mtp", "draft-mtp"}

\* The shards there are of the model at a path.
Shards(path, files) ==
  IF path.shard = 0 THEN {path}
  ELSE {f.path : f \in {g \in ToSet(files) :
          g.path.shard # 0 /\ [g.path EXCEPT !.shard = 1] = [path EXCEPT !.shard = 1]}}

\* A key has one shape, an array an element per layer, and the shards are as
\* many as they say.
WellFormed(f, files) ==
  /\ \A p, q \in ToSet(f.pairs) : p.key = q.key => (p.kind = Array <=> q.kind = Array)
  /\ \A m \in Metadata({f}) :
       /\ \A n \in OfModel(m, "block_count") :
            \A suffix \in {HeadsKV, WindowPattern} : \A s \in PerLayer(m, suffix) : Len(s) = n
       /\ f.path.shard # 0 =>
            \A path \in Shards(f.path, files) : \E n \in SplitCount(m) : path.shard \in 1..n

\* The lengths of a key and a value in a layer that attends to all of the context
\* and in one that slides.
HeldKey(m) ==
  The(Or(OfModel(m, "attention.key_length"),
         {The(OfModel(m, "embedding_length")) \div The(OfModel(m, Heads))}))
HeldValue(m) == The(Or(OfModel(m, "attention.value_length"), {HeldKey(m)}))
SlidingKey(m) == The(Or(OfModel(m, "attention.key_length_swa"), {HeldKey(m)}))
SlidingValue(m) == The(Or(OfModel(m, "attention.value_length_swa"), {HeldValue(m)}))

Slides(m, l) ==
  \/ \E p \in PerLayer(m, WindowPattern) : p[l] # 0
  \/ PerLayer(m, WindowPattern) = Nothing /\ m.architecture = {"gemma3"} /\ l % 6 # 0

\* The layers that keep a cache, the heads of one and what it holds.
Keepers(m) ==
  {l \in 1..The(OfModel(m, "block_count")) :
     \A n \in OfModel(m, "full_attention_interval") : n > 1 => l % n = 0}

\* With heads that differ the header says how long a key is, and where layers slide
\* how long their value is if it is longer than the key.
SaysLengths(m) ==
  /\ PerLayer(m, Heads) # Nothing => OfModel(m, "attention.key_length") # Nothing
  /\ \/ OfModel(m, "attention.value_length_swa") # Nothing
     \/ SlidingValue(m) <= SlidingKey(m)
     \/ \A l \in Keepers(m) : ~Slides(m, l)

HeadsOf(m, l) == The(Or({hs[l] : hs \in PerLayer(m, HeadsKV)}, Or(OfModel(m, HeadsKV), OfModel(m, Heads))))

CellHolds(key, value, keyType, valueType) ==
  key * ElementHolds(keyType) + value * ElementHolds(valueType)

LayerHolds(m, l, context, keyType, valueType) ==
  LET window == OfModel(m, "attention.sliding_window")
  IN  IF Slides(m, l) /\ window # Nothing
      THEN Min({context, The(window)}) * HeadsOf(m, l)
           * CellHolds(SlidingKey(m), SlidingValue(m), keyType, valueType)
      ELSE context * HeadsOf(m, l) * CellHolds(HeldKey(m), HeldValue(m), keyType, valueType)

Held(m, context, keyType, valueType) ==
  SumFunction([l \in Keepers(m) |-> LayerHolds(m, l, context, keyType, valueType)]) \div 16

\* The cache of a model whose file says what it takes.
Says(m) == CacheBytes(m, 0, 0, 0) # Nothing /\ SaysLengths(m)

HeldCache(files, path, context, keyType, valueType) ==
  {Held(m, context, keyType, valueType) :
     m \in {k \in UNION {Metadata({f}) : f \in {g \in FileAt(files, path) : WellFormed(g, files)}} : Says(k)}}

ModelHeld(e, files, context) ==
  HeldCache(files, e.path, context, TypeTaken(e.flags, "cache-type-k", "ctk"),
            TypeTaken(e.flags, "cache-type-v", "ctv"))

DraftHeld(e, files, context) ==
  IF IsHead(e.flags) THEN {0}
  ELSE Or(UNION {HeldCache(files, d, context, TypeTaken(e.flags, "cache-type-k-draft", "ctkd"),
                           TypeTaken(e.flags, "cache-type-v-draft", "ctvd")) : d \in e.draft}, {0})

HeldWeights(e, files) ==
  SumFunction([p \in Shards(e.path, files) \cup e.draft \cup e.projector |-> SizeOf(files, p)])

HeldBy(e, files, cache, draft) ==
  Overhead + (IF OffTheDevice(e.flags) THEN 0
              ELSE HeldWeights(e, files) + draft + (IF Generates(e.flags) THEN cache ELSE 0))

Covers(e, files) ==
  Agree(e.flags) /\ e.estimate < MaxU32 =>
    \A context \in ContextTaken(e) :
      \A cache \in ModelHeld(e, files, context), draft \in DraftHeld(e, files, context) :
        e.estimate * Mib >= HeldBy(e, files, cache, draft)

\* An estimate derived from a well-formed header is never below what the child is
\* going to hold, whatever has vanished since: the weights with every shard, the
\* cache of every layer that keeps one at the context of the command line, that
\* of a draft, and the overhead.  Not of an entry whose flags give the context,
\* or contradict each other, and not of a figure as high as a u32 goes.
EstimateErrsHigh == \A e \in entries : e.id \in derived => Covers(e, root)

\* What is left to say of a file when its header counts for nothing.
SizeAlone(e, f) ==
  LET bytes == IF RunsOnProcessor(e.flags) THEN 0 ELSE f.length
  IN  /\ e.context = The(Or(Optional(Defaults(text), "context_size"), {Fallback}))
      /\ e.estimate = Min({DivCeil(bytes + (bytes \div 4) + Overhead, Mib), MaxU32})

\* Of a discovered model whose file ends before its metadata does, as a download
\* that still runs leaves it, nothing is believed: the context is the one without
\* a header and the estimate a quarter above the size.
CutFileGivesItsSizeAlone ==
  \A e \in {d \in entries : d.id \in discovered} : \A f \in FileAt(root, e.path) :
    Last(Ends(f)) <= f.length \/ SizeAlone(e, f)

\* Whatever the flags of an entry carry, the child listens on loopback, on the
\* port the router probes, under the name of the entry: of an option given
\* twice the server takes the last.
ChildIsWhereTheRouterLooks ==
  at = "serving" =>
    \A e \in entries : \A option \in {<<"host">>, <<"port">>, <<"alias">>} :
      LET given == {i \in DOMAIN Invocation(e) : Invocation(e)[i].option = option}
      IN  Invocation(e)[Max(given)].from = "router"

\* The router serves only with what the operator set, a zero included; a budget
\* nobody set is above zero and leaves some of the device alone.
ServesAsConfigured ==
  at = "serving" =>
    /\ "wrong" \notin {env.budget.is, env.idle.is, env.wait.is}
    /\ env.budget.is = "number" => limits.budget = {env.budget.n}
    /\ env.budget.is = "unset" =>
         /\ 0 \notin limits.budget
         /\ \A lines \in tool.heard : \A d \in Device(lines) :
              \A limit \in limits.budget : limit + MinMargin <= d.total
    /\ env.idle.is = "number" /\ env.idle.n > 0 <=> limits.idle # Nothing
    /\ env.wait.is = "number" => limits.wait = env.wait.n

\* A tool that does its work is heard to the end however much it prints, and
\* one that ends badly or is killed is not heard at all.
HealthyToolIsHeard ==
  tool.watch = "joined" =>
    /\ env.healthy => tool.heard = {env.prints}
    /\ tool.heard \subseteq {env.prints}

\* Both commands come to an end, or to serving, although the tool may hang.
StartupEnds == <>(at \in {"refused", "valid", "serving"})

---------------------------------------------------------------------------
\* The inductive invariant behind these: what is known where startup is.

\* The inputs stay what they were, but for files that vanish.
InputsHold ==
  /\ command \in {"check", "serve"} /\ reading \in {"parse", "read"}
  /\ EnvironmentOK(env) /\ TextOK(text) /\ RootOK(root)
  /\ reading = "read" => command = "check"

\* Who is where, and what that tells of the command.
PlaceHolds ==
  /\ at \in {"text", "discover", "read", "refused", "valid", "budget", "tool", "limits", "serving"}
  /\ at \in {"budget", "tool", "limits", "serving"} => command = "serve"
  /\ at = "discover" => reading = "read"
  /\ at \in {"text", "discover", "read", "budget"} => tool = NoTool
  /\ at = "tool" <=> tool.watch \in {"polling", "joining"}
  /\ at = "refused" <=> problems # {}

\* The tool, the thread that drains its pipe and the caller that waits.
ToolHolds ==
  /\ tool \in [state : {"none", "running", "done", "failed", "killed"}, printed : 0..Len(env.prints),
               pipe : 0..PipeSize, read : Nat, drained : BOOLEAN, late : BOOLEAN,
               watch : {"idle", "polling", "joining", "joined"}, heard : SUBSET {env.prints}]
  /\ tool.printed = tool.pipe + tool.read
  /\ tool.state = "none" => tool = NoTool
  /\ tool.state = "done" => tool.printed = Len(env.prints)
  /\ tool.drained => tool.pipe = 0 /\ tool.state \in {"done", "failed", "killed"}
  /\ tool.watch = "idle" <=> tool.state = "none"
  /\ tool.watch \in {"joining", "joined"} => tool.state \in {"done", "failed", "killed"}
  /\ tool.watch = "joined" => tool.drained
  /\ tool.heard = IF tool.watch = "joined" /\ tool.state = "done" THEN {env.prints} ELSE Nothing
  /\ env.healthy => ~tool.late /\ tool.state \in {"none", "running", "done"}

\* What was settled on the way to serving.
LimitsHold ==
  /\ limits \in [budget : SUBSET (0..MaxU32), idle : SUBSET Nat, wait : Nat]
  /\ \A a, b \in limits.budget : a = b
  /\ at = "tool" => env.budget.is = "unset"
  /\ at \in {"limits", "serving"} =>
       /\ env.budget.is # "wrong"
       /\ env.budget.is = "number" => limits.budget = {env.budget.n}
       /\ env.budget.is = "unset" =>
            /\ 0 \notin limits.budget
            /\ \A lines \in tool.heard : \A d \in Device(lines) :
                 \A limit \in limits.budget : limit + MinMargin <= d.total
  /\ at = "serving" =>
       /\ env.idle.is # "wrong" /\ env.wait.is # "wrong"
       /\ limits.idle = IdleWindow(env.idle) /\ limits.wait = WaitOf(env.wait)

\* A report is complete, and nothing goes on after one.
ReportHolds ==
  /\ reading = "parse" =>
       IF at = "refused"
       THEN /\ ParseProblems(text) \subseteq problems
            /\ \A q \in problems \ ParseProblems(text) : q[1] = <<"serve">>
       ELSE at # "text" => ParseProblems(text) = {}
  /\ reading = "read" =>
       IF at = "refused" THEN problems = ReadProblems(text)
       ELSE at # "text" => text.toml /\ DraftProblems(text) = {}

\* The entries, whether the text or a file gave them.
EntriesHold ==
  /\ \A e \in entries : IsFiniteSet(DOMAIN e.flags)
  /\ discovered \subseteq derived /\ derived \subseteq {e.id : e \in entries}
  /\ reading = "parse" \/ at = "text" => discovered = {} /\ derived = {}
  /\ reading = "read" /\ at \in {"text", "refused"} => entries = {}

Accounted(f) ==
  \/ f.path \in Referenced(entries)
  \/ <<"skipped", f.path>> \in notes
  \/ LeftInSilence(f)

\* Discovery, at any file: the identifiers given so far differ and are taken, and
\* every file of the listing is still to come or accounted for.
DiscoveryHolds ==
  reading = "read" /\ at \notin {"text", "refused"} =>
    LET found == {e \in entries : e.id \in discovered}
    IN  /\ \A e, o \in entries : e.id = o.id => e = o
        /\ {e.id : e \in entries} \cup Reserved \subseteq taken
        /\ DOMAIN Models(text) \subseteq {e.id : e \in entries \ found}
        /\ discovered \cap (Reserved \cup DOMAIN Models(text)) = {}
        /\ ParseProblems(text) = {} => entries \ found = DraftEntries(text)
        /\ \A e \in found : e.path \notin Referenced(entries \ found)
        /\ walk \in Seq(ToSet(walk)) /\ (at # "discover" => walk = << >>)
        /\ \A f \in ToSet(root) : IsModel(f.path) => f \in ToSet(walk) \/ Accounted(f)

\* What the estimates are derived from, and what they cover.
EstimatesHold ==
  /\ \A f \in ToSet(walk) : IsModel(f.path)
  /\ \A e \in entries :
       /\ e.context \in Nat /\ \A d, o \in e.draft : d = o
       /\ IsFiniteSet(e.draft) /\ IsFiniteSet(e.projector)
       /\ e.id \in derived => e.estimate \in Nat
  /\ EstimateErrsHigh /\ CutFileGivesItsSizeAlone

StartupInvariant ==
  /\ InputsHold /\ PlaceHolds /\ ToolHolds /\ LimitsHold
  /\ ReportHolds /\ EntriesHold /\ DiscoveryHolds
===============================================================================
