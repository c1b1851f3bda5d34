# A verification of the maestro-llamacpp router

The router serves a catalog of models from one machine. Each model is a
`llama-server` process, a *child*, that the router starts when a request asks
for it, ends when another needs its memory, and relays answers from meanwhile.
What can go wrong is in how threads share the children: a child ended under
somebody reading from it, two models in memory that only has room for one, a
process nobody will ever end, a request that waits for ever. Around that core
are the connection a request comes in on, and the startup that decides what is
served: the catalog, the memory each model is expected to take, the limits. These
modules model all three. TLC checks them on small instances, and TLAPS proves for
every value of the constants nearly all that TLC checks and that is not liveness:
the invariants of the table of children and its ledger, the decisions of the
admission policy, the reaper's timing, the launcher's promise, the connection and
the startup.

Paths below are relative to the repository (`src/proxy.rs` is `src/src/proxy.rs`
beside this directory).

## Inventory

| Component | State | Operations | Hard behaviour | What makes it correct |
| --- | --- | --- | --- | --- |
| admission policy: `admission.rs`, `admission/` | none, a function of a snapshot | `Budget::admit`, `Room::short`, `Room::refusal`, `Loaded::of` | two sides with independent room, measured against estimated cost, ties, unsigned subtraction | victims suffice, are idle and coldest; a refusal is permanent; what a refusal says is true |
| table of children: `proxy.rs`, `proxy/loaded.rs`, `proxy/slots/` | one slot per entry, each with its lock; one admission lock; reference counts | `child`, `admit`, `make_room`, `unload`, `start`, `touch`, `clear` | decisions on a snapshot read slot by slot, a fast path that takes no admission lock, drops outside locks, failures at every step, waiting under a lock | a reader keeps its child, no process without an owner, one load at a time into an empty slot, the budget, every admission ends |
| idle reaper: `proxy/reaper.rs`, `idle.rs`, `proxy/slots/sweep.rs` | a stop flag, its next deadline | `sweep_exited`, `sweep_idle`, `Stop::wait` | sweeps race requests and admissions without their lock | residents and what was just used are spared; the bound on how long a model sits idle |
| resident loader: `proxy/residents.rs` | failures recorded | `load` | competes with requests at startup | residents are loaded once and never evicted |
| stop: `proxy.rs`, `main.rs` | whether a signal came | `Router::stop`, `stop_on_termination` | stop in the middle of loads, sweeps and answers; a second signal | nothing is left behind |
| launcher: `launch.rs`, `launch/` | a child and a port per attempt | `Server::start`, `attempt`, `spawn`, `probe::health`, `Child::stop` | the port is free when asked and taken when bound; servers that exit or never load; probes that time out | a lost port is tried again; an error leaves no process; a bounded call |
| request pipeline: `proxy/answer.rs`, `relay.rs`, `endpoint.rs`, `body.rs`, `head.rs`, `refusal.rs`, `reply.rs` | a connection, how much of the head and the body was read, the connection to the child | read the head, route, refuse, interim answer, obtain a child, forward, copy back | order of refusals, byte bounds, `100-continue`, peers that shut or vanish | refusals are deserved and cost no load; the body arrives as sent; nobody waits on a waiter; a hang-up ends the relay |
| own answers: `proxy/answer/own.rs` | none | listing, catalogue, properties | two walks over the slots in one answer | - |
| catalog: `catalog.rs`, `catalog/read.rs`, `field.rs`, `path.rs`, `resolve.rs` | entries, problems, notes | `Catalog::parse`, `Catalog::read` | values wrong in several ways at once, inherited values, two readings of one text | a report is complete; what serve takes, check calls valid |
| memory estimate: `catalog/estimate.rs`, `catalog/estimate/` | none | `derive` | shards, companions, windowed and per-layer caches, rounding, saturation | an estimate is never below what the child will hold |
| model discovery: `catalog/discover.rs`, `discover/name.rs` | the files listed, the identifiers taken | `under` | files that vanish after they were listed, colliding names | unique identifiers; a file that is passed over is named in a note, but for known exceptions |
| model file header: `gguf.rs`, `gguf/bytes.rs` | a position in a file | `Metadata::read` | files cut anywhere, seeks past the end, bounds | a file cut inside its metadata is not believed |
| budget derivation: `admission/budget.rs` | none | `configured`, `derived` | zero, unset and mistyped; margins; 64 bits into 32 | the operator's figure is kept; a derived one leaves a margin |
| machine memory: `memory*` | a process, its reader thread, a deadline | `command::output`, parse | tools that fill a pipe, fail or hang | a working tool is heard to the end; startup ends |
| launch configuration: `launch/invocation.rs`, `binary.rs`, `root.rs` | none | `of` | flags that repeat the router's own options | the child is where the router probes it |
| serve and check: `main.rs`, `check.rs`, `queue.rs`, `idle.rs` | - | the two commands | each way to refuse, in order | both come to an end |
| bench, stub server: `bench*`, `bin/stub_llama_server` | - | a measuring client and a test double | - | - |

How they interact: a connection's thread runs `answer::to`, which calls
`Slots::child`. That answers from the slot (the fast path), or takes the
admission lock and there asks the admission policy about a snapshot of all
slots, unloads, waits, and calls the launcher. The resident loader calls
`Slots::child` too. The reaper and `Router::stop` empty slots without the
admission lock. A child is an `Arc<Child>`: whoever drops the last handle kills
the process and waits for it. Before all this, `serve` parses the catalog, locates
root and binary, asks for the limits (running a vendor's tool when no budget is
set) and binds; `check` reads the same catalog against the files under the root.
`PROJECT.json` lists every component with what is
modelled of it, and under `hazards` each place where this is hard to test.

## Modules

| Module | Models | Used by |
| --- | --- | --- |
| `Admission` | the policy: pure operators over a snapshot (`view`) | `MCAdmission`, `Slots` |
| `MCAdmission` | every snapshot and every question about it, for TLC | |
| `Slots` | the table of children and its threads | `MCSlots`, `SlotsProofs` |
| `MCSlots` | small catalogs and measurements for TLC | |
| `SlotsProofs` | the theorems about `Slots` | |
| `SumLemmas` | what the proofs need to know of sums over finite sets | `AdmissionLemmas`, `StartupProofs` |
| `AdmissionLemmas` | what a decision means for the ledger | `AdmissionProofs`, `SlotsProofs` |
| `AdmissionProofs` | the theorems about `Admission` | |
| `Reaper` | when an idle model goes: the reaper's deadlines and the stamps requests leave, in counted time | `ReaperProofs` |
| `ReaperProofs` | the theorems about `Reaper` | |
| `Start` | what `Server::start` promises `Slots` | `Launch` |
| `Launch` | `Server::start` in detail, shown to implement `Start` | `LaunchProofs` |
| `LaunchProofs` | the theorems about `Launch` | |
| `Answer` | one connection: caller, router thread, child | `MCAnswer`, `AnswerProofs` |
| `MCAnswer` | requests for TLC | |
| `AnswerProofs` | the theorems about `Answer` | |
| `Gguf` | the header of a model file: pure operators over byte counts | `Estimate` |
| `Estimate` | what an entry is expected to hold: pure operators | `Catalog` |
| `Catalog` | reading a catalog, settling estimates, discovering files | `Startup` |
| `Startup` | the check and serve commands, the limits, the device tool, the child's command line | `MCStartup`, `StartupProofs` |
| `MCStartup` | catalogs, roots and environments for TLC | |
| `StartupProofs` | the theorems about `Startup`, `Catalog`, `Estimate` and `Gguf` | |

Definitions ending in `_Something` that sit in front of a definition of the same
name (`Recheck_Skipped`, `Recheck`) are mutations of it: a plausible mistake in
that code. Nothing uses them; each is there so that a property can be seen to
fail when it takes the definition's place.

### Admission

Entries are the numbers `1..N`, in catalog order. A `view` maps each to `None` or
to the figures `admission::Loaded` carries. `CostOf` and `DeviceOf` are
`Loaded::of`. `Admit` is `Budget::admit` stated as what it should decide: among
the coldest-first prefixes of the candidates, the smallest that leaves neither
side short. `AdmitLoop` is the function as the code computes it: sort, then
accumulate until neither side is short. `Refusal` is which of the three messages
`Room::refusal` writes.

### Slots

| In the code | In the model |
| --- | --- |
| `Slots.by_id`, each `Mutex<Option<Loaded>>` | `slot[e]`; one step holds one slot's lock |
| `Arc<Child>` handles outside slots | `hand[t]`, the processes a thread has a handle on |
| the process behind a child | `proc[p]`: none, loading, ready, exited, gone (reaped) |
| `Arc::strong_count > 1` | `Busy(e)`: the slot's process is in some hand |
| `Slots.admission` | `admission`, with its holder's locals `view next free todo left` |
| where a thread is | `pc[t]` |
| `Instant`s | ages in ticks, saturating at `MaxAge`; `Tick` ages everything together |
| `now` and `stale` in a sweep | `old`: the entries a window or more old when the sweep read the clock and not used since |
| `Shared.resident_failures` | `failures` |
| `Stop` | `stopped` |

Actions are the code's critical sections, in order: `Arrive`, `Fast`
(`Slots::child`); `Lock`, `Recheck`, `ModelFile` (`Slots::admit`); `Probe`,
`Snapshot` (one slot a step), `Decide`, `Hold` (`make_room`); `Unload`,
`Unloading` (`unload`, one victim a step, its kill a step of its own); `Spawn`,
`Load`, `Insert` (`start` and the insertion); `Relay`, `Touch`, `Release`
(the rest of `answer::to`); `Warm` (the loader's next resident); `Wake`,
`SweepExited`, `SweepNow`, `SweepSnapshot`, `SweepTake`, `SweepDrop` (the reaper);
`StopCalled`, `Clear`, `ClearDrop`, `StopReturns`, `SecondSignal` (stop and the
signal handler). A request and the loader share every step from `Fast` on.
`Crash` (a child exits by itself) and `Tick` are the machine's. A router that has
exited takes no steps; its children still crash.

Abstractions. Which thread wakes from a lock is arbitrary. The reaper may wake
at any time, which covers every schedule of its deadlines (`Reaper` has the schedule). A measurement is one
of a small set and is turned into its two figures at insertion, because nothing
ever changes it later. A process is named by the thread that started it and its
entry, because one thread starts at most one process per entry. A sweep that
finds a dead child reaps it in the same step: nobody else can see it between
the two.

### Reaper

`Slots` has every interleaving of a sweep and no measure of time. `Reaper` has
time and one on-demand entry: the other entries are the time (at most `Slow`) a
sweep spends on them. `due` is the time to the next deadline, which is the last
one plus half the window (at least `MIN_INTERVAL`), so it is negative while slow
sweeps lag. `last` is the age of `last_used`, which a request stamps when it is
handed the child and when its relay ends; `idle` and `answered` are what the
documentation speaks of, the time since a request let go and since an answer
ended. A caller that is gone before the interim line lets go without a stamp.
Time passes in a wait only up to its deadline, so the reaper is assumed to be run when it
is due. After `Router::stop` the children of running requests are in no slot
(`outside`), and their stamps land on whatever the slot holds.

### Launch and Start

`Launch` is one call of `Server::start`: two attempts at most, each of them
spawn, then a loop of liveness check, health probe, budget check and sleep. Around it
are the server (`Bind`, `Ready`, `Exit`) and a stranger who may own any port at
any time. `elapsed` is time since the attempt began and `total` since the call,
both in ticks, of which a poll interval takes `Poll` and a probe up to `ProbeTicks`, so
that a sleep may begin within the budget and end past it. Spawning and killing take
no time. A stranger on the port may answer a probe with 200, with something else or
not at all. `Start` is the promise: a call ends with a child whose
process exists, or with an error and no process. `Slots` relies on exactly this
in `Spawn` and `Load`.

### Answer

A request is the lines of a head (sizes in bytes, header names and lengths), the
path as its segments, and the bytes of a body, which are numbered so that a lost
or shifted one is seen. `caller` has how much was sent and whether the caller is
open, has shut its sending side, or is gone; a caller that asked for
`100-continue` and is `patient` sends no body before it hears something. `at` is
where `answer::to` is, `up` the connection to the child.

| In the code | In the model |
| --- | --- |
| `head::read` | `ReadLine`, one line a step, `HeadRefused` |
| `head::parse`, `Endpoint::of`, `allows`, `suffix` | `Length`, `BodyBytes`, `Expects`, `EndpointOf`, `Allowed`, `Suffix` |
| `answer::to` up to the child | `Unrouted` (what the head alone is refused for, in the code's order), `Refused`, `OwnAnswer`, `Catalogue`, `Routed`, `ReadBody`, `Lookup` |
| `Shared::child` | `NoChild` with one of its failures, or `GotChild`; `Slots` is its detail |
| `relay::run`, `forward_body`, `copy_response` | `Connect`, `WriteBody`, `ForwardBody`, `CopyResponse` |
| the end of the relay | `Touch` |

The first write to a caller that is gone may succeed and the second fails
(`WriteFails`, `WriteWorks`), as with a TCP peer that answers the first with a
reset. The child is external: it may write at any time and close at any time.
What a body says is a model's name, or that it is not JSON or names none; a body
of which bytes are missing is not JSON.

### Gguf, Estimate, Catalog

A file is its length, whether its magic and version are right, and its metadata
pairs with their kinds and sizes. `Ends` is where each pair ends; `Kept` is what
`Metadata::read` returns: nothing if a value that is read, or the end of one that
is skipped, lies past the length. `Derive` is `estimate::derive`, over the entry's
flags, its file, its shards, draft and projector. A layer's cache is its span
times its heads (`LayerHeads`) times what a token takes in one (`FullHead`,
`SlidingHead`).

A catalog's text is a table of values, each a number, a text, a place or a table,
and wrong ones among them; a problem is whom and which field it is about.
`DraftEntries` and `DraftProblems` are `read::drafts`, `ParseProblems` is
`Catalog::parse`, `ReadProblems` and `Settled` are `Catalog::read`. The actions are
`Parse`, `Settle`, `Discover` (one file a step) and `Finish`; `Vanish` removes
the file that is looked at next. A file's identifier is made of the words of its name.
A root is every file there is: `Walk` is what `walk` comes to of it, which leaves out what
is below `MAX_DEPTH`, what is in a directory that cannot be read or whose listing
fails (`listed`), and what has a name that is no text (`legible`). `Passed` is what
`under` then makes no entry of, and `PassedNotes` what it says of it: a note for a path
with a directory in it that is no text (`carried`), none for a file the catalog names or
for a name with nothing left of it.

### Startup

`Init` picks a command with its catalog, root and environment. `serve` goes
through `Parse`, `Locate`, `Configured`, the tool, and `Bind`; `check` through the
reading and `Check`. What a child is going to hold is defined beside them and apart from
`Derive`: the context from the child's command line and not from the entry
(`ContextTaken`), the shards by listing the root and not by counting from the metadata
(`Shards`), the lengths of keys and values, their types, the heads and the
layers from the header and the flags (`HeldKey` to `HeadsOf`), and the cache layer by layer
(`LayerHolds`) and not by either of the code's two formulas, the draft's with it.
`Covers` compares the two. The tool is a process (`ToolPrints`, `ToolExits`) that writes
into a pipe of `PipeSize` lines, with a reader thread (`ReaderReads`,
`ReaderEnds`), and `Deadline`, `Poll` and `Join` are `command::output`.
`Invocation` is the child's command line, each option with who put it there.

## Runs

| Run | Instance | What it shows |
| --- | --- | --- |
| `admission` | 3 entries, one resident, one off the device; two ages; sides unreadable or above every estimate; ceilings from too small to loose | the loop decides what the definition decides; its victims suffice, are idle on-demand entries and the coldest; a refusal is permanent; "can never load" is true |
| `slots_evict` | 3 entries, the first, a resident, as large as the two others and as the budget; the loader and 2 requests; a wait of one tick | eviction of one and of two children against readers, the fast path and a second request for the same entry: the budget, one child per entry, a load fits the room made for it, residents stay, and, with fairness, that every admission ends |
| `slots_sweep` | 2 entries, 2 requests, the reaper, stop by a caller or by a signal, a second signal, a device others use, a child measured above its estimate | sweeps, stop and crashes in the middle of everything: a reader keeps its child, what was used between the sweep's snapshot and its take is spared, a load fits beside what is counted and goes into an empty slot, and nothing is orphaned while the router runs |
| `reaper` | a window of 4, an interval of 2, sweeps of up to 3, 2 requests at once | an idle model goes within the documented bound, and not within a window of an answer |
| `launch` | 2 ports, a budget of 3 ticks, sleeps of 2, probes of up to 3, strangers that answer 200, something else or nothing | the refinement, the retry of a race nobody was heard in, the bound on the call |
| `answer` | every path shape with every method, up to four header lines, bodies of up to 2 bytes against declared lengths of 0 to 3, heads around the byte and line bounds | refusals are deserved and precede any load and any body the caller could be spared; the body reaches the child as sent; an honest caller is answered; a hang-up ends the relay |
| `startup` | 6,911 scenarios: catalogs wrong in each combination of fields, roots of every kind of file, environments, a tool that prints up to three lines | a report is complete, check and serve agree, files are accounted for, estimates err high, a cut file is not believed, the child is where it is looked for, limits are as configured, a healthy tool is heard, startup ends |
| `admission_retry`, `slots_race`, `slots_exit`, `launch_race`, `answer_edge` | as above, smaller | disagreements between the code and what it says of itself, below |

Deadlock is not checked: each instance has finitely many requests and may stop
once they are answered.

Bounds. Two entries that exclude each other are the least on which eviction
happens; an entry as large as two others lets a decision name two victims, of which the
second may have gained a reader by the time the first is ended. The loader and two requests
give two readers and a waiter that holds the lock, or a reader, a waiter
and one queued behind it. That a sweep empties one of two victims before the unload
reaches it takes more threads than TLC gets through; it is covered by
`LoadsFitTheLedger` and the other theorems about `Slots`, which hold for any
catalog, and so is a sweep beside residents (`ResidentsStay`). Ages beyond one window are
not told apart by any guard except the coldest-first order, which `admission`
covers exhaustively on its own. `slots_evict` sets `MaxAge = 0` because with one
candidate at a time the order cannot matter. A wait of one tick gives a pass that
waits and one that gives up. In `reaper` a sweep can outlast the interval, so that deadlines lag (by at most
`MaxLag`) and sweeps follow each other without a wait; ages saturate at
the bound that is checked. In `launch` the budget is no multiple of the poll interval, so that
the last sleep of an attempt passes it and the next liveness check comes after it; a
probe can take as long as the budget. `launch_race` leaves out the strangers that say
nothing.

In `answer` the head's bound is 10 bytes and 4 lines and the body's 2 bytes, so
that both sides of each bound are reached; the relay's buffer could take one byte
more than some requests declare, and any read may be short. `answer` leaves out the one head whose last byte lies
just past the bound, which is `answer_edge`. In `startup` a mebibyte is 16 bytes, so
that rounding shows; a `u32` ends at 100, so that estimates and budgets saturate;
a pipe holds one line, so that a tool with two waits for its reader; a header has
up to 12 pairs against `MaxPairs = 10`. A few headers are read at a context of 24, where
a wrong length, type, head count or window of one layer costs more than what rounding
and the allowances leave (`Long`). A root has files the walk does not come to: too deep,
in a directory that cannot be listed, of a name or in a directory that is no text.

Symmetry is over the request threads, in `slots_sweep` and `slots_race`, whose
properties do not tell them apart and say nothing of liveness.

Fairness. `AdmissionEnds` assumes that the scheduler runs each thread that has
something to do (weak fairness of `Work(t)`, which contains only steps the thread
can take alone, and of `Warm`) and that time passes (`Tick`). The admission lock
is a `Mutex` without a queue, and weak fairness is enough because the requests of
the instance are finitely many. Nothing is assumed of `Relay`: a caller may read for ever. A load
returns because `Server::start` is bounded, which `launch` checks from weak
fairness of the calling thread alone. A kill is assumed to return; the code says
what happens otherwise (`slots/mod.rs`, `unload`).

In `Answer` the router's thread runs (`Router`), a caller goes on sending what it
has unless it left (`Sends`), and a child that has its whole request answers or
closes (`Answers`); a child that was promised more than it got owes nothing. In
`Startup` the router's threads run and time passes; nothing is assumed of the tool,
except that a healthy one does its work before the deadline unless it waits for a
pipe nobody drains. The fairness of the main thread is written out
(`[]<>~MainReady \/ ...`), which is what `WF` means with `MainReady` in the place of
`ENABLED Main`.

### Where the code and its words disagree

* `slots_race`. `sweep.rs` says that a sweep without the admission lock is
  "conservative rather than wrong", since it only removes. But it empties the slot
  first and kills the child afterwards: an admission in between finds no child to
  count and starts its model beside a process that still holds its memory. The
  counterexample has one request loading one model, the reaper taking it, and a
  second request loading another. `unload` keeps its kill under the lock for this
  reason.
* `slots_exit`. README says a signalled router ends every server it started,
  save one that is mid-answer. A server that is still loading is in no slot
  either: `clear` misses it and `exit` leaves it behind.
* `admission_retry`. `Retry-After` is "sent exactly when waiting changes the
  answer", but `Blocked` asks only whether somebody on-demand is busy. When the
  residents leave too little room whatever happens, the refusal says that waiting
  cannot help, and carries a `Retry-After`. The caller also waits out the whole
  admission wait, with the lock held.
* `launch_race`. `Server::start` retries a server that died before a probe connected,
  since that one "never bound the port at all" and to lose the port "is not a model
  that failed to load". But a probe reaches whoever has the port. In the counterexample
  a process outside the router takes it and answers 200: `start` returns a child
  that has yet to bind, and then exits. If the winner answers anything
  else (with `StrangerSays = {"other"}` the run finds this; another `llama-server`
  says 503 while it loads), `ever_connected` becomes true and the lost race is reported as a
  server that "exited while loading". What the retry does cover is
  `UnheardRaceIsRetried`, in `launch`.
* `answer_edge`. The head is read through what is left of its byte bound. If its
  last byte, the newline of the blank line, is the first past the bound, the
  carriage return alone ends the head, and the newline becomes the first byte of
  the body: what the child is sent is shifted by one, and loses its last byte.

Smaller ones, without a run. README's "Taking a slot drops the child inside the
slot's own guard" describes an earlier version (`take_if_idle` hands it back).
`free_port`'s comment says that a lost race is not retried; `start` retries it.
`serve` and README bound the wait behind a resident's load by its startup budget;
with a retry it is two budgets, two sleeps and a probe (`WithinTwoBudgets`). README's "at most
one and a half windows plus one sweep" holds while no sweep outlasts the
interval; a longer one delays the next, and the bound is then a window and two
sweeps (`UnloadedInTime` states both). After
`Router::stop` on a router that goes on serving, a child kept by a reader is counted by no
slot, so `WithinBudget` and `OneChildPerEntry` are not claimed there.
`limit - reserved` in the refusal that waiting
cannot help underflows when a resident was measured above the budget; the startup
line guards the same subtraction. `catalog.rs` says that a report names every
problem, not the first; `Catalog::read` asks for the files only of entries it could
draft, so an entry with a wrong field and a missing file takes two rounds
(`OnePassIsEnough` allows exactly this). `check` accepts a catalog without estimates
when the files give them, and `serve`, which parses the text alone, refuses it. Discovery
speaks of "every model file under the root", in `discover.rs` and at the head of
`tests/discovery.rs`. A directory it cannot read or list, a file below `MAX_DEPTH`, one whose
name is not UTF-8 and one whose name has no ASCII letter or digit are all passed over
without a note; `EveryFileIsAccountedFor` names these exceptions (`LeftInSilence`) and
allows no other. The plan of
the dedicated endpoint promises a 502 for a child that cannot be reached; the
connection is closed without a status. The 408 of `head::read` cannot occur: no
read timeout is set, and a silent caller keeps its thread. `estimate.rs` says
that every term errs high; a draft whose metadata does not say what its cache takes
is charged no cache, a draft beside a model whose metadata does not say loses its
cache to the quarter of the weights, and a draft in shards is charged its first file
only. Nor does it hold where the flags have the last word: a `c` or `ctx-size` flag gives the
child another context than the estimate was derived for; of two names of one
setting with different values (`ngl` and `n-gpu-layers`, `spec-type` and
`speculative-type`) the code may believe the one the server overrides; and a layer that slides
without `value_length_swa` is charged a value as long as its key, also where
`value_length` is more. `Covers` claims none of these (see below).

## Proofs

`SlotsProofs` proves for every catalog, every set of requests, every
budget, wait, window and bound that satisfies `CatalogAssumption` and
`SlotsAssumption`:

| Theorem | Statement |
| --- | --- |
| `SlotsInvariantHolds` | `Spec => []SlotsInvariant` |
| `TypesHold` | `Spec => []TypeOK` |
| `ReadersKeepTheirChildren` | `Spec => []ReaderKeepsItsChild` |
| `NothingIsEverOrphaned` | `Spec => []NothingIsOrphaned`, which is about a router that runs |
| `LoadsGoIntoEmptySlots` | `Spec => []LoadsIntoAnEmptySlot` |
| `ResidentsStay` | `Spec => ResidentStays` |
| `SweepsSpareTheUsed` | `Spec => SweepSparesTheUsed` |

The assumptions say that the constants have their types and that the special
threads are distinct; nothing else is needed.

None of the properties is inductive alone. That a reader keeps its child needs
that a dropped handle is the last only if neither a slot nor a hand has the
process (`LastHandles`), and so that hands hold what the threads' places say
(`HandsMatchPlaces`) and slots hold children of their own entry that were once
ready (`SlotsHoldTheirOwn`). That a load goes into an empty slot needs that one
thread at a time is past `Lock` (`LockIsExclusive`), since only `Insert` fills a
slot. That nothing is orphaned while the router runs (`EveryProcessIsHeld`: each process
is in a slot or in the hand of a thread, which drops it; what a router that exits leaves
behind is the subject of `slots_exit`) needs that `Spawn` creates a process that did not
exist (`StartsAreFresh`) and that `Insert` overwrites nothing. `ResidentStays` and
`SweepSparesTheUsed` need that what is about to be taken was chosen among
on-demand entries, and that `old` holds only entries that still are
(`VictimsAreFair`). Their conjunction, `SlotsInvariant`, was checked with TLC on
the instances of `slots_evict` and `slots_sweep` as well. The proof has one lemma per action (`LockKeeps`, `UnloadKeeps`, ...) and
lemmas on `Drop`, `HandOut` and `NoneLive`, which several actions share.

`ReaperProofs` proves for every window, minimal interval, length of sweep and
bound, from `ReaperAssumption` (they are numbers, the first two positive):

| Theorem | Statement |
| --- | --- |
| `ReaperInvariantHolds` | `Spec => []ReaperInvariant` |
| `ReaperTypes` | `Spec => []TypeOK` |
| `IdleModelsGoInTime` | `Spec => []UnloadedInTime` |
| `NoModelGoesEarly` | `Spec => UnloadedNotBefore` |

`IdleHolds` is the heart of it: what a sweep leaves in its slot was idle for less
than a window when that sweep read its clock, so at the end of the sweep the time
idle and the time still to wait add up to no more than a window and the slack,
and the wait trades one for the other. It needs that a sweep's own time and what
is left to the next deadline add up to no more than the interval
(`ScheduleHolds`), and that the stamp the sweep judges by is no younger than the
moment the last request let go (`StampsHold`).

`LaunchProofs` proves for every set of ports, every budget, poll interval and length of a
probe, and whatever strangers answer, from `LaunchAssumption`:

| Theorem | Statement |
| --- | --- |
| `LaunchInvariantHolds` | `Spec => []LaunchInvariant` |
| `LaunchTypes` | `Spec => []TypeOK` |
| `CallsTakeTwoBudgets` | `Spec => []WithinTwoBudgets` |
| `UnheardRacesAreRetried` | `Spec => []UnheardRaceIsRetried` |
| `LaunchImplementsStart` | `Spec => Promise!Init /\ [][Promise!Next]_Promise!vars` |

That every lost race is retried is false (`launch_race`), and so is not among them.
The last theorem is `KeepsThePromise` without its end.
`TimeHolds` is why a call takes two budgets, two sleeps and a probe, and not more: whenever
the liveness check can fail an attempt and cause a retry, the attempt is no further
past its budget than the sleep that began within it, and only the second attempt can
add a probe to that. `OwnersHold` says that a port of ours is the one the server of
this attempt bound, and
`BlameHolds` that a server that is gone lost its port or exited by itself. `PlacesHold`,
that the attempt the call is not in has no process, is what makes an error leave
none behind. `LaunchInvariant` was checked with TLC on the instance of `launch`.

`AdmissionProofs` proves for every catalog and every ceiling, over every snapshot and every
question about it, from `CatalogAssumption` and `QuestionsAssumption`:

| Theorem | Statement |
| --- | --- |
| `TypeCorrect` | `Spec => []TypeOK` of `MCAdmission` |
| `LoopComputesTheDefinition` | `Spec => []LoopMeetsDefinition` |
| `UnloadsSuffice` | `Spec => []UnloadingIsEnough` |
| `VictimsAreTheColdest` | `Spec => []VictimsAreColdAndIdle` |
| `RefusalsStand` | `Spec => []RefuseIsPermanent` |
| `NeverIsNever` | `Spec => []NeverMeansNever` |

The snapshot is arbitrary, so these are facts about the operators. `AdmitLoop`
accumulates over sets of candidates in coldest-first order. `LoopIsTheDefinition`
compares it with `Admit` at a smallest set of candidates on which they could
differ; it rests on the sort order being total (`ColderIsAnOrder`) and on the
pass's three figures being the sums over what it has passed (`Passes`,
`FreedGrows`). The other theorems then speak of `Admit` alone, where each is a
comparison of two sums.

`SlotsProofs` uses the same lemmas for the memory of the machine:

| Theorem | Statement |
| --- | --- |
| `LoadsFitTheLedger` | `Spec => []LoadFitsTheLedger` |
| `OneChildPerEntryHolds` | `Spec => []OneChildPerEntry`, if `OnlyRequests` |
| `BudgetHolds` | `Spec => []WithinBudget`, if `OnlyRequests` |

A load fits the ledger through any interleaving, because a snapshot read slot by
slot is never out of date in the direction that matters: while its reader holds
the admission lock slots are only emptied (`SnapshotIsFaithful`), and a victim
somebody else has taken leaves at least the room its unloading would
(`UnloadingMakesRoom`). What the processes themselves hold is another matter: a
sweep and `Router::stop` empty a slot before they kill its child, so the two other
properties are false beside them (`slots_race` is the counterexample), and are
proved, as they are checked in `slots_evict`, for a router with no idle window that is not stopped
(`OnlyRequests`). There every process is in its entry's slot or in the hand of the
one thread that loads or ends it (`EveryChildHasItsPlace`), no slot is charged less
than its entry's estimate (`ChargesCoverEstimates`), and so what the ledger
allows, the machine has (`ExistingFit`).

`AnswerProofs` proves for every set of requests, models, bounds and sizes of buffers,
from `RequestsAssumption` and `BoundsAssumption`:

| Theorem | Statement |
| --- | --- |
| `InvariantHolds` | `Spec => []AnswerInvariant` |
| `TypeCorrect` | `Spec => []TypeOK` |
| `Spared` | `Spec => []SparedTheBody` |
| `RefusalsAreDeserved` | `Spec => []RefusalIsDeserved`, if `NoneStraddles` |
| `OnlyServable` | `Spec => []OnlyServableStartsAModel`, if `NoneStraddles` |
| `BodyArrives` | `Spec => []BodyArrivesAsSent`, if `NoneStraddles` |

`NoneStraddles` says that no request's blank line ends one byte past the bound on a
head. `answer_edge` shows that it is needed: after such a head the body is shifted by a
byte. The run `answer` checks the same set of requests. The invariant follows the
thread from place to place: the head is counted line by line and is whole before
it is used (`HeadHolds`), what a place says was found in order on the way there
(`RouteHolds`), the bytes read and the bytes passed on are the first ones of the
body (`BodyHolds`), and what the caller can have heard by now (`HeardHolds`).

`StartupProofs` proves for every set of scenarios (a command with its catalog, models root and
environment), from `HeaderBounds`, `UnitsAssumption`, `DefaultsAssumption`,
`ScenariosAssumption` and `MachineAssumption`, which say that the inputs are well typed (a root
has one file at a path, and a scalar pair one value, `RootOK`), that the machine's figures
are numbers and that the context of a file that names none is one:

| Theorem | Statement |
| --- | --- |
| `InvariantHolds` | `Spec => []StartupInvariant` |
| `TypeCorrect` | `Spec => []TypeOK` |
| `HealthyToolsAreHeard` | `Spec => []HealthyToolIsHeard` |
| `ServedAsConfigured` | `Spec => []ServesAsConfigured` |
| `WhatIsServedWasChecked` | `Spec => []ServedIsChecked` |
| `FilesAreAccountedFor` | `Spec => []EveryFileIsAccountedFor` |
| `ChildrenAreWhereTheRouterLooks` | `Spec => []ChildIsWhereTheRouterLooks` |
| `OnePassSuffices` | `Spec => []OnePassIsEnough` |
| `EstimatesHoldAlways` | `Spec => []EstimatesHold` |
| `EstimatesErrHigh` | `Spec => []EstimateErrsHigh` |
| `CutFilesGiveTheirSizeAlone` | `Spec => []CutFileGivesItsSizeAlone` |

`ToolHolds` balances what the tool printed against what is in the pipe and what the
reader has, and says that a caller who joined the reader waited for the end of the
pipe. `LimitsHold` carries each limit from the step that settles it to the bind.
`DiscoveryHolds` is why no file is lost: each model file under the root that `walk` comes to is still in the walk or accounted for, and this survives a file
that vanishes, because a file leaves the root and not the walk. It needs that the
identifiers given so far are among those taken. `ReportHolds` says that a report has all
the problems of the reading that stopped, which is what `OnePassSuffices` needs; the
rest of that proof is about the text alone, field by field: what is mended is in
order, and what was in order is not mended into a fault.
`ChildrenAreWhereTheRouterLooks` is about an operator, and needs of the state only
that flags are finite. `StartupInvariant` and `EstimatesHold`, below, were checked with
TLC on the instance of `startup`.

`EstimatesErrHigh` needs `EstimatesHold` beside `StartupInvariant`. The estimate is derived once, at
`Settle` or `Discover`, and compared with what the root holds at every later step,
so the invariant carries the comparison itself (`Covers`) past the files that vanish: what
vanishes is a file of the walk, the walk has only model files, which is the invariant's
first part, and without it an entry's shards weigh no more than before
(`CoversStays`). A step that derives meets it by two inequalities.
`WeightsCover`: the weights charged are those of every shard, draft and projector
there is, because the shards there are lie among the ones counted up to
`split.count`, and a sum over fewer files is smaller. `HeldIsCounted`: the cache
charged is that of every layer that keeps one. On the windowed path the sum the code
takes has a term for each layer at least as large as what that layer holds; on the
dense path one product stands for all of them, each layer holds at most a
`CachingLayers`-th of it, since the largest of an array of heads is
no smaller than any of them, and there are as many keepers as the code divides
out: `l |-> l \div k` maps the layers divisible by `k` one to one onto `1..n \div k`.
Rounding keeps the order: on either side the sixteenths are cut once, after the sum,
and the mebibytes are rounded up. Between the two sides stand comparisons of what each reads
for itself: a layer's lengths of key and value (`CellsAreCovered`), the types of the
cache, for which the server takes the last of the flags and the code the same
(`TypeIsCharged`), and the context of the command line, which is the entry's as no
flag gives another (`ContextTakenMeans`).

`CutFilesGiveTheirSizeAlone` is carried the same way, by `EstimatesHold`: when a file that ends
before its last pair does is discovered, `Kept` has nothing of it, whether a read or
the comparison of positions found out (`CutFileKeepsNothing`), and so no context, no cache
and no count of shards comes of it (`DiscoveredCutFile`).

What `EstimatesErrHigh` does not claim. Nothing is said of an entry whose header does not say what
its cache takes, so that the estimate rests on the size alone; of one whose flags give
the context (the server takes the flag, and the estimate follows the entry); of one
whose flags have two names of one setting with different values (`Agree`); of an estimate
that was cut to a `u32`; of a header with heads that differ by layer and no
`attention.key_length`, or with sliding layers whose value is longer than their
key and no `attention.value_length_swa` (`SaysLengths`). A draft is taken to have the
model's context.

The claim is also about files that are well formed (`WellFormed`), and each part of that is used. A key has
one shape: a header that has `head_count_kv` first as an array and then as a number
leaves both in the metadata, the number larger or smaller than the array's
elements. An array has an element per layer: of a shorter pattern the code sums
fewer layers than there are. And the shards on disk are among those the header
counts: the code sizes no other. The header of a llama.cpp conversion has all three.

The library's induction theorems cannot be used here, since they take an operator as a
parameter. Sums over finite sets, the accumulating loop and the walk over a listing
are instead defined with folds or recursive functions, and each fact is proved by looking at a smallest
set or shortest prefix on which it would fail, which exists because the subsets of
a finite set are well-founded (`SmallestSubset`). That a recursive function is
what its definition says is proved the same way, from a table that grows by one set
at a time (`SumTableExists`, `LoopTableExists`); the same way, what a filter leaves of a
sequence is that sequence's elements and no others (`Sift`). `SumLemmas` adds what a sum of equal terms
is, how terms bound a sum, and what the sum over a union comes to.

Only model-checked. Liveness: `AdmissionEnds`, `HonestCallerIsAnswered`,
`HangUpStopsTheModel`, `StartupEnds`, and that `Server::start` returns (the end of
`KeepsThePromise`): what must eventually happen needs fairness, which is stated with
ENABLED, and that is beyond the prover. Every other property of the passing runs is proved.

## Not modelled

The benchmark (`bench*`) is a client that measures one entry after another, keeps
no state of the router and decides nothing for it. The stub server is a test
double; what is assumed of the real one is in `Launch` and `Answer`. Command-line
parsing, TOML syntax, JSON syntax, the cutting of a platform's text into numbers,
the wording of messages and the printing of progress are left out throughout. Of
the own answers, what they contain is left out, except for what the catalogue
reads of a slot. A panic under a lock is not modelled: the code recovers poisoned
locks everywhere. A connection is one request, as in the code, which closes after
each. Arithmetic is on unbounded numbers except where the code cuts or saturates;
the 64-bit sums of the estimate are not taken to their limit.

## Plan

1. Done: `Admission`, `Slots`, `Reaper`, `Start`, `Launch`, `Answer`, `Gguf`,
   `Estimate`, `Catalog`, `Startup`, and the theorems above.
2. The catalogue's answer (`own.rs`): what two walks over the slots can say of each
   other, as a property of `Answer` and a theorem.
