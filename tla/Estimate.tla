------------------------------- MODULE Estimate -------------------------------
(***************************************************************************)
(* What an entry is expected to hold on the device: estimate::derive and   *)
(* what it reads, the metadata of the files and the flags of the entry.    *)
(* A location is a record: the directory and the name as the words between *)
(* separators, the place of the file in a split model, 0 if it is not      *)
(* split, whether its name is text (legible) and whether the directories   *)
(* on the way to it make a path a catalog can carry (carried).  A root is  *)
(* the sequence of its files in the order of the walk, each with whether   *)
(* the listing of every directory on the way gives it (listed).            *)
(***************************************************************************)
EXTENDS Gguf

CONSTANTS
  Mib,        \* the bytes of a mebibyte
  Overhead,   \* OVERHEAD_BYTES
  MaxU32      \* u32::MAX

ASSUME UnitsAssumption == Mib \in Nat \ {0} /\ Overhead \in Nat /\ MaxU32 \in Nat \ {0}

\* An integer division that rounds up.
DivCeil(a, b) == (a + b - 1) \div b

FileAt(root, path) == {f \in ToSet(root) : f.path = path}

---------------------------------------------------------------------------
\* Flags, a function from the names set to their values.

Spelled(v) == CASE v = "True" -> "true" [] v = "False" -> "false" [] OTHER -> v

FirstOf(flags, names) ==
  LET set == {i \in DOMAIN names : names[i] \in DOMAIN flags}
  IN  IF set = {} THEN Nothing ELSE {flags[names[Min(set)]]}

IsOn(v) == Spelled(v) \notin {"false", "0"}

ModeNames == <<"embeddings", "embedding", "reranking", "rerank">>

\* The first name that is set decides.
KeepsNoCache(flags) == \E v \in FirstOf(flags, ModeNames) : IsOn(v)

RunsOnProcessor(flags) == FirstOf(flags, <<"n-gpu-layers", "gpu-layers", "ngl">>) = {"0"}

PredictsTokens(flags) == FirstOf(flags, <<"spec-type", "speculative-type">>) \in {{"mtp"}, {"draft-mtp"}}

\* Any name that is set decides what a caller may ask for.
Generates(flags) == \A n \in ToSet(ModeNames) \cap DOMAIN flags : ~IsOn(flags[n])

\* Sixteenths of a byte per cached element; the spelling is taken as written.
Sixteenths(flags, names) ==
  LET v == Or(FirstOf(flags, names), {"f16"})
  IN  CASE v = {"f32"} -> 64 [] v = {"q8_0"} -> 17 [] v = {"q4_0"} -> 9 [] OTHER -> 32

---------------------------------------------------------------------------
\* The key-value cache.

CachingLayers(m) ==
  {IF \E n \in OfModel(m, "full_attention_interval") : n > 1
   THEN layers \div The(OfModel(m, "full_attention_interval")) ELSE layers :
     layers \in OfModel(m, "block_count")}

\* Every sixth layer of a gemma3 attends to the whole context.
AssumedPattern(m) ==
  IF m.architecture # {"gemma3"} THEN Nothing
  ELSE {[l \in 1..n |-> IF l % 6 = 0 THEN 0 ELSE 1] : n \in OfModel(m, "block_count")}

KeyLength(m) ==
  Or(OfModel(m, "attention.key_length"),
     {e \div h : e \in OfModel(m, "embedding_length"), h \in OfModel(m, Heads) \ {0}})

\* Whole numbers of sixteenths that one token takes, per head.
PerHead(key, value, keys, values) == key * keys + value * values

\* Of a layer that attends to the whole context, and of one that slides.
FullHead(m, keys, values) ==
  LET key == The(KeyLength(m))
  IN  PerHead(key, The(Or(OfModel(m, "attention.value_length"), {key})), keys, values)

SlidingHead(m, keys, values) ==
  LET key == The(Or(OfModel(m, "attention.key_length_swa"), KeyLength(m)))
  IN  PerHead(key, The(Or(OfModel(m, "attention.value_length_swa"), {key})), keys, values)

HeadCount(m) == Or(OfModel(m, HeadsKV), OfModel(m, Heads))

LayerHeads(m, l) ==
  LET byLayer == PerLayer(m, HeadsKV)
  IN  IF \E hs \in byLayer : l \in DOMAIN hs THEN The(byLayer)[l] ELSE The(HeadCount(m))

\* Layers that differ, one at a time.
WindowedCache(m, pattern, window, context, keys, values) ==
  SumFunction([l \in DOMAIN pattern |->
                 IF pattern[l] = 0 THEN context * LayerHeads(m, l) * FullHead(m, keys, values)
                 ELSE Min({context, window}) * LayerHeads(m, l) * SlidingHead(m, keys, values)]) \div 16

DenseCache(m, context, keys, values) ==
  (The(CachingLayers(m)) * context * The(HeadCount(m)) * FullHead(m, keys, values)) \div 16

CacheBytes(m, context, keys, values) ==
  LET pattern == Or(PerLayer(m, WindowPattern), AssumedPattern(m))
      window == OfModel(m, "attention.sliding_window")
  IN  IF \/ CachingLayers(m) = Nothing
         \/ HeadCount(m) = Nothing
         \/ KeyLength(m) = Nothing THEN Nothing
      ELSE IF pattern # Nothing /\ window # Nothing
           THEN {WindowedCache(m, The(pattern), The(window), context, keys, values)}
      ELSE {DenseCache(m, context, keys, values)}

---------------------------------------------------------------------------
\* The files.

SizeOf(root, path) == The(Or({f.length : f \in FileAt(root, path)}, {0}))

\* The shards beside the first forgotten.
WeightsOf_OnlyItself(root, path) == SizeOf(root, path)

\* The file itself and, of a split model, every other shard its metadata counts.
WeightsOf(root, path) ==
  LET shards == The(Or(UNION {SplitCount(m) : m \in Metadata(FileAt(root, path))}, {1}))
      others == IF path.shard = 0 THEN {} ELSE (1..shards) \ {path.shard}
  IN  SizeOf(root, path) + SumFunction([i \in others |-> SizeOf(root, [path EXCEPT !.shard = i])])

DraftCache(entry, root) ==
  IF PredictsTokens(entry.flags) THEN 0
  ELSE LET keys == Sixteenths(entry.flags, <<"ctkd", "cache-type-k-draft">>)
           values == Sixteenths(entry.flags, <<"ctvd", "cache-type-v-draft">>)
           costs == UNION {CacheBytes(m, entry.context, keys, values) :
                             m \in UNION {Metadata(FileAt(root, d)) : d \in entry.draft}}
       IN  The(Or(costs, {0}))

ModelCache(entry, root) ==
  LET keys == Sixteenths(entry.flags, <<"ctk", "cache-type-k">>)
      values == Sixteenths(entry.flags, <<"ctv", "cache-type-v">>)
  IN  UNION {CacheBytes(m, entry.context, keys, values) : m \in Metadata(FileAt(root, entry.path))}

Weights(entry, root) ==
  WeightsOf(root, entry.path)
  + SumFunction([p \in entry.draft |-> SizeOf(root, p)])
  + SumFunction([p \in entry.projector |-> SizeOf(root, p)])

\* The bytes charged: with the cache the metadata comes to, or a quarter of the
\* weights for one.
Charged(weights, cache, draft, keepsNone) ==
  IF cache # Nothing
  THEN weights + (IF keepsNone THEN 0 ELSE The(cache)) + draft + ((weights * 5) \div 100) + Overhead
  ELSE weights + (weights \div 4) + Overhead

\* The estimate and what it rests on; nothing when the model file is not there.
Derive(entry, root) ==
  LET onProcessor == RunsOnProcessor(entry.flags)
      weights == IF onProcessor THEN 0 ELSE Weights(entry, root)
      draft == IF onProcessor THEN 0 ELSE DraftCache(entry, root)
      cache == ModelCache(entry, root)
      keepsNone == KeepsNoCache(entry.flags) \/ onProcessor
  IN  IF FileAt(root, entry.path) = Nothing THEN Nothing
      ELSE {[mib |-> Min({DivCeil(Charged(weights, cache, draft, keepsNone), Mib), MaxU32}),
             basis |-> IF cache # Nothing THEN "metadata" ELSE "size"]}
===============================================================================
