--------------------------------- MODULE Gguf ---------------------------------
(***************************************************************************)
(* The metadata at the head of a model file, as Metadata::read finds it.   *)
(* A file is its length and the key-value pairs its header holds; reading  *)
(* it is a walk over byte counts.  A read past the end fails there and     *)
(* then; a value that is stepped over is a seek, which may leave the file. *)
(***************************************************************************)
EXTENDS Integers, Sequences, SequencesExt, FiniteSetsExt, Functions

CONSTANTS
  MaxPairs,       \* MAX_PAIRS
  MaxKeyBytes,    \* MAX_KEY_BYTES
  MaxKeptText,    \* MAX_KEPT_TEXT_BYTES
  MaxLayerArray   \* MAX_LAYER_ARRAY

ASSUME HeaderBounds == {MaxPairs, MaxKeyBytes, MaxKeptText, MaxLayerArray} \subseteq Nat

\* What a lookup finds is a set of at most one value.
Nothing == {}
The(found) == CHOOSE x \in found : TRUE
Or(found, other) == IF found # Nothing THEN found ELSE other

\* What of a sequence lies in a set, in its order.
Sift(s, wanted) == FoldLeft(LAMBDA out, x : IF x \in wanted THEN Append(out, x) ELSE out, << >>, s)

\* The type tags, as the format numbers them.
Text == 8
Array == 9

\* A key is the part before its first dot and the rest.
ArchitectureKey == <<"general", "architecture">>
SplitKey == <<"split", "count">>
HeadsKV == "attention.head_count_kv"
Heads == "attention.head_count"
WindowPattern == "attention.sliding_window_pattern"
PerLayerKeys == {HeadsKV, Heads, WindowPattern}

\* The bytes a scalar takes; a kind outside Widths is not of the format.
Widths == {<<0, 1>>, <<1, 1>>, <<7, 1>>, <<2, 2>>, <<3, 2>>, <<4, 4>>, <<5, 4>>, <<6, 4>>,
           <<10, 8>>, <<11, 8>>, <<12, 8>>}

Width(kind) == {w[2] : w \in {v \in Widths : v[1] = kind}}

\* A flag is one or zero; a float or a negative number is no number here.
Unsigned(kind, v) ==
  IF kind = 7 THEN {IF v = 0 THEN 0 ELSE 1}
  ELSE IF kind \in {6, 12} \/ v < 0 THEN Nothing
  ELSE {v}

---------------------------------------------------------------------------
\* The walk over a header.

KeptElements(p) == p.key[2] \in PerLayerKeys /\ p.elem \notin {Text, Array}

\* Of the format, and within the bounds on what is read.
Sound(p) ==
  /\ p.keyBytes <= MaxKeyBytes
  /\ p.kind \notin {Text, Array} => Width(p.kind) # Nothing
  /\ p.kind = Array =>
       IF KeptElements(p) THEN p.count <= MaxLayerArray /\ (p.count > 0 => Width(p.elem) # Nothing)
       ELSE p.elem = Text \/ Width(p.elem) # Nothing

\* The bytes of a pair: its key, its kind and its value.
ValueBytes(p) ==
  CASE p.kind = Text -> 8 + p.count
    [] p.kind = Array /\ p.elem = Text -> 12 + 8 * p.count + MapThenSumSet(LAMBDA i : p.values[i], 1..p.count)
    [] p.kind = Array /\ p.elem # Text -> 12 + p.count * The(Or(Width(p.elem), {0}))
    [] OTHER -> The(Or(Width(p.kind), {0}))

PairBytes(p) == 8 + p.keyBytes + 4 + ValueBytes(p)

\* Those at its end that are stepped over: a seek, which may leave the file.
SteppedOver(p) ==
  CASE p.kind = Text -> IF p.count > MaxKeptText THEN p.count ELSE 0
    [] p.kind = Array /\ p.elem = Text -> IF p.count = 0 THEN 0 ELSE p.values[p.count]
    [] p.kind = Array /\ p.elem # Text -> IF KeptElements(p) THEN 0 ELSE p.count * The(Width(p.elem))
    [] OTHER -> 0

\* Where the metadata begins, after the magic, the version and the two counts,
\* and where each pair ends.
Ends(f) == FoldLeft(LAMBDA ends, p : Append(ends, Last(ends) + PairBytes(p)), <<24>>, f.pairs)

\* No read of the first n pairs is past the end of the file.
Walks(f, n) ==
  /\ f.magic /\ f.version \in 2..3 /\ 24 <= f.length /\ Len(f.pairs) <= MaxPairs
  /\ LET ends == Ends(f)
     IN  \A i \in 1..n : Sound(f.pairs[i]) /\ ends[i + 1] - SteppedOver(f.pairs[i]) <= f.length

\* The position is not compared with the length at the end.
Kept_WithoutPosition(f) == IF Walks(f, Len(f.pairs)) THEN {f.pairs} ELSE Nothing

\* fill: all the pairs, or nothing.  A value stepped over to past the end of the
\* file is caught by the next read, or at last by comparing the position.
Kept(f) ==
  IF Walks(f, Len(f.pairs)) /\ Last(Ends(f)) <= f.length THEN {f.pairs} ELSE Nothing

---------------------------------------------------------------------------
\* What is kept.  Of a key that comes twice the last value counts.

\* The elements that are numbers, in file order.
Elements(p) ==
  LET numbers == Sift(p.values, {v \in ToSet(p.values) : Unsigned(p.elem, v) # Nothing})
  IN  [i \in DOMAIN numbers |-> The(Unsigned(p.elem, numbers[i]))]

\* The elements that are numbers, of whichever layer.
NumbersIn(p) == UNION {Unsigned(p.elem, v) : v \in ToSet(p.values)}

IsLayers(p) == p.kind = Array /\ KeptElements(p) /\ NumbersIn(p) # {}

IsNumber(p) == p.kind \notin {Text, Array} /\ p.key[1] # "tokenizer" /\ Unsigned(p.kind, p.values[1]) # Nothing

\* A per-layer array is also kept as its largest element.
NumberOf(p) == IF p.kind = Array THEN Max(NumbersIn(p)) ELSE The(Unsigned(p.kind, p.values[1]))

\* The values of some pairs with their keys.
ByKey(pairs, at, Value(_)) ==
  {<<pairs[i].key, Value(pairs[i])>> : i \in {j \in at : \A k \in at : k > j => pairs[k].key # pairs[j].key}}

\* An architecture name too long to keep is none.
MetadataOf(pairs) ==
  LET layers == {i \in DOMAIN pairs : IsLayers(pairs[i])}
      numbers == layers \cup {i \in DOMAIN pairs : IsNumber(pairs[i])}
      names == {i \in DOMAIN pairs : pairs[i].kind = Text /\ pairs[i].key = ArchitectureKey}
  IN  [architecture |-> {pairs[i].says : i \in {j \in names : j = Max(names) /\ pairs[j].count <= MaxKeptText}},
       numbers |-> ByKey(pairs, numbers, NumberOf),
       layers |-> ByKey(pairs, layers, Elements)]

\* Metadata::read of what lies at a location, if anything does.
Metadata(found) == {MetadataOf(ps) : ps \in UNION {Kept(f) : f \in found}}

Lookup(kept, key) == {entry[2] : entry \in {e \in kept : e[1] = key}}

OfModel(m, suffix) == UNION {Lookup(m.numbers, <<a, suffix>>) : a \in m.architecture}

PerLayer(m, suffix) == UNION {Lookup(m.layers, <<a, suffix>>) : a \in m.architecture}

SplitCount(m) == Lookup(m.numbers, SplitKey)
===============================================================================
