------------------------------ MODULE MCStartup ------------------------------
(***************************************************************************)
(* Scenarios for TLC: catalogs that are wrong in every combination of      *)
(* ways against one root, roots of every kind of file against two          *)
(* catalogs, and environments against one of each.  Sizes are in bytes,    *)
(* with a mebibyte of 16.                                                  *)
(***************************************************************************)
EXTENDS Startup

\* Files.

Pair(key, kind, elem, count, values, says) ==
  [key |-> key, keyBytes |-> 1, kind |-> kind, elem |-> elem, count |-> count, values |-> values,
   says |-> says]

Arch(a) == Pair(ArchitectureKey, Text, 0, 2, << >>, a)
Num(a, suffix, n) == Pair(<<a, suffix>>, 4, 0, 0, <<n>>, "")
Layers(a, suffix, kind, values) == Pair(<<a, suffix>>, Array, kind, Len(values), values, "")
Tokens(bytes) == Pair(<<"tokenizer", "tokens">>, Array, Text, Len(bytes), bytes, "")

Place(dir, name, shard) ==
  [dir |-> dir, name |-> name, shard |-> shard, role |-> "model", legible |-> TRUE,
   carried |-> TRUE, depth |-> IF dir = << >> THEN 0 ELSE 1]

File(path, length, pairs) ==
  [path |-> path, listed |-> TRUE, length |-> length, magic |-> TRUE, version |-> 3, pairs |-> pairs]

A == Place(<<"d">>, <<"a">>, 0)
X == Place(<<"b">>, <<"x">>, 0)

Shape(a, layers) ==
  <<Arch(a), Num(a, "block_count", layers), Num(a, Heads, 2), Num(a, "embedding_length", 4)>>

Dense == Shape("llama", 2) \o <<Num("llama", "context_length", 3)>>
Gemma == Shape("gemma3", 7) \o <<Num("gemma3", "attention.sliding_window", 1)>>
Hybrid == Shape("qwen", 5) \o <<Num("qwen", "full_attention_interval", 2)>>
Mixed ==
  Shape("llama", 3)
  \o <<Layers("llama", HeadsKV, 4, <<1, 2, 1>>), Layers("llama", WindowPattern, 7, <<1, 0, 1>>),
       Num("llama", "attention.sliding_window", 2), Num("llama", "attention.key_length", 1)>>
Narrow ==
  Shape("llama", 2)
  \o <<Layers("llama", WindowPattern, 7, <<1, 0>>), Num("llama", "attention.sliding_window", 1),
       Num("llama", "attention.key_length_swa", 1), Num("llama", "attention.value_length_swa", 3)>>
Odd ==
  Shape("llama", 2)
  \o <<Num("llama", Heads, 3), Pair(<<"llama", "block_count">>, 5, 0, 0, <<-1>>, ""), Tokens(<<1, 0>>),
       Pair(<<"llama", "rope">>, Array, 6, 2, <<0, 0>>, "")>>

\* The last value is stepped over, so that the file may end in it.
Torn == Dense \o <<Pair(<<"llama", "rope">>, Array, 6, 2, <<0, 0>>, "")>>

Headers == {Dense, Gemma, Hybrid, Mixed, Narrow, Odd, <<Arch("llama")>>,
            <<[Arch("llama") EXCEPT !.count = 4]>>, Shape("llama", 2) \o <<Pair(<<"llama", "n">>, 13, 0, 0, <<0>>, "")>>,
            <<Pair(<<"llama", "n">>, Array, Array, 1, <<0>>, "")>>,
            <<Layers("llama", HeadsKV, 4, [i \in 1..9 |-> 1])>>,
            <<[Num("llama", "n", 1) EXCEPT !.keyBytes = 5]>>, [i \in 1..12 |-> Num("llama", "n", i)]}

Sizes == {25, 130, 200}

\* One model file, of every header and some lengths.
SingleRoots ==
  {<<File(A, n, h)>> : n \in Sizes, h \in Headers}
  \cup {<<File(A, n, Torn)>> : n \in {Last(Ends(File(A, 0, Torn))) - 1, Last(Ends(File(A, 0, Torn)))}}
  \cup {<<[File(A, 130, Dense) EXCEPT !.magic = FALSE]>>, <<[File(A, 130, Dense) EXCEPT !.version = 4]>>}

Split == Shape("llama", 1) \o <<Pair(SplitKey, 2, 0, 0, <<3>>, "")>>

SplitRoots ==
  LET big(i) == Place(<<"d">>, <<"a">>, i)
  IN  {<<File(big(1), n, Split), File(big(2), 90, << >>), File(big(3), 90, << >>)>> : n \in {130, 200}}

\* Names that collide with each other, with the catalog's and with the router's.
FilesAt(places) == [i \in DOMAIN places |-> File(places[i], 130, Dense)]

NameRoots ==
  LET deep == [Place(<<"d">>, <<"z">>, 0) EXCEPT !.depth = 3]
      garbled == [Place(<<"d">>, <<"y">>, 0) EXCEPT !.legible = FALSE]
      misplaced == [Place(<<"e">>, <<"y">>, 0) EXCEPT !.carried = FALSE]
      projector == [Place(<<"d">>, <<"p">>, 0) EXCEPT !.role = "projector"]
  IN  {FilesAt(s) : s \in {<<A, X, Place(<<"c">>, <<"x">>, 0), Place(<< >>, <<"b", "x">>, 0)>>,
                         <<Place(<< >>, <<"x">>, 0), X, Place(<<"c">>, <<"b", "x">>, 0)>>,
                         <<Place(<<"b">>, <<"a">>, 0), A, Place(<< >>, <<"load">>, 0)>>,
                         <<Place(<< >>, << >>, 0), Place(<< >>, <<"a">>, 0), X>>,
                         <<deep, garbled, misplaced, projector, X>>}}
      \cup {[FilesAt(<<A, X, Place(<<"c">>, <<"y">>, 0)>>) EXCEPT ![1].listed = FALSE, ![2].listed = FALSE]}

---------------------------------------------------------------------------
\* Texts.

Number_(n) == [is |-> "number", n |-> n]
Text_(s) == [is |-> "text", s |-> s]
At(path) == [is |-> "place", at |-> path, anchored |-> FALSE]
Table(of) == [is |-> "table", of |-> of]

GoodEntry == [path |-> At(A), context_size |-> Number_(2), memory_estimate_mib |-> Number_(4)]

TextOf(defaults, models) ==
  [toml |-> TRUE, version |-> {Number_(1)}, defaults |-> defaults, models |-> {Table(models)}]

One(v) == <<"a">> :> v

\* An entry with each of its fields right, wrong or left out, and one thing more.
Kinds(field) ==
  CASE field = "path" -> {<< >>, "path" :> At(A), "path" :> At(Place(<<"d">>, <<"gone">>, 0)),
                          "path" :> [At(A) EXCEPT !.anchored = TRUE], "path" :> Number_(1)}
    [] field = "context_size" -> {<< >>, "context_size" :> Number_(2), "context_size" :> Number_(0),
                                  "context_size" :> Text_("2")}
    [] field = "memory_estimate_mib" -> {<< >>, "memory_estimate_mib" :> Number_(4),
                                         "memory_estimate_mib" :> Number_(1000)}
    [] field = "rest" -> {<< >>, "colour" :> Text_("red"), "residency" :> Text_("resident"),
                          "residency" :> Text_("always"), "runtime" :> Text_("../x"), "runtime" :> Text_("mtp"),
                          "flags" :> Number_(1), "flags" :> Table("c" :> Number_(1)),
                          "flags" :> Table("host" :> Text_("0.0.0.0") @@ "c" :> Text_("9"))}

Tables == {p @@ c @@ m @@ r : p \in Kinds("path"), c \in Kinds("context_size"),
                              m \in Kinds("memory_estimate_mib"), r \in Kinds("rest")}

DefaultTables ==
  {{}, {Number_(1)}, {Table("context_size" :> Number_(3) @@ "flags" :> Table("port" :> Text_("1")))},
   {Table("context_size" :> Number_(0) @@ "path" :> At(A))},
   {Table("memory_estimate_mib" :> Number_(5) @@ "startup_timeout_seconds" :> Text_("x"))}}

WrongTexts ==
  {TextOf(d, One(Table(t))) : d \in DefaultTables, t \in Tables}
  \cup {TextOf({}, One(v) @@ (<<"b">> :> w)) :
          v \in {Number_(1), Table(GoodEntry)}, w \in {Table(<< >>), Table(GoodEntry), Text_("b")}}
  \cup {[TextOf({}, One(Table(GoodEntry))) EXCEPT !.version = v, !.models = m] :
          v \in {{}, {Number_(0)}, {Number_(1)}}, m \in {{}, {Number_(1)}, {Table(One(Table(GoodEntry)))}}}
  \cup {[TextOf({}, << >>) EXCEPT !.toml = FALSE]}

\* The flags that change what an entry costs.
FlagTables ==
  {<< >>, "embeddings" :> Text_("true"), "embeddings" :> Text_("False") @@ "rerank" :> Text_("1"),
   "ngl" :> Text_("0"), "n-gpu-layers" :> Text_("9") @@ "ngl" :> Text_("0"), "ctk" :> Text_("q8_0"),
   "ctk" :> Text_("f32") @@ "ctv" :> Text_("q4_0"), "c" :> Text_("9")}

\* A context long enough for a wrong length, type or layer to show in an estimate.
LongHeaders ==
  LET windowed(pattern, more) ==
        Shape("llama", Len(pattern)) \o <<Layers("llama", WindowPattern, 7, pattern),
                                         Num("llama", "attention.sliding_window", 8)>> \o more
  IN  {Hybrid, Shape("gemma3", 7) \o <<Num("gemma3", "attention.sliding_window", 8)>>,
       Shape("llama", 2) \o <<Num("llama", "attention.value_length", 4)>>,
       windowed(<<1, 0, 1>>, <<Layers("llama", HeadsKV, 4, <<1, 2, 1>>), Num("llama", "attention.key_length", 2)>>),
       windowed(<<1, 0>>, <<Num("llama", "attention.key_length_swa", 4),
                            Num("llama", "attention.value_length_swa", 6)>>)}

Long ==
  {TextOf({}, One(Table(("path" :> At(A)) @@ ("context_size" :> Number_(24)) @@ ("flags" :> Table(fs))))) :
     fs \in {<< >>, "ctk" :> Text_("q8_0") @@ "ctv" :> Text_("q8_0"),
             "cache-type-k" :> Text_("q4_0") @@ "ctk" :> Text_("f32")}}

Costed ==
  {TextOf({}, One(Table(("path" :> At(p)) @@ ("context_size" :> Number_(4)) @@ ("flags" :> Table(fs))))) :
     p \in {A, Place(<<"d">>, <<"a">>, 1)}, fs \in FlagTables}
  \cup {TextOf({Table("flags" :> Table(fs))}, << >>) : fs \in FlagTables}

\* A model with a draft and a projector beside it.
Companions ==
  LET entry(fs) == ("path" :> At(A)) @@ ("context_size" :> Number_(4)) @@ ("draft_path" :> At(X))
                   @@ ("projector_path" :> At(Place(<<"d">>, <<"p">>, 0))) @@ ("flags" :> Table(fs))
  IN  {TextOf({}, One(Table(entry(fs)))) :
         fs \in {<< >>, "spec-type" :> Text_("draft-mtp"), "ctkd" :> Text_("f32")}}

NameTexts == {TextOf(d, m) : d \in {{}, {Table("context_size" :> Number_(5))}},
                             m \in {<< >>, One(Table(GoodEntry)), <<"x">> :> Table(GoodEntry)}}

---------------------------------------------------------------------------
\* Environments.

Unset == [is |-> "unset"]
Wrong == [is |-> "wrong"]

Card(total, used) == [is |-> "device", total |-> total, used |-> used]
Line(is) == [is |-> is]

Plain ==
  [budget |-> Unset, idle |-> Unset, wait |-> Unset, root |-> "there", server |-> TRUE,
   address |-> TRUE, free |-> TRUE, smi |-> FALSE, system |-> {40}, prints |-> << >>, healthy |-> TRUE]

Prints == {<<Card(30, 3)>>, <<Card(5, 0)>>, <<Card(100, 9), Line("blank"), Card(100, 1)>>, << >>,
           <<Card(30, 3), Line("unreadable")>>, <<Line("blank")>>}

Machines == {[Plain EXCEPT !.smi = TRUE, !.prints = p, !.healthy = h, !.system = s] :
               p \in Prints, h \in BOOLEAN, s \in {{}, {40}, {1}}}

Variables ==
  {[Plain EXCEPT !.budget = b, !.idle = i, !.wait = w, !.system = s] :
     b \in {Unset, Wrong, Number_(0), Number_(7)}, i \in {Unset, Wrong, Number_(0), Number_(3)},
     w \in {Unset, Wrong, Number_(0)}, s \in {{}, {40}}}
  \cup {[Plain EXCEPT !.root = r] : r \in {"none", "named"}}
  \cup {[Plain EXCEPT !.server = FALSE], [Plain EXCEPT !.address = FALSE], [Plain EXCEPT !.free = FALSE]}

---------------------------------------------------------------------------

Scenario(commands, texts, roots, names, envs) ==
  {[command |-> c, text |-> t, root |-> r, rootName |-> n, env |-> e] :
     c \in commands, t \in texts, r \in roots, n \in names, e \in envs}

DenseRoot == <<File(A, 130, Dense)>>
CompanionRoot ==
  <<File(X, 200, Dense), File(A, 130, Gemma), File([Place(<<"d">>, <<"p">>, 0) EXCEPT !.role = "projector"], 20, << >>)>>

MCScenarios ==
  Scenario({"check", "serve"}, WrongTexts, {DenseRoot}, {<<"models">>}, {Plain})
  \cup Scenario({"check"}, Costed, SingleRoots \cup SplitRoots, {<<"models">>}, {Plain})
  \cup Scenario({"check"}, Long, {<<File(A, 260, h)>> : h \in LongHeaders}, {<<"models">>}, {Plain})
  \cup Scenario({"check"}, Companions, {CompanionRoot, DenseRoot}, {<<"models">>}, {Plain})
  \cup Scenario({"check"}, NameTexts, NameRoots, {<<"models">>, << >>, <<"b">>}, {Plain})
  \cup Scenario({"check", "serve"}, {TextOf({}, One(Table(GoodEntry)))}, {DenseRoot}, {<<"models">>},
                Machines \cup Variables)
===============================================================================
