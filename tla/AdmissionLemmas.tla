--------------------------- MODULE AdmissionLemmas ---------------------------
(***************************************************************************)
(* What a decision of Budget::admit that lets a load go ahead means for    *)
(* the ledger, without the loop and without the subtraction.               *)
(***************************************************************************)
EXTENDS Admission, SumLemmas

Costs(v) == [e \in LoadedIn(v) |-> v[e].cost]

\* The sums of admission are sums of one function over sets of loaded entries.
LEMMA CostSumIsASum ==
  ASSUME NEW v \in [Entries -> Held \cup {None}], NEW S \in SUBSET LoadedIn(v)
  PROVE  /\ IsFiniteSet(LoadedIn(v))
         /\ \A e \in LoadedIn(v) : Costs(v)[e] \in Nat
         /\ CostSum(v, S) = SumFunctionOnSet(Costs(v), S)
<1>1. IsFiniteSet(Entries)
  BY CatalogAssumption, FS_Interval DEF Entries
<1>2. IsFiniteSet(LoadedIn(v)) /\ IsFiniteSet(S)
  BY <1>1, FS_Subset DEF LoadedIn
<1>3. \A e \in LoadedIn(v) : Costs(v)[e] \in Nat
  BY DEF Costs, LoadedIn, Held
<1>4. CostSum(v, S) = SumFunctionOnSet([e \in S |-> v[e].cost], S)
  BY DEF CostSum, SumFunction
<1>5. SumFunctionOnSet([e \in S |-> v[e].cost], S) = SumFunctionOnSet(Costs(v), S)
  <2>1. \A x \in S : [e \in S |-> v[e].cost][x] = Costs(v)[x]
    BY DEF Costs
  <2>. QED BY <1>2, <2>1, SumsAgree
<1>. QED BY <1>2, <1>3, <1>4, <1>5

\* What a set of loaded entries costs, and what the others do.
LEMMA CostSumSplits ==
  ASSUME NEW v \in [Entries -> Held \cup {None}], NEW S \in SUBSET LoadedIn(v)
  PROVE  /\ CostSum(v, S) \in Nat /\ CostSum(v, LoadedIn(v) \ S) \in Nat
         /\ CostSum(v, LoadedIn(v)) = CostSum(v, S) + CostSum(v, LoadedIn(v) \ S)
<1>1. /\ IsFiniteSet(LoadedIn(v))
      /\ \A e \in LoadedIn(v) : Costs(v)[e] \in Nat
      /\ CostSum(v, S) = SumFunctionOnSet(Costs(v), S)
      /\ CostSum(v, LoadedIn(v) \ S) = SumFunctionOnSet(Costs(v), LoadedIn(v) \ S)
      /\ CostSum(v, LoadedIn(v)) = SumFunctionOnSet(Costs(v), LoadedIn(v))
  BY CostSumIsASum
<1>2. \A s \in SUBSET LoadedIn(v) : SumFunctionOnSet(Costs(v), s) \in Nat
  BY <1>1, SumIsNat
<1>3. SumFunctionOnSet(Costs(v), LoadedIn(v)) =
        SumFunctionOnSet(Costs(v), S) + SumFunctionOnSet(Costs(v), LoadedIn(v) \ S)
  BY <1>1, SumSplits
<1>. QED BY <1>1, <1>2, <1>3

\* LedgerFits, without the subtraction: the loads left behind and the wanted
\* entry fit the ceiling.
LEMMA LedgerFitsMeans ==
  ASSUME NEW v \in [Entries -> Held \cup {None}], NEW S \in SUBSET LoadedIn(v),
         NEW w \in Entries, NEW limit \in Nat
  PROVE  LedgerFits(v, w, limit, Freed(v, S)) <=>
           CostSum(v, LoadedIn(v) \ S) + Estimate[w] <= limit
<1>1. /\ CostSum(v, S) \in Nat /\ CostSum(v, LoadedIn(v) \ S) \in Nat
      /\ CostSum(v, LoadedIn(v)) = CostSum(v, S) + CostSum(v, LoadedIn(v) \ S)
  BY CostSumSplits
<1>2. Freed(v, S).cost = CostSum(v, S)
  BY DEF Freed
<1>3. limit # None /\ Estimate[w] \in Nat
  BY CatalogAssumption
<1>4. SaturatingSub(CostSum(v, LoadedIn(v)), Freed(v, S).cost) = CostSum(v, LoadedIn(v) \ S)
  BY <1>1, <1>2 DEF SaturatingSub
<1>. QED BY <1>3, <1>4 DEF LedgerFits

\* At most one set is the shortest prefix that is enough.
LEMMA UnloadsIsOne ==
  ASSUME NEW v, NEW w, NEW limit, NEW free, NEW P \in Unloads(v, w, limit, free)
  PROVE  /\ UNION Unloads(v, w, limit, free) = P
         /\ P \in ColdPrefixes(v, Candidates(v, w))
         /\ Enough(v, w, limit, free, P)
<1>1. \A Q \in Unloads(v, w, limit, free) : Q = P
  BY DEF Unloads
<1>2. UNION Unloads(v, w, limit, free) = P
  BY <1>1
<1>. QED BY <1>2 DEF Unloads

\* Enough, on each side.
LEMMA EnoughMeans ==
  ASSUME NEW v, NEW w, NEW limit, NEW free, NEW S
  PROVE  Enough(v, w, limit, free, S) <=>
           LedgerFits(v, w, limit, Freed(v, S)) /\ DeviceFits(w, free, Freed(v, S))
  BY DEF Enough, Short

\* A decision names loaded entries only, and once they are gone the wanted entry
\* fits the ceiling beside all the others.
MakesRoom(v, w, limit, said) ==
  /\ said.ids \subseteq LoadedIn(v)
  /\ said.kind = "Fits" => said.ids = {}
  /\ \A rest : rest = LoadedIn(v) \ said.ids => CostSum(v, rest) + Estimate[w] <= limit

LetsGoAhead(said) == said.kind \in {"Fits", "Unload"}

\* Every decision that lets a load go ahead does.
LEMMA AdmitMakesRoom ==
  ASSUME NEW v \in [Entries -> Held \cup {None}], NEW w \in Entries, v[w] = None,
         NEW limit \in Nat, NEW free, LetsGoAhead(Admit(v, w, limit, free))
  PROVE  MakesRoom(v, w, limit, Admit(v, w, limit, free))
<1>. USE DEF MakesRoom, LetsGoAhead
<1>1. w \notin LoadedIn(v)
  BY DEF LoadedIn
<1>2. CASE Enough(v, w, limit, free, {})
  <2>1. Admit(v, w, limit, free) = Decision("Fits", {})
    BY <1>1, <1>2 DEF Admit, Decision
  <2>2. CostSum(v, LoadedIn(v) \ {}) + Estimate[w] <= limit
    BY <1>2, EnoughMeans, LedgerFitsMeans
  <2>3. Admit(v, w, limit, free).ids = {}
    BY <2>1 DEF Decision
  <2>. QED BY <2>2, <2>3
<1>3. CASE ~Enough(v, w, limit, free, {})
  <2>1. /\ Unloads(v, w, limit, free) # {}
        /\ Admit(v, w, limit, free) = Decision("Unload", UNION Unloads(v, w, limit, free))
    BY <1>1, <1>3 DEF Admit, Decision
  <2>2. PICK P \in Unloads(v, w, limit, free) : TRUE
    BY <2>1
  <2>3. /\ Admit(v, w, limit, free) = Decision("Unload", P)
        /\ P \in ColdPrefixes(v, Candidates(v, w))
        /\ Enough(v, w, limit, free, P)
    BY <2>1, <2>2, UnloadsIsOne
  <2>4. P \subseteq LoadedIn(v)
    BY <2>3 DEF ColdPrefixes, Candidates
  <2>5. CostSum(v, LoadedIn(v) \ P) + Estimate[w] <= limit
    BY <2>3, <2>4, EnoughMeans, LedgerFitsMeans
  <2>6. Admit(v, w, limit, free).ids = P /\ Admit(v, w, limit, free).kind = "Unload"
    BY <2>3 DEF Decision
  <2>. QED BY <2>4, <2>5, <2>6
<1>. QED BY <1>2, <1>3
=============================================================================
