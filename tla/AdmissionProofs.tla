---------------------------- MODULE AdmissionProofs ----------------------------
(***************************************************************************)
(* Proofs about the admission policy, for every catalog and every snapshot *)
(* of it.  The loop of Budget::admit is shown to compute the shortest      *)
(* coldest-first prefix that is enough, by looking at a smallest set of    *)
(* candidates it would go wrong on; what the decisions promise follows     *)
(* from the definition.                                                    *)
(***************************************************************************)
EXTENDS MCAdmission, AdmissionLemmas

Views == [Entries -> Held \cup {None}]

----------------------------------------------------------------------------
(* The order of the sort. *)

LEMMA ColderIsAnOrder ==
  ASSUME NEW v \in Views
  PROVE  /\ \A e \in LoadedIn(v) : ~Colder(v, e, e)
         /\ \A e, f \in LoadedIn(v) : e = f \/ Colder(v, e, f) \/ Colder(v, f, e)
         /\ \A e, f, g \in LoadedIn(v) : Colder(v, e, f) /\ Colder(v, f, g) => Colder(v, e, g)
<1>1. \A e \in LoadedIn(v) : v[e].age \in Nat /\ e \in Nat
  BY CatalogAssumption DEF Views, LoadedIn, Held, Entries
<1>. QED BY <1>1 DEF Colder

LEMMA LoadedIsFinite ==
  ASSUME NEW v
  PROVE  IsFiniteSet(LoadedIn(v))
<1>1. IsFiniteSet(Entries)
  BY CatalogAssumption, FS_Interval DEF Entries
<1>. QED BY <1>1, FS_Subset DEF LoadedIn

\* A set of candidates that is not empty has a last one in that order.
LEMMA HottestIsHot ==
  ASSUME NEW v \in Views, NEW P \in SUBSET LoadedIn(v), P # {}
  PROVE  /\ Hottest(v, P) \in P
         /\ \A f \in P \ {Hottest(v, P)} : Colder(v, f, Hottest(v, P))
<1>. DEFINE HasLast(T) == \E e \in T : \A f \in T \ {e} : Colder(v, f, e)
            Bad == {T \in SUBSET LoadedIn(v) : T # {} /\ ~HasLast(T)}
<1>1. Bad = {}
  <2>1. SUFFICES ASSUME Bad # {} PROVE FALSE
    OBVIOUS
  <2>2. PICK T \in Bad : \A U \in SUBSET T : U \in Bad => U = T
    <3>1. Bad \in SUBSET SUBSET LoadedIn(v)
      OBVIOUS
    <3>. HIDE DEF Bad
    <3>. QED BY <2>1, <3>1, SmallestSubset, LoadedIsFinite
  <2>3. PICK x \in T : TRUE
    OBVIOUS
  <2>. DEFINE U == T \ {x}
  <2>4. CASE U = {}
    <3>1. \A f \in T \ {x} : Colder(v, f, x)
      BY <2>4
    <3>. QED BY <3>1
  <2>5. CASE U # {}
    <3>1. U \notin Bad
      <4>1. U \in SUBSET T /\ U # T
        BY <2>3
      <4>. HIDE DEF U, Bad
      <4>. QED BY <2>2, <4>1
    <3>2. PICK h \in U : \A f \in U \ {h} : Colder(v, f, h)
      BY <2>5, <3>1
    <3>3. x \in LoadedIn(v) /\ h \in LoadedIn(v) /\ x # h /\ T \subseteq LoadedIn(v)
      OBVIOUS
    <3>4. CASE Colder(v, x, h)
      <4>1. \A f \in T \ {h} : Colder(v, f, h)
        BY <3>2, <3>4
      <4>. QED BY <4>1
    <3>5. CASE Colder(v, h, x)
      <4>1. \A f \in T \ {x} : Colder(v, f, x)
        BY <3>2, <3>3, <3>5, ColderIsAnOrder
      <4>. QED BY <4>1
    <3>. QED BY <3>3, <3>4, <3>5, ColderIsAnOrder
  <2>. QED BY <2>4, <2>5
<1>2. HasLast(P)
  BY <1>1
<1>. QED BY <1>2, Zenon DEF Hottest

----------------------------------------------------------------------------
(* The table of passes that the fold in Accumulated is: what the loop holds *)
(* once it went over the candidates in P.                                   *)

LoopStep(v, w, limit, free, it, P) ==
  IF P = {} THEN LoopStart
  ELSE LoopPass(v, w, limit, free, it[P \ {Hottest(v, P)}], Hottest(v, P))

IsLoopTable(it, v, w, limit, free, S) ==
  it = [P \in SUBSET S |-> LoopStep(v, w, limit, free, it, P)]

LoopTable(v, w, limit, free, S) == CHOOSE it : IsLoopTable(it, v, w, limit, free, S)

After(v, w, limit, free, P) == LoopTable(v, w, limit, free, P)[P]

LEMMA AccumulatedIsLookedUp ==
  ASSUME NEW v, NEW w, NEW limit, NEW free
  PROVE  Accumulated(v, w, limit, free) = After(v, w, limit, free, Candidates(v, w))
  BY Zenon DEF Accumulated, MapThenFoldSet, After, LoopTable, IsLoopTable, LoopStep

\* Two tables agree where both have an entry.
LEMMA LoopTablesAgree ==
  ASSUME NEW v \in Views, NEW w, NEW limit, NEW free,
         NEW S \in SUBSET LoadedIn(v), NEW T \in SUBSET S, NEW a, NEW b,
         IsLoopTable(a, v, w, limit, free, S), IsLoopTable(b, v, w, limit, free, T)
  PROVE  \A s \in SUBSET T : a[s] = b[s]
<1>. DEFINE Bad == {s \in SUBSET T : a[s] # b[s]}
<1>1. SUFFICES ASSUME Bad # {} PROVE FALSE
  OBVIOUS
<1>2. IsFiniteSet(T) /\ Bad \in SUBSET SUBSET T
  BY FS_Subset, LoadedIsFinite
<1>3. PICK s \in Bad : \A U \in SUBSET s : U \in Bad => U = s
  <2>. HIDE DEF Bad
  <2>. QED BY <1>1, <1>2, SmallestSubset
<1>4. a[s] = LoopStep(v, w, limit, free, a, s) /\ b[s] = LoopStep(v, w, limit, free, b, s)
  BY DEF IsLoopTable
<1>5. CASE s = {}
  BY <1>3, <1>4, <1>5 DEF LoopStep
<1>6. CASE s # {}
  <2>1. Hottest(v, s) \in s
    BY <1>6, HottestIsHot
  <2>2. s \ {Hottest(v, s)} \notin Bad
    BY <1>3, <2>1
  <2>3. s \ {Hottest(v, s)} \in SUBSET T
    OBVIOUS
  <2>4. a[s \ {Hottest(v, s)}] = b[s \ {Hottest(v, s)}]
    BY <2>2, <2>3
  <2>. QED BY <1>3, <1>4, <1>6, <2>4 DEF LoopStep
<1>. QED BY <1>5, <1>6

\* Every set of loaded entries has a table.
LEMMA LoopTableExists ==
  ASSUME NEW v \in Views, NEW w, NEW limit, NEW free
  PROVE  \A s \in SUBSET LoadedIn(v) :
            IsLoopTable(LoopTable(v, w, limit, free, s), v, w, limit, free, s)
<1>. DEFINE Tab(s) == LoopTable(v, w, limit, free, s)
            Is(it, s) == IsLoopTable(it, v, w, limit, free, s)
            Bad == {s \in SUBSET LoadedIn(v) : ~Is(Tab(s), s)}
<1>1. SUFFICES ASSUME Bad # {} PROVE FALSE
  OBVIOUS
<1>2. PICK T \in Bad : \A U \in SUBSET T : U \in Bad => U = T
  <2>1. Bad \in SUBSET SUBSET LoadedIn(v)
    OBVIOUS
  <2>. HIDE DEF Bad
  <2>. QED BY <1>1, <2>1, SmallestSubset, LoadedIsFinite
<1>3. \A U \in SUBSET T : U # T => Is(Tab(U), U)
  BY <1>2
<1>3a. T \in SUBSET LoadedIn(v)
  OBVIOUS
<1>. DEFINE Below(s) == Tab(s \ {Hottest(v, s)})[s \ {Hottest(v, s)}]
            it == [s \in SUBSET T |-> IF s = {} THEN LoopStart
                                      ELSE LoopPass(v, w, limit, free, Below(s), Hottest(v, s))]
<1>4. \A U \in SUBSET T : U # T => it[U] = Tab(U)[U]
  <2>. SUFFICES ASSUME NEW U \in SUBSET T, U # T PROVE it[U] = Tab(U)[U]
    OBVIOUS
  <2>1. Is(Tab(U), U)
    BY <1>3
  <2>2. Tab(U)[U] = LoopStep(v, w, limit, free, Tab(U), U)
    BY <2>1 DEF IsLoopTable
  <2>3. CASE U = {}
    BY <2>2, <2>3 DEF LoopStep
  <2>4. CASE U # {}
    <3>. DEFINE V == U \ {Hottest(v, U)}
    <3>0. U \in SUBSET LoadedIn(v)
      BY <1>3a
    <3>1. Hottest(v, U) \in U
      BY <2>4, <3>0, HottestIsHot
    <3>2. V \in SUBSET T /\ V # T /\ V \in SUBSET U
      BY <3>1
    <3>3. Is(Tab(V), V)
      BY <1>3, <3>2
    <3>5. Tab(U)[V] = Tab(V)[V]
      <4>. HIDE DEF V, Tab
      <4>. QED BY <2>1, <3>0, <3>2, <3>3, LoopTablesAgree
    <3>6. it[U] = LoopPass(v, w, limit, free, Tab(V)[V], Hottest(v, U))
      BY <2>4
    <3>7. Tab(U)[U] = LoopPass(v, w, limit, free, Tab(U)[V], Hottest(v, U))
      BY <2>2, <2>4 DEF LoopStep
    <3>. HIDE DEF it, Tab, V
    <3>. QED BY <3>5, <3>6, <3>7
  <2>. QED BY <2>3, <2>4
<1>5. Is(it, T)
  <2>1. \A s \in SUBSET T : it[s] = LoopStep(v, w, limit, free, it, s)
    <3>. SUFFICES ASSUME NEW s \in SUBSET T PROVE it[s] = LoopStep(v, w, limit, free, it, s)
      OBVIOUS
    <3>1. CASE s = {}
      BY <3>1 DEF LoopStep
    <3>2. CASE s # {}
      <4>0. s \in SUBSET LoadedIn(v)
        BY <1>3a
      <4>1. Hottest(v, s) \in s
        BY <3>2, <4>0, HottestIsHot
      <4>2. it[s \ {Hottest(v, s)}] = Below(s)
        <5>. DEFINE V == s \ {Hottest(v, s)}
        <5>1. V \in SUBSET T /\ V # T
          BY <4>1
        <5>2. it[V] = Tab(V)[V]
          <6>. HIDE DEF V, it, Tab
          <6>. QED BY <1>4, <5>1
        <5>. QED BY <5>2
      <4>3. it[s] = LoopPass(v, w, limit, free, Below(s), Hottest(v, s))
        BY <3>2
      <4>. HIDE DEF it, Below
      <4>. QED BY <3>2, <4>2, <4>3 DEF LoopStep
    <3>. QED BY <3>1, <3>2
  <2>2. it = [s \in SUBSET T |-> it[s]]
    OBVIOUS
  <2>. HIDE DEF it
  <2>. QED BY <2>1, <2>2 DEF IsLoopTable
<1>6. Is(Tab(T), T)
  <2>. HIDE DEF it
  <2>. QED BY <1>5, Zenon DEF LoopTable
<1>. QED BY <1>2, <1>6

\* The passes, as the loop makes them: none to begin with, then each candidate
\* after the colder ones.
LEMMA Passes ==
  ASSUME NEW v \in Views, NEW w, NEW limit, NEW free, NEW P \in SUBSET LoadedIn(v)
  PROVE  After(v, w, limit, free, P) =
           IF P = {} THEN LoopStart
           ELSE LoopPass(v, w, limit, free,
                         After(v, w, limit, free, P \ {Hottest(v, P)}), Hottest(v, P))
<1>. DEFINE Tab(s) == LoopTable(v, w, limit, free, s)
            V == P \ {Hottest(v, P)}
<1>1. V \in SUBSET LoadedIn(v) /\ V \in SUBSET P
  OBVIOUS
<1>2. /\ IsLoopTable(Tab(P), v, w, limit, free, P)
      /\ IsLoopTable(Tab(V), v, w, limit, free, V)
  <2>. HIDE DEF V
  <2>. QED BY <1>1, LoopTableExists
<1>3. Tab(P)[V] = Tab(V)[V]
  <2>. HIDE DEF V, Tab
  <2>. QED BY <1>1, <1>2, LoopTablesAgree
<1>4. Tab(P)[P] = LoopStep(v, w, limit, free, Tab(P), P)
  <2>. HIDE DEF Tab
  <2>. QED BY <1>2 DEF IsLoopTable
<1>5. After(v, w, limit, free, P) = Tab(P)[P] /\ After(v, w, limit, free, V) = Tab(V)[V]
  BY DEF After
<1>. HIDE DEF Tab
<1>. QED BY <1>3, <1>4, <1>5 DEF LoopStep

----------------------------------------------------------------------------
(* What the loop holds after the candidates in P. *)

\* One more entry's room on top of what a set gives back.
LEMMA FreedGrows ==
  ASSUME NEW v \in Views, NEW S \in SUBSET LoadedIn(v), NEW h \in S
  PROVE  \A rest : rest = S \ {h} =>
           Freed(v, S) = [cost   |-> Freed(v, rest).cost + v[h].cost,
                          device |-> Freed(v, rest).device + v[h].device]
<1>. SUFFICES ASSUME NEW rest, rest = S \ {h}
              PROVE  /\ CostSum(v, S) = CostSum(v, rest) + v[h].cost
                     /\ DeviceSum(v, S) = DeviceSum(v, rest) + v[h].device
  BY DEF Freed
<1>. DEFINE cost(s) == [e \in s |-> v[e].cost]
            device(s) == [e \in s |-> v[e].device]
<1>1. /\ IsFiniteSet(S) /\ IsFiniteSet(rest) /\ rest \in SUBSET S /\ S \in SUBSET S
      /\ rest \in SUBSET rest
  BY LoadedIsFinite, FS_Subset
<1>2. \A e \in S : v[e].cost \in Nat /\ v[e].device \in Nat
  BY DEF Views, LoadedIn, Held
<1>3. \A e \in S : cost(S)[e] \in Nat /\ device(S)[e] \in Nat
  BY <1>2
<1>4. /\ \A e \in rest : cost(S)[e] = cost(rest)[e]
      /\ \A e \in rest : device(S)[e] = device(rest)[e]
      /\ cost(S)[h] = v[h].cost /\ device(S)[h] = v[h].device
      /\ v[h].cost \in Nat /\ v[h].device \in Nat
  BY <1>1, <1>2
<1>5. /\ CostSum(v, S) = SumFunctionOnSet(cost(S), S)
      /\ CostSum(v, rest) = SumFunctionOnSet(cost(rest), rest)
      /\ DeviceSum(v, S) = SumFunctionOnSet(device(S), S)
      /\ DeviceSum(v, rest) = SumFunctionOnSet(device(rest), rest)
  BY DEF CostSum, DeviceSum, SumFunction
<1>. HIDE DEF cost, device
<1>6. /\ SumFunctionOnSet(cost(S), rest) = SumFunctionOnSet(cost(rest), rest)
      /\ SumFunctionOnSet(device(S), rest) = SumFunctionOnSet(device(rest), rest)
  <2>1. \A f, g : (\A e \in rest : f[e] = g[e]) =>
                      SumFunctionOnSet(f, rest) = SumFunctionOnSet(g, rest)
    BY <1>1, SumsAgree
  <2>. QED BY <1>4, <2>1
<1>7. /\ SumFunctionOnSet(cost(S), S) = v[h].cost + SumFunctionOnSet(cost(S), rest)
      /\ SumFunctionOnSet(device(S), S) = v[h].device + SumFunctionOnSet(device(S), rest)
  BY <1>1, <1>3, <1>4, SumByAny
<1>8. SumFunctionOnSet(cost(S), rest) \in Nat /\ SumFunctionOnSet(device(S), rest) \in Nat
  BY <1>1, <1>3, SumIsNat
<1>. QED BY <1>4, <1>5, <1>6, <1>7, <1>8

LEMMA FreedNothing ==
  ASSUME NEW v
  PROVE  Freed(v, {}) = LoopStart.freed
<1>1. CostSum(v, {}) = 0 /\ DeviceSum(v, {}) = 0
  BY SumOfNothing DEF CostSum, DeviceSum, SumFunction
<1>. QED BY <1>1 DEF Freed, LoopStart

\* The victims of a pass are a list of the entries in D, coldest first.
Lists(v, ids, D) ==
  /\ ids \in Seq(Entries)
  /\ Range(ids) = D
  /\ \A i, j \in 1..Len(ids) : i < j => Colder(v, ids[i], ids[j])

LEMMA ListGrows ==
  ASSUME NEW v, NEW ids, NEW D, Lists(v, ids, D), NEW h \in Entries,
         \A e \in D : Colder(v, e, h)
  PROVE  Lists(v, Append(ids, h), D \cup {h})
<1>1. /\ ids \in Seq(Entries) /\ Len(ids) \in Nat /\ DOMAIN ids = 1..Len(ids)
      /\ Append(ids, h) \in Seq(Entries)
      /\ Len(Append(ids, h)) = Len(ids) + 1
      /\ DOMAIN Append(ids, h) = 1..Len(ids) + 1
  BY DEF Lists
<1>2. /\ \A i \in 1..Len(ids) : Append(ids, h)[i] = ids[i]
      /\ Append(ids, h)[Len(ids) + 1] = h
  BY <1>1
<1>. DEFINE n == Len(ids)
            longer == Append(ids, h)
<1>3. n \in Nat /\ 1..n + 1 = (1..n) \cup {n + 1}
  BY <1>1
<1>4. Range(longer) = D \cup {h}
  <2>1. Range(ids) = D /\ DOMAIN longer = (1..n) \cup {n + 1}
    BY <1>1, <1>3 DEF Lists
  <2>2. Range(longer) = {longer[i] : i \in (1..n) \cup {n + 1}}
    BY <2>1 DEF Range
  <2>3. Range(ids) = {ids[i] : i \in 1..n}
    BY <1>1 DEF Range
  <2>. HIDE DEF n, longer
  <2>. QED BY <1>2, <2>1, <2>2, <2>3 DEF n, longer
<1>5. \A i, j \in 1..n + 1 : i < j => Colder(v, longer[i], longer[j])
  <2>. SUFFICES ASSUME NEW i \in 1..n + 1, NEW j \in 1..n + 1, i < j
                PROVE  Colder(v, longer[i], longer[j])
    OBVIOUS
  <2>1. i \in 1..n /\ (j \in 1..n \/ j = n + 1)
    <3>. HIDE DEF n
    <3>. QED BY <1>3
  <2>2. longer[i] = ids[i] /\ ids[i] \in D
    BY <1>1, <1>2, <2>1 DEF Lists, Range
  <2>3. CASE j \in 1..n
    BY <1>2, <2>1, <2>2, <2>3 DEF Lists
  <2>4. CASE j = n + 1
    <3>1. longer[j] = h
      BY <1>2, <2>4
    <3>. QED BY <2>2, <3>1
  <2>. QED BY <2>1, <2>3, <2>4
<1>. QED BY <1>1, <1>4, <1>5 DEF Lists

\* The loop stopped at D: a cold prefix of P, all of it unless D is enough, and
\* no larger than any cold prefix of P that is.
StoppedAt(v, w, limit, free, P, D) ==
  /\ D \in ColdPrefixes(v, P)
  /\ After(v, w, limit, free, P).freed = Freed(v, D)
  /\ Lists(v, After(v, w, limit, free, P).ids, D)
  /\ D = P \/ Enough(v, w, limit, free, D)
  /\ \A Q \in ColdPrefixes(v, P) : Enough(v, w, limit, free, Q) => D \subseteq Q

LEMMA LoopStops ==
  ASSUME NEW v \in Views, NEW w, NEW limit, NEW free
  PROVE  \A P \in SUBSET LoadedIn(v) : \E D : StoppedAt(v, w, limit, free, P, D)
<1>. DEFINE Good(P) == \E D : StoppedAt(v, w, limit, free, P, D)
            Bad == {P \in SUBSET LoadedIn(v) : ~Good(P)}
<1>1. SUFFICES ASSUME Bad # {} PROVE FALSE
  OBVIOUS
<1>2. PICK P \in Bad : \A U \in SUBSET P : U \in Bad => U = P
  <2>1. Bad \in SUBSET SUBSET LoadedIn(v)
    OBVIOUS
  <2>. HIDE DEF Bad
  <2>. QED BY <1>1, <2>1, SmallestSubset, LoadedIsFinite
<1>3. P \in SUBSET LoadedIn(v) /\ ~Good(P)
  OBVIOUS
<1>4. SUFFICES Good(P)
  BY <1>3
<1>. HIDE DEF Good
<1>5. CASE P = {}
  <2>1. After(v, w, limit, free, P) = LoopStart
    BY <1>3, <1>5, Passes
  <2>2. LoopStart.freed = Freed(v, {}) /\ LoopStart.ids = <<>>
    BY FreedNothing DEF LoopStart
  <2>3. Lists(v, <<>>, {})
    BY DEF Lists, Range
  <2>4. StoppedAt(v, w, limit, free, P, {})
    BY <1>5, <2>1, <2>2, <2>3 DEF StoppedAt, ColdPrefixes
  <2>. QED BY <2>4 DEF Good
<1>6. CASE P # {}
  <2>1. PICK h : h = Hottest(v, P)
    OBVIOUS
  <2>2. h \in P /\ h \in LoadedIn(v) /\ h \in Entries /\ \A f \in P \ {h} : Colder(v, f, h)
    BY <1>3, <1>6, <2>1, HottestIsHot DEF LoadedIn
  <2>3. PICK V : V = P \ {h}
    OBVIOUS
  <2>4. V \in SUBSET P /\ V # P /\ V \in SUBSET LoadedIn(v)
    BY <1>3, <2>2, <2>3
  <2>5. PICK D : StoppedAt(v, w, limit, free, V, D)
    BY <1>2, <2>4 DEF Good
  <2>6. PICK before : before = After(v, w, limit, free, V)
    OBVIOUS
  <2>7. After(v, w, limit, free, P) = LoopPass(v, w, limit, free, before, h)
    BY <1>3, <1>6, <2>1, <2>3, <2>6, Passes
  <2>8. /\ D \in ColdPrefixes(v, V) /\ before.freed = Freed(v, D) /\ Lists(v, before.ids, D)
        /\ D = V \/ Enough(v, w, limit, free, D)
        /\ \A Q \in ColdPrefixes(v, V) : Enough(v, w, limit, free, Q) => D \subseteq Q
    BY <2>5, <2>6 DEF StoppedAt
  <2>9. D \in SUBSET V
    BY <2>8 DEF ColdPrefixes
  \* A cold prefix that stops short of the hottest candidate is one of the others'.
  <2>10. \A Q \in ColdPrefixes(v, P) : Q = P \/ Q \in ColdPrefixes(v, V)
    BY <2>2, <2>3 DEF ColdPrefixes
  <2>11. CASE Enough(v, w, limit, free, D)
    <3>1. After(v, w, limit, free, P) = before
      BY <2>7, <2>8, <2>11 DEF LoopPass, Enough
    <3>2. D \in ColdPrefixes(v, P)
      <4>1. D \in SUBSET P
        BY <2>4, <2>9
      <4>2. \A e \in D, f \in P : Colder(v, f, e) => f \in D
        <5>. SUFFICES ASSUME NEW e \in D, NEW f \in P, Colder(v, f, e) PROVE f \in D
          OBVIOUS
        <5>1. e \in LoadedIn(v) /\ f \in LoadedIn(v) /\ e # h /\ Colder(v, e, h)
          BY <1>3, <2>2, <2>3, <2>9
        <5>2. f # h
          BY <5>1, ColderIsAnOrder
        <5>. QED BY <2>3, <2>8, <5>2 DEF ColdPrefixes
      <4>. QED BY <4>1, <4>2 DEF ColdPrefixes
    <3>3. \A Q \in ColdPrefixes(v, P) : Enough(v, w, limit, free, Q) => D \subseteq Q
      BY <2>4, <2>8, <2>9, <2>10
    <3>4. StoppedAt(v, w, limit, free, P, D)
      BY <2>8, <2>11, <3>1, <3>2, <3>3 DEF StoppedAt
    <3>. QED BY <3>4 DEF Good
  <2>12. CASE ~Enough(v, w, limit, free, D)
    <3>1. D = V
      BY <2>8, <2>12
    <3>2. /\ After(v, w, limit, free, P).freed =
               [cost   |-> Freed(v, V).cost + v[h].cost,
                device |-> Freed(v, V).device + v[h].device]
          /\ After(v, w, limit, free, P).ids = Append(before.ids, h)
      BY <2>7, <2>8, <2>12, <3>1 DEF LoopPass, Enough
    <3>3. After(v, w, limit, free, P).freed = Freed(v, P)
      BY <1>3, <2>2, <2>3, <3>2, FreedGrows
    <3>4. V \cup {h} = P
      BY <2>2, <2>3
    <3>5. Lists(v, After(v, w, limit, free, P).ids, P)
      BY <2>2, <2>3, <2>8, <3>1, <3>2, <3>4, ListGrows
    <3>6. P \in ColdPrefixes(v, P)
      BY DEF ColdPrefixes
    <3>7. \A Q \in ColdPrefixes(v, P) : Enough(v, w, limit, free, Q) => P \subseteq Q
      <4>. SUFFICES ASSUME NEW Q \in ColdPrefixes(v, P), Enough(v, w, limit, free, Q), Q # P
                    PROVE  FALSE
        OBVIOUS
      <4>1. Q \in ColdPrefixes(v, V) /\ Q \in SUBSET V
        BY <2>10 DEF ColdPrefixes
      <4>2. V \subseteq Q
        BY <2>8, <3>1, <4>1
      <4>3. Q = D
        BY <3>1, <4>1, <4>2
      <4>. QED BY <2>12, <4>3
    <3>8. StoppedAt(v, w, limit, free, P, P)
      BY <3>3, <3>5, <3>6, <3>7 DEF StoppedAt
    <3>. QED BY <3>8 DEF Good
  <2>. QED BY <2>11, <2>12
<1>. QED BY <1>5, <1>6

\* The loop decides what the definition decides.
LEMMA LoopIsTheDefinition ==
  ASSUME NEW v \in Views, NEW w, NEW limit, NEW free
  PROVE  /\ AdmitLoop(v, w, limit, free).kind = Admit(v, w, limit, free).kind
         /\ Lists(v, AdmitLoop(v, w, limit, free).ids, Admit(v, w, limit, free).ids)
<1>. DEFINE C == Candidates(v, w)
            enough(S) == Enough(v, w, limit, free, S)
            U == Unloads(v, w, limit, free)
            end == Accumulated(v, w, limit, free)
<1>1. C \in SUBSET LoadedIn(v)
  BY DEF Candidates
<1>2. end = After(v, w, limit, free, C)
  BY AccumulatedIsLookedUp
<1>3. PICK D : StoppedAt(v, w, limit, free, C, D)
  BY <1>1, LoopStops
<1>4. /\ D \in ColdPrefixes(v, C) /\ end.freed = Freed(v, D) /\ Lists(v, end.ids, D)
      /\ D = C \/ enough(D)
      /\ \A Q \in ColdPrefixes(v, C) : enough(Q) => D \subseteq Q
  BY <1>2, <1>3 DEF StoppedAt
<1>5. Lists(v, <<>>, {})
  BY DEF Lists, Range
<1>6. /\ Short(v, w, limit, free, LoopStart.freed) = "neither" <=> enough({})
      /\ Short(v, w, limit, free, end.freed) = "neither" <=> enough(D)
  BY <1>4, FreedNothing DEF Enough
<1>7. \A P : P \in U <=> /\ P \in ColdPrefixes(v, C) /\ enough(P)
                         /\ \A Q \in ColdPrefixes(v, C) : enough(Q) => P \subseteq Q
  BY DEF Unloads
<1>8. enough(D) => D \in U
  BY <1>4, <1>7
<1>9. ~enough(D) => U = {}
  <2>. SUFFICES ASSUME ~enough(D), NEW P \in U PROVE FALSE
    OBVIOUS
  <2>1. P \in ColdPrefixes(v, C) /\ enough(P)
    BY <1>7
  <2>2. P \in SUBSET C /\ D = C /\ D \subseteq P
    BY <1>4, <2>1 DEF ColdPrefixes
  <2>3. P = D
    BY <2>2
  <2>. QED BY <2>1, <2>3
<1>10. enough(D) => UNION U = D
  <2>. HIDE DEF enough
  <2>. QED BY <1>8, UnloadsIsOne
<1>. HIDE DEF enough, U, end, C
<1>11. AdmitLoop(v, w, limit, free) =
         IF w \in LoadedIn(v) THEN [kind |-> "Fits", ids |-> <<>>]
         ELSE IF TooLarge(w, limit) THEN [kind |-> "Refuse", ids |-> <<>>]
         ELSE IF enough({}) THEN [kind |-> "Fits", ids |-> <<>>]
         ELSE IF enough(D) THEN [kind |-> "Unload", ids |-> end.ids]
         ELSE IF FreesItself(v, w) THEN [kind |-> "Blocked", ids |-> <<>>]
         ELSE [kind |-> "Refuse", ids |-> <<>>]
  BY <1>6 DEF AdmitLoop, end
<1>12. Admit(v, w, limit, free) =
         IF w \in LoadedIn(v) THEN [kind |-> "Fits", ids |-> {}]
         ELSE IF TooLarge(w, limit) THEN [kind |-> "Refuse", ids |-> {}]
         ELSE IF enough({}) THEN [kind |-> "Fits", ids |-> {}]
         ELSE IF enough(D) THEN [kind |-> "Unload", ids |-> D]
         ELSE IF FreesItself(v, w) THEN [kind |-> "Blocked", ids |-> {}]
         ELSE [kind |-> "Refuse", ids |-> {}]
  BY <1>8, <1>9, <1>10 DEF Admit, Decision, enough, U
<1>. QED BY <1>4, <1>5, <1>11, <1>12

----------------------------------------------------------------------------
(* The questions are well formed. *)

LEMMA ReadingsAreHeld ==
  ASSUME NEW e \in Entries, NEW m \in Measurements, NEW busy \in BOOLEAN, NEW age \in Ages
  PROVE  [cost |-> CostOf(e, m), device |-> DeviceOf(e, m), busy |-> busy, age |-> age] \in Held
<1>1. Estimate[e] \in Nat /\ DeviceNeed(e) \in Nat /\ age \in Nat
  BY CatalogAssumption, QuestionsAssumption DEF DeviceNeed
<1>2. m.resident \in Nat \cup {None} /\ m.device \in Nat \cup {None}
  BY QuestionsAssumption DEF Measurements
<1>3. \A a, b \in Nat : Max({a, b}) \in Nat
  <2>. SUFFICES ASSUME NEW a \in Nat, NEW b \in Nat PROVE Max({a, b}) \in Nat
    OBVIOUS
  <2>1. \E x \in {a, b} : \A y \in {a, b} : x >= y
    OBVIOUS
  <2>2. Max({a, b}) \in {a, b}
    BY <2>1, Zenon DEF Max
  <2>. QED BY <2>2
<1>4. Largest(m) \in Nat \cup {None}
  BY <1>2, <1>3 DEF Largest
<1>5. CostOf(e, m) \in Nat
  BY <1>1, <1>2, <1>3, <1>4 DEF CostOf
<1>6. DeviceOf(e, m) \in Nat
  BY <1>1, <1>2 DEF DeviceOf
<1>. QED BY <1>1, <1>5, <1>6 DEF Held

\* Every snapshot slots are read into, and every question asked of one, has its
\* type: what a child counts for is a number of MiB whichever sides of it were
\* measured (Loaded::of).
THEOREM TypeCorrect == Spec => []TypeOK
<1>1. Init => TypeOK
  BY CatalogAssumption DEF Init, TypeOK, Entries
<1>2. TypeOK /\ [Next]_vars => TypeOK'
  <2>. SUFFICES ASSUME TypeOK, [Next]_vars PROVE TypeOK'
    OBVIOUS
  <2>1. ASSUME NEW m \in Measurements, NEW b \in BOOLEAN, NEW a \in Ages, ReadHeld(m, b, a)
        PROVE  TypeOK'
    <3>1. next \in Entries /\ next + 1 \in 1..(N + 1)
      BY <2>1, CatalogAssumption DEF ReadHeld, Entries
    <3>2. PICK r \in Held : view' = [view EXCEPT ![next] = r]
      BY <2>1, <3>1, ReadingsAreHeld DEF ReadHeld
    <3>3. view' \in [Entries -> Held \cup {None}]
      BY <3>2 DEF TypeOK
    <3>. QED BY <2>1, <3>1, <3>3 DEF ReadHeld, TypeOK
  <2>2. CASE ReadEmpty
    BY <2>2, CatalogAssumption DEF ReadEmpty, TypeOK, Entries
  <2>3. ASSUME NEW w \in Entries, NEW l \in Limits \cup {None}, NEW f \in Frees \cup {None},
               Ask(w, l, f)
        PROVE  TypeOK'
    BY <2>3 DEF Ask, TypeOK
  <2>4. CASE UNCHANGED vars
    BY <2>4 DEF vars, TypeOK
  <2>. QED BY <2>1, <2>2, <2>3, <2>4 DEF Next
<1>. QED BY <1>1, <1>2, PTL DEF Spec

LEMMA Questions ==
  ASSUME TypeOK, Asked
  PROVE  /\ view \in Views
         /\ ask.wanted \in Entries
         /\ ask.limit \in Nat \cup {None}
         /\ ask.free \in Nat \cup {None}
  BY QuestionsAssumption DEF TypeOK, Asked, Views

\* The loop of Budget::admit, which sorts the candidates by when they last
\* answered and adds them up until there is room, decides what the definition
\* over coldest-first prefixes decides, and lists the victims coldest first.
THEOREM LoopComputesTheDefinition == Spec => []LoopMeetsDefinition
<1>1. TypeOK => LoopMeetsDefinition
  <2>. SUFFICES ASSUME TypeOK, Asked PROVE LoopMeetsDefinition
    BY DEF LoopMeetsDefinition
  <2>1. /\ SaidByLoop.kind = Said.kind
        /\ Lists(view, SaidByLoop.ids, Said.ids)
    BY Questions, LoopIsTheDefinition DEF SaidByLoop, Said
  <2>. QED BY <2>1 DEF LoopMeetsDefinition, Lists
<1>. QED BY <1>1, TypeCorrect, PTL

----------------------------------------------------------------------------
(* What the decisions promise. *)

\* Snapshots that agree on a set of entries give the same sums over it.
LEMMA SameSums ==
  ASSUME NEW u, NEW v, NEW S, \A e \in S : u[e].cost = v[e].cost /\ u[e].device = v[e].device
  PROVE  CostSum(u, S) = CostSum(v, S) /\ DeviceSum(u, S) = DeviceSum(v, S)
<1>1. /\ [e \in S |-> u[e].cost] = [e \in S |-> v[e].cost]
      /\ [e \in S |-> u[e].device] = [e \in S |-> v[e].device]
  OBVIOUS
<1>. QED BY <1>1 DEF CostSum, DeviceSum

LEMMA DeviceSumIsNat ==
  ASSUME NEW v \in Views, NEW S \in SUBSET LoadedIn(v)
  PROVE  DeviceSum(v, S) \in Nat
<1>. DEFINE f == [e \in S |-> v[e].device]
<1>1. IsFiniteSet(S) /\ S \in SUBSET S
  BY LoadedIsFinite, FS_Subset
<1>2. \A e \in S : f[e] \in Nat
  BY DEF Views, LoadedIn, Held
<1>3. DeviceSum(v, S) = SumFunctionOnSet(f, S)
  BY DEF DeviceSum, SumFunction
<1>. HIDE DEF f
<1>. QED BY <1>1, <1>2, <1>3, SumIsNat

\* When Budget::admit names victims: the wanted entry is not loaded and not too
\* large, and the victims are a coldest-first prefix that is enough.
LEMMA UnloadMeans ==
  ASSUME NEW v, NEW w, NEW limit, NEW free, Admit(v, w, limit, free).kind = "Unload",
         NEW D, D = Admit(v, w, limit, free).ids
  PROVE  /\ w \notin LoadedIn(v) /\ ~TooLarge(w, limit)
         /\ D \in ColdPrefixes(v, Candidates(v, w))
         /\ Enough(v, w, limit, free, D)
<1>1. /\ w \notin LoadedIn(v) /\ ~TooLarge(w, limit)
      /\ Unloads(v, w, limit, free) # {}
      /\ D = UNION Unloads(v, w, limit, free)
  BY DEF Admit, Decision
<1>2. PICK P \in Unloads(v, w, limit, free) : TRUE
  BY <1>1
<1>. QED BY <1>1, <1>2, UnloadsIsOne

\* When it refuses: what is asked for alone is over the ceiling, or no prefix is
\* enough and nothing that holds room is busy.
LEMMA RefuseMeans ==
  ASSUME NEW v, NEW w, NEW limit, NEW free, w \notin LoadedIn(v)
  PROVE  Admit(v, w, limit, free).kind = "Refuse" <=>
           \/ TooLarge(w, limit)
           \/ /\ ~Enough(v, w, limit, free, {})
              /\ Unloads(v, w, limit, free) = {}
              /\ ~FreesItself(v, w)
  BY DEF Admit, Decision

\* Asked once more after the children it named are gone, with the device room
\* they gave back, admission lets the load go ahead: Slots::make_room starts the
\* child after its unloads and never asks again.
THEOREM UnloadsSuffice == Spec => []UnloadingIsEnough
<1>1. TypeOK => UnloadingIsEnough
  <2>. SUFFICES ASSUME TypeOK, Asked, SaidByLoop.kind = "Unload"
                PROVE  UnloadingIsEnough
    BY DEF UnloadingIsEnough
  <2>1. PICK v, w, limit, free, D :
          /\ v = view /\ w = ask.wanted /\ limit = ask.limit /\ free = ask.free
          /\ D = Range(SaidByLoop.ids)
    OBVIOUS
  <2>2. /\ v \in Views /\ w \in Entries /\ limit \in Nat \cup {None}
        /\ free \in Nat \cup {None}
    BY <2>1, Questions
  <2>3. Admit(v, w, limit, free).kind = "Unload" /\ D = Admit(v, w, limit, free).ids
    BY <2>1, <2>2, LoopIsTheDefinition DEF SaidByLoop, Lists
  <2>4. /\ w \notin LoadedIn(v) /\ ~TooLarge(w, limit)
        /\ D \in ColdPrefixes(v, Candidates(v, w))
        /\ Enough(v, w, limit, free, D)
    BY <2>3, UnloadMeans
  <2>5. D \in SUBSET LoadedIn(v)
    BY <2>4 DEF ColdPrefixes, Candidates
  <2>6. PICK u : u = Without(D)
    OBVIOUS
  <2>7. PICK back : back = IF free = None THEN None ELSE free + DeviceSum(v, D)
    OBVIOUS
  <2>8. SUFFICES Admit(u, w, limit, back).kind = "Fits"
    BY <2>1, <2>6, <2>7 DEF UnloadingIsEnough
  <2>9. u = [e \in Entries |-> IF e \in D THEN None ELSE v[e]]
    BY <2>1, <2>6 DEF Without
  <2>10. /\ u \in Views
         /\ LoadedIn(u) = LoadedIn(v) \ D
         /\ w \notin LoadedIn(u)
         /\ \A e \in LoadedIn(u) : u[e] = v[e]
    BY <2>2, <2>4, <2>9 DEF Views, LoadedIn
  <2>11. CostSum(u, LoadedIn(u)) = CostSum(v, LoadedIn(u))
    BY <2>10, SameSums
  <2>12. Freed(u, {}).cost = 0 /\ Freed(u, {}).device = 0
    BY FreedNothing DEF LoopStart
  <2>13. LedgerFits(u, w, limit, Freed(u, {}))
    <3>1. CASE limit = None
      BY <3>1 DEF LedgerFits
    <3>2. CASE limit \in Nat
      <4>1. LedgerFits(v, w, limit, Freed(v, D))
        BY <2>4, EnoughMeans
      <4>2. CostSum(v, LoadedIn(v) \ D) + Estimate[w] <= limit
        BY <2>2, <2>5, <3>2, <4>1, LedgerFitsMeans DEF Views
      <4>3. CostSum(u, LoadedIn(u)) + Estimate[w] <= limit
        BY <2>10, <2>11, <4>2
      <4>4. LoadedIn(u) \ {} = LoadedIn(u) /\ {} \in SUBSET LoadedIn(u)
        OBVIOUS
      <4>. QED BY <2>2, <2>10, <3>2, <4>3, <4>4, LedgerFitsMeans DEF Views
    <3>. QED BY <2>2, <3>1, <3>2
  <2>14. DeviceFits(w, back, Freed(u, {}))
    <3>1. CASE free = None
      BY <2>7, <3>1 DEF DeviceFits
    <3>2. CASE free \in Nat
      <4>1. DeviceSum(v, D) \in Nat
        BY <2>2, <2>5, DeviceSumIsNat
      <4>2. free # None /\ free + DeviceSum(v, D) >= DeviceNeed(w)
        <5>1. DeviceFits(w, free, Freed(v, D))
          BY <2>4, EnoughMeans
        <5>2. Freed(v, D).device = DeviceSum(v, D)
          BY DEF Freed
        <5>3. free # None
          BY <3>2, CatalogAssumption
        <5>. QED BY <5>1, <5>2, <5>3 DEF DeviceFits
      <4>3. back = free + DeviceSum(v, D)
        BY <2>7, <4>2
      <4>. QED BY <2>12, <3>2, <4>1, <4>2, <4>3 DEF DeviceFits
    <3>. QED BY <2>2, <3>1, <3>2
  <2>15. Enough(u, w, limit, back, {})
    BY <2>13, <2>14, EnoughMeans
  <2>. QED BY <2>4, <2>10, <2>15 DEF Admit, Decision
<1>. QED BY <1>1, TypeCorrect, PTL

\* Budget::admit names no resident and no child with a reader, and never a child
\* while it spares one it could have named that answered longer ago.
THEOREM VictimsAreTheColdest == Spec => []VictimsAreColdAndIdle
<1>1. TypeOK => VictimsAreColdAndIdle
  <2>. SUFFICES ASSUME TypeOK, Asked, SaidByLoop.kind = "Unload",
                       NEW e \in Range(SaidByLoop.ids)
                PROVE  /\ e \notin Resident /\ ~view[e].busy
                       /\ \A f \in Entries \ Range(SaidByLoop.ids) :
                             (f \notin Resident /\ view[f] # None /\ ~view[f].busy)
                                => view[f].age <= view[e].age
    BY DEF VictimsAreColdAndIdle
  <2>1. PICK v, w, limit, free, D :
          /\ v = view /\ w = ask.wanted /\ limit = ask.limit /\ free = ask.free
          /\ D = Range(SaidByLoop.ids)
    OBVIOUS
  <2>2. v \in Views
    BY <2>1, Questions
  <2>3. Admit(v, w, limit, free).kind = "Unload" /\ D = Admit(v, w, limit, free).ids
    BY <2>1, <2>2, LoopIsTheDefinition DEF SaidByLoop, Lists
  <2>4. w \notin LoadedIn(v) /\ D \in ColdPrefixes(v, Candidates(v, w))
    BY <2>3, UnloadMeans
  <2>5. e \in D /\ e \in Candidates(v, w) /\ e \in LoadedIn(v)
    BY <2>1, <2>4 DEF ColdPrefixes, Candidates
  <2>6. e \notin Resident /\ ~v[e].busy
    BY <2>5 DEF Candidates
  <2>7. ASSUME NEW f \in Entries \ D, f \notin Resident, v[f] # None, ~v[f].busy
        PROVE  v[f].age <= v[e].age
    <3>1. f \in LoadedIn(v) /\ f \in Candidates(v, w)
      BY <2>4, <2>7 DEF LoadedIn, Candidates
    <3>2. ~Colder(v, f, e)
      BY <2>4, <2>5, <2>7, <3>1 DEF ColdPrefixes
    <3>3. v[f].age \in Nat /\ v[e].age \in Nat
      BY <2>2, <2>5, <3>1 DEF Views, LoadedIn, Held
    <3>. QED BY <3>2, <3>3 DEF Colder
  <2>. QED BY <2>1, <2>6, <2>7
<1>. QED BY <1>1, TypeCorrect, PTL

\* The snapshot without its readers: the same children, none of them busy.
LEMMA QuietMeans ==
  ASSUME view \in Views, NEW u, u = Quiet
  PROVE  /\ u \in Views
         /\ LoadedIn(u) = LoadedIn(view)
         /\ \A e \in LoadedIn(view) :
               /\ u[e].cost = view[e].cost /\ u[e].device = view[e].device
               /\ u[e].age = view[e].age /\ u[e].busy = FALSE
<1>1. \A e \in LoadedIn(view) : view[e] \in Held /\ u[e] = [view[e] EXCEPT !.busy = FALSE]
  BY DEF Views, LoadedIn, Quiet
<1>2. \A e \in LoadedIn(view) :
         /\ u[e] \in Held
         /\ u[e].cost = view[e].cost /\ u[e].device = view[e].device
         /\ u[e].age = view[e].age /\ u[e].busy = FALSE
  BY <1>1 DEF Held
<1>3. \A e \in Entries : e \notin LoadedIn(view) => u[e] = None
  BY DEF Quiet, LoadedIn
<1>4. u \in Views
  <2>1. u = [e \in Entries |-> u[e]]
    BY DEF Quiet
  <2>2. \A e \in Entries : u[e] \in Held \cup {None}
    BY <1>2, <1>3 DEF LoadedIn
  <2>. QED BY <2>1, <2>2 DEF Views
<1>5. LoadedIn(u) = LoadedIn(view)
  <2>1. \A h \in Held : h # None
    BY CatalogAssumption DEF Held
  <2>. QED BY <1>2, <1>3, <2>1 DEF LoadedIn
<1>. QED BY <1>2, <1>4, <1>5

\* Decision::Refuse is for good: with every reader gone the answer would be the
\* same, so the caller that is sent away without a Retry-After lost nothing.
THEOREM RefusalsStand == Spec => []RefuseIsPermanent
<1>1. TypeOK => RefuseIsPermanent
  <2>. SUFFICES ASSUME TypeOK, Asked, SaidByLoop.kind = "Refuse"
                PROVE  Admit(Quiet, ask.wanted, ask.limit, ask.free).kind = "Refuse"
    BY DEF RefuseIsPermanent
  <2>1. PICK w, limit, free : w = ask.wanted /\ limit = ask.limit /\ free = ask.free
    OBVIOUS
  <2>2. view \in Views
    BY Questions
  <2>3. Admit(view, w, limit, free).kind = "Refuse"
    BY <2>1, <2>2, LoopIsTheDefinition DEF SaidByLoop
  <2>4. w \notin LoadedIn(view)
    BY <2>3 DEF Admit, Decision
  <2>5. PICK u : u = Quiet
    OBVIOUS
  <2>6. /\ u \in Views /\ LoadedIn(u) = LoadedIn(view)
        /\ \A e \in LoadedIn(view) :
              /\ u[e].cost = view[e].cost /\ u[e].device = view[e].device
              /\ u[e].age = view[e].age /\ u[e].busy = FALSE
    BY <2>2, <2>5, QuietMeans
  <2>7. SUFFICES Admit(u, w, limit, free).kind = "Refuse"
    BY <2>1, <2>5
  <2>8. CASE TooLarge(w, limit)
    BY <2>4, <2>6, <2>8, RefuseMeans
  <2>9. CASE ~TooLarge(w, limit)
    <3>1. /\ ~Enough(view, w, limit, free, {})
          /\ Unloads(view, w, limit, free) = {}
          /\ ~FreesItself(view, w)
      BY <2>3, <2>4, <2>9, RefuseMeans
    <3>2. ~FreesItself(u, w)
      BY <2>6 DEF FreesItself
    <3>3. Candidates(u, w) = Candidates(view, w)
      <4>1. \A e \in LoadedIn(view) : e \notin Resident /\ e # w => ~view[e].busy
        BY <3>1 DEF FreesItself
      <4>. QED BY <2>6, <4>1 DEF Candidates
    <3>4. PICK C : C = Candidates(view, w)
      OBVIOUS
    <3>5. C \in SUBSET LoadedIn(view)
      BY <3>4 DEF Candidates
    <3>6. ColdPrefixes(u, C) = ColdPrefixes(view, C)
      <4>1. \A e, f \in C : Colder(u, e, f) <=> Colder(view, e, f)
        BY <2>6, <3>5 DEF Colder
      <4>. QED BY <4>1 DEF ColdPrefixes
    <3>7. \A S \in SUBSET LoadedIn(view) :
             Enough(u, w, limit, free, S) <=> Enough(view, w, limit, free, S)
      <4>. SUFFICES ASSUME NEW S \in SUBSET LoadedIn(view)
                    PROVE  Enough(u, w, limit, free, S) <=> Enough(view, w, limit, free, S)
        OBVIOUS
      <4>1. Freed(u, S) = Freed(view, S)
        <5>1. CostSum(u, S) = CostSum(view, S) /\ DeviceSum(u, S) = DeviceSum(view, S)
          BY <2>6, SameSums
        <5>. QED BY <5>1 DEF Freed
      <4>2. CostSum(u, LoadedIn(u)) = CostSum(view, LoadedIn(view))
        BY <2>6, SameSums
      <4>. QED BY <4>1, <4>2, EnoughMeans DEF LedgerFits
    <3>8. Unloads(u, w, limit, free) = {}
      <4>. SUFFICES ASSUME NEW P \in Unloads(u, w, limit, free) PROVE FALSE
        OBVIOUS
      <4>1. /\ P \in ColdPrefixes(view, C) /\ Enough(u, w, limit, free, P)
            /\ \A Q \in ColdPrefixes(view, C) : Enough(u, w, limit, free, Q) => P \subseteq Q
        BY <3>3, <3>4, <3>6 DEF Unloads
      <4>2. \A Q \in ColdPrefixes(view, C) : Q \in SUBSET LoadedIn(view)
        BY <3>5 DEF ColdPrefixes
      <4>3. /\ Enough(view, w, limit, free, P)
            /\ \A Q \in ColdPrefixes(view, C) : Enough(view, w, limit, free, Q) => P \subseteq Q
        BY <3>7, <4>1, <4>2
      <4>4. P \in Unloads(view, w, limit, free)
        BY <3>4, <4>1, <4>3 DEF Unloads
      <4>. QED BY <3>1, <4>4
    <3>9. ~Enough(u, w, limit, free, {})
      BY <3>1, <3>7
    <3>. QED BY <2>4, <2>6, <3>2, <3>8, <3>9, RefuseMeans
  <2>. QED BY <2>8, <2>9
<1>. QED BY <1>1, TypeCorrect, PTL

\* The refusal that tells the caller "waiting cannot help" (Room::refusal) is
\* true: whichever on-demand children end and with every reader gone, what the
\* residents reserve keeps the entry out.
THEOREM NeverIsNever == Spec => []NeverMeansNever
<1>1. TypeOK => NeverMeansNever
  <2>1. PICK w, limit, free : w = ask.wanted /\ limit = ask.limit /\ free = ask.free
    OBVIOUS
  <2>. SUFFICES ASSUME TypeOK, Asked, SaidByLoop.kind \in {"Refuse", "Blocked"},
                       ~TooLarge(w, limit), Refusal(view, w, limit, free) = "never",
                       NEW S \in SUBSET (Entries \ Resident), NEW left,
                       left = [e \in Entries |-> IF e \in S THEN None ELSE Quiet[e]]
                PROVE  Admit(left, w, limit, None).kind = "Refuse"
    BY <2>1 DEF NeverMeansNever
  <2>2. view \in Views /\ w \in Entries /\ limit \in Nat \cup {None}
    BY <2>1, Questions
  <2>3. w \notin LoadedIn(view)
    BY <2>1 DEF SaidByLoop, AdmitLoop
  <2>4. limit \in Nat /\ Estimate[w] + Reserved(view) > limit
    BY <2>2 DEF Refusal, Short, LedgerFits
  <2>5. PICK u : u = Quiet
    OBVIOUS
  <2>6. /\ u \in Views /\ LoadedIn(u) = LoadedIn(view)
        /\ \A e \in LoadedIn(view) :
              /\ u[e].cost = view[e].cost /\ u[e].device = view[e].device
              /\ u[e].age = view[e].age /\ u[e].busy = FALSE
    BY <2>2, <2>5, QuietMeans
  <2>7. /\ left \in Views /\ LoadedIn(left) = LoadedIn(view) \ S
        /\ \A e \in LoadedIn(left) : left[e] = u[e]
    BY <2>5, <2>6 DEF Views, LoadedIn
  <2>8. PICK R : R = LoadedIn(view) \cap Resident
    OBVIOUS
  <2>9. R \in SUBSET LoadedIn(left) /\ R \in SUBSET LoadedIn(view)
    BY <2>7, <2>8
  <2>10. CostSum(left, R) = Reserved(view)
    <3>1. \A e \in R : left[e].cost = view[e].cost /\ left[e].device = view[e].device
      BY <2>6, <2>7, <2>9
    <3>. QED BY <2>8, <3>1, SameSums DEF Reserved
  <2>11. \A P \in SUBSET Candidates(left, w) : ~Enough(left, w, limit, None, P)
    <3>. SUFFICES ASSUME NEW P \in SUBSET Candidates(left, w), Enough(left, w, limit, None, P)
                  PROVE  FALSE
      OBVIOUS
    <3>1. P \in SUBSET LoadedIn(left) /\ P \cap R = {}
      BY <2>8 DEF Candidates
    <3>2. PICK rest : rest = LoadedIn(left) \ P
      OBVIOUS
    <3>3. rest \in SUBSET LoadedIn(left) /\ R \in SUBSET rest
      BY <2>9, <3>1, <3>2
    <3>4. CostSum(left, rest) + Estimate[w] <= limit
      BY <2>2, <2>4, <2>7, <3>1, <3>2, EnoughMeans, LedgerFitsMeans DEF Views
    <3>5. CostSum(left, R) <= CostSum(left, rest)
      <4>1. /\ CostSum(left, R) = SumFunctionOnSet(Costs(left), R)
            /\ CostSum(left, rest) = SumFunctionOnSet(Costs(left), rest)
            /\ IsFiniteSet(rest) /\ \A e \in rest : Costs(left)[e] \in Nat
        BY <2>7, <2>9, <3>3, CostSumIsASum, FS_Subset DEF Views
      <4>. QED BY <3>3, <4>1, SumIsMonotone
    <3>6. CostSum(left, R) \in Nat /\ CostSum(left, rest) \in Nat /\ Estimate[w] \in Nat
      BY <2>2, <2>7, <2>9, <3>3, CatalogAssumption, CostSumSplits DEF Views
    <3>. QED BY <2>4, <2>10, <3>4, <3>5, <3>6
  <2>12. w \notin LoadedIn(left)
    BY <2>3, <2>7
  <2>13. ~Enough(left, w, limit, None, {})
    BY <2>11
  <2>14. Unloads(left, w, limit, None) = {}
    BY <2>11 DEF Unloads, ColdPrefixes
  <2>15. ~FreesItself(left, w)
    BY <2>6, <2>7 DEF FreesItself
  <2>. QED BY <2>12, <2>13, <2>14, <2>15, RefuseMeans
<1>. QED BY <1>1, TypeCorrect, PTL
=============================================================================
