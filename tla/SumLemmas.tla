------------------------------ MODULE SumLemmas ------------------------------
(***************************************************************************)
(* What the proofs need to know of SumFunction and SumFunctionOnSet, which *)
(* add up a function over a finite set one chosen element at a time: that  *)
(* the sum exists, that the order does not matter, that a part is no more  *)
(* than the whole, and that equal functions have equal sums.  Each fact is *)
(* shown by looking at a smallest set it would fail for.                   *)
(***************************************************************************)
EXTENDS Integers, FiniteSets, Functions, FiniteSetTheorems, WellFoundedInduction, TLAPS

\* Among sets of subsets of a finite set there is a smallest one.
LEMMA SmallestSubset ==
  ASSUME NEW S, IsFiniteSet(S), NEW Bad \in SUBSET SUBSET S, Bad # {}
  PROVE  \E T \in Bad : \A U \in SUBSET T : U \in Bad => U = T
<1>1. Bad \subseteq FiniteSubsetsOf(S)
  BY FS_Subset DEF FiniteSubsetsOf
<1>2. PICK T \in Bad : \A U \in Bad : ~(<<U, T>> \in StrictSubsetOrdering(S))
  <2>1. IsWellFoundedOn(StrictSubsetOrdering(S), FiniteSubsetsOf(S))
    BY FS_StrictSubsetOrderingWellFounded
  <2>. QED BY <1>1, <2>1, WFMin
<1>3. \A U \in SUBSET T : U \in Bad => U = T
  BY <1>2 DEF StrictSubsetOrdering
<1>. QED BY <1>3

----------------------------------------------------------------------------
(* The table of sums that the recursive function in SumFunctionOnSet is.    *)

Pick(s) == CHOOSE x \in s : TRUE

SumStep(f, it, s) == IF s = {} THEN 0 ELSE f[Pick(s)] + it[s \ {Pick(s)}]

IsSumTable(it, f, S) == it = [s \in SUBSET S |-> SumStep(f, it, s)]

SumTable(f, S) == CHOOSE it : IsSumTable(it, f, S)

\* SumFunctionOnSet looks its set up in the table.
LEMMA SumIsLookedUp ==
  ASSUME NEW f, NEW S
  PROVE  SumFunctionOnSet(f, S) = SumTable(f, S)[S]
  BY Zenon DEF SumFunctionOnSet, FoldFunctionOnSet, MapThenFoldSet, SumTable, IsSumTable, SumStep, Pick

LEMMA PickIsIn ==
  ASSUME NEW s, s # {}
  PROVE  Pick(s) \in s
  BY Zenon DEF Pick

\* Two tables agree where both have an entry.
LEMMA SumTablesAgree ==
  ASSUME NEW f, NEW S, NEW T, IsFiniteSet(S), NEW a, NEW b,
         IsSumTable(a, f, S), IsSumTable(b, f, T)
  PROVE  \A s \in SUBSET (S \cap T) : a[s] = b[s]
<1>. DEFINE Bad == {s \in SUBSET (S \cap T) : a[s] # b[s]}
<1>1. SUFFICES ASSUME Bad # {} PROVE FALSE
  OBVIOUS
<1>2. IsFiniteSet(S \cap T) /\ Bad \in SUBSET SUBSET (S \cap T)
  BY FS_Subset
<1>3. PICK s \in Bad : \A U \in SUBSET s : U \in Bad => U = s
  <2>. HIDE DEF Bad
  <2>. QED BY <1>1, <1>2, SmallestSubset
<1>4. a[s] = SumStep(f, a, s) /\ b[s] = SumStep(f, b, s)
  BY DEF IsSumTable
<1>5. CASE s = {}
  BY <1>3, <1>4, <1>5 DEF SumStep
<1>6. CASE s # {}
  <2>1. Pick(s) \in s
    BY <1>6, PickIsIn
  <2>2. s \ {Pick(s)} \notin Bad
    BY <1>3, <2>1
  <2>3. s \ {Pick(s)} \in SUBSET (S \cap T)
    OBVIOUS
  <2>4. a[s \ {Pick(s)}] = b[s \ {Pick(s)}]
    BY <2>2, <2>3
  <2>. QED BY <1>3, <1>4, <1>6, <2>4 DEF SumStep
<1>. QED BY <1>5, <1>6

\* Every finite set has a table.
LEMMA SumTableExists ==
  ASSUME NEW f, NEW S, IsFiniteSet(S)
  PROVE  \A s \in SUBSET S : IsSumTable(SumTable(f, s), f, s)
<1>. DEFINE Bad == {s \in SUBSET S : ~IsSumTable(SumTable(f, s), f, s)}
<1>1. SUFFICES ASSUME Bad # {} PROVE FALSE
  OBVIOUS
<1>2. PICK T \in Bad : \A U \in SUBSET T : U \in Bad => U = T
  <2>1. Bad \in SUBSET SUBSET S
    OBVIOUS
  <2>. HIDE DEF Bad
  <2>. QED BY <1>1, <2>1, SmallestSubset
<1>3. \A U \in SUBSET T : U # T => IsSumTable(SumTable(f, U), f, U)
  BY <1>2
<1>. DEFINE Below(s) == SumTable(f, s \ {Pick(s)})[s \ {Pick(s)}]
            it == [s \in SUBSET T |-> IF s = {} THEN 0 ELSE f[Pick(s)] + Below(s)]
<1>4. \A U \in SUBSET T : U # T => it[U] = SumTable(f, U)[U]
  <2>. SUFFICES ASSUME NEW U \in SUBSET T, U # T PROVE it[U] = SumTable(f, U)[U]
    OBVIOUS
  <2>1. IsSumTable(SumTable(f, U), f, U)
    BY <1>3
  <2>2. SumTable(f, U)[U] = SumStep(f, SumTable(f, U), U)
    BY <2>1 DEF IsSumTable
  <2>3. CASE U = {}
    BY <2>2, <2>3 DEF SumStep
  <2>4. CASE U # {}
    <3>1. Pick(U) \in U
      BY <2>4, PickIsIn
    <3>. DEFINE V == U \ {Pick(U)}
    <3>2. V \in SUBSET T /\ V # T /\ V \in SUBSET (U \cap V)
      BY <3>1
    <3>3. IsSumTable(SumTable(f, V), f, V)
      BY <1>3, <3>2
    <3>4. IsFiniteSet(U)
      BY FS_Subset
    <3>5. SumTable(f, U)[V] = SumTable(f, V)[V]
      BY <2>1, <3>2, <3>3, <3>4, SumTablesAgree
    <3>. QED BY <2>2, <2>4, <3>5 DEF SumStep
  <2>. QED BY <2>3, <2>4
<1>5. IsSumTable(it, f, T)
  <2>1. \A s \in SUBSET T : it[s] = SumStep(f, it, s)
    <3>. SUFFICES ASSUME NEW s \in SUBSET T PROVE it[s] = SumStep(f, it, s)
      OBVIOUS
    <3>1. CASE s = {}
      BY <3>1 DEF SumStep
    <3>2. CASE s # {}
      <4>1. Pick(s) \in s
        BY <3>2, PickIsIn
      <4>2. it[s \ {Pick(s)}] = Below(s)
        BY <1>4, <4>1
      <4>3. it[s] = f[Pick(s)] + Below(s)
        BY <3>2
      <4>. HIDE DEF it
      <4>. QED BY <3>2, <4>2, <4>3 DEF SumStep
    <3>. QED BY <3>1, <3>2
  <2>. DEFINE also == [s \in SUBSET T |-> SumStep(f, it, s)]
  <2>2. it = [s \in SUBSET T |-> it[s]]
    OBVIOUS
  <2>. HIDE DEF it
  <2>. QED BY <2>1, <2>2 DEF IsSumTable
<1>6. IsSumTable(SumTable(f, T), f, T)
  <2>. HIDE DEF it
  <2>. QED BY <1>5, Zenon DEF SumTable
<1>. QED BY <1>2, <1>6

----------------------------------------------------------------------------
(* What is worth knowing of a sum. *)

LEMMA SumOfNothing ==
  ASSUME NEW f
  PROVE  SumFunctionOnSet(f, {}) = 0
<1>1. IsSumTable(SumTable(f, {}), f, {})
  BY SumTableExists, FS_EmptySet
<1>2. SumTable(f, {})[{}] = SumStep(f, SumTable(f, {}), {})
  BY <1>1 DEF IsSumTable
<1>. QED BY <1>2, SumIsLookedUp DEF SumStep

\* The sum as it is computed.
LEMMA SumByPick ==
  ASSUME NEW f, NEW S, IsFiniteSet(S), S # {}
  PROVE  SumFunctionOnSet(f, S) = f[Pick(S)] + SumFunctionOnSet(f, S \ {Pick(S)})
<1>. DEFINE V == S \ {Pick(S)}
<1>1. IsSumTable(SumTable(f, S), f, S) /\ IsSumTable(SumTable(f, V), f, V)
  BY SumTableExists
<1>2. SumTable(f, S)[S] = SumStep(f, SumTable(f, S), S)
  BY <1>1 DEF IsSumTable
<1>3. SumTable(f, S)[V] = SumTable(f, V)[V]
  <2>1. V \in SUBSET (S \cap V)
    OBVIOUS
  <2>. HIDE DEF V
  <2>. QED BY <1>1, <2>1, SumTablesAgree
<1>. QED BY <1>2, <1>3, SumIsLookedUp DEF SumStep

\* Sums of natural numbers are natural numbers.
LEMMA SumIsNat ==
  ASSUME NEW f, NEW S, IsFiniteSet(S), \A x \in S : f[x] \in Nat
  PROVE  \A s \in SUBSET S : SumFunctionOnSet(f, s) \in Nat
<1>. DEFINE Bad == {s \in SUBSET S : SumFunctionOnSet(f, s) \notin Nat}
<1>1. SUFFICES ASSUME Bad # {} PROVE FALSE
  OBVIOUS
<1>2. PICK T \in Bad : \A U \in SUBSET T : U \in Bad => U = T
  <2>1. Bad \in SUBSET SUBSET S
    OBVIOUS
  <2>. HIDE DEF Bad
  <2>. QED BY <1>1, <2>1, SmallestSubset
<1>3. T # {}
  <2>1. SumFunctionOnSet(f, {}) \in Nat
    BY SumOfNothing
  <2>2. SumFunctionOnSet(f, T) \notin Nat
    BY <1>2
  <2>. QED BY <2>1, <2>2
<1>4. Pick(T) \in T
  BY <1>3, PickIsIn
<1>5. SumFunctionOnSet(f, T) = f[Pick(T)] + SumFunctionOnSet(f, T \ {Pick(T)})
  BY <1>3, FS_Subset, SumByPick
<1>6. T \ {Pick(T)} \in SUBSET S /\ T \ {Pick(T)} \notin Bad
  BY <1>2, <1>4
<1>7. SumFunctionOnSet(f, T \ {Pick(T)}) \in Nat
  BY <1>6
<1>8. f[Pick(T)] \in Nat
  BY <1>4
<1>. QED BY <1>2, <1>5, <1>7, <1>8

\* The order of the sum does not matter: any element may be the first.
LEMMA SumByAny ==
  ASSUME NEW f, NEW S, IsFiniteSet(S), \A x \in S : f[x] \in Nat
  PROVE  \A s \in SUBSET S : \A x \in s :
            SumFunctionOnSet(f, s) = f[x] + SumFunctionOnSet(f, s \ {x})
<1>. DEFINE Good(s) == \A x \in s : SumFunctionOnSet(f, s) = f[x] + SumFunctionOnSet(f, s \ {x})
            Bad == {s \in SUBSET S : ~Good(s)}
<1>1. SUFFICES ASSUME Bad # {} PROVE FALSE
  OBVIOUS
<1>2. PICK T \in Bad : \A U \in SUBSET T : U \in Bad => U = T
  <2>1. Bad \in SUBSET SUBSET S
    OBVIOUS
  <2>. HIDE DEF Bad
  <2>. QED BY <1>1, <2>1, SmallestSubset
<1>3. PICK x \in T : SumFunctionOnSet(f, T) # f[x] + SumFunctionOnSet(f, T \ {x})
  BY <1>2
<1>. DEFINE c == Pick(T)
<1>4. c \in T
  BY <1>3, PickIsIn
<1>5. SumFunctionOnSet(f, T) = f[c] + SumFunctionOnSet(f, T \ {c})
  BY <1>3, FS_Subset, SumByPick
<1>. HIDE DEF c
<1>6. c # x
  BY <1>3, <1>5
<1>7. Good(T \ {c}) /\ Good(T \ {x})
  BY <1>2, <1>3, <1>4
<1>8. SumFunctionOnSet(f, T \ {c}) = f[x] + SumFunctionOnSet(f, (T \ {c}) \ {x})
  BY <1>6, <1>7
<1>9. SumFunctionOnSet(f, T \ {x}) = f[c] + SumFunctionOnSet(f, (T \ {x}) \ {c})
  BY <1>4, <1>6, <1>7
<1>10. (T \ {c}) \ {x} = (T \ {x}) \ {c}
  OBVIOUS
<1>. DEFINE rest == SumFunctionOnSet(f, (T \ {x}) \ {c})
<1>11. f[x] \in Nat /\ f[c] \in Nat /\ rest \in Nat
  BY <1>4, SumIsNat
<1>12. SumFunctionOnSet(f, T) = f[c] + (f[x] + rest)
  BY <1>5, <1>8, <1>10
<1>13. SumFunctionOnSet(f, T \ {x}) = f[c] + rest
  BY <1>9
<1>. HIDE DEF rest
<1>14. f[c] + (f[x] + rest) = f[x] + (f[c] + rest)
  BY <1>11
<1>. QED BY <1>3, <1>12, <1>13, <1>14

\* Functions that agree on a set have the same sum over it.
LEMMA SumsAgree ==
  ASSUME NEW f, NEW g, NEW S, IsFiniteSet(S), \A x \in S : f[x] = g[x]
  PROVE  \A s \in SUBSET S : SumFunctionOnSet(f, s) = SumFunctionOnSet(g, s)
<1>. DEFINE Bad == {s \in SUBSET S : SumFunctionOnSet(f, s) # SumFunctionOnSet(g, s)}
<1>1. SUFFICES ASSUME Bad # {} PROVE FALSE
  OBVIOUS
<1>2. PICK T \in Bad : \A U \in SUBSET T : U \in Bad => U = T
  <2>1. Bad \in SUBSET SUBSET S
    OBVIOUS
  <2>. HIDE DEF Bad
  <2>. QED BY <1>1, <2>1, SmallestSubset
<1>3. T # {}
  BY <1>2, SumOfNothing
<1>4. Pick(T) \in T
  BY <1>3, PickIsIn
<1>5. /\ SumFunctionOnSet(f, T) = f[Pick(T)] + SumFunctionOnSet(f, T \ {Pick(T)})
      /\ SumFunctionOnSet(g, T) = g[Pick(T)] + SumFunctionOnSet(g, T \ {Pick(T)})
  BY <1>3, FS_Subset, SumByPick
<1>6. T \ {Pick(T)} \in SUBSET S /\ T \ {Pick(T)} \notin Bad
  BY <1>2, <1>4
<1>7. SumFunctionOnSet(f, T \ {Pick(T)}) = SumFunctionOnSet(g, T \ {Pick(T)})
  BY <1>6
<1>8. f[Pick(T)] = g[Pick(T)]
  BY <1>4
<1>. QED BY <1>2, <1>5, <1>7, <1>8

\* A part and the rest make the whole.
LEMMA SumSplits ==
  ASSUME NEW f, NEW S, IsFiniteSet(S), \A x \in S : f[x] \in Nat
  PROVE  \A s \in SUBSET S :
            SumFunctionOnSet(f, S) = SumFunctionOnSet(f, s) + SumFunctionOnSet(f, S \ s)
<1>. DEFINE Bad == {s \in SUBSET S :
                     SumFunctionOnSet(f, S) # SumFunctionOnSet(f, s) + SumFunctionOnSet(f, S \ s)}
<1>1. SUFFICES ASSUME Bad # {} PROVE FALSE
  OBVIOUS
<1>2. PICK T \in Bad : \A U \in SUBSET T : U \in Bad => U = T
  <2>1. Bad \in SUBSET SUBSET S
    OBVIOUS
  <2>. HIDE DEF Bad
  <2>. QED BY <1>1, <2>1, SmallestSubset
<1>3. T # {}
  <2>1. SumFunctionOnSet(f, S) \in Nat /\ S \ {} = S
    BY SumIsNat
  <2>2. SumFunctionOnSet(f, {}) = 0
    BY SumOfNothing
  <2>3. SumFunctionOnSet(f, S) # SumFunctionOnSet(f, T) + SumFunctionOnSet(f, S \ T)
    BY <1>2
  <2>4. SumFunctionOnSet(f, S) = 0 + SumFunctionOnSet(f, S)
    BY <2>1
  <2>. QED BY <2>1, <2>2, <2>3, <2>4
<1>4. PICK x \in T : TRUE
  BY <1>3
<1>. DEFINE U == T \ {x}
<1>5. SumFunctionOnSet(f, S) = SumFunctionOnSet(f, U) + SumFunctionOnSet(f, S \ U)
  <2>1. U \in SUBSET T /\ U # T /\ U \in SUBSET S
    BY <1>4
  <2>. QED BY <1>2, <2>1
<1>6. SumFunctionOnSet(f, T) = f[x] + SumFunctionOnSet(f, U)
  BY SumByAny
<1>7. SumFunctionOnSet(f, S \ U) = f[x] + SumFunctionOnSet(f, S \ T)
  <2>1. S \ U \in SUBSET S /\ x \in S \ U /\ (S \ U) \ {x} = S \ T
    BY <1>4
  <2>. QED BY <2>1, SumByAny
<1>8. f[x] \in Nat /\ SumFunctionOnSet(f, U) \in Nat /\ SumFunctionOnSet(f, S \ T) \in Nat
  BY <1>4, SumIsNat
<1>. HIDE DEF U
<1>. QED BY <1>2, <1>5, <1>6, <1>7, <1>8

\* A part is no more than the whole.
LEMMA SumIsMonotone ==
  ASSUME NEW f, NEW S, IsFiniteSet(S), \A x \in S : f[x] \in Nat
  PROVE  \A s \in SUBSET S : SumFunctionOnSet(f, s) <= SumFunctionOnSet(f, S)
<1>. SUFFICES ASSUME NEW s \in SUBSET S PROVE SumFunctionOnSet(f, s) <= SumFunctionOnSet(f, S)
  OBVIOUS
<1>1. SumFunctionOnSet(f, s) \in Nat /\ SumFunctionOnSet(f, S \ s) \in Nat
  BY SumIsNat
<1>2. SumFunctionOnSet(f, S) = SumFunctionOnSet(f, s) + SumFunctionOnSet(f, S \ s)
  BY SumSplits
<1>. QED BY <1>1, <1>2

\* Moving the terms to another set, no two of them to the same place, and making
\* none of them smaller, makes no sum smaller.
LEMMA SumMoves ==
  ASSUME NEW f, NEW g, NEW S, NEW T, IsFiniteSet(S), IsFiniteSet(T), NEW m \in [S -> T],
         \A x, y \in S : m[x] = m[y] => x = y,
         \A x \in S : f[x] \in Nat, \A y \in T : g[y] \in Nat,
         \A x \in S : f[x] <= g[m[x]]
  PROVE  SumFunctionOnSet(f, S) <= SumFunctionOnSet(g, T)
<1>. DEFINE Image(s) == {m[x] : x \in s}
            Bad == {s \in SUBSET S : ~(SumFunctionOnSet(f, s) <= SumFunctionOnSet(g, Image(s)))}
<1>1. Bad = {}
  <2>1. SUFFICES ASSUME Bad # {} PROVE FALSE
    OBVIOUS
  <2>2. PICK s \in Bad : \A U \in SUBSET s : U \in Bad => U = s
    <3>1. Bad \in SUBSET SUBSET S
      OBVIOUS
    <3>. HIDE DEF Bad
    <3>. QED BY <2>1, <3>1, SmallestSubset
  <2>3. s # {}
    <3>1. Image({}) = {}
      OBVIOUS
    <3>2. SumFunctionOnSet(f, {}) = 0 /\ SumFunctionOnSet(g, {}) = 0
      BY SumOfNothing
    <3>3. ~(SumFunctionOnSet(f, s) <= SumFunctionOnSet(g, Image(s)))
      BY <2>2
    <3>. HIDE DEF Image
    <3>. QED BY <3>1, <3>2, <3>3
  <2>4. PICK x \in s : TRUE
    BY <2>3
  <2>. DEFINE U == s \ {x}
  <2>5. SumFunctionOnSet(f, U) <= SumFunctionOnSet(g, Image(U))
    <3>1. U \in SUBSET s /\ U # s /\ U \in SUBSET S
      BY <2>4
    <3>. QED BY <2>2, <3>1
  <2>6. SumFunctionOnSet(f, s) = f[x] + SumFunctionOnSet(f, U)
    BY SumByAny
  <2>7. Image(s) \in SUBSET T /\ m[x] \in Image(s) /\ Image(s) \ {m[x]} = Image(U)
    OBVIOUS
  <2>8. SumFunctionOnSet(g, Image(s)) = g[m[x]] + SumFunctionOnSet(g, Image(U))
    <3>. HIDE DEF Image, U
    <3>. QED BY <2>7, SumByAny
  <2>9. SumFunctionOnSet(f, U) \in Nat /\ f[x] \in Nat /\ f[x] <= g[m[x]]
    BY SumIsNat
  <2>10. SumFunctionOnSet(g, Image(U)) \in Nat /\ g[m[x]] \in Nat
    <3>1. Image(U) \in SUBSET T
      BY <2>7
    <3>. HIDE DEF Image, U
    <3>. QED BY <3>1, SumIsNat
  <2>11. ~(SumFunctionOnSet(f, s) <= SumFunctionOnSet(g, Image(s)))
    BY <2>2
  <2>. HIDE DEF Image, U
  <2>. QED BY <2>5, <2>6, <2>8, <2>9, <2>10, <2>11
<1>2. SumFunctionOnSet(f, S) <= SumFunctionOnSet(g, Image(S))
  BY <1>1
<1>3. SumFunctionOnSet(g, Image(S)) <= SumFunctionOnSet(g, T)
  <2>1. Image(S) \in SUBSET T
    OBVIOUS
  <2>. HIDE DEF Image
  <2>. QED BY <2>1, SumIsMonotone
<1>4. /\ SumFunctionOnSet(f, S) \in Nat /\ SumFunctionOnSet(g, T) \in Nat
      /\ SumFunctionOnSet(g, Image(S)) \in Nat
  <2>1. Image(S) \in SUBSET T
    OBVIOUS
  <2>. HIDE DEF Image
  <2>. QED BY <2>1, SumIsNat
<1>. HIDE DEF Image
<1>. QED BY <1>2, <1>3, <1>4
\* Equal terms add up to their number times one of them.
LEMMA SumOfEqualTerms ==
  ASSUME NEW f, NEW S, IsFiniteSet(S), NEW b \in Nat, \A x \in S : f[x] = b
  PROVE  SumFunctionOnSet(f, S) = Cardinality(S) * b
<1>. DEFINE Bad == {s \in SUBSET S : SumFunctionOnSet(f, s) # Cardinality(s) * b}
<1>1. SUFFICES ASSUME Bad # {} PROVE FALSE
  OBVIOUS
<1>2. PICK T \in Bad : \A U \in SUBSET T : U \in Bad => U = T
  <2>1. Bad \in SUBSET SUBSET S
    OBVIOUS
  <2>. HIDE DEF Bad
  <2>. QED BY <1>1, <2>1, SmallestSubset
<1>3. T # {}
  <2>1. SumFunctionOnSet(f, {}) = 0 /\ Cardinality({}) = 0 /\ 0 * b = 0
    BY SumOfNothing, FS_EmptySet
  <2>. QED BY <1>2, <2>1
<1>4. PICK x \in T : TRUE
  BY <1>3
<1>. DEFINE U == T \ {x}
<1>5. SumFunctionOnSet(f, U) = Cardinality(U) * b
  <2>1. U \in SUBSET T /\ U # T /\ U \in SUBSET S
    BY <1>4
  <2>. QED BY <1>2, <2>1
<1>6. SumFunctionOnSet(f, T) = b + SumFunctionOnSet(f, U)
  <2>1. f[x] = b
    BY <1>4
  <2>. QED BY <2>1, SumByAny
<1>7. IsFiniteSet(T)
  BY FS_Subset
<1>8. Cardinality(U) = Cardinality(T) - 1 /\ Cardinality(T) \in Nat
  BY <1>4, <1>7, FS_RemoveElement, FS_CardinalityType
<1>9. SumFunctionOnSet(f, T) # Cardinality(T) * b
  BY <1>2
<1>. HIDE DEF U
<1>10. PICK n \in Nat : n = Cardinality(T)
  BY <1>8
<1>11. b + ((n - 1) * b) = n * b
  OBVIOUS
<1>. QED BY <1>5, <1>6, <1>8, <1>9, <1>10, <1>11

\* Terms that are bounded, no more of them than there are places.
LEMMA SumIsBounded ==
  ASSUME NEW f, NEW S, IsFiniteSet(S), NEW n \in Nat, NEW b \in Nat, NEW m \in [S -> 1..n],
         \A x, y \in S : m[x] = m[y] => x = y,
         \A x \in S : f[x] \in Nat /\ f[x] <= b
  PROVE  SumFunctionOnSet(f, S) <= n * b
<1>. DEFINE g == [y \in 1..n |-> b]
<1>1. IsFiniteSet(1..n) /\ Cardinality(1..n) = n
  BY FS_Interval
<1>2. \A y \in 1..n : g[y] = b
  OBVIOUS
<1>. HIDE DEF g
<1>3. SumFunctionOnSet(g, 1..n) = n * b
  BY <1>1, <1>2, SumOfEqualTerms
<1>4. \A x \in S : f[x] <= g[m[x]]
  BY <1>2
<1>5. SumFunctionOnSet(f, S) <= SumFunctionOnSet(g, 1..n)
  BY <1>1, <1>2, <1>4, SumMoves
<1>. QED BY <1>3, <1>5

\* What two sets share counts once in their union.
LEMMA SumOfUnion ==
  ASSUME NEW f, NEW S, NEW T, IsFiniteSet(S), IsFiniteSet(T), \A x \in S \cup T : f[x] \in Nat
  PROVE  SumFunctionOnSet(f, S \cup T) <= SumFunctionOnSet(f, S) + SumFunctionOnSet(f, T)
<1>1. IsFiniteSet(S \cup T)
  BY FS_Union
<1>2. SumFunctionOnSet(f, S \cup T) = SumFunctionOnSet(f, S) + SumFunctionOnSet(f, (S \cup T) \ S)
  BY <1>1, SumSplits
<1>. DEFINE R == (S \cup T) \ S
<1>3. R \in SUBSET T
  OBVIOUS
<1>. HIDE DEF R
<1>4. SumFunctionOnSet(f, R) <= SumFunctionOnSet(f, T)
  BY <1>3, SumIsMonotone
<1>5. SumFunctionOnSet(f, R) \in Nat /\ SumFunctionOnSet(f, S) \in Nat /\ SumFunctionOnSet(f, T) \in Nat
  BY <1>3, SumIsNat
<1>. QED BY <1>2, <1>4, <1>5 DEF R
==============================================================================
