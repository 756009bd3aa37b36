-------------------------------- MODULE Sums --------------------------------
(***************************************************************************)
(* Sums over the rows of a table, as the repositories of agreements and    *)
(* receivables take them, and what can be said of them for every finite    *)
(* set of rows.  The summands are a function, so that each lemma is first  *)
(* order; the lemmas about data are by induction over the finite subsets   *)
(* of a set, ordered by inclusion, or over numbers: a set of them has a    *)
(* least member.                                                           *)
(***************************************************************************)
EXTENDS Integers, FiniteSets, Functions, FiniteSetTheorems, TLAPS

(* The sum of f[x] over the x of a finite set S.                           *)
SumOver(f, S) == FoldFunctionOnSet(+, 0, f, S)

-----------------------------------------------------------------------------
(* What the fold computes, one element at a time.                          *)

Step(f, g, s) == IF s = {} THEN 0 ELSE LET x == CHOOSE x \in s : TRUE IN f[x] + g[s \ {x}]

LEMMA SumUnfolded ==
  ASSUME NEW f, NEW S
  PROVE  SumOver(f, S) = (CHOOSE g : g = [s \in SUBSET S |-> Step(f, g, s)])[S]
BY DEF SumOver, FoldFunctionOnSet, MapThenFoldSet, Step

(* Induction over the subsets of a finite set: what holds of a set when it *)
(* holds of its proper subsets holds of them all.                          *)
LEMMA SubsetInduction ==
  ASSUME NEW S, IsFiniteSet(S), NEW G,
         \A T \in SUBSET S : (\A U \in SUBSET T : U # T => U \in G) => T \in G
  PROVE \A T \in SUBSET S : T \in G
<1> SUFFICES ASSUME {T \in SUBSET S : T \notin G} # {} PROVE FALSE
  OBVIOUS
<1> DEFINE Bad == {T \in SUBSET S : T \notin G}
<1>0. IsWellFoundedOn(StrictSubsetOrdering(S), FiniteSubsetsOf(S))
  BY FS_StrictSubsetOrderingWellFounded
<1>1. FiniteSubsetsOf(S) = SUBSET S
  BY FS_FiniteSubsetsOfFinite
<1>2. IsWellFoundedOn(StrictSubsetOrdering(S), SUBSET S)
  BY <1>1, <1>0
<1>3. PICK T \in Bad : \A U \in Bad : ~ (<<U, T>> \in StrictSubsetOrdering(S))
  <2> HIDE DEF Bad
  <2>1. Bad \subseteq SUBSET S /\ Bad # {}
    BY DEF Bad
  <2> QED
  BY <1>2, <2>1, WFMin
<1>4. \A U \in SUBSET T : U # T => U \in G
  BY <1>3 DEF StrictSubsetOrdering
<1> QED
  BY <1>3, <1>4

(* Any set of numbers has a least member.                                  *)
NumbersBelow == {p \in Nat \X Nat : p[1] < p[2]}

LEMMA LeastMember ==
  ASSUME NEW S \in SUBSET Nat, S # {}
  PROVE  \E n \in S : \A m \in S : n <= m
<1>1. IsWellFoundedOn(NumbersBelow, Nat)
  <2>1. NumbersBelow = OpToRel(<, Nat)
    BY DEF OpToRel, NumbersBelow
  <2> QED
    BY <2>1, NatLessThanWellFounded, Zenon
<1>2. PICK n \in S : \A m \in S : ~(<<m, n>> \in NumbersBelow)
  BY <1>1, WFMin
<1>3. ASSUME NEW m \in S PROVE n <= m
  <2>1. n \in Nat /\ m \in Nat /\ ~(<<m, n>> \in NumbersBelow)
    BY <1>2
  <2>2. ~(m < n)
    BY <2>1 DEF NumbersBelow
  <2> QED
    BY <2>1, <2>2
<1> QED
  BY <1>3

(* Induction along the numbers up to N.                                    *)
LEMMA NumberInduction ==
  ASSUME NEW N \in Nat, NEW G, \A n \in 0..N : (n > 0 => n - 1 \in G) => n \in G
  PROVE  \A n \in 0..N : n \in G
<1> DEFINE Bad == {n \in 0..N : n \notin G}
<1> SUFFICES ASSUME Bad # {} PROVE FALSE
  OBVIOUS
<1>0. Bad \in SUBSET Nat
  OBVIOUS
<1>1. PICK n \in Bad : \A m \in Bad : n <= m
  <2> HIDE DEF Bad
  <2> QED
    BY <1>0, LeastMember
<1>2. n \in 0..N /\ n \notin G /\ n > 0 /\ n - 1 \notin G
  BY <1>1
<1>3. n - 1 \in Bad
  BY <1>2
<1> QED
  BY <1>1, <1>2, <1>3

(* A function is defined step by step along the numbers up to N.           *)
StepsTo(f, X, start, N, step) ==
  /\ f \in [0..N -> X]
  /\ f[0] = step[0][start]
  /\ \A n \in 1..N : f[n] = step[n][f[n - 1]]

HasSteps(X, start, N, step) == \E f : StepsTo(f, X, start, N, step)

LEMMA StepByStep ==
  ASSUME NEW X, NEW start \in X, NEW N \in Nat,
         NEW step, \A n \in 0..N : \A x \in X : step[n][x] \in X
  PROVE  HasSteps(X, start, N, step)
<1> DEFINE G == {m \in Nat : HasSteps(X, start, m, step)}
<1>1. ASSUME NEW m \in 0..N, m > 0 => m - 1 \in G PROVE m \in G
  <2>1. CASE m = 0
    <3> DEFINE f == [n \in 0..0 |-> step[0][start]]
    <3>1. f \in [0..0 -> X] /\ f[0] = step[0][start]
      OBVIOUS
    <3>2. StepsTo(f, X, start, 0, step)
      BY <3>1 DEF StepsTo
    <3> QED
      BY <2>1, <3>2 DEF HasSteps
  <2>2. CASE m > 0
    <3>1. PICK f : StepsTo(f, X, start, m - 1, step)
      BY <1>1, <2>2 DEF HasSteps
    <3>2. f \in [0..m - 1 -> X] /\ f[m - 1] \in X
      BY <1>1, <2>2, <3>1 DEF StepsTo
    <3> DEFINE g == [n \in 0..m |-> IF n = m THEN step[m][f[m - 1]] ELSE f[n]]
    <3>3. g \in [0..m -> X]
      BY <1>1, <2>2, <3>2
    <3>4. g[m] = step[m][f[m - 1]] /\ \A n \in 0..m - 1 : g[n] = f[n]
      BY <1>1, <2>2
    <3> HIDE DEF g
    <3>5. g[0] = step[0][start]
      BY <1>1, <2>2, <3>1, <3>4 DEF StepsTo
    <3>6. ASSUME NEW n \in 1..m PROVE g[n] = step[n][g[n - 1]]
      <4>1. g[n - 1] = f[n - 1]
        BY <1>1, <2>2, <3>4
      <4>2. CASE n = m
        BY <3>4, <4>1, <4>2
      <4>3. CASE n # m
        <5>1. n \in 1..m - 1 /\ n \in 0..m - 1
          BY <1>1, <4>3
        <5>2. f[n] = step[n][f[n - 1]]
          BY <3>1, <5>1 DEF StepsTo
        <5> QED
          BY <3>4, <4>1, <5>1, <5>2
      <4> QED
        BY <4>2, <4>3
    <3>7. StepsTo(g, X, start, m, step)
      BY <3>3, <3>5, <3>6 DEF StepsTo
    <3> QED
      BY <1>1, <3>7 DEF HasSteps
  <2> QED
    BY <1>1, <2>1, <2>2
<1>2. \A m \in 0..N : m \in G
  <2> HIDE DEF G
  <2> QED
    BY <1>1, NumberInduction
<1> QED
  BY <1>2

(* g takes the steps of the sum of f over every subset of T.               *)
IsIter(f, T, g) == g = [s \in SUBSET T |-> Step(f, g, s)]

(* There is exactly one such g, so the CHOOSE of the fold names it.        *)
LEMMA OneIter ==
  ASSUME NEW S, IsFiniteSet(S), NEW f, \A x \in S : f[x] \in Int
  PROVE  \A T \in SUBSET S : \E g : IsIter(f, T, g) /\ \A h : IsIter(f, T, h) => h = g
<1> DEFINE Has(T) == \E g : IsIter(f, T, g) /\ \A h : IsIter(f, T, h) => h = g
           G == {T \in SUBSET S : Has(T)}
<1>1. ASSUME NEW T \in SUBSET S, \A U \in SUBSET T : U # T => U \in G
      PROVE  T \in G
  <2> DEFINE it(U) == CHOOSE g : IsIter(f, U, g)
  <2>1. \A U \in SUBSET T : U # T => IsIter(f, U, it(U)) /\ \A h : IsIter(f, U, h) => h = it(U)
    BY <1>1
  <2> DEFINE low == [s \in SUBSET T |-> IF s = T THEN 0 ELSE it(s)[s]]
             g == [s \in SUBSET T |-> Step(f, low, s)]
  <2> HIDE DEF it
  <2>2. ASSUME NEW U, NEW V, U \subseteq V, NEW h, IsIter(f, V, h)
        PROVE  IsIter(f, U, [s \in SUBSET U |-> h[s]])
    <3> DEFINE r == [s \in SUBSET U |-> h[s]]
    <3>1. ASSUME NEW s \in SUBSET U PROVE r[s] = Step(f, r, s)
      <4>1. h[s] = Step(f, h, s)
        BY <2>2 DEF IsIter
      <4>2. Step(f, h, s) = Step(f, r, s)
        BY DEF Step
      <4> QED
        BY <4>1, <4>2
    <3> QED
      BY <3>1 DEF IsIter
  <2>3. ASSUME NEW s \in SUBSET T, s # T, NEW u \in SUBSET s
        PROVE  it(s)[u] = it(u)[u]
    <3>1. IsIter(f, u, [w \in SUBSET u |-> it(s)[w]])
      <4>1. IsIter(f, s, it(s)) /\ u \subseteq s
        BY <2>1, <2>3
      <4> HIDE DEF IsIter
      <4> QED
      BY <4>1, <2>2
    <3>2. u # T
      BY <2>3
    <3>3. [w \in SUBSET u |-> it(s)[w]] = it(u)
      BY <2>1, <3>1, <3>2
    <3> QED
      BY <3>3
  <2>4. ASSUME NEW s \in SUBSET T PROVE g[s] = Step(f, g, s)
    <3>1. CASE s = {} 
      BY <3>1 DEF Step
    <3>2. CASE s # {}
      <4> DEFINE x == CHOOSE x \in s : TRUE
                 u == s \ {x}
      <4>0. x \in s
        BY <3>2
      <4>1. u \in SUBSET T /\ u # T
        BY <4>0
      <4> HIDE DEF x
      <4>2. low[u] = it(u)[u]
        BY <4>1
      <4>3. it(u)[u] = Step(f, it(u), u)
        BY <2>1, <4>1 DEF IsIter
      <4>4. Step(f, it(u), u) = Step(f, low, u)
        <5>1. CASE u = {}
          BY <5>1 DEF Step
        <5>2. CASE u # {}
          <6> DEFINE y == CHOOSE y \in u : TRUE
          <6>0. y \in u
            BY <5>2
          <6> HIDE DEF y
          <6>1. u \ {y} \in SUBSET u /\ u \ {y} # T
            BY <4>1, <6>0
          <6>2. it(u)[u \ {y}] = low[u \ {y}]
            BY <2>3, <4>1, <6>1
          <6> QED
            BY <5>2, <6>2 DEF Step, y
        <5> QED
          BY <5>1, <5>2
      <4>5. low[u] = g[u]
        BY <4>1, <4>2, <4>3, <4>4
      <4> QED
        BY <3>2, <4>5 DEF Step, x
    <3> QED
      BY <3>1, <3>2
  <2>5. IsIter(f, T, g)
    BY <2>4 DEF IsIter
  <2>6. ASSUME NEW h, IsIter(f, T, h) PROVE h = g
    <3>1. ASSUME NEW s \in SUBSET T, s # T PROVE h[s] = low[s]
      <4>1. IsIter(f, s, [w \in SUBSET s |-> h[w]])
        BY <2>2, <2>6
      <4>2. [w \in SUBSET s |-> h[w]] = it(s)
        BY <2>1, <3>1, <4>1
      <4> QED
        BY <3>1, <4>2
    <3>2. ASSUME NEW s \in SUBSET T PROVE h[s] = g[s]
      <4>1. h[s] = Step(f, h, s)
        BY <2>6 DEF IsIter
      <4>2. CASE s = {}
        BY <4>1, <4>2 DEF Step
      <4>3. CASE s # {}
        <5> DEFINE x == CHOOSE x \in s : TRUE
        <5>0. x \in s
          BY <4>3
        <5> HIDE DEF x
        <5>1. h[s \ {x}] = low[s \ {x}]
          BY <3>1, <5>0
        <5> QED
          BY <4>1, <4>3, <5>1 DEF Step, x
      <4> QED
        BY <4>2, <4>3
    <3>3. h = [s \in SUBSET T |-> h[s]]
      BY <2>6 DEF IsIter
    <3> QED
      BY <3>2, <3>3
  <2> QED
    BY <2>5, <2>6
<1>2. \A T \in SUBSET S : T \in G
  <2> HIDE DEF G
  <2> QED
    BY <1>1, SubsetInduction
<1> QED
  BY <1>2

-----------------------------------------------------------------------------
(* The lemmas that proofs about ledgers cite.                              *)

(* A sum over no rows is zero; another one is some summand and the rest.   *)
LEMMA SumStep ==
  ASSUME NEW S, IsFiniteSet(S), NEW f, \A x \in S : f[x] \in Int
  PROVE  /\ SumOver(f, {}) = 0
         /\ S # {} => \E x \in S : SumOver(f, S) = f[x] + SumOver(f, S \ {x})
<1> DEFINE it(T) == CHOOSE g : IsIter(f, T, g)
<1>1. \A T \in SUBSET S : IsIter(f, T, it(T)) /\ \A h : IsIter(f, T, h) => h = it(T)
  BY OneIter
<1>2. \A T \in SUBSET S : SumOver(f, T) = it(T)[T]
  BY SumUnfolded DEF IsIter
<1> HIDE DEF it
<1>3. \A T \in SUBSET S : SumOver(f, T) = Step(f, it(T), T)
  BY <1>1, <1>2 DEF IsIter
<1>4. SumOver(f, {}) = 0
  BY <1>3 DEF Step
<1>5. ASSUME S # {} PROVE \E x \in S : SumOver(f, S) = f[x] + SumOver(f, S \ {x})
  <2> DEFINE x == CHOOSE x \in S : TRUE
             r == [s \in SUBSET (S \ {x}) |-> it(S)[s]]
  <2>0. x \in S
    BY <1>5
  <2>1. SumOver(f, S) = f[x] + it(S)[S \ {x}]
    BY <1>3, <1>5 DEF Step
  <2> HIDE DEF x
  <2>2. ASSUME NEW s \in SUBSET (S \ {x}) PROVE r[s] = Step(f, r, s)
    <3>1. it(S)[s] = Step(f, it(S), s)
      BY <1>1 DEF IsIter
    <3> QED
      BY <3>1 DEF Step
  <2>3. IsIter(f, S \ {x}, r)
    BY <2>2 DEF IsIter
  <2>4. r = it(S \ {x})
    <3>1. S \ {x} \in SUBSET S
      OBVIOUS
    <3> HIDE DEF r
    <3> QED
      BY <1>1, <2>3, <3>1
  <2>5. SumOver(f, S \ {x}) = r[S \ {x}]
    BY <1>2, <2>4
  <2> QED
    BY <2>0, <2>1, <2>5
<1> QED
  BY <1>4, <1>5

(* A sum of integers is an integer.                                        *)
LEMMA SumType ==
  ASSUME NEW S, IsFiniteSet(S), NEW f, \A x \in S : f[x] \in Int
  PROVE  SumOver(f, S) \in Int
<1> DEFINE G == {T \in SUBSET S : SumOver(f, T) \in Int}
<1>1. ASSUME NEW T \in SUBSET S, \A U \in SUBSET T : U # T => U \in G
      PROVE  T \in G
  <2>1. IsFiniteSet(T)
    BY FS_Subset
  <2>2. CASE T = {}
    BY <2>1, <2>2, SumStep
  <2>3. CASE T # {}
    <3>1. PICK x \in T : SumOver(f, T) = f[x] + SumOver(f, T \ {x})
      BY <2>1, <2>3, SumStep
    <3>2. T \ {x} \in G
      <4>1. T \ {x} \in SUBSET T /\ T \ {x} # T
        OBVIOUS
      <4> HIDE DEF G
      <4> QED
        BY <4>1, <1>1
    <3> QED
      BY <3>1, <3>2
  <2> QED
    BY <2>2, <2>3
<1>2. \A T \in SUBSET S : T \in G
  <2> HIDE DEF G
  <2> QED
    BY <1>1, SubsetInduction
<1> QED
  BY <1>2

(* Any element can be taken out first: the order does not matter.          *)
LEMMA SumTakeOut ==
  ASSUME NEW S, IsFiniteSet(S), NEW f, \A x \in S : f[x] \in Int, NEW e \in S
  PROVE  SumOver(f, S) = f[e] + SumOver(f, S \ {e})
<1> DEFINE G == {T \in SUBSET S : \A y \in T : SumOver(f, T) = f[y] + SumOver(f, T \ {y})}
<1>1. ASSUME NEW T \in SUBSET S, \A U \in SUBSET T : U # T => U \in G
      PROVE  T \in G
  <2>1. IsFiniteSet(T)
    BY FS_Subset
  <2>2. SUFFICES ASSUME NEW y \in T PROVE SumOver(f, T) = f[y] + SumOver(f, T \ {y})
    OBVIOUS
  <2>3. PICK x \in T : SumOver(f, T) = f[x] + SumOver(f, T \ {x})
      BY <2>1, SumStep
  <2>4. CASE x = y
    BY <2>3, <2>4
  <2>5. CASE x # y
    <3> DEFINE Tx == T \ {x} Ty == T \ {y} Txy == T \ {x, y}
    <3>1. /\ Tx \in G /\ Ty \in G
      <4>1. Tx \in SUBSET T /\ Tx # T /\ Ty \in SUBSET T /\ Ty # T
        OBVIOUS
      <4> HIDE DEF G, Tx, Ty
      <4> QED
        BY <4>1, <1>1
    <3>2. SumOver(f, Tx) = f[y] + SumOver(f, Txy)
      <4>1. Tx \ {y} = Txy /\ y \in Tx
        BY <2>5
      <4> QED
        BY <3>1, <4>1
    <3>3. SumOver(f, Ty) = f[x] + SumOver(f, Txy)
      <4>1. Ty \ {x} = Txy /\ x \in Ty
        BY <2>5
      <4> QED
        BY <3>1, <4>1
    <3>4. SumOver(f, Txy) \in Int
      <4>1. IsFiniteSet(Txy)
        BY <2>1, FS_Subset
      <4> QED
        BY <4>1, SumType
    <3> HIDE DEF Tx, Ty, Txy
    <3>5. f[x] \in Int /\ f[y] \in Int
      OBVIOUS
    <3>6. SumOver(f, T) = f[x] + (f[y] + SumOver(f, Txy))
      BY <2>3, <3>2 DEF Tx
    <3>7. SumOver(f, T) = f[y] + (f[x] + SumOver(f, Txy))
      BY <3>4, <3>5, <3>6
    <3> QED
      BY <3>7, <3>3 DEF Ty
  <2> QED
    BY <2>4, <2>5
<1>2. \A T \in SUBSET S : T \in G
  <2> HIDE DEF G
  <2> QED
    BY <1>1, SubsetInduction
<1> QED
  BY <1>2

(* Equal summands, equal sums.                                             *)
LEMMA SumSame ==
  ASSUME NEW S, IsFiniteSet(S), NEW f, NEW h, \A x \in S : f[x] \in Int /\ f[x] = h[x]
  PROVE  SumOver(f, S) = SumOver(h, S)
<1> DEFINE G == {T \in SUBSET S : SumOver(f, T) = SumOver(h, T)}
<1>1. ASSUME NEW T \in SUBSET S, \A U \in SUBSET T : U # T => U \in G
      PROVE  T \in G
  <2>1. IsFiniteSet(T)
    BY FS_Subset
  <2>2. CASE T = {}
    BY <2>1, <2>2, SumStep
  <2>3. CASE T # {}
    <3>1. PICK x \in T : SumOver(f, T) = f[x] + SumOver(f, T \ {x})
      BY <2>1, <2>3, SumStep
    <3>2. T \ {x} \in G
      <4>1. T \ {x} \in SUBSET T /\ T \ {x} # T
        OBVIOUS
      <4> HIDE DEF G
      <4> QED
        BY <4>1, <1>1
    <3>3. SumOver(h, T) = h[x] + SumOver(h, T \ {x})
      BY <2>1, SumTakeOut
    <3> QED
      BY <3>1, <3>2, <3>3
  <2> QED
    BY <2>2, <2>3
<1>2. \A T \in SUBSET S : T \in G
  <2> HIDE DEF G
  <2> QED
    BY <1>1, SubsetInduction
<1> QED
  BY <1>2

(* A sum of naturals is a natural.                                         *)
LEMMA SumNat ==
  ASSUME NEW S, IsFiniteSet(S), NEW f, \A x \in S : f[x] \in Nat
  PROVE  SumOver(f, S) \in Nat
<1> DEFINE G == {T \in SUBSET S : SumOver(f, T) \in Nat}
<1>1. ASSUME NEW T \in SUBSET S, \A U \in SUBSET T : U # T => U \in G
      PROVE  T \in G
  <2>1. IsFiniteSet(T)
    BY FS_Subset
  <2>2. CASE T = {}
    BY <2>1, <2>2, SumStep
  <2>3. CASE T # {}
    <3>1. PICK x \in T : SumOver(f, T) = f[x] + SumOver(f, T \ {x})
      BY <2>1, <2>3, SumStep
    <3>2. T \ {x} \in G
      <4>1. T \ {x} \in SUBSET T /\ T \ {x} # T
        OBVIOUS
      <4> HIDE DEF G
      <4> QED
        BY <4>1, <1>1
    <3> QED
      BY <3>1, <3>2
  <2> QED
    BY <2>2, <2>3
<1>2. \A T \in SUBSET S : T \in G
  <2> HIDE DEF G
  <2> QED
    BY <1>1, SubsetInduction
<1> QED
  BY <1>2

(* The sum over two sets with nothing in common is that of their sums.     *)
LEMMA SumUnion ==
  ASSUME NEW S, NEW V, IsFiniteSet(S), IsFiniteSet(V), S \cap V = {},
         NEW f, \A x \in S \cup V : f[x] \in Int
  PROVE  SumOver(f, S \cup V) = SumOver(f, S) + SumOver(f, V)
<1> DEFINE G == {T \in SUBSET V : SumOver(f, S \cup T) = SumOver(f, S) + SumOver(f, T)}
<1>0. SumOver(f, S) \in Int
  BY SumType
<1>1. ASSUME NEW T \in SUBSET V, \A U \in SUBSET T : U # T => U \in G
      PROVE  T \in G
  <2>1. IsFiniteSet(T) /\ IsFiniteSet(S \cup T)
    BY FS_Subset, FS_Union
  <2>2. CASE T = {}
    <3>1. S \cup T = S /\ SumOver(f, {}) = 0
      BY <2>1, <2>2, SumStep
    <3>2. SumOver(f, S \cup T) = SumOver(f, S) /\ SumOver(f, T) = 0
      BY <2>2, <3>1
    <3> QED
      BY <1>0, <3>2
  <2>3. CASE T # {}
    <3>1. PICK x \in T : SumOver(f, T) = f[x] + SumOver(f, T \ {x})
      BY <2>1, <2>3, SumStep
    <3>2. T \ {x} \in G
      <4>1. T \ {x} \in SUBSET T /\ T \ {x} # T
        OBVIOUS
      <4> HIDE DEF G
      <4> QED
        BY <4>1, <1>1
    <3>3. SumOver(f, S \cup T) = f[x] + SumOver(f, S \cup (T \ {x}))
      <4>1. (S \cup T) \ {x} = S \cup (T \ {x}) /\ x \in S \cup T
        OBVIOUS
      <4>2. SumOver(f, S \cup T) = f[x] + SumOver(f, (S \cup T) \ {x})
        BY <2>1, SumTakeOut
      <4> QED
        BY <4>1, <4>2
    <3>4. SumOver(f, T \ {x}) \in Int
      BY <2>1, FS_Subset, SumType
    <3> QED
      BY <1>0, <3>1, <3>2, <3>3, <3>4
  <2> QED
    BY <2>2, <2>3
<1>2. \A T \in SUBSET V : T \in G
  <2> HIDE DEF G
  <2> QED
    BY <1>1, SubsetInduction
<1> QED
  BY <1>2

(* A summand is no more than the sum of naturals it is part of, and a part *)
(* of the rows sums to no more than all of them.                           *)
LEMMA SumPart ==
  ASSUME NEW S, IsFiniteSet(S), NEW f, \A x \in S : f[x] \in Nat, NEW T \in SUBSET S
  PROVE  /\ SumOver(f, T) <= SumOver(f, S)
         /\ \A x \in T : f[x] <= SumOver(f, T)
<1>1. IsFiniteSet(T) /\ IsFiniteSet(S \ T) /\ T \cup (S \ T) = S /\ T \cap (S \ T) = {}
  BY FS_Subset
<1>2. SumOver(f, S) = SumOver(f, T) + SumOver(f, S \ T)
  <2>1. SumOver(f, T \cup (S \ T)) = SumOver(f, T) + SumOver(f, S \ T)
    BY <1>1, SumUnion
  <2> QED
    BY <1>1, <2>1
<1>3. SumOver(f, T) \in Nat /\ SumOver(f, S \ T) \in Nat
  BY <1>1, SumNat
<1>4. \A x \in T : f[x] <= SumOver(f, T)
  <2> TAKE x \in T
  <2>1. SumOver(f, T) = f[x] + SumOver(f, T \ {x})
    BY <1>1, SumTakeOut
  <2>2. SumOver(f, T \ {x}) \in Nat
    BY <1>1, FS_Subset, SumNat
  <2> QED
    BY <2>1, <2>2
<1> QED
  BY <1>2, <1>3, <1>4

(* One row more.                                                           *)
LEMMA SumAdd ==
  ASSUME NEW S, IsFiniteSet(S), NEW e, e \notin S, NEW f, \A x \in S \cup {e} : f[x] \in Int
  PROVE  SumOver(f, S \cup {e}) = f[e] + SumOver(f, S)
<1>1. IsFiniteSet(S \cup {e}) /\ (S \cup {e}) \ {e} = S
  BY FS_AddElement
<1>2. SumOver(f, S \cup {e}) = f[e] + SumOver(f, (S \cup {e}) \ {e})
  BY <1>1, SumTakeOut
<1> QED
  BY <1>1, <1>2

(* Rows renamed one to one.                                                *)
LEMMA SumImage ==
  ASSUME NEW S, IsFiniteSet(S), NEW g, \A x, y \in S : g[x] = g[y] => x = y,
         NEW f, NEW h, \A x \in S : f[g[x]] \in Int /\ h[x] = f[g[x]]
  PROVE  IsFiniteSet({g[x] : x \in S}) /\ SumOver(f, {g[x] : x \in S}) = SumOver(h, S)
<1> DEFINE G == {T \in SUBSET S : /\ IsFiniteSet({g[x] : x \in T})
                                 /\ SumOver(f, {g[x] : x \in T}) = SumOver(h, T)}
<1>1. ASSUME NEW T \in SUBSET S, \A U \in SUBSET T : U # T => U \in G
      PROVE  T \in G
  <2>1. IsFiniteSet(T) /\ \A x \in T : h[x] \in Int
    BY FS_Subset
  <2>2. CASE T = {}
    <3>1. {g[x] : x \in T} = {} /\ SumOver(h, T) = 0
      BY <2>1, <2>2, SumStep
    <3>2. SumOver(f, {}) = 0 /\ IsFiniteSet({})
      BY SumStep, FS_EmptySet
    <3> QED
      BY <3>1, <3>2
  <2>3. CASE T # {}
    <3>1. PICK e \in T : SumOver(h, T) = h[e] + SumOver(h, T \ {e})
      BY <2>1, <2>3, SumStep
    <3>2. T \ {e} \in G
      <4>1. T \ {e} \in SUBSET T /\ T \ {e} # T
        OBVIOUS
      <4> HIDE DEF G
      <4> QED
        BY <4>1, <1>1
    <3>3. {g[x] : x \in T} = {g[x] : x \in T \ {e}} \cup {g[e]} /\ g[e] \notin {g[x] : x \in T \ {e}}
      OBVIOUS
    <3>4. IsFiniteSet({g[x] : x \in T \ {e}})
      BY <3>2
    <3>5. \A y \in {g[x] : x \in T \ {e}} \cup {g[e]} : f[y] \in Int
      OBVIOUS
    <3>6. SumOver(f, {g[x] : x \in T}) = f[g[e]] + SumOver(f, {g[x] : x \in T \ {e}})
      <4> DEFINE V == {g[x] : x \in T \ {e}}
      <4>1. IsFiniteSet(V) /\ g[e] \notin V /\ \A y \in V \cup {g[e]} : f[y] \in Int
        BY <3>3, <3>4, <3>5
      <4>2. {g[x] : x \in T} = V \cup {g[e]}
        BY <3>3
      <4> HIDE DEF V
      <4>3. SumOver(f, V \cup {g[e]}) = f[g[e]] + SumOver(f, V)
        BY <4>1, SumAdd
      <4> QED
        BY <4>2, <4>3 DEF V
    <3>7. SumOver(f, {g[x] : x \in T}) = SumOver(h, T)
      <4>1. SumOver(f, {g[x] : x \in T \ {e}}) = SumOver(h, T \ {e})
        BY <3>2
      <4>2. h[e] = f[g[e]]
        OBVIOUS
      <4> QED
        BY <3>1, <3>6, <4>1, <4>2
    <3>8. IsFiniteSet({g[x] : x \in T})
      <4> DEFINE V == {g[x] : x \in T \ {e}}
      <4>1. {g[x] : x \in T} = V \cup {g[e]}
        BY <3>3
      <4>2. IsFiniteSet(V)
        BY <3>4
      <4> HIDE DEF V
      <4>3. IsFiniteSet(V \cup {g[e]})
        BY <4>2, FS_AddElement
      <4> QED
        BY <4>1, <4>3
    <3> QED
      BY <3>7, <3>8
  <2> QED
    BY <2>2, <2>3
<1>2. \A T \in SUBSET S : T \in G
  <2> HIDE DEF G
  <2> QED
    BY <1>1, SubsetInduction
<1> QED
  BY <1>2

(* Rows counted group by group: the rows of i are those h takes there.     *)
GroupSum(f, h, S, i) == SumOver(f, {x \in S : h[x] = i})

LEMMA SumGroups ==
  ASSUME NEW S, IsFiniteSet(S), NEW I, IsFiniteSet(I), NEW h, \A x \in S : h[x] \in I,
         NEW f, \A x \in S : f[x] \in Int,
         NEW g, \A i \in I : g[i] = GroupSum(f, h, S, i)
  PROVE  SumOver(g, I) = SumOver(f, S)
<1> USE DEF GroupSum
<1> DEFINE In(T) == {x \in S : h[x] \in T}
           G == {T \in SUBSET I : SumOver(g, T) = SumOver(f, In(T))}
<1>0. \A i \in I : g[i] \in Int
  <2> TAKE i \in I
  <2>1. IsFiniteSet({x \in S : h[x] = i})
    BY FS_Subset
  <2> QED
    BY <2>1, SumType
<1>1. ASSUME NEW T \in SUBSET I, \A U \in SUBSET T : U # T => U \in G
      PROVE  T \in G
  <2>1. IsFiniteSet(T)
    BY FS_Subset
  <2>2. CASE T = {}
    <3>1. In(T) = {} /\ SumOver(g, T) = 0
      BY <1>0, <2>1, <2>2, SumStep
    <3>2. SumOver(f, {}) = 0
      BY SumStep, FS_EmptySet
    <3> QED
      BY <3>1, <3>2
  <2>3. CASE T # {}
    <3>1. PICK e \in T : SumOver(g, T) = g[e] + SumOver(g, T \ {e})
      BY <1>0, <2>1, <2>3, SumStep
    <3>2. T \ {e} \in G
      <4>1. T \ {e} \in SUBSET T /\ T \ {e} # T
        OBVIOUS
      <4> HIDE DEF G
      <4> QED
        BY <4>1, <1>1
    <3> DEFINE V == {x \in S : h[x] = e}  W == In(T \ {e})
    <3>3. In(T) = V \cup W /\ V \cap W = {} /\ IsFiniteSet(V) /\ IsFiniteSet(W)
      BY FS_Subset
    <3>4. SumOver(g, T \ {e}) = SumOver(f, W) /\ g[e] = SumOver(f, V)
      BY <3>2
    <3>5. \A x \in V \cup W : f[x] \in Int
      OBVIOUS
    <3>6. SumOver(g, T) = SumOver(f, In(T))
      <4> HIDE DEF V, W
      <4>1. SumOver(f, V \cup W) = SumOver(f, V) + SumOver(f, W)
        BY <3>3, <3>5, SumUnion
      <4> QED
        BY <3>1, <3>3, <3>4, <4>1
    <3> QED
      BY <3>6
  <2> QED
    BY <2>2, <2>3
<1>2. I \in G
  <2> HIDE DEF G
  <2> QED
    BY <1>1, SubsetInduction
<1>3. In(I) = S
  OBVIOUS
<1> QED
  BY <1>2, <1>3

(* Row by row less is less together, by as much as they differ.            *)
LEMMA SumMinus ==
  ASSUME NEW S, IsFiniteSet(S), NEW f, NEW h, NEW d,
         \A x \in S : f[x] \in Int /\ h[x] \in Int /\ d[x] = f[x] - h[x]
  PROVE  SumOver(d, S) = SumOver(f, S) - SumOver(h, S)
<1> DEFINE G == {T \in SUBSET S : SumOver(d, T) = SumOver(f, T) - SumOver(h, T)}
<1>0. \A x \in S : d[x] \in Int
  OBVIOUS
<1>1. ASSUME NEW T \in SUBSET S, \A U \in SUBSET T : U # T => U \in G
      PROVE  T \in G
  <2>1. IsFiniteSet(T)
    BY FS_Subset
  <2>2. CASE T = {}
    <3>1. SumOver(d, {}) = 0 /\ SumOver(f, {}) = 0 /\ SumOver(h, {}) = 0
      BY SumStep, FS_EmptySet
    <3> QED
      BY <2>2, <3>1
  <2>3. CASE T # {}
    <3>1. PICK e \in T : SumOver(d, T) = d[e] + SumOver(d, T \ {e})
      BY <1>0, <2>1, <2>3, SumStep
    <3>2. T \ {e} \in G
      <4>1. T \ {e} \in SUBSET T /\ T \ {e} # T
        OBVIOUS
      <4> HIDE DEF G
      <4> QED
        BY <4>1, <1>1
    <3>3. /\ SumOver(f, T) = f[e] + SumOver(f, T \ {e})
          /\ SumOver(h, T) = h[e] + SumOver(h, T \ {e})
      BY <2>1, SumTakeOut
    <3>4. SumOver(f, T \ {e}) \in Int /\ SumOver(h, T \ {e}) \in Int
      BY <2>1, FS_Subset, SumType
    <3>5. SumOver(d, T) = SumOver(f, T) - SumOver(h, T)
      <4>1. SumOver(d, T \ {e}) = SumOver(f, T \ {e}) - SumOver(h, T \ {e})
        BY <3>2
      <4>2. f[e] \in Int /\ h[e] \in Int /\ d[e] = f[e] - h[e]
        OBVIOUS
      <4> HIDE DEF G
      <4> QED
        BY <3>1, <3>3, <3>4, <4>1, <4>2
    <3> QED
      BY <3>5
  <2> QED
    BY <2>2, <2>3
<1>2. \A T \in SUBSET S : T \in G
  <2> HIDE DEF G
  <2> QED
    BY <1>1, SubsetInduction
<1> QED
  BY <1>2

LEMMA SumBelow ==
  ASSUME NEW S, IsFiniteSet(S), NEW f, NEW h,
         \A x \in S : f[x] \in Int /\ h[x] \in Int /\ f[x] <= h[x]
  PROVE  SumOver(f, S) <= SumOver(h, S)
<1> DEFINE d == [x \in S |-> h[x] - f[x]]
<1>1. \A x \in S : d[x] \in Nat /\ d[x] = h[x] - f[x]
  OBVIOUS
<1> HIDE DEF d
<1>2. SumOver(d, S) = SumOver(h, S) - SumOver(f, S)
  BY <1>1, SumMinus
<1>3. SumOver(d, S) \in Nat
  BY <1>1, SumNat
<1>4. SumOver(h, S) \in Int /\ SumOver(f, S) \in Int
  BY SumType
<1> QED
  BY <1>2, <1>3, <1>4

(* Two parts of the rows, and what of one is not in the other.             *)
LEMMA SumLeft ==
  ASSUME NEW S, IsFiniteSet(S), NEW f, \A x \in S : f[x] \in Nat,
         NEW T \in SUBSET S, NEW U \in SUBSET S
  PROVE  /\ SumOver(f, T) <= SumOver(f, U) + SumOver(f, T \ U)
         /\ U \subseteq T => SumOver(f, T) = SumOver(f, U) + SumOver(f, T \ U)
<1>1. /\ IsFiniteSet(T \cap U) /\ IsFiniteSet(T \ U) /\ IsFiniteSet(U)
      /\ (T \cap U) \cup (T \ U) = T /\ (T \cap U) \cap (T \ U) = {}
      /\ T \cap U \in SUBSET U
  BY FS_Subset
<1>2. SumOver(f, T) = SumOver(f, T \cap U) + SumOver(f, T \ U)
  <2>1. SumOver(f, (T \cap U) \cup (T \ U)) = SumOver(f, T \cap U) + SumOver(f, T \ U)
    BY <1>1, SumUnion
  <2> QED
    BY <1>1, <2>1
<1>3. SumOver(f, T \cap U) <= SumOver(f, U)
  BY <1>1, SumPart
<1>4. /\ SumOver(f, T \cap U) \in Nat /\ SumOver(f, T \ U) \in Nat /\ SumOver(f, U) \in Nat
  BY <1>1, SumNat
<1>5. SumOver(f, T) <= SumOver(f, U) + SumOver(f, T \ U)
  BY <1>2, <1>3, <1>4
<1>6. ASSUME U \subseteq T PROVE SumOver(f, T) = SumOver(f, U) + SumOver(f, T \ U)
  <2>1. T \cap U = U
    BY <1>6
  <2> QED
    BY <1>2, <2>1
<1> QED
  BY <1>5, <1>6
=============================================================================
