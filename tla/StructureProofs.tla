---------------------------- MODULE StructureProofs ----------------------------
(***************************************************************************)
(* Lemmas about what the models are built from, for the modules that prove *)
(* something of walks, selections and documents. First, induction and      *)
(* recursion over the natural numbers in a first-order form: what is to be *)
(* shown of every number is a set of numbers, and the step of a recursive  *)
(* definition is a function. Then what a selection of elements of a        *)
(* sequence is, and ordered trees: document order, induction from the body *)
(* down, and what an element put in or taken out does to all the others.   *)
(***************************************************************************)
EXTENDS Trees, FiniteSetTheorems, SequenceTheorems, WellFoundedInduction, TLAPS

(***************************************************************************)
(* A set of numbers that is not empty has a least member, and one that is  *)
(* bounded a greatest: among the segments 0 .. n of its members one        *)
(* includes no other, since finite sets are well-founded by inclusion.     *)
(***************************************************************************)
LEMMA NatMinimum ==
    ASSUME NEW T \in SUBSET Nat, T # {}
    PROVE  \E n \in T : \A m \in T : n <= m
<1> DEFINE Segments == {0 .. n : n \in T}
<1>1. Segments \subseteq FiniteSubsetsOf(Nat)
    <2>1. \A n \in Nat : IsFiniteSet(0 .. n) BY FS_Interval
    <2> QED BY <2>1 DEF FiniteSubsetsOf
<1>2. Segments # {} OBVIOUS
<1>3. PICK s \in Segments : \A r \in Segments : <<r, s>> \notin StrictSubsetOrdering(Nat)
    <2> HIDE DEF Segments
    <2> QED BY <1>1, <1>2, FS_StrictSubsetOrderingWellFounded, WFMin
<1>4. PICK n \in T : s = 0 .. n OBVIOUS
<1>5. ASSUME NEW m \in T, m < n PROVE FALSE
    <2>1. (0 .. m) \in Segments /\ (0 .. m) \subseteq (0 .. n) /\ n \notin 0 .. m BY <1>5
    <2>2. <<0 .. m, 0 .. n>> \in StrictSubsetOrdering(Nat)
        <3>1. (0 .. m) \in SUBSET Nat /\ (0 .. n) \in SUBSET Nat OBVIOUS
        <3>2. (0 .. m) # (0 .. n) BY <2>1
        <3> QED BY <2>1, <3>1, <3>2 DEF StrictSubsetOrdering
    <2> QED BY <1>3, <1>4, <2>1, <2>2
<1> QED BY <1>5

LEMMA NatMaximum ==
    ASSUME NEW N \in Nat, NEW T \in SUBSET (0 .. N), T # {}
    PROVE  \E n \in T : \A m \in T : m <= n
<1> DEFINE Gaps == {g \in Nat : g <= N /\ N - g \in T}
<1>1. Gaps # {}
    <2>1. PICK n \in T : TRUE OBVIOUS
    <2>2. N - (N - n) = n OBVIOUS
    <2>3. N - n \in Gaps BY <2>2
    <2> QED BY <2>3
<1>2. PICK g \in Gaps : \A h \in Gaps : g <= h
    <2>1. Gaps \in SUBSET Nat OBVIOUS
    <2> HIDE DEF Gaps
    <2> QED BY <1>1, <2>1, NatMinimum
<1>3. ASSUME NEW m \in T PROVE m <= N - g
    <2>1. N - (N - m) = m OBVIOUS
    <2>2. N - m \in Gaps BY <2>1
    <2>3. g <= N - m BY <1>2, <2>2
    <2> QED BY <2>3
<1> QED BY <1>3

LEMMA LeastOf ==
    ASSUME NEW T \in SUBSET Nat, T # {}
    PROVE  Min(T) \in T /\ \A m \in T : Min(T) <= m
BY NatMinimum DEF Min

LEMMA GreatestOf ==
    ASSUME NEW N \in Nat, NEW T \in SUBSET (0 .. N), T # {}
    PROVE  Max(T) \in T /\ \A m \in T : m <= Max(T)
BY NatMaximum DEF Max

(***************************************************************************)
(* A set of numbers that has zero and every successor of a member below a  *)
(* bound has all numbers up to the bound.                                  *)
(***************************************************************************)
LEMMA NatInductionUpTo ==
    ASSUME NEW N \in Nat, NEW S, 0 \in S,
           \A n \in 0 .. N - 1 : n \in S => n + 1 \in S
    PROVE  \A n \in 0 .. N : n \in S
<1> DEFINE Missing == (0 .. N) \ S
<1> SUFFICES ASSUME Missing # {} PROVE FALSE OBVIOUS
<1>1. PICK n \in Missing : \A m \in Missing : n <= m
    <2>1. Missing \in SUBSET Nat OBVIOUS
    <2> HIDE DEF Missing
    <2> QED BY <2>1, NatMinimum
<1>2. n # 0 /\ n - 1 \in 0 .. N - 1 /\ n - 1 + 1 = n OBVIOUS
<1>3. n - 1 \in S BY <1>1, <1>2
<1> QED BY <1>2, <1>3

(***************************************************************************)
(* The first N steps of a recursion exist, whatever the step adds to the   *)
(* number and the value before it.                                         *)
(***************************************************************************)
IsDefinedUpTo(N, X, a, step) ==
    \E f \in [0 .. N -> X] : f[0] = a /\ \A n \in 1 .. N : f[n] = step[<<n, f[n - 1]>>]

LEMMA NatRecursionUpTo ==
    ASSUME NEW N \in Nat, NEW X, NEW a \in X, NEW step \in [Nat \X X -> X]
    PROVE  IsDefinedUpTo(N, X, a, step)
<1> DEFINE Runs(n) == {f \in [0 .. n -> X] :
                           f[0] = a /\ \A k \in 1 .. n : f[k] = step[<<k, f[k - 1]>>]}
           S == {n \in Nat : Runs(n) # {}}
<1>1. 0 \in S
    <2>1. [k \in 0 .. 0 |-> a] \in Runs(0) OBVIOUS
    <2> QED BY <2>1
<1>2. ASSUME NEW n \in 0 .. N - 1, n \in S PROVE n + 1 \in S
    <2>1. PICK f \in Runs(n) : TRUE BY <1>2
    <2> DEFINE g == [k \in 0 .. n + 1 |-> IF k <= n THEN f[k] ELSE step[<<k, f[k - 1]>>]]
    <2>2. g \in [0 .. n + 1 -> X]
        <3>1. ASSUME NEW k \in 0 .. n + 1, ~(k <= n) PROVE k = n + 1 /\ k - 1 \in 0 .. n
            BY <3>1
        <3> QED BY <3>1
    <2>3. g[0] = a OBVIOUS
    <2>4. ASSUME NEW k \in 1 .. n + 1 PROVE g[k] = step[<<k, g[k - 1]>>]
        <3>1. CASE k <= n BY <3>1
        <3>2. CASE k = n + 1
            <4>1. g[k] = step[<<k, f[k - 1]>>] BY <3>2
            <4>2. g[k - 1] = f[k - 1] BY <3>2
            <4> QED BY <4>1, <4>2
        <3> QED BY <3>1, <3>2
    <2>5. g \in Runs(n + 1) BY <2>2, <2>3, <2>4
    <2>6. n + 1 \in Nat OBVIOUS
    <2> HIDE DEF Runs
    <2> QED BY <2>5, <2>6
<1>3. \A n \in 0 .. N : n \in S
    <2> HIDE DEF S
    <2> QED BY <1>1, <1>2, NatInductionUpTo
<1> QED BY <1>3 DEF IsDefinedUpTo

(***************************************************************************)
(* A recursion over all numbers exists: its value at n is that of any run  *)
(* of n steps, since a longer run goes through the same values.            *)
(***************************************************************************)
IsDefinedOnNat(X, a, step) ==
    \E f \in [Nat -> X] : f[0] = a /\ \A n \in Nat \ {0} : f[n] = step[<<n, f[n - 1]>>]

LEMMA NatRecursion ==
    ASSUME NEW X, NEW a \in X, NEW step \in [Nat \X X -> X]
    PROVE  IsDefinedOnNat(X, a, step)
<1> DEFINE IsRun(n, f) == f \in [0 .. n -> X] /\ f[0] = a /\ \A k \in 1 .. n : f[k] = step[<<k, f[k - 1]>>]
           r == [n \in Nat |-> CHOOSE f : IsRun(n, f)]
           g == [n \in Nat |-> r[n][n]]
<1>1. \A n \in Nat : IsRun(n, r[n])
    <2> SUFFICES ASSUME NEW n \in Nat PROVE \E f : IsRun(n, f) OBVIOUS
    <2>1. IsDefinedUpTo(n, X, a, step) BY NatRecursionUpTo
    <2> QED BY <2>1 DEF IsDefinedUpTo
<1> HIDE DEF r
<1>2. ASSUME NEW n \in Nat \ {0} PROVE r[n][n - 1] = r[n - 1][n - 1]
    <2> DEFINE S == {k \in 0 .. n - 1 : r[n][k] = r[n - 1][k]}
    <2>1. n - 1 \in Nat /\ n \in Nat OBVIOUS
    <2>2. IsRun(n, r[n]) /\ IsRun(n - 1, r[n - 1]) BY <1>1, <2>1
    <2>3. 0 \in S BY <2>2
    <2>4. \A k \in 0 .. n - 1 - 1 : k \in S => k + 1 \in S
        <3> SUFFICES ASSUME NEW k \in 0 .. n - 1 - 1, r[n][k] = r[n - 1][k]
                     PROVE  r[n][k + 1] = r[n - 1][k + 1]
            OBVIOUS
        <3>1. k + 1 \in 1 .. n /\ k + 1 \in 1 .. n - 1 /\ k + 1 - 1 = k OBVIOUS
        <3>2. r[n][k + 1] = step[<<k + 1, r[n][k]>>] BY <2>2, <3>1
        <3>3. r[n - 1][k + 1] = step[<<k + 1, r[n - 1][k]>>] BY <2>2, <3>1
        <3> QED BY <3>2, <3>3
    <2> HIDE DEF S
    <2>5. \A k \in 0 .. n - 1 : k \in S BY <2>1, <2>3, <2>4, NatInductionUpTo
    <2>6. n - 1 \in S BY <2>1, <2>5
    <2> QED BY <2>6 DEF S
<1>3. g \in [Nat -> X]
    <2> SUFFICES ASSUME NEW n \in Nat PROVE r[n][n] \in X OBVIOUS
    <2> QED BY <1>1
<1>4. g[0] = a BY <1>1
<1>5. ASSUME NEW n \in Nat \ {0} PROVE g[n] = step[<<n, g[n - 1]>>]
    <2>1. n - 1 \in Nat /\ n \in Nat /\ n \in 1 .. n OBVIOUS
    <2>2. IsRun(n, r[n]) BY <1>1, <2>1
    <2>3. r[n][n] = step[<<n, r[n][n - 1]>>] BY <2>1, <2>2
    <2> HIDE DEF IsRun
    <2>4. g[n] = r[n][n] /\ g[n - 1] = r[n - 1][n - 1] BY <2>1
    <2> QED BY <1>2, <2>3, <2>4
<1> HIDE DEF g
<1> QED BY <1>3, <1>4, <1>5 DEF IsDefinedOnNat

-------------------------------------------------------------------------------
(***************************************************************************)
(* Places in a finite total order: how many members come before one. Every *)
(* place up to the size of the set is that of exactly one member.          *)
(***************************************************************************)
IsTotalOn(R, S) ==
    /\ \A x \in S : <<x, x>> \notin R
    /\ \A x, y, z \in S : <<x, y>> \in R /\ <<y, z>> \in R => <<x, z>> \in R
    /\ \A x, y \in S : x = y \/ <<x, y>> \in R \/ <<y, x>> \in R

PlaceIn(R, S, x) == Cardinality({y \in S : <<y, x>> \in R})

LEMMA PlacesAreInOrder ==
    ASSUME NEW S, IsFiniteSet(S), NEW R, IsTotalOn(R, S)
    PROVE  /\ \A x \in S : PlaceIn(R, S, x) \in 0 .. Cardinality(S) - 1
           /\ \A x, y \in S : <<x, y>> \in R <=> PlaceIn(R, S, x) < PlaceIn(R, S, y)
           /\ \A x, y \in S : PlaceIn(R, S, x) = PlaceIn(R, S, y) => x = y
<1> DEFINE Before(x) == {y \in S : <<y, x>> \in R}
<1>1. \A x \in S : Before(x) \in SUBSET S /\ Before(x) # S
    BY DEF IsTotalOn
<1>2. ASSUME NEW x \in S
      PROVE  /\ Cardinality(Before(x)) \in 0 .. Cardinality(S) - 1
             /\ IsFiniteSet(Before(x))
    <2>1. Before(x) \in SUBSET S /\ Before(x) # S BY <1>1
    <2> HIDE DEF Before
    <2>2. /\ IsFiniteSet(Before(x)) /\ Cardinality(Before(x)) <= Cardinality(S)
          /\ Cardinality(S) # Cardinality(Before(x))
        BY <2>1, FS_Subset
    <2>3. Cardinality(S) \in Nat /\ Cardinality(Before(x)) \in Nat BY <2>2, FS_CardinalityType
    <2> QED BY <2>2, <2>3
<1>3. ASSUME NEW x \in S, NEW y \in S, <<x, y>> \in R
      PROVE  Cardinality(Before(x)) < Cardinality(Before(y))
    <2>1. Before(x) \in SUBSET Before(y) /\ Before(x) # Before(y)
        <3>1. x \in Before(y) /\ x \notin Before(x) BY <1>3 DEF IsTotalOn
        <3>2. \A z \in Before(x) : z \in Before(y) BY <1>3 DEF IsTotalOn
        <3> QED BY <3>1, <3>2
    <2>2. IsFiniteSet(Before(y)) /\ IsFiniteSet(Before(x)) BY <1>2
    <2> HIDE DEF Before
    <2>3. /\ Cardinality(Before(x)) <= Cardinality(Before(y))
          /\ Cardinality(Before(x)) # Cardinality(Before(y))
        BY <2>1, <2>2, FS_Subset
    <2>4. Cardinality(Before(x)) \in Nat /\ Cardinality(Before(y)) \in Nat
        BY <2>2, FS_CardinalityType
    <2> QED BY <2>3, <2>4
<1>4. \A x \in S : PlaceIn(R, S, x) = Cardinality(Before(x)) BY DEF PlaceIn
<1>5. \A x \in S : Cardinality(Before(x)) \in Int BY <1>2
<1>6. \A x, y \in S : x = y \/ <<x, y>> \in R \/ <<y, x>> \in R BY DEF IsTotalOn
<1> HIDE DEF Before
<1>7. \A x \in S : PlaceIn(R, S, x) \in 0 .. Cardinality(S) - 1 BY <1>2, <1>4
<1>8. \A x, y \in S : <<x, y>> \in R => PlaceIn(R, S, x) < PlaceIn(R, S, y) BY <1>3, <1>4
<1>9. \A x \in S : PlaceIn(R, S, x) \in Int BY <1>4, <1>5
<1> HIDE DEF PlaceIn
<1>10. ASSUME NEW x \in S, NEW y \in S
       PROVE  /\ PlaceIn(R, S, x) < PlaceIn(R, S, y) => <<x, y>> \in R
              /\ PlaceIn(R, S, x) = PlaceIn(R, S, y) => x = y
    <2>1. PlaceIn(R, S, x) \in Int /\ PlaceIn(R, S, y) \in Int BY <1>9
    <2>2. <<x, y>> \in R => PlaceIn(R, S, x) < PlaceIn(R, S, y) BY <1>8
    <2>3. <<y, x>> \in R => PlaceIn(R, S, y) < PlaceIn(R, S, x) BY <1>8
    <2>4. x = y \/ <<x, y>> \in R \/ <<y, x>> \in R BY <1>6
    <2> QED BY <2>1, <2>2, <2>3, <2>4
<1> QED BY <1>7, <1>8, <1>10

LEMMA EveryPlaceIsTaken ==
    ASSUME NEW S, IsFiniteSet(S), NEW R, IsTotalOn(R, S), NEW k \in 0 .. Cardinality(S) - 1
    PROVE  \E x \in S : PlaceIn(R, S, x) = k
<1> DEFINE T == 0 .. Cardinality(S) - 1
           f == [x \in S |-> PlaceIn(R, S, x)]
<1>1. Cardinality(S) \in Nat BY FS_CardinalityType
<1>2. IsFiniteSet(T) /\ Cardinality(T) = Cardinality(S) BY <1>1, FS_Interval
<1>3. f \in Injection(S, T)
    <2>1. f \in [S -> T] BY PlacesAreInOrder
    <2>2. \A x, y \in S : f[x] = f[y] => x = y BY PlacesAreInOrder
    <2> QED BY <2>1, <2>2 DEF Injection, IsInjective
<1> HIDE DEF f, T
<1>4. f \in Surjection(S, T) BY <1>2, <1>3, FS_Injection
<1> QED BY <1>4 DEF Surjection, f, T

IsFilled(R, S) == \A k \in 0 .. Cardinality(S) - 1 : \E x \in S : PlaceIn(R, S, x) = k

LEMMA PlacesAreFilled ==
    ASSUME NEW S, IsFiniteSet(S), NEW R, IsTotalOn(R, S)
    PROVE  IsFilled(R, S)
BY EveryPlaceIsTaken DEF IsFilled

-------------------------------------------------------------------------------
(***************************************************************************)
(* The selected elements of a sequence are those at the indices, in order. *)
(***************************************************************************)
LEMMA IndicesInOrder ==
    ASSUME NEW indices \in SUBSET Nat, IsFiniteSet(indices)
    PROVE  /\ Cardinality(indices) \in Nat
           /\ \A n \in 1 .. Cardinality(indices) : Nth(indices, n) \in indices
           /\ \A i \in indices : \E n \in 1 .. Cardinality(indices) : Nth(indices, n) = i
           /\ \A m, n \in 1 .. Cardinality(indices) : m < n <=> Nth(indices, m) < Nth(indices, n)
<1> DEFINE R == {pair \in indices \X indices : pair[1] < pair[2]}
           c == Cardinality(indices)
           place(i) == PlaceIn(R, indices, i)
<1>1. c \in Nat BY FS_CardinalityType
<1>2. \A x, y \in indices : <<x, y>> \in R <=> x < y OBVIOUS
<1>3. IsTotalOn(R, indices)
    <2>1. \A x, y, z \in indices : x < y /\ y < z => x < z OBVIOUS
    <2>2. \A x \in indices : ~(x < x) OBVIOUS
    <2>3. \A x, y \in indices : x = y \/ x < y \/ y < x OBVIOUS
    <2> HIDE DEF R
    <2> QED BY <1>2, <2>1, <2>2, <2>3, Zenon DEF IsTotalOn
<1>4. ASSUME NEW i \in indices PROVE place(i) = Cardinality({j \in indices : j < i})
    <2>1. {j \in indices : <<j, i>> \in R} = {j \in indices : j < i} BY <1>2
    <2> HIDE DEF R
    <2> QED BY <2>1 DEF PlaceIn
<1> HIDE DEF R
<1>5. /\ \A x \in indices : place(x) \in 0 .. c - 1
      /\ \A x, y \in indices : x < y <=> place(x) < place(y)
      /\ \A x, y \in indices : place(x) = place(y) => x = y
    BY <1>2, <1>3, PlacesAreInOrder
<1>6. \A k \in 0 .. c - 1 : \E x \in indices : place(x) = k
    <2>1. IsFilled(R, indices) BY <1>3, PlacesAreFilled, Zenon
    <2> QED BY <2>1 DEF IsFilled
<1> HIDE DEF place
<1>7. ASSUME NEW n \in 1 .. c
      PROVE  Nth(indices, n) \in indices /\ place(Nth(indices, n)) = n - 1
    <2>1. n - 1 \in 0 .. c - 1 BY <1>1
    <2>2. \E i \in indices : Cardinality({j \in indices : j < i}) = n - 1 BY <1>4, <1>6, <2>1
    <2>3. Nth(indices, n) \in indices /\ Cardinality({j \in indices : j < Nth(indices, n)}) = n - 1
        BY <2>2 DEF Nth
    <2> QED BY <1>4, <2>3
<1>8. ASSUME NEW i \in indices PROVE \E n \in 1 .. c : Nth(indices, n) = i
    <2>1. place(i) + 1 \in 1 .. c /\ (place(i) + 1) - 1 = place(i) BY <1>1, <1>5
    <2>2. Nth(indices, place(i) + 1) = i BY <1>5, <1>7, <2>1
    <2> QED BY <2>1, <2>2
<1>9. ASSUME NEW m \in 1 .. c, NEW n \in 1 .. c
      PROVE  m < n <=> Nth(indices, m) < Nth(indices, n)
    <2>1. place(Nth(indices, m)) = m - 1 /\ place(Nth(indices, n)) = n - 1 BY <1>7
    <2>2. Nth(indices, m) \in indices /\ Nth(indices, n) \in indices BY <1>7
    <2>3. Nth(indices, m) < Nth(indices, n) <=> place(Nth(indices, m)) < place(Nth(indices, n))
        BY <1>5, <2>2
    <2>4. Nth(indices, m) < Nth(indices, n) <=> m - 1 < n - 1 BY <2>1, <2>3
    <2> QED BY <1>1, <2>4
<1> QED BY <1>1, <1>7, <1>8, <1>9

LEMMA SelectedElements ==
    ASSUME NEW E, NEW seq \in Seq(E), NEW indices \in SUBSET DOMAIN seq
    PROVE  /\ Selected(seq, indices) \in Seq(E)
           /\ Len(Selected(seq, indices)) = Cardinality(indices) /\ Cardinality(indices) \in Nat
           /\ Cardinality(indices) <= Len(seq)
           /\ \A n \in 1 .. Cardinality(indices) :
                 Selected(seq, indices)[n] = seq[Nth(indices, n)] /\ Nth(indices, n) \in indices
           /\ ToSet(Selected(seq, indices)) = {seq[i] : i \in indices}
<1> DEFINE c == Cardinality(indices)
           part == Selected(seq, indices)
<1>1. DOMAIN seq = 1 .. Len(seq) /\ Len(seq) \in Nat /\ indices \in SUBSET Nat OBVIOUS
<1>2. IsFiniteSet(indices) /\ c <= Len(seq)
    <2>1. IsFiniteSet(1 .. Len(seq)) /\ Cardinality(1 .. Len(seq)) = Len(seq) BY <1>1, FS_Interval
    <2> QED BY <1>1, <2>1, FS_Subset
<1>3. /\ c \in Nat
      /\ \A n \in 1 .. c : Nth(indices, n) \in indices
      /\ \A i \in indices : \E n \in 1 .. c : Nth(indices, n) = i
    BY <1>1, <1>2, IndicesInOrder
<1>4. part = [n \in 1 .. c |-> seq[Nth(indices, n)]] BY DEF Selected
<1> HIDE DEF part, c
<1>5. part \in [1 .. c -> E] BY <1>1, <1>3, <1>4, ElementOfSeq
<1>6. part \in Seq(E) /\ Len(part) = c BY <1>3, <1>5, SeqDef
<1>7. DOMAIN part = 1 .. c /\ \A n \in 1 .. c : part[n] = seq[Nth(indices, n)] BY <1>4
<1>8. ToSet(part) = {seq[i] : i \in indices}
    <2>1. ToSet(part) = {part[n] : n \in 1 .. c} BY <1>7 DEF ToSet
    <2> QED BY <1>3, <1>7, <2>1
<1> QED BY <1>2, <1>3, <1>6, <1>7, <1>8 DEF part, c

LEMMA NthOfAll ==
    ASSUME NEW L \in Nat, NEW n \in 1 .. L
    PROVE  Nth(1 .. L, n) = n
<1>1. ASSUME NEW i \in 1 .. L PROVE Cardinality({j \in 1 .. L : j < i}) = i - 1
    <2>1. {j \in 1 .. L : j < i} = 1 .. i - 1 OBVIOUS
    <2>2. Cardinality(1 .. i - 1) = i - 1 BY FS_Interval
    <2> QED BY <2>1, <2>2
<1>2. \E i \in 1 .. L : Cardinality({j \in 1 .. L : j < i}) = n - 1 BY <1>1
<1> DEFINE i == Nth(1 .. L, n)
<1>3. i \in 1 .. L /\ Cardinality({j \in 1 .. L : j < i}) = n - 1 BY <1>2 DEF Nth
<1> HIDE DEF i
<1>4. i - 1 = n - 1 BY <1>1, <1>3
<1> QED BY <1>3, <1>4 DEF i

-------------------------------------------------------------------------------
(***************************************************************************)
(* Sequences by their members.                                             *)
(***************************************************************************)
LEMMA InitialPart ==
    ASSUME NEW S, NEW s \in Seq(S), NEW n \in 0 .. Len(s)
    PROVE  /\ SubSeq(s, 1, n) \in Seq(S)
           /\ Len(SubSeq(s, 1, n)) = n
           /\ \A i \in 1 .. n : SubSeq(s, 1, n)[i] = s[i]
<1>1. Len(s) \in Nat /\ n \in Nat /\ \A i \in 1 .. n : s[i] \in S BY ElementOfSeq
<1>2. /\ SubSeq(s, 1, n) \in Seq(S)
      /\ Len(SubSeq(s, 1, n)) = IF 1 <= n THEN n - 1 + 1 ELSE 0
      /\ \A i \in 1 .. n - 1 + 1 : SubSeq(s, 1, n)[i] = s[1 + i - 1]
    BY <1>1, SubSeqProperties
<1> QED BY <1>1, <1>2

LEMMA SameInitialPart ==
    ASSUME NEW S, NEW s \in Seq(S), NEW t \in Seq(S),
           NEW n \in 0 .. Len(s), n <= Len(t)
    PROVE  SubSeq(s, 1, n) = SubSeq(t, 1, n) <=> \A i \in 1 .. n : s[i] = t[i]
<1> DEFINE a == SubSeq(s, 1, n)
           b == SubSeq(t, 1, n)
<1>0. n \in 0 .. Len(t) OBVIOUS
<1>1. a \in Seq(S) /\ Len(a) = n /\ \A i \in 1 .. n : a[i] = s[i] BY InitialPart
<1>2. b \in Seq(S) /\ Len(b) = n /\ \A i \in 1 .. n : b[i] = t[i] BY <1>0, InitialPart
<1> HIDE DEF a, b
<1>3. a = b => \A i \in 1 .. n : s[i] = t[i] BY <1>1, <1>2
<1>4. (\A i \in 1 .. n : s[i] = t[i]) => a = b BY <1>1, <1>2, SeqEqual
<1> QED BY <1>3, <1>4 DEF a, b

LEMMA StrictPrefixes ==
    ASSUME NEW S, NEW s \in Seq(S), NEW t \in Seq(S)
    PROVE  IsStrictPrefix(s, t) <=> Len(s) < Len(t) /\ \A i \in 1 .. Len(s) : s[i] = t[i]
<1>1. Len(s) \in Nat /\ Len(t) \in Nat /\ Len(s) \in 0 .. Len(s) OBVIOUS
<1>2. ASSUME IsStrictPrefix(s, t)
      PROVE  Len(s) < Len(t) /\ \A i \in 1 .. Len(s) : s[i] = t[i]
    <2>1. Len(s) <= Len(t) /\ SubSeq(s, 1, Len(s)) = SubSeq(t, 1, Len(s)) /\ s # t
        BY <1>2 DEF IsStrictPrefix, IsPrefix
    <2>2. \A i \in 1 .. Len(s) : s[i] = t[i] BY <1>1, <2>1, SameInitialPart
    <2>3. Len(s) # Len(t) BY <2>1, <2>2, SeqEqual
    <2> QED BY <1>1, <2>1, <2>2, <2>3
<1>3. ASSUME Len(s) < Len(t), \A i \in 1 .. Len(s) : s[i] = t[i]
      PROVE  IsStrictPrefix(s, t)
    <2>1. SubSeq(s, 1, Len(s)) = SubSeq(t, 1, Len(s)) BY <1>1, <1>3, SameInitialPart
    <2> QED BY <1>1, <1>3, <2>1 DEF IsStrictPrefix, IsPrefix
<1> QED BY <1>2, <1>3

LEMMA PartOfPart ==
    ASSUME NEW S, NEW s \in Seq(S), NEW n \in 0 .. Len(s), NEW m \in 0 .. n
    PROVE  SubSeq(SubSeq(s, 1, n), 1, m) = SubSeq(s, 1, m)
<1> DEFINE a == SubSeq(s, 1, n)
           b == SubSeq(a, 1, m)
           c == SubSeq(s, 1, m)
<1>1. a \in Seq(S) /\ Len(a) = n /\ \A i \in 1 .. n : a[i] = s[i] BY InitialPart
<1>2. c \in Seq(S) /\ Len(c) = m /\ \A i \in 1 .. m : c[i] = s[i] BY InitialPart
<1> HIDE DEF a, c
<1>3. b \in Seq(S) /\ Len(b) = m /\ \A i \in 1 .. m : b[i] = a[i] BY <1>1, InitialPart
<1> HIDE DEF b
<1>4. \A i \in 1 .. Len(b) : b[i] = c[i] BY <1>1, <1>2, <1>3
<1>5. b = c BY <1>2, <1>3, <1>4, SeqEqual
<1> QED BY <1>5 DEF a, b, c

-------------------------------------------------------------------------------
(***************************************************************************)
(* The elements of a flattened sequence are those of its members.          *)
(***************************************************************************)
LEMMA ElementsOfConcatenation ==
    ASSUME NEW E, NEW s \in Seq(E), NEW t \in Seq(E)
    PROVE  s \o t \in Seq(E) /\ ToSet(s \o t) = ToSet(s) \cup ToSet(t)
<1>1. /\ s \o t \in Seq(E) /\ Len(s \o t) = Len(s) + Len(t) /\ Len(s) \in Nat /\ Len(t) \in Nat
      /\ \A i \in 1 .. Len(s) + Len(t) :
            (s \o t)[i] = IF i <= Len(s) THEN s[i] ELSE t[i - Len(s)]
    BY ConcatProperties
<1>2. /\ DOMAIN s = 1 .. Len(s) /\ DOMAIN t = 1 .. Len(t)
      /\ DOMAIN (s \o t) = 1 .. Len(s) + Len(t)
    BY <1>1
<1>3. ASSUME NEW i \in 1 .. Len(s) PROVE s[i] \in ToSet(s \o t)
    <2>1. i \in 1 .. Len(s) + Len(t) /\ (s \o t)[i] = s[i] BY <1>1
    <2> QED BY <1>2, <2>1 DEF ToSet
<1>4. ASSUME NEW i \in 1 .. Len(t) PROVE t[i] \in ToSet(s \o t)
    <2>1. Len(s) + i \in 1 .. Len(s) + Len(t) /\ ~(Len(s) + i <= Len(s)) /\ (Len(s) + i) - Len(s) = i
        BY <1>1
    <2>2. (s \o t)[Len(s) + i] = t[i] BY <1>1, <2>1
    <2> QED BY <1>2, <2>1, <2>2 DEF ToSet
<1>5. ASSUME NEW i \in 1 .. Len(s) + Len(t) PROVE (s \o t)[i] \in ToSet(s) \cup ToSet(t)
    <2>1. i <= Len(s) => i \in 1 .. Len(s) BY <1>1
    <2>2. ~(i <= Len(s)) => i - Len(s) \in 1 .. Len(t) BY <1>1
    <2> QED BY <1>1, <1>2, <2>1, <2>2 DEF ToSet
<1> QED BY <1>1, <1>2, <1>3, <1>4, <1>5 DEF ToSet

LEMMA FlattenedElements ==
    ASSUME NEW E, NEW seqs \in Seq(Seq(E))
    PROVE  /\ FlattenSeq(seqs) \in Seq(E)
           /\ ToSet(FlattenSeq(seqs)) = UNION {ToSet(seqs[i]) : i \in DOMAIN seqs}
<1> DEFINE N == Len(seqs)
           X == Seq(E)
           step == [pair \in Nat \X X |-> IF pair[1] \in 1 .. N THEN pair[2] \o seqs[pair[1]] ELSE pair[2]]
           IsFlat(w) == w = [i \in 1 .. N |-> IF i = 1 THEN seqs[i] ELSE w[i - 1] \o seqs[i]]
           flatten == CHOOSE w : IsFlat(w)
<1>1. N \in Nat /\ DOMAIN seqs = 1 .. N /\ \A i \in 1 .. N : seqs[i] \in X BY ElementOfSeq
<1>2. CASE N = 0
    <2>1. FlattenSeq(seqs) = seqs BY <1>2 DEF FlattenSeq
    <2>2. seqs = <<>> BY <1>2, EmptySeq
    <2>3. \A i \in DOMAIN seqs : FALSE BY <1>1, <1>2
    <2>4. <<>> \in Seq(E) /\ DOMAIN <<>> = {} BY EmptySeq
    <2> QED BY <2>1, <2>2, <2>3, <2>4 DEF ToSet
<1>3. CASE N # 0
    <2>1. <<>> \in X BY EmptySeq
    <2>2. step \in [Nat \X X -> X]
        <3>1. ASSUME NEW n \in Nat, NEW x \in X
              PROVE  (IF n \in 1 .. N THEN x \o seqs[n] ELSE x) \in X
            BY <1>1, ElementsOfConcatenation
        <3> HIDE DEF X, N
        <3> QED BY <3>1
    <2>3. PICK f \in [0 .. N -> X] : f[0] = <<>> /\ \A n \in 1 .. N : f[n] = step[<<n, f[n - 1]>>]
        <3> HIDE DEF N, X, step
        <3>1. IsDefinedUpTo(N, X, <<>>, step) BY <1>1, <2>1, <2>2, NatRecursionUpTo
        <3> QED BY <3>1 DEF IsDefinedUpTo
    <2>4. ASSUME NEW n \in 1 .. N PROVE n - 1 \in 0 .. N /\ n \in 0 .. N /\ f[n] = f[n - 1] \o seqs[n]
        <3>1. n \in Nat /\ n - 1 \in 0 .. N /\ n \in 0 .. N BY <1>1
        <3>2. f[n - 1] \in X BY <2>3, <3>1
        <3>3. step[<<n, f[n - 1]>>] = f[n - 1] \o seqs[n] BY <3>1, <3>2
        <3> QED BY <2>3, <3>1, <3>3
    <2> HIDE DEF step
    <2> DEFINE g == [n \in 1 .. N |-> f[n]]
    <2>5. ASSUME NEW n \in 1 .. N
          PROVE  g[n] = IF n = 1 THEN seqs[n] ELSE g[n - 1] \o seqs[n]
        <3>1. CASE n = 1
            <4>1. n - 1 = 0 BY <3>1
            <4>2. f[n] = <<>> \o seqs[n] BY <2>3, <2>4, <4>1
            <4>3. f[n] = seqs[n] BY <1>1, <4>2, ConcatEmptySeq
            <4> QED BY <3>1, <4>3
        <3>2. CASE n # 1
            <4>1. n - 1 \in 1 .. N BY <1>1, <3>2
            <4> QED BY <2>4, <3>2, <4>1
        <3> QED BY <3>1, <3>2
    <2>6. IsFlat(g)
        <3> DEFINE h == [n \in 1 .. N |-> IF n = 1 THEN seqs[n] ELSE g[n - 1] \o seqs[n]]
        <3>1. g = [n \in 1 .. N |-> g[n]] OBVIOUS
        <3>2. \A n \in 1 .. N : g[n] = h[n]
            <4> HIDE DEF g, N
            <4> QED BY <2>5
        <3>3. g = h
            <4> HIDE DEF g, N
            <4> QED BY <3>1, <3>2
        <3> HIDE DEF g, N
        <3> QED BY <3>3
    <2>7. IsFlat(flatten)
        <3> HIDE DEF IsFlat, g
        <3> QED BY <2>6
    <2>8. flatten = [i \in 1 .. N |-> IF i = 1 THEN seqs[i] ELSE flatten[i - 1] \o seqs[i]]
        <3> HIDE DEF flatten, N
        <3> QED BY <2>7
    <2>9. FlattenSeq(seqs) = flatten[N] BY <1>3 DEF FlattenSeq
    <2> HIDE DEF flatten
    <2> DEFINE S == {n \in 0 .. N : n # 0 => /\ flatten[n] \in X
                                           /\ ToSet(flatten[n]) = UNION {ToSet(seqs[i]) : i \in 1 .. n}}
    <2>10. 0 \in S BY <1>1
    <2>11. ASSUME NEW n \in 0 .. N - 1, n \in S PROVE n + 1 \in S
        <3>1. n + 1 \in 1 .. N /\ (n + 1) - 1 = n /\ n + 1 \in 0 .. N /\ (1 .. n + 1) = (1 .. n) \cup {n + 1}
            BY <1>1
        <3>2. CASE n = 0
            <4>1. flatten[1] = seqs[1] BY <2>8, <3>1, <3>2
            <4>2. (1 .. 1) = {1} OBVIOUS
            <4>3. UNION {ToSet(seqs[i]) : i \in 1 .. 1} = ToSet(seqs[1]) BY <4>2
            <4> QED BY <1>1, <3>1, <3>2, <4>1, <4>3
        <3>3. CASE n # 0
            <4>1. flatten[n + 1] = flatten[n] \o seqs[n + 1]
                <5>1. n + 1 # 1 BY <3>3
                <5> HIDE DEF N
                <5> QED BY <2>8, <3>1, <5>1
            <4>2. flatten[n] \in X /\ ToSet(flatten[n]) = UNION {ToSet(seqs[i]) : i \in 1 .. n}
                BY <2>11, <3>3
            <4>3. /\ flatten[n + 1] \in X
                  /\ ToSet(flatten[n + 1]) = ToSet(flatten[n]) \cup ToSet(seqs[n + 1])
                BY <1>1, <3>1, <4>1, <4>2, ElementsOfConcatenation
            <4>4. UNION {ToSet(seqs[i]) : i \in 1 .. n + 1} =
                      (UNION {ToSet(seqs[i]) : i \in 1 .. n}) \cup ToSet(seqs[n + 1])
                BY <3>1
            <4> QED BY <3>1, <4>2, <4>3, <4>4
        <3> QED BY <3>2, <3>3
    <2>12. N \in S
        <3>1. \A n \in 0 .. N : n \in S
            <4> HIDE DEF S, N
            <4> QED BY <1>1, <2>10, <2>11, NatInductionUpTo
        <3> HIDE DEF S
        <3> QED BY <1>1, <3>1
    <2> QED BY <1>1, <1>3, <2>9, <2>12
<1> QED BY <1>2, <1>3

-------------------------------------------------------------------------------
(***************************************************************************)
(* Parents, children and the nodes above a node.                           *)
(***************************************************************************)
LEMMA ParentsOfNodes ==
    ASSUME NEW node \in Nodes, node # Body
    PROVE  /\ Parent(node) \in Nodes /\ Len(Parent(node)) = Len(node) - 1
           /\ Len(node) \in Nat /\ Len(node) >= 1
           /\ Parent(node) = SubSeq(node, 1, Len(node) - 1)
           /\ \A i \in 1 .. Len(node) - 1 : Parent(node)[i] = node[i]
           /\ node = Append(Parent(node), node[Len(node)])
           /\ IsStrictPrefix(Parent(node), node)
<1>1. Len(node) \in Nat /\ Len(node) >= 1 /\ Len(node) - 1 \in 0 .. Len(node)
    BY EmptySeq DEF Nodes, Body
<1>2. Parent(node) = SubSeq(node, 1, Len(node) - 1) BY DEF Parent, Front
<1> DEFINE p == SubSeq(node, 1, Len(node) - 1)
<1>3. /\ p \in Seq(Nat \ {0}) /\ Len(p) = Len(node) - 1
      /\ \A i \in 1 .. Len(node) - 1 : p[i] = node[i]
    BY <1>1, InitialPart DEF Nodes
<1> HIDE DEF p
<1>4. IsStrictPrefix(p, node)
    <2>1. Len(p) < Len(node) /\ \A i \in 1 .. Len(p) : p[i] = node[i] BY <1>1, <1>3
    <2>2. node \in Seq(Nat \ {0}) BY DEF Nodes
    <2> QED BY <1>3, <2>1, <2>2, StrictPrefixes
<1> DEFINE a == Append(p, node[Len(node)])
<1>5. node[Len(node)] \in Nat \ {0} BY <1>1, ElementOfSeq DEF Nodes
<1>6. /\ a \in Seq(Nat \ {0}) /\ Len(a) = Len(node)
      /\ \A i \in 1 .. Len(node) : a[i] = IF i <= Len(node) - 1 THEN p[i] ELSE node[Len(node)]
    BY <1>1, <1>3, <1>5
<1> HIDE DEF a
<1>7. \A i \in 1 .. Len(node) : a[i] = node[i] BY <1>1, <1>3, <1>6
<1>8. a = node BY <1>6, <1>7, SeqEqual DEF Nodes
<1> QED BY <1>1, <1>2, <1>3, <1>4, <1>8 DEF p, a, Nodes

LEMMA NodesAbove ==
    ASSUME NEW doc, IsTree(doc), NEW node \in DOMAIN doc
    PROVE  \A i \in 0 .. Len(node) : SubSeq(node, 1, i) \in DOMAIN doc
<1> DEFINE L == Len(node)
           S == {n \in 0 .. L : SubSeq(node, 1, L - n) \in DOMAIN doc}
<1>1. node \in Nodes /\ L \in Nat BY DEF IsTree, Nodes
<1>2. 0 \in S
    <2>1. SubSeq(node, 1, L) = node BY <1>1, SubSeqFull DEF Nodes
    <2>2. L - 0 = L /\ 0 \in 0 .. L BY <1>1
    <2> HIDE DEF L
    <2> QED BY <2>1, <2>2
<1>3. ASSUME NEW n \in 0 .. L - 1, n \in S PROVE n + 1 \in S
    <2> DEFINE a == SubSeq(node, 1, L - n)
    <2>1. L - n \in 0 .. L /\ L - n - 1 \in 0 .. L - n /\ L - n >= 1 BY <1>1
    <2>2. a \in Nodes /\ Len(a) = L - n BY <1>1, <2>1, InitialPart DEF Nodes
    <2>3. a \in DOMAIN doc BY <1>3
    <2>4. SubSeq(a, 1, L - n - 1) = SubSeq(node, 1, L - n - 1) BY <1>1, <2>1, PartOfPart DEF Nodes
    <2> HIDE DEF a, L
    <2>5. a # Body BY <2>1, <2>2, EmptySeq DEF Body
    <2>6. Parent(a) = SubSeq(a, 1, L - n - 1) BY <2>2, <2>5, ParentsOfNodes
    <2>7. Parent(a) \in DOMAIN doc BY <2>3, <2>5 DEF IsTree
    <2>8. L - (n + 1) = L - n - 1 /\ n + 1 \in 0 .. L BY <1>1, <2>1
    <2> QED BY <2>4, <2>6, <2>7, <2>8
<1>4. \A n \in 0 .. L : n \in S
    <2> HIDE DEF S, L
    <2> QED BY <1>1, <1>2, <1>3, NatInductionUpTo
<1>5. ASSUME NEW i \in 0 .. L PROVE SubSeq(node, 1, i) \in DOMAIN doc
    <2>1. L - i \in 0 .. L /\ L - (L - i) = i BY <1>1
    <2>2. L - i \in S BY <1>4, <2>1
    <2> QED BY <2>1, <2>2
<1> QED BY <1>5

-------------------------------------------------------------------------------
(***************************************************************************)
(* Document order is a total order of the nodes.                           *)
(***************************************************************************)
DiffersAt(a, b, i) ==
    /\ i \in 1 .. Len(b)
    /\ \A j \in 1 .. i - 1 : j <= Len(a) /\ a[j] = b[j]
    /\ i = Len(a) + 1 \/ (i <= Len(a) /\ a[i] < b[i])

LEMMA PrecedesByMembers ==
    ASSUME NEW a \in Nodes, NEW b \in Nodes
    PROVE  Precedes(a, b) <=> \E i \in 1 .. Len(b) : DiffersAt(a, b, i)
<1>1. Len(a) \in Nat /\ Len(b) \in Nat BY DEF Nodes
<1>2. ASSUME IsStrictPrefix(a, b) PROVE DiffersAt(a, b, Len(a) + 1)
    <2>1. Len(a) < Len(b) /\ \A i \in 1 .. Len(a) : a[i] = b[i]
        BY <1>2, StrictPrefixes DEF Nodes
    <2>2. Len(a) + 1 \in 1 .. Len(b) /\ \A j \in 1 .. (Len(a) + 1) - 1 : j \in 1 .. Len(a)
        BY <1>1, <2>1
    <2> QED BY <1>1, <2>1, <2>2 DEF DiffersAt
<1>3. ASSUME NEW i \in 1 .. Len(a), i <= Len(b)
      PROVE  SubSeq(a, 1, i - 1) = SubSeq(b, 1, i - 1) <=> \A j \in 1 .. i - 1 : a[j] = b[j]
    <2>1. i - 1 \in 0 .. Len(a) /\ i - 1 <= Len(b) BY <1>1, <1>3
    <2> QED BY <2>1, SameInitialPart DEF Nodes
<1>4. ASSUME NEW i \in 1 .. Len(a), i <= Len(b), a[i] < b[i],
             SubSeq(a, 1, i - 1) = SubSeq(b, 1, i - 1)
      PROVE  DiffersAt(a, b, i)
    <2>1. \A j \in 1 .. i - 1 : a[j] = b[j] BY <1>3, <1>4
    <2>2. i \in 1 .. Len(b) /\ \A j \in 1 .. i - 1 : j <= Len(a) BY <1>1, <1>4
    <2> QED BY <1>1, <1>4, <2>1, <2>2 DEF DiffersAt
<1>5. ASSUME NEW i \in 1 .. Len(b), DiffersAt(a, b, i) PROVE Precedes(a, b)
    <2>1. CASE i = Len(a) + 1
        <3>1. Len(a) < Len(b) /\ \A j \in 1 .. Len(a) : j \in 1 .. i - 1 BY <1>1, <2>1
        <3>2. \A j \in 1 .. Len(a) : a[j] = b[j] BY <1>5, <3>1 DEF DiffersAt
        <3>3. IsStrictPrefix(a, b) BY <3>1, <3>2, StrictPrefixes DEF Nodes
        <3> QED BY <3>3 DEF Precedes
    <2>2. CASE i <= Len(a) /\ a[i] < b[i]
        <3>1. i \in 1 .. Len(a) /\ i <= Len(b) BY <1>1, <2>2
        <3>2. \A j \in 1 .. i - 1 : a[j] = b[j] BY <1>5 DEF DiffersAt
        <3>3. SubSeq(a, 1, i - 1) = SubSeq(b, 1, i - 1) BY <1>3, <3>1, <3>2
        <3> QED BY <2>2, <3>1, <3>3 DEF Precedes
    <2> QED BY <1>5, <2>1, <2>2 DEF DiffersAt
<1>6. ASSUME Precedes(a, b) PROVE \E i \in 1 .. Len(b) : DiffersAt(a, b, i)
    <2>1. CASE IsStrictPrefix(a, b)
        <3>1. DiffersAt(a, b, Len(a) + 1) BY <1>2, <2>1
        <3> QED BY <3>1 DEF DiffersAt
    <2>2. CASE \E i \in 1 .. Len(a) : i <= Len(b) /\ a[i] < b[i]
                                   /\ SubSeq(a, 1, i - 1) = SubSeq(b, 1, i - 1)
        <3>1. PICK i \in 1 .. Len(a) : i <= Len(b) /\ a[i] < b[i]
                                   /\ SubSeq(a, 1, i - 1) = SubSeq(b, 1, i - 1) BY <2>2
        <3>2. DiffersAt(a, b, i) BY <1>4, <3>1
        <3> QED BY <3>2 DEF DiffersAt
    <2> QED BY <1>6, <2>1, <2>2 DEF Precedes
<1> QED BY <1>5, <1>6

LEMMA NothingPrecedesItself ==
    ASSUME NEW a \in Nodes
    PROVE  ~Precedes(a, a)
<1>1. Len(a) \in Nat /\ \A i \in 1 .. Len(a) : a[i] \in Nat BY ElementOfSeq DEF Nodes
<1>2. \A i \in 1 .. Len(a) : ~DiffersAt(a, a, i) BY <1>1 DEF DiffersAt
<1> QED BY <1>2, PrecedesByMembers

LEMMA PrecedesIsTransitive ==
    ASSUME NEW a \in Nodes, NEW b \in Nodes, NEW c \in Nodes,
           Precedes(a, b), Precedes(b, c)
    PROVE  Precedes(a, c)
<1>1. PICK i \in 1 .. Len(b) : DiffersAt(a, b, i) BY PrecedesByMembers
<1>2. PICK k \in 1 .. Len(c) : DiffersAt(b, c, k) BY PrecedesByMembers
<1>3. /\ Len(a) \in Nat /\ Len(b) \in Nat /\ Len(c) \in Nat
      /\ \A n \in 1 .. Len(a) : a[n] \in Nat
      /\ \A n \in 1 .. Len(b) : b[n] \in Nat
      /\ \A n \in 1 .. Len(c) : c[n] \in Nat
    BY ElementOfSeq DEF Nodes
<1>4. CASE i < k
    <2>1. i \in 1 .. Len(c) /\ i \in 1 .. k - 1 BY <1>2, <1>3, <1>4
    <2>2. b[i] = c[i] /\ \A j \in 1 .. i - 1 : b[j] = c[j] BY <1>2, <1>3, <1>4, <2>1 DEF DiffersAt
    <2>3. \A j \in 1 .. i - 1 : j <= Len(a) /\ a[j] = c[j] BY <1>1, <2>2 DEF DiffersAt
    <2>4. DiffersAt(a, c, i) BY <1>1, <2>1, <2>2, <2>3 DEF DiffersAt
    <2> QED BY <2>1, <2>4, PrecedesByMembers
<1>5. CASE k <= i
    <2>1. \A j \in 1 .. k - 1 : j <= Len(a) /\ a[j] = c[j]
        <3>1. \A j \in 1 .. k - 1 : j \in 1 .. i - 1 BY <1>3, <1>5
        <3>2. \A j \in 1 .. k - 1 : b[j] = c[j] BY <1>2 DEF DiffersAt
        <3> QED BY <1>1, <3>1, <3>2 DEF DiffersAt
    <2>2. k <= Len(b) BY <1>3, <1>5
    <2>3. b[k] < c[k] BY <1>2, <1>3, <2>2 DEF DiffersAt
    <2>4. k = Len(a) + 1 \/ (k <= Len(a) /\ a[k] < c[k])
        <3>1. CASE k < i
            <4>1. k <= Len(a) /\ a[k] = b[k] BY <1>1, <1>3, <3>1 DEF DiffersAt
            <4> QED BY <2>3, <4>1
        <3>2. CASE k = i
            <4>1. k = Len(a) + 1 \/ (k <= Len(a) /\ a[k] < b[k]) BY <1>1, <3>2 DEF DiffersAt
            <4>2. k \in 1 .. Len(b) /\ k \in 1 .. Len(c) BY <2>2
            <4>3. k <= Len(a) => k \in 1 .. Len(a) BY <1>3, <4>2
            <4>4. b[k] \in Nat /\ c[k] \in Nat /\ (k <= Len(a) => a[k] \in Nat)
                BY <1>3, <4>2, <4>3
            <4> QED BY <2>3, <4>1, <4>4
        <3> QED BY <1>3, <1>5, <3>1, <3>2
    <2>5. DiffersAt(a, c, k) BY <2>1, <2>4 DEF DiffersAt
    <2> QED BY <2>5, PrecedesByMembers
<1> QED BY <1>3, <1>4, <1>5

LEMMA PrecedesIsTotal ==
    ASSUME NEW a \in Nodes, NEW b \in Nodes, a # b
    PROVE  Precedes(a, b) \/ Precedes(b, a)
<1>1. /\ Len(a) \in Nat /\ Len(b) \in Nat
      /\ \A n \in 1 .. Len(a) : a[n] \in Nat
      /\ \A n \in 1 .. Len(b) : b[n] \in Nat
    BY ElementOfSeq DEF Nodes
<1> DEFINE Different == {n \in 1 .. Len(a) + 1 : n = Len(a) + 1 \/ n > Len(b) \/ a[n] # b[n]}
<1>2. Different \in SUBSET Nat /\ Len(a) + 1 \in Different BY <1>1
<1>3. PICK i \in Different : \A j \in Different : i <= j
    <2> HIDE DEF Different
    <2> QED BY <1>2, NatMinimum
<1>4. \A j \in 1 .. i - 1 : j \in 1 .. Len(a) /\ j \in 1 .. Len(b) /\ a[j] = b[j]
    BY <1>1, <1>3
<1>5. i \in 1 .. Len(a) + 1 BY <1>3
<1>6. CASE i <= Len(b) /\ i <= Len(a)
    <2>1. a[i] # b[i] /\ i \in 1 .. Len(a) /\ i \in 1 .. Len(b) BY <1>1, <1>3, <1>6
    <2>2. a[i] < b[i] \/ b[i] < a[i] BY <1>1, <2>1
    <2>3. a[i] < b[i] => DiffersAt(a, b, i) BY <1>1, <1>4, <2>1 DEF DiffersAt
    <2>4. b[i] < a[i] => DiffersAt(b, a, i) BY <1>1, <1>4, <2>1 DEF DiffersAt
    <2> QED BY <2>1, <2>2, <2>3, <2>4, PrecedesByMembers
<1>7. CASE i <= Len(b) /\ i = Len(a) + 1
    <2>1. i \in 1 .. Len(b) BY <1>1, <1>7
    <2>2. DiffersAt(a, b, i) BY <1>1, <1>4, <1>7, <2>1 DEF DiffersAt
    <2> QED BY <2>1, <2>2, PrecedesByMembers
<1>8. CASE i > Len(b) /\ i <= Len(a)
    <2>1. i = Len(b) + 1
        <3>1. i - 1 >= 1 => i - 1 \in 1 .. i - 1 BY <1>5
        <3>2. i - 1 >= 1 => i - 1 \in 1 .. Len(b) BY <1>4, <3>1
        <3> QED BY <1>1, <1>5, <1>8, <3>2
    <2>2. i \in 1 .. Len(a) BY <1>1, <1>5, <1>8
    <2>3. DiffersAt(b, a, i) BY <1>1, <1>4, <2>1, <2>2 DEF DiffersAt
    <2> QED BY <2>2, <2>3, PrecedesByMembers
<1>9. CASE i > Len(b) /\ i = Len(a) + 1
    <2>1. Len(a) = Len(b)
        <3>1. Len(a) >= 1 => Len(a) \in 1 .. i - 1 BY <1>1, <1>9
        <3>2. Len(a) <= Len(b) BY <1>1, <1>4, <3>1
        <3> QED BY <1>1, <1>9, <3>2
    <2>2. \A j \in 1 .. Len(a) : a[j] = b[j] BY <1>1, <1>4, <1>9
    <2>3. a = b BY <2>1, <2>2, SeqEqual DEF Nodes
    <2> QED BY <2>3
<1> QED BY <1>1, <1>5, <1>6, <1>7, <1>8, <1>9

-------------------------------------------------------------------------------
(***************************************************************************)
(* InDocumentOrder lists the members of a finite set of nodes, each at its *)
(* place.                                                                  *)
(***************************************************************************)
PlaceAmong(nodes, node) == Cardinality({other \in nodes : Precedes(other, node)})

Order(nodes) == {pair \in nodes \X nodes : Precedes(pair[1], pair[2])}

LEMMA OrderIsTotal ==
    ASSUME NEW nodes \in SUBSET Nodes
    PROVE  /\ IsTotalOn(Order(nodes), nodes)
           /\ \A node \in nodes : PlaceIn(Order(nodes), nodes, node) = PlaceAmong(nodes, node)
<1>1. \A x, y \in nodes : <<x, y>> \in Order(nodes) <=> Precedes(x, y) BY DEF Order
<1>2. \A x \in nodes : ~Precedes(x, x) BY NothingPrecedesItself
<1>3. \A x, y, z \in nodes : Precedes(x, y) /\ Precedes(y, z) => Precedes(x, z)
    BY PrecedesIsTransitive
<1>4. \A x, y \in nodes : x = y \/ Precedes(x, y) \/ Precedes(y, x) BY PrecedesIsTotal
<1>5. IsTotalOn(Order(nodes), nodes) BY <1>1, <1>2, <1>3, <1>4, Zenon DEF IsTotalOn
<1>6. ASSUME NEW node \in nodes
      PROVE  PlaceIn(Order(nodes), nodes, node) = PlaceAmong(nodes, node)
    <2>1. {y \in nodes : <<y, node>> \in Order(nodes)} = {y \in nodes : Precedes(y, node)}
        BY <1>1
    <2> QED BY <2>1 DEF PlaceIn, PlaceAmong
<1> QED BY <1>5, <1>6

LEMMA PlacesOfNodes ==
    ASSUME NEW nodes \in SUBSET Nodes, IsFiniteSet(nodes)
    PROVE  /\ \A node \in nodes : PlaceAmong(nodes, node) \in 0 .. Cardinality(nodes) - 1
           /\ \A x, y \in nodes : Precedes(x, y) <=> PlaceAmong(nodes, x) < PlaceAmong(nodes, y)
           /\ \A x, y \in nodes : PlaceAmong(nodes, x) = PlaceAmong(nodes, y) => x = y
           /\ \A k \in 0 .. Cardinality(nodes) - 1 : \E node \in nodes : PlaceAmong(nodes, node) = k
<1> DEFINE R == Order(nodes)
<1>1. /\ IsTotalOn(R, nodes)
      /\ \A node \in nodes : PlaceIn(R, nodes, node) = PlaceAmong(nodes, node)
    BY OrderIsTotal
<1>2. \A x, y \in nodes : <<x, y>> \in R <=> Precedes(x, y) BY DEF Order
<1> HIDE DEF R
<1>3. /\ \A x \in nodes : PlaceIn(R, nodes, x) \in 0 .. Cardinality(nodes) - 1
      /\ \A x, y \in nodes : <<x, y>> \in R <=> PlaceIn(R, nodes, x) < PlaceIn(R, nodes, y)
      /\ \A x, y \in nodes : PlaceIn(R, nodes, x) = PlaceIn(R, nodes, y) => x = y
    BY <1>1, PlacesAreInOrder
<1>4. \A k \in 0 .. Cardinality(nodes) - 1 : \E x \in nodes : PlaceIn(R, nodes, x) = k
    BY <1>1, EveryPlaceIsTaken
<1> QED BY <1>1, <1>2, <1>3, <1>4

LEMMA InDocumentOrderLists ==
    ASSUME NEW nodes \in SUBSET Nodes, IsFiniteSet(nodes)
    PROVE  /\ DOMAIN InDocumentOrder(nodes) = 1 .. Cardinality(nodes)
           /\ Cardinality(nodes) \in Nat
           /\ InDocumentOrder(nodes) \in Seq(nodes)
           /\ Len(InDocumentOrder(nodes)) = Cardinality(nodes)
           /\ \A i \in 1 .. Cardinality(nodes) :
                 /\ InDocumentOrder(nodes)[i] \in nodes
                 /\ PlaceAmong(nodes, InDocumentOrder(nodes)[i]) = i - 1
           /\ \A node \in nodes : InDocumentOrder(nodes)[PlaceAmong(nodes, node) + 1] = node
<1> DEFINE order == InDocumentOrder(nodes)
           n == Cardinality(nodes)
           At(i) == CHOOSE node \in nodes : PlaceAmong(nodes, node) = i - 1
<1>1. n \in Nat BY FS_CardinalityType
<1>2. order = [i \in 1 .. n |-> At(i)] BY DEF InDocumentOrder, PlaceAmong
<1>3. ASSUME NEW i \in 1 .. n PROVE At(i) \in nodes /\ PlaceAmong(nodes, At(i)) = i - 1
    <2>1. i - 1 \in 0 .. n - 1 BY <1>1
    <2>2. \E node \in nodes : PlaceAmong(nodes, node) = i - 1 BY <2>1, PlacesOfNodes
    <2> QED BY <2>2
<1> HIDE DEF At, n, order
<1>4. \A i \in 1 .. n : order[i] \in nodes /\ PlaceAmong(nodes, order[i]) = i - 1
    BY <1>2, <1>3
<1>5. DOMAIN order = 1 .. n BY <1>2
<1>6. order \in Seq(nodes) /\ Len(order) = n
    <2>1. order \in [1 .. n -> nodes] BY <1>2, <1>3
    <2> QED BY <1>1, <2>1, SeqDef
<1>7. ASSUME NEW node \in nodes PROVE order[PlaceAmong(nodes, node) + 1] = node
    <2> DEFINE k == PlaceAmong(nodes, node) + 1
    <2>1. PlaceAmong(nodes, node) \in 0 .. n - 1 BY PlacesOfNodes DEF n
    <2>2. k \in 1 .. n /\ k - 1 = PlaceAmong(nodes, node) BY <1>1, <2>1
    <2> HIDE DEF k
    <2>3. order[k] \in nodes /\ PlaceAmong(nodes, order[k]) = PlaceAmong(nodes, node)
        BY <1>4, <2>2
    <2>4. order[k] = node BY <2>3, PlacesOfNodes
    <2> QED BY <2>4 DEF k
<1> QED BY <1>1, <1>4, <1>5, <1>6, <1>7 DEF n, order

(***************************************************************************)
(* The children of a node are finitely many nodes, one longer than it.     *)
(***************************************************************************)
LEMMA ChildrenAreNodes ==
    ASSUME NEW doc, IsTree(doc), NEW node, NEW kind
    PROVE  /\ Children(doc, node) \in SUBSET DOMAIN doc
           /\ Children(doc, node) \in SUBSET Nodes /\ IsFiniteSet(Children(doc, node))
           /\ Peers(doc, node, kind) \in SUBSET Nodes /\ IsFiniteSet(Peers(doc, node, kind))
           /\ Peers(doc, node, kind) \in SUBSET Children(doc, node)
<1>1. Children(doc, node) \in SUBSET DOMAIN doc BY DEF Children
<1>2. Peers(doc, node, kind) \in SUBSET Children(doc, node) BY DEF Peers
<1>3. DOMAIN doc \in SUBSET Nodes /\ IsFiniteSet(DOMAIN doc) BY DEF IsTree
<1> QED BY <1>1, <1>2, <1>3, FS_Subset

LEMMA ChildrenOfNode ==
    ASSUME NEW doc, IsTree(doc), NEW node, NEW child \in Children(doc, node)
    PROVE  /\ child \in DOMAIN doc /\ child \in Nodes /\ child # Body
           /\ Parent(child) = node /\ node \in DOMAIN doc /\ node \in Nodes
           /\ Len(child) = Len(node) + 1 /\ Len(node) \in Nat
           /\ SubSeq(child, 1, Len(node)) = node
           /\ child = Append(node, child[Len(child)])
<1>1. child \in DOMAIN doc /\ child # Body /\ Parent(child) = node BY DEF Children
<1>2. child \in Nodes /\ node \in DOMAIN doc BY <1>1 DEF IsTree
<1>3. /\ Parent(child) \in Nodes /\ Len(Parent(child)) = Len(child) - 1
      /\ Len(child) \in Nat /\ Len(child) >= 1
      /\ Parent(child) = SubSeq(child, 1, Len(child) - 1)
      /\ child = Append(Parent(child), child[Len(child)])
    BY <1>1, <1>2, ParentsOfNodes
<1> QED BY <1>1, <1>2, <1>3

-------------------------------------------------------------------------------
(***************************************************************************)
(* A tree has a depth, and what is defined of a node from its parent is    *)
(* defined of every node.                                                  *)
(***************************************************************************)
LEMMA TreesHaveADepth ==
    ASSUME NEW doc, IsTree(doc)
    PROVE  \E N \in Nat : \A node \in DOMAIN doc : Len(node) <= N
<1> DEFINE T == DOMAIN doc
           n == Cardinality(T)
<1>1. T \in SUBSET Nodes /\ IsFiniteSet(T) BY DEF IsTree
<1>2. n \in Nat /\ ExistsBijection(1 .. n, T) BY <1>1, FS_CardinalityType
<1>3. PICK f \in Bijection(1 .. n, T) : TRUE BY <1>2 DEF ExistsBijection
<1>4. f \in [1 .. n -> T] /\ \A node \in T : \E i \in 1 .. n : f[i] = node
    BY <1>3 DEF Bijection, Injection, Surjection
<1>5. \A node \in T : Len(node) \in Nat BY <1>1 DEF Nodes
<1> DEFINE S == {k \in 0 .. n : \E N \in Nat : \A i \in 1 .. k : Len(f[i]) <= N}
<1> HIDE DEF T, n
<1>6. 0 \in S
    <2>1. \A i \in 1 .. 0 : Len(f[i]) <= 0 OBVIOUS
    <2> QED BY <1>2, <2>1
<1>7. ASSUME NEW k \in 0 .. n - 1, k \in S PROVE k + 1 \in S
    <2>1. PICK N \in Nat : \A i \in 1 .. k : Len(f[i]) <= N BY <1>7
    <2>2. k + 1 \in 1 .. n /\ k + 1 \in 0 .. n BY <1>2
    <2>3. Len(f[k + 1]) \in Nat BY <1>4, <1>5, <2>2
    <2> DEFINE M == N + Len(f[k + 1])
    <2>4. M \in Nat BY <2>3
    <2>5. ASSUME NEW i \in 1 .. k + 1 PROVE Len(f[i]) <= M
        <3>1. CASE i \in 1 .. k
            <4>1. i \in 1 .. n BY <1>2, <3>1
            <4>2. Len(f[i]) \in Nat BY <1>4, <1>5, <4>1
            <4> QED BY <2>1, <2>3, <3>1, <4>2
        <3>2. CASE i = k + 1 BY <2>3, <3>2
        <3> QED BY <1>2, <3>1, <3>2
    <2> QED BY <2>2, <2>4, <2>5
<1>8. \A k \in 0 .. n : k \in S
    <2> HIDE DEF S
    <2> QED BY <1>2, <1>6, <1>7, NatInductionUpTo
<1>9. n \in S
    <2>1. n \in 0 .. n BY <1>2
    <2> HIDE DEF S
    <2> QED BY <1>8, <2>1
<1>10. PICK N \in Nat : \A i \in 1 .. n : Len(f[i]) <= N BY <1>9
<1>11. \A node \in T : Len(node) <= N BY <1>4, <1>10
<1> QED BY <1>11 DEF T

LEMMA TreeInduction ==
    ASSUME NEW doc, IsTree(doc), NEW S, Body \in S,
           \A node \in DOMAIN doc \ {Body} : Parent(node) \in S => node \in S
    PROVE  DOMAIN doc \in SUBSET S
<1> DEFINE T == DOMAIN doc
<1>1. PICK N \in Nat : \A node \in T : Len(node) <= N BY TreesHaveADepth
<1>2. T \in SUBSET Nodes /\ \A node \in T \ {Body} : Parent(node) \in T BY DEF IsTree
<1>3. \A node \in T : Len(node) \in Nat BY <1>2 DEF Nodes
<1> DEFINE Reached == {n \in 0 .. N : \A node \in T : Len(node) <= n => node \in S}
<1> HIDE DEF T
<1>4. 0 \in Reached
    <2>1. ASSUME NEW node \in T, Len(node) <= 0 PROVE node \in S
        <3>1. Len(node) = 0 BY <1>3, <2>1
        <3>2. node = Body BY <1>2, <3>1, EmptySeq DEF Nodes, Body
        <3> QED BY <3>2
    <2> QED BY <2>1
<1>5. ASSUME NEW n \in 0 .. N - 1, n \in Reached PROVE n + 1 \in Reached
    <2>1. ASSUME NEW node \in T, Len(node) <= n + 1, node # Body PROVE node \in S
        <3>1. node \in Nodes /\ Parent(node) \in T BY <1>2, <2>1
        <3>2. Len(Parent(node)) = Len(node) - 1 BY <2>1, <3>1, ParentsOfNodes
        <3>3. Len(Parent(node)) <= n BY <1>3, <2>1, <3>2
        <3>4. Parent(node) \in S BY <1>5, <3>1, <3>3
        <3> QED BY <2>1, <3>4 DEF T
    <2>2. n + 1 \in 0 .. N BY <1>1
    <2> QED BY <2>1, <2>2
<1>6. \A n \in 0 .. N : n \in Reached
    <2> HIDE DEF Reached
    <2> QED BY <1>1, <1>4, <1>5, NatInductionUpTo
<1>7. N \in Reached
    <2> HIDE DEF Reached
    <2>1. N \in 0 .. N BY <1>1
    <2> QED BY <1>6, <2>1
<1> QED BY <1>1, <1>7 DEF T

IsDefinedBelow(doc, X, a, step) ==
    \E f \in [DOMAIN doc -> X] :
        /\ f[Body] = a
        /\ \A node \in DOMAIN doc \ {Body} : f[node] = step[<<node, f[Parent(node)]>>]

LEMMA TreeRecursion ==
    ASSUME NEW doc, IsTree(doc), NEW X, NEW a \in X, NEW step \in [(DOMAIN doc) \X X -> X]
    PROVE  IsDefinedBelow(doc, X, a, step)
<1> DEFINE T == DOMAIN doc
           Y == [T -> X]
           first == [node \in T |-> a]
           next == [p \in Nat \X Y |->
                       [node \in T |-> IF node = Body THEN a ELSE step[<<node, p[2][Parent(node)]>>]]]
<1>1. T \in SUBSET Nodes /\ Body \in T /\ \A node \in T \ {Body} : Parent(node) \in T
    BY DEF IsTree
<1>2. PICK N \in Nat : \A node \in T : Len(node) <= N BY TreesHaveADepth
<1>3. first \in Y OBVIOUS
<1>4. next \in [Nat \X Y -> Y]
    <2> SUFFICES ASSUME NEW p \in Nat \X Y
                 PROVE  [node \in T |-> IF node = Body THEN a ELSE step[<<node, p[2][Parent(node)]>>]] \in Y
        OBVIOUS
    <2>1. \A node \in T \ {Body} : p[2][Parent(node)] \in X
        <3> HIDE DEF T
        <3> QED BY <1>1
    <2>2. \A node \in T \ {Body} : step[<<node, p[2][Parent(node)]>>] \in X BY <2>1
    <2> QED BY <2>2
<1>5. PICK g \in [0 .. N -> Y] : g[0] = first /\ \A n \in 1 .. N : g[n] = next[<<n, g[n - 1]>>]
    <2> HIDE DEF Y, next, first
    <2>1. IsDefinedUpTo(N, Y, first, next) BY <1>3, <1>4, NatRecursionUpTo
    <2> QED BY <2>1 DEF IsDefinedUpTo
<1> DEFINE f == [node \in T |-> g[Len(node)][node]]
<1>6. ASSUME NEW node \in T PROVE Len(node) \in 0 .. N /\ g[Len(node)] \in Y
    <2>1. Len(node) \in Nat BY <1>1 DEF Nodes
    <2> HIDE DEF Y, T
    <2> QED BY <1>2, <1>5, <2>1
<1>7. f \in [T -> X]
    <2>1. \A node \in T : g[Len(node)][node] \in X BY <1>6
    <2> QED BY <2>1
<1>8. f[Body] = a
    <2>1. Len(Body) = 0 BY DEF Body
    <2>2. f[Body] = g[0][Body] BY <1>1, <2>1
    <2>3. g[0][Body] = a BY <1>1, <1>5
    <2> QED BY <2>2, <2>3
<1>9. ASSUME NEW node \in T \ {Body} PROVE f[node] = step[<<node, f[Parent(node)]>>]
    <2> DEFINE n == Len(node)
    <2>0. node \in Nodes BY <1>1
    <2>1. n \in 1 .. N /\ n - 1 \in 0 .. N /\ Len(Parent(node)) = n - 1 /\ n \in Nat
        <3>1. n \in Nat /\ n >= 1 /\ Len(Parent(node)) = n - 1 BY <2>0, ParentsOfNodes
        <3>2. n \in 0 .. N BY <1>6
        <3> HIDE DEF n
        <3> QED BY <3>1, <3>2
    <2>2. g[n] = next[<<n, g[n - 1]>>] BY <1>5, <2>1
    <2>3. g[n - 1] \in Y
        <3> HIDE DEF Y, n
        <3> QED BY <1>5, <2>1
    <2>4. g[n] = [m \in T |-> IF m = Body THEN a ELSE step[<<m, g[n - 1][Parent(m)]>>]]
        <3> HIDE DEF Y, T, n
        <3> QED BY <2>1, <2>2, <2>3
    <2>5. g[n][node] = step[<<node, g[n - 1][Parent(node)]>>] BY <2>4
    <2>6. f[node] = g[n][node] OBVIOUS
    <2>7. f[Parent(node)] = g[n - 1][Parent(node)] BY <1>1, <2>1
    <2> QED BY <2>5, <2>6, <2>7
<1> HIDE DEF f
<1> QED BY <1>7, <1>8, <1>9 DEF IsDefinedBelow

(***************************************************************************)
(* What is above a node is its parent and what is above its parent.        *)
(***************************************************************************)
LEMMA AboveTheParent ==
    ASSUME NEW node \in Nodes, node # Body, NEW other \in Nodes
    PROVE  IsStrictPrefix(other, node) <=> other = Parent(node) \/ IsStrictPrefix(other, Parent(node))
<1> DEFINE p == Parent(node)
<1>1. /\ p \in Nodes /\ Len(p) = Len(node) - 1 /\ Len(node) \in Nat
      /\ \A i \in 1 .. Len(node) - 1 : p[i] = node[i]
    BY ParentsOfNodes
<1>2. Len(other) \in Nat BY DEF Nodes
<1> HIDE DEF p
<1>3. IsStrictPrefix(other, node) <=>
          Len(other) < Len(node) /\ \A i \in 1 .. Len(other) : other[i] = node[i]
    BY StrictPrefixes DEF Nodes
<1>4. IsStrictPrefix(other, p) <=> Len(other) < Len(p) /\ \A i \in 1 .. Len(other) : other[i] = p[i]
    <2>1. p \in Seq(Nat \ {0}) /\ other \in Seq(Nat \ {0}) BY <1>1 DEF Nodes
    <2> QED BY <2>1, StrictPrefixes
<1>5. ASSUME IsStrictPrefix(other, node) PROVE other = p \/ IsStrictPrefix(other, p)
    <2>1. Len(other) <= Len(p) /\ \A i \in 1 .. Len(other) : other[i] = p[i]
        BY <1>1, <1>2, <1>3, <1>5
    <2>2. CASE Len(other) = Len(p)
        <3>1. other = p BY <1>1, <2>1, <2>2, SeqEqual DEF Nodes
        <3> QED BY <3>1
    <2>3. CASE Len(other) < Len(p) BY <1>4, <2>1, <2>3
    <2> QED BY <1>1, <1>2, <2>1, <2>2, <2>3
<1>6. ASSUME other = p \/ IsStrictPrefix(other, p) PROVE IsStrictPrefix(other, node)
    BY <1>1, <1>2, <1>3, <1>4, <1>6
<1> QED BY <1>5, <1>6 DEF p

LEMMA AncestorsOfNode ==
    ASSUME NEW doc, IsTree(doc), NEW node \in DOMAIN doc \ {Body}, NEW T \in SUBSET DOMAIN doc
    PROVE  {other \in T : IsStrictPrefix(other, node)} =
               {other \in T : IsStrictPrefix(other, Parent(node))} \cup (T \cap {Parent(node)})
<1>1. node \in Nodes /\ node # Body /\ T \in SUBSET Nodes BY DEF IsTree
<1>2. \A other \in T : IsStrictPrefix(other, node) <=>
                          other = Parent(node) \/ IsStrictPrefix(other, Parent(node))
    BY <1>1, AboveTheParent
<1> QED BY <1>2

LEMMA BodyHasNoAncestors ==
    ASSUME NEW T \in SUBSET Nodes
    PROVE  {other \in T : IsStrictPrefix(other, Body)} = {}
<1>1. Body \in Nodes /\ Len(Body) = 0 BY EmptySeq DEF Body, Nodes
<1>2. \A other \in T : ~IsStrictPrefix(other, Body)
    <2> SUFFICES ASSUME NEW other \in T PROVE ~(Len(other) < Len(Body))
        BY <1>1, StrictPrefixes DEF Nodes
    <2> QED BY <1>1 DEF Nodes
<1> QED BY <1>2

(***************************************************************************)
(* Of two nodes above a third the shorter is above the other.              *)
(***************************************************************************)
LEMMA PrefixesChain ==
    ASSUME NEW a \in Nodes, NEW b \in Nodes, NEW c \in Nodes,
           IsStrictPrefix(a, b), IsStrictPrefix(b, c)
    PROVE  IsStrictPrefix(a, c)
<1>1. a \in Seq(Nat \ {0}) /\ b \in Seq(Nat \ {0}) /\ c \in Seq(Nat \ {0}) BY DEF Nodes
<1>2. Len(a) < Len(b) /\ \A i \in 1 .. Len(a) : a[i] = b[i] BY <1>1, StrictPrefixes
<1>3. Len(b) < Len(c) /\ \A i \in 1 .. Len(b) : b[i] = c[i] BY <1>1, StrictPrefixes
<1>4. Len(a) \in Nat /\ Len(b) \in Nat /\ Len(c) \in Nat BY <1>1
<1>5. Len(a) < Len(c) /\ \A i \in 1 .. Len(a) : a[i] = c[i] BY <1>2, <1>3, <1>4
<1> QED BY <1>1, <1>5, StrictPrefixes

LEMMA ChildTowards ==
    ASSUME NEW doc, IsTree(doc), NEW node \in DOMAIN doc, NEW other \in DOMAIN doc,
           IsStrictPrefix(node, other)
    PROVE  \E child \in Children(doc, node) : child = other \/ IsStrictPrefix(child, other)
<1> DEFINE child == SubSeq(other, 1, Len(node) + 1)
<1>1. node \in Seq(Nat \ {0}) /\ other \in Seq(Nat \ {0}) BY DEF IsTree, Nodes
<1>2. Len(node) < Len(other) /\ \A i \in 1 .. Len(node) : node[i] = other[i]
    BY <1>1, StrictPrefixes
<1>3. /\ Len(node) \in Nat /\ Len(other) \in Nat
      /\ Len(node) + 1 \in 0 .. Len(other) /\ Len(node) \in 0 .. Len(node) + 1
      /\ Len(node) + 1 # 0
    BY <1>1, <1>2
<1>4. child \in DOMAIN doc BY <1>3, NodesAbove
<1>5. /\ child \in Seq(Nat \ {0}) /\ Len(child) = Len(node) + 1
      /\ \A i \in 1 .. Len(node) + 1 : child[i] = other[i]
    BY <1>1, <1>3, InitialPart
<1> HIDE DEF child
<1>6. child \in Nodes /\ child # Body
    <2>1. Len(Body) = 0 BY DEF Body
    <2> QED BY <1>3, <1>5, <2>1 DEF Nodes
<1>7. Parent(child) = node
    <2>1. /\ Parent(child) \in Nodes /\ Len(Parent(child)) = Len(child) - 1
          /\ \A i \in 1 .. Len(child) - 1 : Parent(child)[i] = child[i]
        BY <1>6, ParentsOfNodes
    <2>2. Len(child) - 1 = Len(node) BY <1>3, <1>5
    <2>3. Parent(child) \in Seq(Nat \ {0}) BY <2>1 DEF Nodes
    <2>4. ASSUME NEW i \in 1 .. Len(node) PROVE Parent(child)[i] = node[i]
        <3>1. i \in 1 .. Len(node) + 1 BY <1>3
        <3>2. Parent(child)[i] = child[i] BY <2>1, <2>2
        <3> QED BY <1>2, <1>5, <3>1, <3>2
    <2>5. Len(Parent(child)) = Len(node) BY <2>1, <2>2
    <2> QED BY <1>1, <2>3, <2>4, <2>5, SeqEqual
<1>8. child \in Children(doc, node) BY <1>4, <1>6, <1>7 DEF Children
<1>9. CASE Len(node) + 1 = Len(other)
    <2>1. child = other BY <1>1, <1>5, <1>9, SeqEqual
    <2> QED BY <1>8, <2>1
<1>10. CASE Len(node) + 1 < Len(other)
    <2>1. IsStrictPrefix(child, other) BY <1>1, <1>5, <1>10, StrictPrefixes
    <2> QED BY <1>8, <2>1
<1> QED BY <1>2, <1>3, <1>9, <1>10

LEMMA ChildrenAreBelow ==
    ASSUME NEW doc, IsTree(doc), NEW node, NEW child \in Children(doc, node)
    PROVE  IsStrictPrefix(node, child)
BY ChildrenOfNode, ParentsOfNodes

-------------------------------------------------------------------------------
(***************************************************************************)
(* Where a node is once an element was put in: below its parent the later  *)
(* siblings, with all they hold, are one place further on.                 *)
(***************************************************************************)
MovedPlace(node, parent, position, i) ==
    IF IsStrictPrefix(parent, node) /\ i = Len(parent) + 1 /\ node[i] >= position
    THEN node[i] + 1 ELSE node[i]

LEMMA MovedByMembers ==
    ASSUME NEW node \in Nodes, NEW parent \in Nodes, NEW position \in Nat \ {0}
    PROVE  /\ Moved(node, parent, position) \in Nodes
           /\ Len(Moved(node, parent, position)) = Len(node) /\ Len(node) \in Nat
           /\ \A i \in 1 .. Len(node) :
                 Moved(node, parent, position)[i] = MovedPlace(node, parent, position, i)
<1> DEFINE k == Len(parent) + 1
<1>1. node \in Seq(Nat \ {0}) /\ parent \in Seq(Nat \ {0}) /\ Len(node) \in Nat /\ Len(parent) \in Nat
    BY DEF Nodes
<1>2. CASE IsStrictPrefix(parent, node) /\ node[k] >= position
    <2>1. Len(parent) < Len(node) BY <1>1, <1>2, StrictPrefixes
    <2>2. k \in 1 .. Len(node) BY <1>1, <2>1
    <2>3. node[k] \in Nat \ {0} BY <1>1, <2>2, ElementOfSeq
    <2>4. node[k] + 1 \in Nat \ {0} BY <2>3
    <2> DEFINE moved == [node EXCEPT ![k] = node[k] + 1]
    <2>5. Moved(node, parent, position) = moved BY <1>2 DEF Moved
    <2>6. /\ moved \in Seq(Nat \ {0}) /\ Len(moved) = Len(node)
          /\ \A i \in 1 .. Len(node) : moved[i] = IF i = k THEN node[k] + 1 ELSE node[i]
        <3> HIDE DEF k
        <3> QED BY <1>1, <2>2, <2>4, ExceptSeq
    <2> HIDE DEF moved
    <2>7. \A i \in 1 .. Len(node) : moved[i] = MovedPlace(node, parent, position, i)
        BY <1>2, <2>6 DEF MovedPlace
    <2> QED BY <1>1, <2>5, <2>6, <2>7 DEF Nodes
<1>3. CASE ~(IsStrictPrefix(parent, node) /\ node[k] >= position)
    <2>1. Moved(node, parent, position) = node BY <1>3 DEF Moved
    <2>2. \A i \in 1 .. Len(node) : node[i] = MovedPlace(node, parent, position, i)
        BY <1>3 DEF MovedPlace
    <2> QED BY <1>1, <2>1, <2>2
<1> QED BY <1>2, <1>3

LEMMA MovedPlacesKeepOrder ==
    ASSUME NEW a \in Nodes, NEW b \in Nodes, NEW parent \in Nodes, NEW position \in Nat \ {0},
           NEW i \in 1 .. Len(a), i \in 1 .. Len(b), \A j \in 1 .. i - 1 : a[j] = b[j]
    PROVE  LET p == MovedPlace(a, parent, position, i)
               q == MovedPlace(b, parent, position, i)
           IN  (p = q <=> a[i] = b[i]) /\ (p < q <=> a[i] < b[i])
<1>1. /\ a \in Seq(Nat \ {0}) /\ b \in Seq(Nat \ {0}) /\ parent \in Seq(Nat \ {0})
      /\ Len(a) \in Nat /\ Len(b) \in Nat /\ Len(parent) \in Nat
    BY DEF Nodes
<1>2. a[i] \in Nat /\ b[i] \in Nat BY <1>1, ElementOfSeq
<1>3. CASE i = Len(parent) + 1
    <2>1. \A j \in 1 .. Len(parent) : j \in 1 .. i - 1 BY <1>1, <1>3
    <2>2. \A j \in 1 .. Len(parent) : a[j] = b[j] BY <2>1
    <2>3. Len(parent) < Len(a) /\ Len(parent) < Len(b) BY <1>1, <1>3
    <2>4. IsStrictPrefix(parent, a) <=> \A j \in 1 .. Len(parent) : parent[j] = a[j]
        BY <1>1, <2>3, StrictPrefixes
    <2>5. IsStrictPrefix(parent, b) <=> \A j \in 1 .. Len(parent) : parent[j] = b[j]
        BY <1>1, <2>3, StrictPrefixes
    <2>6. IsStrictPrefix(parent, a) <=> IsStrictPrefix(parent, b) BY <2>2, <2>4, <2>5
    <2> QED BY <1>2, <1>3, <2>6 DEF MovedPlace
<1>4. CASE i # Len(parent) + 1
    BY <1>4 DEF MovedPlace
<1> QED BY <1>3, <1>4

LEMMA MovedPart ==
    ASSUME NEW node \in Nodes, NEW parent \in Nodes, NEW position \in Nat \ {0},
           NEW n \in 0 .. Len(node)
    PROVE  SubSeq(Moved(node, parent, position), 1, n) = Moved(SubSeq(node, 1, n), parent, position)
<1> DEFINE part == SubSeq(node, 1, n)
           moved == Moved(node, parent, position)
           left == SubSeq(moved, 1, n)
           right == Moved(part, parent, position)
<1>1. node \in Seq(Nat \ {0}) /\ parent \in Seq(Nat \ {0}) /\ Len(node) \in Nat /\ Len(parent) \in Nat
    BY DEF Nodes
<1>2. part \in Seq(Nat \ {0}) /\ Len(part) = n /\ \A i \in 1 .. n : part[i] = node[i]
    BY <1>1, InitialPart
<1> HIDE DEF part
<1>3. /\ moved \in Seq(Nat \ {0}) /\ Len(moved) = Len(node)
      /\ \A i \in 1 .. Len(node) : moved[i] = MovedPlace(node, parent, position, i)
    BY MovedByMembers DEF Nodes
<1>4. /\ right \in Seq(Nat \ {0}) /\ Len(right) = n
      /\ \A i \in 1 .. n : right[i] = MovedPlace(part, parent, position, i)
    BY <1>2, MovedByMembers DEF Nodes
<1> HIDE DEF moved, right
<1>5. left \in Seq(Nat \ {0}) /\ Len(left) = n /\ \A i \in 1 .. n : left[i] = moved[i]
    BY <1>3, InitialPart
<1> HIDE DEF left
<1>6. ASSUME NEW i \in 1 .. n PROVE left[i] = right[i]
    <2>1. i \in 1 .. Len(node) /\ part[i] = node[i] BY <1>1, <1>2
    <2>2. left[i] = MovedPlace(node, parent, position, i) BY <1>3, <1>5, <2>1
    <2>3. right[i] = MovedPlace(part, parent, position, i) BY <1>4
    <2>4. CASE i = Len(parent) + 1
        <3>1. Len(parent) < n /\ Len(parent) < Len(node) /\ \A j \in 1 .. Len(parent) : j \in 1 .. n
            BY <1>1, <2>4
        <3>2. IsStrictPrefix(parent, node) <=> \A j \in 1 .. Len(parent) : parent[j] = node[j]
            BY <1>1, <3>1, StrictPrefixes
        <3>3. IsStrictPrefix(parent, part) <=> \A j \in 1 .. Len(parent) : parent[j] = part[j]
            BY <1>1, <1>2, <3>1, StrictPrefixes
        <3>4. IsStrictPrefix(parent, node) <=> IsStrictPrefix(parent, part)
            BY <1>2, <3>1, <3>2, <3>3
        <3> QED BY <2>1, <2>2, <2>3, <3>4 DEF MovedPlace
    <2>5. CASE i # Len(parent) + 1
        BY <2>1, <2>2, <2>3, <2>5 DEF MovedPlace
    <2> QED BY <2>4, <2>5
<1>7. left = right BY <1>4, <1>5, <1>6, SeqEqual
<1> QED BY <1>7 DEF left, right, moved, part

LEMMA MovedAreDistinct ==
    ASSUME NEW a \in Nodes, NEW b \in Nodes, NEW parent \in Nodes, NEW position \in Nat \ {0},
           Moved(a, parent, position) = Moved(b, parent, position)
    PROVE  a = b
<1>1. a \in Seq(Nat \ {0}) /\ b \in Seq(Nat \ {0}) BY DEF Nodes
<1>2. /\ Len(a) = Len(b) /\ Len(a) \in Nat
      /\ \A i \in 1 .. Len(a) :
            MovedPlace(a, parent, position, i) = MovedPlace(b, parent, position, i)
    BY MovedByMembers
<1> DEFINE S == {n \in 0 .. Len(a) : \A j \in 1 .. n : a[j] = b[j]}
<1>3. 0 \in S BY <1>2
<1>4. ASSUME NEW n \in 0 .. Len(a) - 1, n \in S PROVE n + 1 \in S
    <2>1. n + 1 \in 1 .. Len(a) /\ n + 1 \in 1 .. Len(b) /\ (n + 1) - 1 = n /\ n + 1 \in 0 .. Len(a)
        BY <1>2
    <2>2. \A j \in 1 .. (n + 1) - 1 : a[j] = b[j] BY <1>4, <2>1
    <2>3. a[n + 1] = b[n + 1] BY <1>2, <2>1, <2>2, MovedPlacesKeepOrder
    <2>4. \A j \in 1 .. n + 1 : j = n + 1 \/ j \in 1 .. n BY <1>2
    <2> QED BY <1>4, <2>1, <2>3, <2>4
<1> HIDE DEF S
<1>5. Len(a) \in S
    <2>1. \A n \in 0 .. Len(a) : n \in S BY <1>2, <1>3, <1>4, NatInductionUpTo
    <2> QED BY <1>2, <2>1
<1> QED BY <1>1, <1>2, <1>5, SeqEqual DEF S

LEMMA MovedStayBelow ==
    ASSUME NEW a \in Nodes, NEW b \in Nodes, NEW parent \in Nodes, NEW position \in Nat \ {0}
    PROVE  IsStrictPrefix(Moved(a, parent, position), Moved(b, parent, position)) <=> IsStrictPrefix(a, b)
<1> DEFINE ma == Moved(a, parent, position)
           mb == Moved(b, parent, position)
           part == SubSeq(b, 1, Len(a))
           whole == SubSeq(a, 1, Len(a))
<1>1. /\ ma \in Nodes /\ mb \in Nodes /\ Len(ma) = Len(a) /\ Len(mb) = Len(b)
      /\ Len(a) \in Nat /\ Len(b) \in Nat
    BY MovedByMembers
<1>2. a \in Seq(Nat \ {0}) /\ b \in Seq(Nat \ {0}) BY DEF Nodes
<1>3. ASSUME NEW s \in Nodes, NEW t \in Nodes
      PROVE  IsStrictPrefix(s, t) <=> Len(s) < Len(t) /\ SubSeq(t, 1, Len(s)) = s
    <2>1. s \in Seq(Nat \ {0}) /\ t \in Seq(Nat \ {0}) /\ Len(s) \in Nat /\ Len(t) \in Nat BY DEF Nodes
    <2>2. IsStrictPrefix(s, t) <=> Len(s) < Len(t) /\ \A i \in 1 .. Len(s) : s[i] = t[i]
        BY <2>1, StrictPrefixes
    <2>3. ASSUME Len(s) < Len(t)
          PROVE  SubSeq(t, 1, Len(s)) = s <=> \A i \in 1 .. Len(s) : s[i] = t[i]
        <3> DEFINE u == SubSeq(t, 1, Len(s))
        <3>1. Len(s) \in 0 .. Len(t) BY <2>1, <2>3
        <3>2. u \in Seq(Nat \ {0}) /\ Len(u) = Len(s) /\ \A i \in 1 .. Len(s) : u[i] = t[i]
            BY <2>1, <3>1, InitialPart
        <3> HIDE DEF u
        <3>3. u = s => \A i \in 1 .. Len(s) : s[i] = t[i] BY <3>2
        <3>4. (\A i \in 1 .. Len(s) : s[i] = t[i]) => u = s BY <2>1, <3>2, SeqEqual
        <3> QED BY <3>3, <3>4 DEF u
    <2> QED BY <2>2, <2>3
<1>4. ASSUME Len(a) < Len(b)
      PROVE  part \in Nodes /\ SubSeq(mb, 1, Len(a)) = Moved(part, parent, position)
    <2>1. Len(a) \in 0 .. Len(b) BY <1>1, <1>4
    <2>2. part \in Nodes BY <1>2, <2>1, InitialPart DEF Nodes
    <2> QED BY <2>1, <2>2, MovedPart
<1>5. IsStrictPrefix(ma, mb) <=> Len(a) < Len(b) /\ SubSeq(mb, 1, Len(a)) = ma
    <2> HIDE DEF ma, mb
    <2> QED BY <1>1, <1>3
<1>6. IsStrictPrefix(a, b) <=> Len(a) < Len(b) /\ part = a BY <1>3
<1>7. ASSUME Len(a) < Len(b)
      PROVE  SubSeq(mb, 1, Len(a)) = ma <=> part = a
    <2> HIDE DEF part
    <2> QED BY <1>4, <1>7, MovedAreDistinct
<1> QED BY <1>5, <1>6, <1>7

LEMMA MovedKeepOrder ==
    ASSUME NEW a \in Nodes, NEW b \in Nodes, NEW parent \in Nodes, NEW position \in Nat \ {0}
    PROVE  Precedes(Moved(a, parent, position), Moved(b, parent, position)) <=> Precedes(a, b)
<1> DEFINE M(node) == Moved(node, parent, position)
<1>1. ASSUME NEW s \in Nodes, NEW t \in Nodes, Precedes(s, t)
      PROVE  Precedes(M(s), M(t))
    <2>1. PICK i \in 1 .. Len(t) : DiffersAt(s, t, i) BY <1>1, PrecedesByMembers
    <2>2. /\ Len(M(s)) = Len(s) /\ Len(M(t)) = Len(t) /\ Len(s) \in Nat /\ Len(t) \in Nat
          /\ M(s) \in Nodes /\ M(t) \in Nodes
          /\ \A j \in 1 .. Len(s) : M(s)[j] = MovedPlace(s, parent, position, j)
          /\ \A j \in 1 .. Len(t) : M(t)[j] = MovedPlace(t, parent, position, j)
        BY MovedByMembers
    <2> HIDE DEF M
    <2>3. \A j \in 1 .. i - 1 : j <= Len(s) /\ s[j] = t[j] BY <2>1 DEF DiffersAt
    <2>4. ASSUME NEW j \in 1 .. i - 1 PROVE M(s)[j] = M(t)[j]
        <3>1. j \in 1 .. Len(s) /\ j \in 1 .. Len(t) BY <2>2, <2>3
        <3>2. \A l \in 1 .. j - 1 : l \in 1 .. i - 1 OBVIOUS
        <3>3. (\A l \in 1 .. j - 1 : s[l] = t[l]) /\ s[j] = t[j] BY <2>3, <3>2
        <3>4. MovedPlace(s, parent, position, j) = MovedPlace(t, parent, position, j)
            BY <3>1, <3>3, MovedPlacesKeepOrder
        <3> QED BY <2>2, <3>1, <3>4
    <2>5. CASE i = Len(s) + 1
        <3>1. DiffersAt(M(s), M(t), i) BY <2>2, <2>3, <2>4, <2>5 DEF DiffersAt
        <3> QED BY <2>2, <3>1, PrecedesByMembers
    <2>6. CASE i <= Len(s) /\ s[i] < t[i]
        <3>1. i \in 1 .. Len(s) BY <2>2, <2>6
        <3>2. \A j \in 1 .. i - 1 : s[j] = t[j] BY <2>3
        <3>3. MovedPlace(s, parent, position, i) < MovedPlace(t, parent, position, i)
            BY <2>6, <3>1, <3>2, MovedPlacesKeepOrder
        <3>4. M(s)[i] < M(t)[i] BY <2>2, <3>1, <3>3
        <3>5. DiffersAt(M(s), M(t), i) BY <2>2, <2>3, <2>4, <2>6, <3>4 DEF DiffersAt
        <3> QED BY <2>2, <3>5, PrecedesByMembers
    <2> QED BY <2>1, <2>5, <2>6 DEF DiffersAt
<1>2. \A s \in Nodes : M(s) \in Nodes BY MovedByMembers
<1>3. ASSUME ~Precedes(a, b) PROVE ~Precedes(M(a), M(b))
    <2>1. a = b \/ Precedes(b, a) BY <1>3, PrecedesIsTotal
    <2>2. M(a) = M(b) \/ Precedes(M(b), M(a)) BY <1>1, <2>1
    <2> HIDE DEF M
    <2>3. CASE M(a) = M(b) BY <1>2, <2>3, NothingPrecedesItself
    <2>4. CASE Precedes(M(b), M(a))
        BY <1>2, <2>4, NothingPrecedesItself, PrecedesIsTransitive
    <2> QED BY <2>2, <2>3, <2>4
<1> QED BY <1>1, <1>3

LEMMA ParentsAsParts ==
    ASSUME NEW node \in Nodes, node # Body
    PROVE  Parent(node) = SubSeq(node, 1, Len(node) - 1) /\ Len(node) - 1 \in 0 .. Len(node)
BY ParentsOfNodes

LEMMA MovedParents ==
    ASSUME NEW node \in Nodes, NEW parent \in Nodes, NEW position \in Nat \ {0}
    PROVE  /\ Moved(Body, parent, position) = Body
           /\ Moved(node, parent, position) = Body <=> node = Body
           /\ node # Body =>
                 Parent(Moved(node, parent, position)) = Moved(Parent(node), parent, position)
           /\ ~IsStrictPrefix(parent, node) => Moved(node, parent, position) = node
<1> DEFINE moved == Moved(node, parent, position)
<1>1. Body \in Nodes /\ Len(Body) = 0 BY DEF Body, Nodes
<1>2. ~IsStrictPrefix(parent, node) => moved = node BY DEF Moved
<1>3. ~IsStrictPrefix(parent, Body)
    <2>1. parent \in Seq(Nat \ {0}) /\ Body \in Seq(Nat \ {0}) /\ Len(parent) \in Nat
        BY <1>1 DEF Nodes
    <2>2. ~(Len(parent) < Len(Body)) BY <1>1, <2>1
    <2> QED BY <2>1, <2>2, StrictPrefixes
<1>4. Moved(Body, parent, position) = Body BY <1>3 DEF Moved
<1>5. moved = Body <=> node = Body BY <1>1, <1>4, MovedAreDistinct
<1>6. ASSUME node # Body PROVE Parent(moved) = Moved(Parent(node), parent, position)
    <2>1. moved \in Nodes /\ Len(moved) = Len(node) BY MovedByMembers
    <2>2. Parent(node) = SubSeq(node, 1, Len(node) - 1) /\ Len(node) - 1 \in 0 .. Len(node)
        BY <1>6, ParentsAsParts
    <2>3. Parent(moved) = SubSeq(moved, 1, Len(node) - 1)
        <3> HIDE DEF moved
        <3> QED BY <1>5, <1>6, <2>1, ParentsAsParts
    <2> QED BY <2>2, <2>3, MovedPart
<1> QED BY <1>2, <1>4, <1>5, <1>6

-------------------------------------------------------------------------------
(***************************************************************************)
(* The tree an element was put into has the old nodes, moved, and the new  *)
(* one, which has no children.                                             *)
(***************************************************************************)
LEMMA NewNode ==
    ASSUME NEW parent \in Nodes, NEW position \in Nat \ {0}
    PROVE  /\ Append(parent, position) \in Nodes /\ Append(parent, position) # Body
           /\ Parent(Append(parent, position)) = parent
           /\ Len(Append(parent, position)) = Len(parent) + 1 /\ Len(parent) \in Nat
           /\ Append(parent, position)[Len(parent) + 1] = position
           /\ \A i \in 1 .. Len(parent) : Append(parent, position)[i] = parent[i]
           /\ IsStrictPrefix(parent, Append(parent, position))
<1> DEFINE new == Append(parent, position)
<1>1. parent \in Seq(Nat \ {0}) BY DEF Nodes
<1>2. /\ new \in Seq(Nat \ {0}) /\ new # <<>> /\ Len(new) = Len(parent) + 1
      /\ \A i \in 1 .. Len(parent) : new[i] = parent[i]
      /\ new[Len(parent) + 1] = position /\ Len(parent) \in Nat
    BY <1>1, AppendProperties
<1> HIDE DEF new
<1>3. new \in Nodes /\ new # Body BY <1>2 DEF Nodes, Body
<1>4. Parent(new) = parent
    <2>1. /\ Parent(new) \in Nodes /\ Len(Parent(new)) = Len(new) - 1
          /\ \A i \in 1 .. Len(new) - 1 : Parent(new)[i] = new[i]
        BY <1>3, ParentsOfNodes
    <2>2. Parent(new) \in Seq(Nat \ {0}) BY <2>1 DEF Nodes
    <2>3. Len(Parent(new)) = Len(parent) /\ \A i \in 1 .. Len(parent) : Parent(new)[i] = parent[i]
        BY <1>2, <2>1
    <2> QED BY <1>1, <2>2, <2>3, SeqEqual
<1>5. IsStrictPrefix(parent, new) BY <1>3, <1>4, ParentsOfNodes
<1> QED BY <1>2, <1>3, <1>4, <1>5 DEF new

LEMMA NothingMovesToTheNew ==
    ASSUME NEW node \in Nodes, NEW parent \in Nodes, NEW position \in Nat \ {0}
    PROVE  /\ Moved(node, parent, position) # Append(parent, position)
           /\ ~IsStrictPrefix(Append(parent, position), Moved(node, parent, position))
<1> DEFINE new == Append(parent, position)
           moved == Moved(node, parent, position)
           k == Len(parent) + 1
<1>1. /\ new \in Nodes /\ Len(new) = k /\ new[k] = position /\ Len(parent) \in Nat
      /\ \A i \in 1 .. Len(parent) : new[i] = parent[i]
    BY NewNode
<1>2. /\ moved \in Nodes /\ Len(moved) = Len(node) /\ Len(node) \in Nat
      /\ \A i \in 1 .. Len(node) : moved[i] = MovedPlace(node, parent, position, i)
    BY MovedByMembers
<1>3. node \in Seq(Nat \ {0}) /\ parent \in Seq(Nat \ {0}) BY DEF Nodes
<1> HIDE DEF new, moved
<1>4. ASSUME Len(node) >= k, \A i \in 1 .. k : moved[i] = new[i] PROVE FALSE
    <2>1. k \in 1 .. k /\ k \in 1 .. Len(node) /\ \A i \in 1 .. Len(parent) : i \in 1 .. k /\ i \in 1 .. Len(node) /\ i # k
        BY <1>1, <1>2, <1>4
    <2>2. ASSUME NEW i \in 1 .. Len(parent) PROVE parent[i] = node[i]
        <3>1. moved[i] = node[i] BY <1>2, <2>1 DEF MovedPlace
        <3>2. moved[i] = new[i] /\ new[i] = parent[i] BY <1>1, <1>4, <2>1
        <3> QED BY <3>1, <3>2
    <2>3. IsStrictPrefix(parent, node)
        <3>1. Len(parent) < Len(node) BY <1>1, <1>2, <1>4
        <3> QED BY <1>3, <2>2, <3>1, StrictPrefixes
    <2>4. node[k] \in Nat BY <1>3, <2>1, ElementOfSeq
    <2>5. moved[k] = MovedPlace(node, parent, position, k) /\ moved[k] = position BY <1>1, <1>2, <1>4, <2>1
    <2> QED BY <2>3, <2>4, <2>5 DEF MovedPlace
<1>5. moved # new
    <2> SUFFICES ASSUME moved = new PROVE FALSE OBVIOUS
    <2> QED BY <1>1, <1>2, <1>4
<1>6. ~IsStrictPrefix(new, moved)
    <2> SUFFICES ASSUME IsStrictPrefix(new, moved) PROVE FALSE OBVIOUS
    <2>1. new \in Seq(Nat \ {0}) /\ moved \in Seq(Nat \ {0}) BY <1>1, <1>2 DEF Nodes
    <2>2. Len(new) < Len(moved) /\ \A i \in 1 .. Len(new) : new[i] = moved[i] BY <2>1, StrictPrefixes
    <2>3. Len(node) >= k /\ \A i \in 1 .. k : moved[i] = new[i] BY <1>1, <1>2, <2>2
    <2> QED BY <1>4, <2>3
<1> QED BY <1>5, <1>6 DEF moved, new

IsInsertion(doc, parent, position, tag, after) ==
    LET new == Append(parent, position)
    IN  /\ DOMAIN after = {Moved(node, parent, position) : node \in DOMAIN doc} \cup {new}
        /\ after[new] = tag
        /\ \A node \in DOMAIN doc : after[Moved(node, parent, position)] = doc[node]

LEMMA InsertedTree ==
    ASSUME NEW doc, IsTree(doc), NEW parent \in DOMAIN doc, NEW position \in Nat \ {0}, NEW tag
    PROVE  /\ IsInsertion(doc, parent, position, tag, Inserted(doc, parent, position, tag))
           /\ IsTree(Inserted(doc, parent, position, tag))
<1> DEFINE new == Append(parent, position)
           M(node) == Moved(node, parent, position)
           moved == {M(node) : node \in DOMAIN doc}
           Old(node) == CHOOSE old \in DOMAIN doc : M(old) = node
           after == Inserted(doc, parent, position, tag)
<1>1. /\ DOMAIN doc \in SUBSET Nodes /\ IsFiniteSet(DOMAIN doc) /\ Body \in DOMAIN doc
      /\ \A node \in DOMAIN doc \ {Body} : Parent(node) \in DOMAIN doc
    BY DEF IsTree
<1>2. \A node \in DOMAIN doc : M(node) \in Nodes BY <1>1, MovedByMembers
<1>3. \A node \in DOMAIN doc : M(node) # new BY <1>1, NothingMovesToTheNew
<1>4. \A a, b \in DOMAIN doc : M(a) = M(b) => a = b BY <1>1, MovedAreDistinct
<1>5. /\ M(Body) = Body
      /\ \A node \in DOMAIN doc : M(node) = Body <=> node = Body
      /\ \A node \in DOMAIN doc \ {Body} : Parent(M(node)) = M(Parent(node))
      /\ M(parent) = parent
    <2>1. ~IsStrictPrefix(parent, parent) BY DEF IsStrictPrefix
    <2> QED BY <1>1, <2>1, MovedParents
<1>6. new \in Nodes /\ new # Body /\ Parent(new) = parent BY <1>1, NewNode
<1>7. after = [node \in moved \cup {new} |-> IF node = new THEN tag ELSE doc[Old(node)]]
    BY DEF Inserted
<1> HIDE DEF new, M
<1>8. DOMAIN after = moved \cup {new} /\ after[new] = tag
    <2> HIDE DEF after, Old, moved
    <2> QED BY <1>7
<1>9. ASSUME NEW node \in DOMAIN doc PROVE after[M(node)] = doc[node]
    <2>1. M(node) \in moved OBVIOUS
    <2>2. after[M(node)] = doc[Old(M(node))]
        <3> HIDE DEF after, Old, moved
        <3> QED BY <1>3, <1>7, <2>1
    <2>3. Old(M(node)) \in DOMAIN doc /\ M(Old(M(node))) = M(node) OBVIOUS
    <2>4. Old(M(node)) = node
        <3> HIDE DEF Old
        <3> QED BY <1>4, <2>3
    <2> QED BY <2>2, <2>4
<1> HIDE DEF after
<1>10. IsInsertion(doc, parent, position, tag, after) BY <1>8, <1>9 DEF IsInsertion, new, M
<1>11. DOMAIN after \in SUBSET Nodes BY <1>2, <1>6, <1>8
<1>12. IsFiniteSet(DOMAIN after)
    <2> DEFINE f == [node \in DOMAIN doc |-> M(node)]
    <2>1. f \in Surjection(DOMAIN doc, moved) BY DEF Surjection
    <2>2. IsFiniteSet(moved)
        <3> HIDE DEF f, moved
        <3> QED BY <1>1, <2>1, FS_Surjection
    <2>3. IsFiniteSet(moved \cup {new})
        <3> HIDE DEF moved
        <3> QED BY <2>2, FS_AddElement
    <2> QED BY <1>8, <2>3
<1>13. Body \in DOMAIN after BY <1>1, <1>5, <1>8
<1>14. ASSUME NEW node \in DOMAIN after \ {Body} PROVE Parent(node) \in DOMAIN after
    <2>1. CASE node = new BY <1>5, <1>6, <1>8, <2>1
    <2>2. CASE node # new
        <3>1. PICK old \in DOMAIN doc : node = M(old) BY <1>8, <2>2
        <3>2. old # Body BY <1>5, <3>1
        <3>3. Parent(old) \in DOMAIN doc /\ Parent(node) = M(Parent(old)) BY <1>1, <1>5, <3>1, <3>2
        <3> QED BY <1>8, <3>3
    <2> QED BY <2>1, <2>2
<1>15. IsTree(after) BY <1>11, <1>12, <1>13, <1>14 DEF IsTree
<1> QED BY <1>10, <1>15 DEF after

-------------------------------------------------------------------------------
(***************************************************************************)
(* An edit embeds the old tree in the new one: it keeps what is above what,*)
(* and the order.                                                          *)
(***************************************************************************)
IsEmbedding(before, after, f) ==
    /\ f \in [DOMAIN before -> DOMAIN after]
    /\ f[Body] = Body
    /\ \A node \in DOMAIN before :
          /\ Len(f[node]) = Len(node)
          /\ \A n \in 0 .. Len(node) : SubSeq(f[node], 1, n) = f[SubSeq(node, 1, n)]
    /\ \A node \in DOMAIN before \ {Body} : f[node] # Body /\ Parent(f[node]) = f[Parent(node)]
    /\ \A a, b \in DOMAIN before :
          /\ f[a] = f[b] => a = b
          /\ IsStrictPrefix(f[a], f[b]) <=> IsStrictPrefix(a, b)
          /\ Precedes(f[a], f[b]) <=> Precedes(a, b)

IsNew(before, f, node) == \A old \in DOMAIN before : f[old] # node

LEMMA ChildrenOfEmbedded ==
    ASSUME NEW before, IsTree(before), NEW after, IsTree(after), NEW f, IsEmbedding(before, after, f),
           NEW node \in DOMAIN before
    PROVE  /\ \A child \in Children(before, node) : f[child] \in Children(after, f[node])
           /\ \A other \in Children(after, f[node]) :
                 \/ \E child \in Children(before, node) : other = f[child]
                 \/ IsNew(before, f, other)
<1>1. /\ \A n \in DOMAIN before : f[n] \in DOMAIN after
      /\ \A a, b \in DOMAIN before : f[a] = f[b] => a = b
      /\ f[Body] = Body
      /\ \A n \in DOMAIN before \ {Body} : f[n] # Body /\ Parent(f[n]) = f[Parent(n)]
      /\ \A n \in DOMAIN before \ {Body} : Parent(n) \in DOMAIN before
    BY DEF IsEmbedding, IsTree
<1>2. ASSUME NEW child \in Children(before, node) PROVE f[child] \in Children(after, f[node])
    <2>1. child \in DOMAIN before \ {Body} /\ Parent(child) = node BY DEF Children
    <2> QED BY <1>1, <2>1 DEF Children
<1>3. ASSUME NEW other \in Children(after, f[node]), ~IsNew(before, f, other)
      PROVE  \E child \in Children(before, node) : other = f[child]
    <2>1. other \in DOMAIN after /\ other # Body /\ Parent(other) = f[node] BY DEF Children
    <2>2. PICK child \in DOMAIN before : f[child] = other BY <1>3 DEF IsNew
    <2>3. child # Body BY <1>1, <2>1, <2>2
    <2>4. Parent(child) = node BY <1>1, <2>1, <2>2, <2>3
    <2>5. child \in Children(before, node) BY <2>3, <2>4 DEF Children
    <2> QED BY <2>2, <2>5
<1> QED BY <1>2, <1>3

LEMMA SameSize ==
    ASSUME NEW S, IsFiniteSet(S), NEW T, NEW f \in [S -> T],
           \A x, y \in S : f[x] = f[y] => x = y, \A y \in T : \E x \in S : f[x] = y
    PROVE  IsFiniteSet(T) /\ Cardinality(T) = Cardinality(S)
<1>1. f \in Injection(S, T) BY DEF Injection, IsInjective
<1>2. f \in Surjection(S, T) BY DEF Surjection
<1> QED BY <1>1, <1>2, FS_Surjection

LEMMA OrderOfImage ==
    ASSUME NEW S \in SUBSET Nodes, IsFiniteSet(S), NEW T \in SUBSET Nodes, NEW f \in [S -> T],
           \A y \in T : \E x \in S : f[x] = y,
           \A x, y \in S : (f[x] = f[y] => x = y) /\ (Precedes(f[x], f[y]) <=> Precedes(x, y))
    PROVE  /\ DOMAIN InDocumentOrder(T) = DOMAIN InDocumentOrder(S)
           /\ \A i \in DOMAIN InDocumentOrder(S) : InDocumentOrder(T)[i] = f[InDocumentOrder(S)[i]]
<1>1. IsFiniteSet(T) /\ Cardinality(T) = Cardinality(S) BY SameSize
<1>2. /\ DOMAIN InDocumentOrder(S) = 1 .. Cardinality(S) /\ Cardinality(S) \in Nat
      /\ \A i \in 1 .. Cardinality(S) :
            InDocumentOrder(S)[i] \in S /\ PlaceAmong(S, InDocumentOrder(S)[i]) = i - 1
    BY InDocumentOrderLists
<1>3. /\ DOMAIN InDocumentOrder(T) = 1 .. Cardinality(T)
      /\ \A node \in T : InDocumentOrder(T)[PlaceAmong(T, node) + 1] = node
    BY <1>1, InDocumentOrderLists
<1>4. ASSUME NEW x \in S PROVE PlaceAmong(T, f[x]) = PlaceAmong(S, x)
    <2> DEFINE A == {other \in S : Precedes(other, x)}
               B == {other \in T : Precedes(other, f[x])}
               g == [other \in A |-> f[other]]
    <2>1. IsFiniteSet(A) BY FS_Subset
    <2>2. g \in [A -> B] OBVIOUS
    <2>3. \A a, b \in A : g[a] = g[b] => a = b OBVIOUS
    <2>4. \A b \in B : \E a \in A : g[a] = b OBVIOUS
    <2>5. Cardinality(B) = Cardinality(A)
        <3> HIDE DEF A, B, g
        <3> QED BY <2>1, <2>2, <2>3, <2>4, SameSize
    <2> QED BY <2>5 DEF PlaceAmong
<1>5. ASSUME NEW i \in 1 .. Cardinality(S) PROVE InDocumentOrder(T)[i] = f[InDocumentOrder(S)[i]]
    <2> DEFINE x == InDocumentOrder(S)[i]
    <2>1. x \in S /\ PlaceAmong(S, x) = i - 1 BY <1>2
    <2> HIDE DEF x
    <2>2. f[x] \in T /\ PlaceAmong(T, f[x]) = i - 1 BY <1>4, <2>1
    <2>3. PlaceAmong(T, f[x]) + 1 = i BY <2>2
    <2>4. InDocumentOrder(T)[i] = f[x] BY <1>3, <2>2, <2>3
    <2> QED BY <2>4 DEF x
<1> QED BY <1>1, <1>2, <1>3, <1>5

(***************************************************************************)
(* A tree that grew by one element: the old nodes keep their tags and the  *)
(* order among them, and only the parent of the new one has another child. *)
(***************************************************************************)
GrowsAt(before, after, f, parent, new, tag) ==
    /\ IsEmbedding(before, after, f)
    /\ \A node \in DOMAIN before : after[f[node]] = before[node]
    /\ parent \in DOMAIN before /\ f[parent] = parent
    /\ new \in DOMAIN after /\ new # Body /\ Parent(new) = parent /\ after[new] = tag
    /\ \A node \in DOMAIN after : IsNew(before, f, node) <=> node = new
    /\ \A node \in DOMAIN before \ {Body} : Parent(node) # parent =>
          f[node][Len(node)] = node[Len(node)]

LEMMA InsertionGrows ==
    ASSUME NEW doc, IsTree(doc), NEW parent \in DOMAIN doc, NEW position \in Nat \ {0}, NEW tag
    PROVE  GrowsAt(doc, Inserted(doc, parent, position, tag),
                   [node \in DOMAIN doc |-> Moved(node, parent, position)],
                   parent, Append(parent, position), tag)
<1> DEFINE after == Inserted(doc, parent, position, tag)
           f == [node \in DOMAIN doc |-> Moved(node, parent, position)]
           new == Append(parent, position)
<1>1. IsTree(after) /\ IsInsertion(doc, parent, position, tag, after) BY InsertedTree
<1>2. /\ DOMAIN doc \in SUBSET Nodes /\ Body \in DOMAIN doc
      /\ \A node \in DOMAIN doc \ {Body} : Parent(node) \in DOMAIN doc
      /\ \A node \in DOMAIN doc : \A n \in 0 .. Len(node) : SubSeq(node, 1, n) \in DOMAIN doc
    BY NodesAbove DEF IsTree
<1>3. \A node \in DOMAIN doc : f[node] = Moved(node, parent, position) OBVIOUS
<1>4. new # Body /\ Parent(new) = parent BY <1>2, NewNode
<1>5. f[parent] = parent
    <2>1. ~IsStrictPrefix(parent, parent) BY DEF IsStrictPrefix
    <2> QED BY <1>2, <1>3, <2>1, MovedParents
<1> HIDE DEF after
<1>6. /\ DOMAIN after = {f[node] : node \in DOMAIN doc} \cup {new} /\ after[new] = tag
      /\ \A node \in DOMAIN doc : after[f[node]] = doc[node]
    BY <1>1 DEF IsInsertion
<1>7. f \in [DOMAIN doc -> DOMAIN after]
    <2>1. DOMAIN f = DOMAIN doc OBVIOUS
    <2>2. \A node \in DOMAIN doc : f[node] \in DOMAIN after BY <1>6
    <2>3. f = [node \in DOMAIN doc |-> f[node]] OBVIOUS
    <2> HIDE DEF f
    <2> QED BY <2>2, <2>3
<1> HIDE DEF f
<1>8. ASSUME NEW node \in DOMAIN doc
      PROVE  Len(f[node]) = Len(node) /\ \A n \in 0 .. Len(node) : SubSeq(f[node], 1, n) = f[SubSeq(node, 1, n)]
    <2>1. node \in Nodes /\ f[node] = Moved(node, parent, position) BY <1>2, <1>3
    <2>2. Len(f[node]) = Len(node) BY <1>2, <2>1, MovedByMembers
    <2>3. ASSUME NEW n \in 0 .. Len(node) PROVE SubSeq(f[node], 1, n) = f[SubSeq(node, 1, n)]
        <3>1. SubSeq(f[node], 1, n) = Moved(SubSeq(node, 1, n), parent, position)
            BY <1>2, <2>1, MovedPart
        <3>2. SubSeq(node, 1, n) \in DOMAIN doc BY <1>2
        <3> QED BY <1>3, <3>1, <3>2
    <2> QED BY <2>2, <2>3
<1>9. f[Body] = Body BY <1>2, <1>3, MovedParents
<1>10. \A node \in DOMAIN doc \ {Body} : f[node] # Body /\ Parent(f[node]) = f[Parent(node)]
    BY <1>2, <1>3, MovedParents
<1>11. ASSUME NEW a \in DOMAIN doc, NEW b \in DOMAIN doc
       PROVE  /\ f[a] = f[b] => a = b
              /\ IsStrictPrefix(f[a], f[b]) <=> IsStrictPrefix(a, b)
              /\ Precedes(f[a], f[b]) <=> Precedes(a, b)
    BY <1>2, <1>3, MovedAreDistinct, MovedStayBelow, MovedKeepOrder
<1>12. IsEmbedding(doc, after, f) BY <1>7, <1>8, <1>9, <1>10, <1>11 DEF IsEmbedding
<1>13. \A node \in DOMAIN doc : f[node] # new BY <1>2, <1>3, NothingMovesToTheNew
<1>14. \A node \in DOMAIN after : IsNew(doc, f, node) <=> node = new BY <1>6, <1>13 DEF IsNew
<1>15. ASSUME NEW node \in DOMAIN doc \ {Body}, Parent(node) # parent
       PROVE  f[node][Len(node)] = node[Len(node)]
    <2> DEFINE k == Len(node)
    <2>1. node \in Nodes /\ parent \in Nodes /\ k \in Nat /\ k >= 1 /\ k \in 1 .. k
          /\ Parent(node) \in Nodes /\ Len(Parent(node)) = k - 1
          /\ \A i \in 1 .. k - 1 : Parent(node)[i] = node[i]
        BY <1>2, ParentsOfNodes
    <2>2. f[node][k] = MovedPlace(node, parent, position, k) BY <1>3, <2>1, MovedByMembers
    <2>3. ASSUME IsStrictPrefix(parent, node), k = Len(parent) + 1 PROVE FALSE
        <3>1. node \in Seq(Nat \ {0}) /\ parent \in Seq(Nat \ {0}) /\ Len(parent) \in Nat
            BY <2>1 DEF Nodes
        <3>2. \A i \in 1 .. Len(parent) : parent[i] = node[i] BY <2>3, <3>1, StrictPrefixes
        <3>3. k - 1 = Len(parent) BY <2>1, <2>3, <3>1
        <3>4. Parent(node) \in Seq(Nat \ {0}) BY <2>1 DEF Nodes
        <3>5. Parent(node) = parent
            <4> HIDE DEF k
            <4> QED BY <2>1, <3>1, <3>2, <3>3, <3>4, SeqEqual
        <3> QED BY <1>15, <3>5
    <2> HIDE DEF k
    <2>4. MovedPlace(node, parent, position, k) = node[k] BY <2>3 DEF MovedPlace
    <2> QED BY <2>2, <2>4 DEF k
<1>16. new \in DOMAIN after BY <1>6
<1>17. GrowsAt(doc, after, f, parent, new, tag)
    BY <1>4, <1>5, <1>6, <1>12, <1>14, <1>15, <1>16 DEF GrowsAt
<1> QED BY <1>17 DEF f, after, new

LEMMA ChildrenOfGrown ==
    ASSUME NEW before, IsTree(before), NEW after, IsTree(after), NEW f, NEW parent, NEW new, NEW tag,
           GrowsAt(before, after, f, parent, new, tag)
    PROVE  /\ \A node \in DOMAIN before \ {parent} :
                 Children(after, f[node]) = {f[c] : c \in Children(before, node)}
           /\ Children(after, parent) = {f[c] : c \in Children(before, parent)} \cup {new}
           /\ Children(after, new) = {}
<1>1. /\ IsEmbedding(before, after, f) /\ parent \in DOMAIN before /\ f[parent] = parent
      /\ new \in DOMAIN after /\ new # Body /\ Parent(new) = parent
      /\ \A node \in DOMAIN after : IsNew(before, f, node) <=> node = new
    BY DEF GrowsAt
<1>2. /\ \A a, b \in DOMAIN before : f[a] = f[b] => a = b
      /\ \A node \in DOMAIN before \ {Body} : Parent(f[node]) = f[Parent(node)]
      /\ \A node \in DOMAIN before \ {Body} : Parent(node) \in DOMAIN before
      /\ f[Body] = Body
    BY <1>1 DEF IsEmbedding, IsTree
<1>3. ASSUME NEW node \in DOMAIN before
      PROVE  /\ \A c \in Children(before, node) : f[c] \in Children(after, f[node])
             /\ \A other \in Children(after, f[node]) :
                   other = new \/ \E c \in Children(before, node) : other = f[c]
    <2>1. \A other \in Children(after, f[node]) : other \in DOMAIN after BY DEF Children
    <2> QED BY <1>1, <2>1, ChildrenOfEmbedded
<1>4. ASSUME NEW node \in DOMAIN before \ {parent}
      PROVE  Children(after, f[node]) = {f[c] : c \in Children(before, node)}
    <2>1. new \notin Children(after, f[node]) BY <1>1, <1>2 DEF Children
    <2> QED BY <1>3, <2>1
<1>5. Children(after, parent) = {f[c] : c \in Children(before, parent)} \cup {new}
    <2>1. new \in Children(after, parent) BY <1>1 DEF Children
    <2> QED BY <1>1, <1>3, <2>1
<1>6. ASSUME NEW other \in Children(after, new) PROVE FALSE
    <2>1. other \in DOMAIN after /\ other # Body /\ Parent(other) = new BY DEF Children
    <2>2. \A node \in DOMAIN before : f[node] # new BY <1>1 DEF IsNew
    <2>3. other # new BY <1>1, <2>1, <2>2
    <2>4. PICK old \in DOMAIN before : f[old] = other BY <1>1, <2>1, <2>3 DEF IsNew
    <2>5. old # Body BY <1>2, <2>1, <2>4
    <2>6. f[Parent(old)] = new /\ Parent(old) \in DOMAIN before BY <1>2, <2>1, <2>4, <2>5
    <2> QED BY <2>2, <2>6
<1> QED BY <1>4, <1>5, <1>6

-------------------------------------------------------------------------------
(***************************************************************************)
(* The place a ranked property is put at: whatever ranks later is at it or *)
(* behind it, and if anything is, one of those that rank later is at it.   *)
(***************************************************************************)
LEMMA GreatestOfFinite ==
    ASSUME NEW T \in SUBSET Nat, IsFiniteSet(T), T # {}
    PROVE  Max(T) \in T /\ \A m \in T : m <= Max(T)
<1> DEFINE c == Cardinality(T)
<1>1. /\ c \in Nat /\ \A n \in 1 .. c : Nth(T, n) \in T
      /\ \A i \in T : \E n \in 1 .. c : Nth(T, n) = i
      /\ \A m, n \in 1 .. c : m < n <=> Nth(T, m) < Nth(T, n)
    BY IndicesInOrder
<1>2. c # 0 BY FS_EmptySet
<1> HIDE DEF c
<1>3. c \in 1 .. c /\ Nth(T, c) \in T BY <1>1, <1>2
<1>4. ASSUME NEW m \in T PROVE m <= Nth(T, c)
    <2>1. PICK n \in 1 .. c : Nth(T, n) = m BY <1>1
    <2>2. n < c \/ n = c BY <1>1, <2>1
    <2>3. n < c <=> Nth(T, n) < Nth(T, c) BY <1>1, <1>3
    <2>4. m \in Nat /\ Nth(T, c) \in Nat BY <1>3
    <2> QED BY <2>1, <2>2, <2>3, <2>4
<1>5. \E x \in T : \A m \in T : m <= x BY <1>3, <1>4
<1> QED BY <1>5 DEF Max

LEMMA PlacesOfChildren ==
    ASSUME NEW doc, IsTree(doc), NEW parent \in DOMAIN doc, NEW nodes \in SUBSET Children(doc, parent)
    PROVE  /\ Places(nodes, parent) \in SUBSET (Nat \ {0}) /\ IsFiniteSet(Places(nodes, parent))
           /\ \A node \in nodes : node[Len(parent) + 1] \in Places(nodes, parent)
           /\ Places(nodes, parent) = {} <=> nodes = {}
<1> DEFINE f == [node \in nodes |-> node[Len(parent) + 1]]
<1>1. IsFiniteSet(nodes) BY ChildrenAreNodes, FS_Subset
<1>2. ASSUME NEW node \in nodes PROVE node[Len(parent) + 1] \in Nat \ {0}
    <2>1. node \in Seq(Nat \ {0}) /\ Len(node) = Len(parent) + 1 /\ Len(parent) \in Nat
        BY ChildrenOfNode DEF Nodes
    <2>2. Len(parent) + 1 \in 1 .. Len(node) BY <2>1
    <2> QED BY <2>1, <2>2, ElementOfSeq
<1>3. f \in Surjection(nodes, Places(nodes, parent)) BY DEF Surjection, Places
<1>4. IsFiniteSet(Places(nodes, parent))
    <2> HIDE DEF f
    <2> QED BY <1>1, <1>3, FS_Surjection
<1> QED BY <1>2, <1>4 DEF Places

LaterThan(doc, container, tag, rank) ==
    {child \in Children(doc, container) : doc[child] \in DOMAIN rank /\ rank[doc[child]] > rank[tag]}

RankedPlace(doc, container, tag, rank) ==
    IF LaterThan(doc, container, tag, rank) = {} THEN EndOf(doc, container)
    ELSE Min(Places(LaterThan(doc, container, tag, rank), container))

LEMMA RankedPlaces ==
    ASSUME NEW doc, IsTree(doc), NEW container \in DOMAIN doc, NEW tag, NEW rank
    PROVE  LET position == RankedPlace(doc, container, tag, rank)
               later == LaterThan(doc, container, tag, rank)
           IN  /\ InsertedByRank(doc, container, tag, rank) = Inserted(doc, container, position, tag)
               /\ position \in Nat \ {0}
               /\ \A child \in later : child[Len(container) + 1] >= position
               /\ \A child \in Children(doc, container) : child[Len(container) + 1] >= position =>
                     \E first \in later : first[Len(container) + 1] = position
<1> DEFINE position == RankedPlace(doc, container, tag, rank)
           later == LaterThan(doc, container, tag, rank)
           children == Children(doc, container)
           taken == {0} \cup Places(children, container)
<1>1. InsertedByRank(doc, container, tag, rank) = Inserted(doc, container, position, tag)
    BY DEF InsertedByRank, RankedPlace, LaterThan
<1>2. later \in SUBSET children BY DEF LaterThan
<1>3. /\ Places(later, container) \in SUBSET (Nat \ {0})
      /\ \A node \in later : node[Len(container) + 1] \in Places(later, container)
      /\ Places(later, container) = {} <=> later = {}
    BY <1>2, PlacesOfChildren
<1>4. /\ Places(children, container) \in SUBSET (Nat \ {0}) /\ IsFiniteSet(Places(children, container))
      /\ \A node \in children : node[Len(container) + 1] \in Places(children, container)
    BY PlacesOfChildren
<1>5. taken \in SUBSET Nat /\ IsFiniteSet(taken) /\ taken # {}
    <2> DEFINE places == Places(children, container)
    <2>1. taken = places \cup {0} OBVIOUS
    <2>2. places \in SUBSET Nat /\ IsFiniteSet(places) BY <1>4
    <2> HIDE DEF places, taken
    <2>3. IsFiniteSet(places \cup {0}) BY <2>2, FS_AddElement
    <2> QED BY <2>1, <2>2, <2>3
<1>6. Max(taken) \in taken /\ \A m \in taken : m <= Max(taken)
    <2> HIDE DEF taken
    <2> QED BY <1>5, GreatestOfFinite
<1>7. EndOf(doc, container) = 1 + Max(taken) BY DEF EndOf
<1> HIDE DEF later, children
<1>8. ASSUME later = {}
      PROVE  position \in Nat \ {0} /\ \A child \in children : ~(child[Len(container) + 1] >= position)
    <2>1. position = 1 + Max(taken) BY <1>7, <1>8 DEF RankedPlace, later
    <2>2. Max(taken) \in Nat BY <1>5, <1>6
    <2>3. ASSUME NEW child \in children PROVE ~(child[Len(container) + 1] >= position)
        <3> DEFINE place == child[Len(container) + 1]
        <3>1. place \in taken BY <1>4
        <3> HIDE DEF place, taken, position
        <3>2. place \in Nat /\ place <= Max(taken) BY <1>5, <1>6, <3>1
        <3>3. ~(place >= position) BY <2>1, <2>2, <3>2
        <3> QED BY <3>3 DEF place
    <2> HIDE DEF position
    <2>4. position \in Nat \ {0} BY <2>1, <2>2
    <2> QED BY <2>3, <2>4
<1>9. ASSUME later # {}
      PROVE  /\ position \in Nat \ {0}
             /\ \A child \in later : child[Len(container) + 1] >= position
             /\ \E first \in later : first[Len(container) + 1] = position
    <2> DEFINE L == Places(later, container)
    <2>1. position = Min(L) BY <1>9 DEF RankedPlace, later
    <2>2. L \in SUBSET (Nat \ {0}) /\ L # {} BY <1>3, <1>9
    <2>3. Min(L) \in L /\ \A m \in L : Min(L) <= m
        <3> HIDE DEF L
        <3> QED BY <2>2, LeastOf
    <2>4. \E first \in later : first[Len(container) + 1] = Min(L) BY <2>3 DEF Places
    <2>5. \A child \in later : child[Len(container) + 1] \in L BY <1>3
    <2> HIDE DEF L
    <2> QED BY <2>1, <2>2, <2>3, <2>4, <2>5
<1> QED BY <1>1, <1>8, <1>9 DEF later, children

LEMMA SiblingOrder ==
    ASSUME NEW a \in Nodes, NEW b \in Nodes, a # Body, b # Body, Parent(a) = Parent(b)
    PROVE  Precedes(a, b) <=> a[Len(Parent(a)) + 1] < b[Len(Parent(a)) + 1]
<1> DEFINE p == Parent(a)
           k == Len(p) + 1
<1>1. /\ p \in Nodes /\ Len(p) = Len(a) - 1 /\ Len(a) \in Nat /\ \A i \in 1 .. Len(a) - 1 : p[i] = a[i]
      /\ Len(p) = Len(b) - 1 /\ Len(b) \in Nat /\ \A i \in 1 .. Len(b) - 1 : p[i] = b[i]
    BY ParentsOfNodes
<1>2. (\A i \in 1 .. Len(a) : a[i] \in Nat) /\ (\A i \in 1 .. Len(b) : b[i] \in Nat)
    BY ElementOfSeq DEF Nodes
<1> HIDE DEF p
<1>3. Len(a) = k /\ Len(b) = k /\ k \in Nat \ {0} BY <1>1
<1>4. ASSUME NEW i \in 1 .. Len(b), DiffersAt(a, b, i) PROVE i = k /\ a[k] < b[k]
    <2>1. i <= Len(a) /\ a[i] < b[i] BY <1>3, <1>4 DEF DiffersAt
    <2>2. i # k => a[i] = p[i] /\ b[i] = p[i] BY <1>1, <1>3
    <2>3. i \in 1 .. Len(a) BY <1>3
    <2> HIDE DEF k
    <2>4. a[i] \in Nat /\ b[i] \in Nat BY <1>2, <2>3
    <2> QED BY <2>1, <2>2, <2>4
<1>5. ASSUME a[k] < b[k] PROVE DiffersAt(a, b, k)
    <2>1. k \in 1 .. Len(b) /\ k <= Len(a) BY <1>3
    <2>2. \A j \in 1 .. k - 1 : j <= Len(a) /\ a[j] = b[j] BY <1>1, <1>3
    <2> QED BY <1>5, <2>1, <2>2 DEF DiffersAt
<1>6. Precedes(a, b) <=> \E i \in 1 .. Len(b) : DiffersAt(a, b, i) BY PrecedesByMembers
<1>7. k \in 1 .. Len(b) BY <1>3
<1> HIDE DEF k
<1>8. Precedes(a, b) <=> a[k] < b[k] BY <1>4, <1>5, <1>6, <1>7
<1> QED BY <1>8 DEF k, p

LEMMA MovedChild ==
    ASSUME NEW doc, IsTree(doc), NEW parent, NEW child \in Children(doc, parent),
           NEW position \in Nat \ {0}
    PROVE  LET place == child[Len(parent) + 1]
           IN  /\ place \in Nat \ {0}
               /\ Moved(child, parent, position)[Len(parent) + 1] =
                     IF place >= position THEN place + 1 ELSE place
<1> DEFINE k == Len(parent) + 1
<1>1. /\ child \in Nodes /\ child # Body /\ parent \in Nodes /\ Parent(child) = parent
      /\ Len(child) = k /\ Len(parent) \in Nat
    BY ChildrenOfNode
<1>2. IsStrictPrefix(parent, child) BY <1>1, ParentsOfNodes
<1>3. k \in 1 .. Len(child) BY <1>1
<1>4. child[k] \in Nat \ {0} BY <1>1, <1>3, ElementOfSeq DEF Nodes
<1>5. Moved(child, parent, position)[k] = MovedPlace(child, parent, position, k)
    BY <1>1, <1>3, MovedByMembers
<1> QED BY <1>2, <1>4, <1>5 DEF MovedPlace

-------------------------------------------------------------------------------
(***************************************************************************)
(* Elements taken out again. What is left at a node is what was at the     *)
(* node that an insertion at the same place would move it to.              *)
(***************************************************************************)
IsRemoval(doc, parent, position, after) ==
    /\ DOMAIN after \in SUBSET Nodes
    /\ \A node \in Nodes : node \in DOMAIN after <=> Moved(node, parent, position) \in DOMAIN doc
    /\ \A node \in DOMAIN after : after[node] = doc[Moved(node, parent, position)]

IsMapping(f) == f = [x \in DOMAIN f |-> f[x]]

MovedBack(node, parent, position) ==
    IF IsStrictPrefix(parent, node) /\ node[Len(parent) + 1] > position
    THEN [node EXCEPT ![Len(parent) + 1] = @ - 1] ELSE node

(***************************************************************************)
(* Moving back undoes moving, and moving undoes moving back, but below the *)
(* element taken out.                                                      *)
(***************************************************************************)
LEMMA MovedBackByMembers ==
    ASSUME NEW node \in Nodes, NEW parent \in Nodes, NEW position \in Nat \ {0}
    PROVE  LET back == MovedBack(node, parent, position)
               k == Len(parent) + 1
           IN  /\ back \in Nodes /\ Len(back) = Len(node)
               /\ \A i \in 1 .. Len(node) :
                     back[i] = IF IsStrictPrefix(parent, node) /\ i = k /\ node[i] > position
                               THEN node[i] - 1 ELSE node[i]
<1> DEFINE k == Len(parent) + 1
           back == MovedBack(node, parent, position)
<1>1. node \in Seq(Nat \ {0}) /\ parent \in Seq(Nat \ {0}) /\ Len(node) \in Nat /\ Len(parent) \in Nat
      /\ DOMAIN node = 1 .. Len(node)
    BY DEF Nodes
<1>2. CASE IsStrictPrefix(parent, node) /\ node[k] > position
    <2>1. back = [node EXCEPT ![k] = @ - 1] BY <1>2 DEF MovedBack
    <2>2. k \in 1 .. Len(node)
        <3>1. Len(parent) < Len(node) BY <1>1, <1>2, StrictPrefixes
        <3> QED BY <1>1, <3>1
    <2>3. node[k] \in Nat BY <1>1, <2>2, ElementOfSeq
    <2>4. node[k] - 1 \in Nat \ {0} BY <1>2, <2>3
    <2>5. back \in Seq(Nat \ {0}) /\ Len(back) = Len(node)
        <3> HIDE DEF k, back
        <3> QED BY <1>1, <2>1, <2>2, <2>4
    <2>6. \A i \in 1 .. Len(node) : back[i] = IF i = k THEN node[i] - 1 ELSE node[i]
        <3> HIDE DEF k, back
        <3> QED BY <1>1, <2>1, <2>2
    <2> HIDE DEF back
    <2> QED BY <1>2, <2>5, <2>6 DEF back, Nodes
<1>3. CASE ~(IsStrictPrefix(parent, node) /\ node[k] > position)
    <2>1. back = node BY <1>3 DEF MovedBack
    <2> QED BY <1>1, <1>3, <2>1
<1> QED BY <1>2, <1>3

LEMMA MovedBackIsInverse ==
    ASSUME NEW node \in Nodes, NEW parent \in Nodes, NEW position \in Nat \ {0}
    PROVE  /\ MovedBack(Moved(node, parent, position), parent, position) = node
           /\ node # Append(parent, position) /\ ~IsStrictPrefix(Append(parent, position), node) =>
                 Moved(MovedBack(node, parent, position), parent, position) = node
<1> DEFINE k == Len(parent) + 1
           moved == Moved(node, parent, position)
           back == MovedBack(node, parent, position)
           new == Append(parent, position)
<1>1. node \in Seq(Nat \ {0}) /\ parent \in Seq(Nat \ {0}) /\ Len(node) \in Nat /\ Len(parent) \in Nat
      /\ \A i \in 1 .. Len(node) : node[i] \in Nat
    BY ElementOfSeq DEF Nodes
<1>2. /\ moved \in Nodes /\ Len(moved) = Len(node)
      /\ \A i \in 1 .. Len(node) : moved[i] = MovedPlace(node, parent, position, i)
    BY MovedByMembers
<1>3. /\ back \in Nodes /\ Len(back) = Len(node)
      /\ \A i \in 1 .. Len(node) :
            back[i] = IF IsStrictPrefix(parent, node) /\ i = k /\ node[i] > position
                      THEN node[i] - 1 ELSE node[i]
    BY MovedBackByMembers
<1>4. ASSUME NEW s \in Nodes, NEW t \in Nodes, Len(s) = Len(t), \A i \in 1 .. Len(s) : s[i] = t[i]
      PROVE  s = t
    BY <1>4, SeqEqual DEF Nodes
<1>5. ASSUME NEW s \in Nodes
      PROVE  IsStrictPrefix(parent, s) <=> Len(parent) < Len(s) /\ \A i \in 1 .. Len(parent) : parent[i] = s[i]
    BY <1>1, StrictPrefixes DEF Nodes
<1>6. \A i \in 1 .. Len(parent) : i # k BY <1>1
<1> HIDE DEF moved, back
<1>7. IsStrictPrefix(parent, moved) <=> IsStrictPrefix(parent, node)
    <2>1. Len(parent) < Len(node) => \A i \in 1 .. Len(parent) : moved[i] = node[i]
        BY <1>1, <1>2, <1>6 DEF MovedPlace
    <2> QED BY <1>2, <1>5, <2>1
<1>8. IsStrictPrefix(parent, back) <=> IsStrictPrefix(parent, node)
    <2>1. Len(parent) < Len(node) => \A i \in 1 .. Len(parent) : back[i] = node[i]
        BY <1>1, <1>3, <1>6
    <2> QED BY <1>3, <1>5, <2>1
<1>9. MovedBack(moved, parent, position) = node
    <2> DEFINE again == MovedBack(moved, parent, position)
    <2>1. /\ again \in Nodes /\ Len(again) = Len(node)
          /\ \A i \in 1 .. Len(node) :
                again[i] = IF IsStrictPrefix(parent, moved) /\ i = k /\ moved[i] > position
                           THEN moved[i] - 1 ELSE moved[i]
        BY <1>2, MovedBackByMembers
    <2> HIDE DEF again
    <2>2. ASSUME NEW i \in 1 .. Len(node) PROVE again[i] = node[i]
        <3>1. moved[i] = MovedPlace(node, parent, position, i) /\ node[i] \in Nat BY <1>1, <1>2
        <3> QED BY <1>7, <2>1, <3>1 DEF MovedPlace
    <2>3. again = node BY <1>4, <2>1, <2>2
    <2> QED BY <2>3 DEF again
<1>10. ASSUME node # new, ~IsStrictPrefix(new, node) PROVE Moved(back, parent, position) = node
    <2> DEFINE again == Moved(back, parent, position)
    <2>1. /\ again \in Nodes /\ Len(again) = Len(node)
          /\ \A i \in 1 .. Len(node) : again[i] = MovedPlace(back, parent, position, i)
        BY <1>3, MovedByMembers
    <2>2. IsStrictPrefix(parent, node) => node[k] # position
        <3> SUFFICES ASSUME IsStrictPrefix(parent, node), node[k] = position PROVE FALSE OBVIOUS
        <3>1. /\ new \in Nodes /\ Len(new) = k /\ new[k] = position
              /\ \A i \in 1 .. Len(parent) : new[i] = parent[i]
            BY NewNode
        <3> HIDE DEF new
        <3>2. Len(parent) < Len(node) /\ \A i \in 1 .. Len(parent) : parent[i] = node[i] BY <1>5
        <3>3. \A i \in 1 .. k : i \in 1 .. Len(parent) \/ i = k BY <1>1
        <3>4. \A i \in 1 .. k : new[i] = node[i] BY <3>1, <3>2, <3>3
        <3>5. CASE Len(node) = k BY <1>4, <1>10, <3>1, <3>4, <3>5
        <3>6. CASE Len(node) > k
            <4>1. Len(new) < Len(node) BY <3>1, <3>6
            <4>2. new \in Seq(Nat \ {0}) BY <3>1 DEF Nodes
            <4> QED BY <1>1, <1>10, <3>1, <3>4, <4>1, <4>2, StrictPrefixes
        <3> QED BY <1>1, <3>2, <3>5, <3>6
    <2> HIDE DEF again, new
    <2>3. ASSUME NEW i \in 1 .. Len(node) PROVE again[i] = node[i]
        <3>1. again[i] = MovedPlace(back, parent, position, i) /\ node[i] \in Nat BY <1>1, <2>1
        <3>2. back[i] = IF IsStrictPrefix(parent, node) /\ i = k /\ node[i] > position
                        THEN node[i] - 1 ELSE node[i]
            BY <1>3
        <3> QED BY <1>8, <2>2, <3>1, <3>2 DEF MovedPlace
    <2>4. again = node BY <1>4, <2>1, <2>3
    <2> QED BY <2>4 DEF again
<1> QED BY <1>9, <1>10 DEF moved, back, new

LEMMA RemovedTree ==
    ASSUME NEW doc, IsTree(doc), NEW parent \in Nodes, NEW position \in Nat \ {0}
    PROVE  LET after == Removed(doc, Append(parent, position))
           IN  /\ IsRemoval(doc, parent, position, after)
               /\ IsMapping(after)
               /\ parent \in DOMAIN doc => IsTree(after)
<1> DEFINE new == Append(parent, position)
           kept == DOMAIN doc \ (Below(doc, new) \cup {new})
           M(node) == Moved(node, parent, position)
           B(node) == MovedBack(node, parent, position)
           after == Removed(doc, new)
           backs == {B(old) : old \in kept}
<1>1. /\ new \in Nodes /\ new # Body /\ Parent(new) = parent /\ Len(new) = Len(parent) + 1
      /\ Len(parent) \in Nat /\ new[Len(parent) + 1] = position
    BY NewNode
<1>2. DOMAIN doc \in SUBSET Nodes /\ IsFiniteSet(DOMAIN doc) /\ Body \in DOMAIN doc
      /\ \A node \in DOMAIN doc \ {Body} : Parent(node) \in DOMAIN doc
    BY DEF IsTree
<1>3. after = [node \in backs |-> doc[M(node)]]
    <2> HIDE DEF new
    <2>1. \A node : B(node) = IF IsStrictPrefix(parent, node) /\ node[Len(new)] > position
                             THEN [node EXCEPT ![Len(new)] = @ - 1] ELSE node
        BY <1>1 DEF MovedBack
    <2>2. \A node : M(node) = IF IsStrictPrefix(parent, node) /\ node[Len(new)] >= position
                             THEN [node EXCEPT ![Len(new)] = @ + 1] ELSE node
        BY <1>1 DEF Moved
    <2> HIDE DEF M, B
    <2> QED BY <1>1, <2>1, <2>2 DEF Removed
<1>4. \A old \in kept : old \in DOMAIN doc /\ old \in Nodes /\ old # new /\ ~IsStrictPrefix(new, old)
    BY <1>2 DEF Below
<1>5. \A old \in kept : B(old) \in Nodes /\ M(B(old)) = old
    <2> HIDE DEF kept
    <2> SUFFICES ASSUME NEW old \in kept PROVE B(old) \in Nodes /\ M(B(old)) = old OBVIOUS
    <2>1. old \in Nodes /\ old # new /\ ~IsStrictPrefix(new, old) BY <1>4
    <2>2. B(old) \in Nodes BY <2>1, MovedBackByMembers
    <2>3. M(B(old)) = old BY <2>1, MovedBackIsInverse
    <2> QED BY <2>2, <2>3
<1>6. ASSUME NEW node \in Nodes, M(node) \in DOMAIN doc PROVE M(node) \in kept /\ B(M(node)) = node
    <2>1. B(M(node)) = node BY MovedBackIsInverse
    <2>2. M(node) # new /\ ~IsStrictPrefix(new, M(node)) BY NothingMovesToTheNew
    <2> QED BY <1>6, <2>1, <2>2 DEF Below
<1> HIDE DEF new, kept, M, B, after
<1>7. DOMAIN after = backs /\ \A node \in backs : after[node] = doc[M(node)] BY <1>3
<1>8. IsMapping(after) BY <1>3, <1>7 DEF IsMapping
<1>9. backs \in SUBSET Nodes BY <1>5
<1>10. \A node \in Nodes : node \in backs <=> M(node) \in DOMAIN doc BY <1>4, <1>5, <1>6
<1> HIDE DEF backs
<1>11. IsRemoval(doc, parent, position, after)
    BY <1>7, <1>9, <1>10 DEF IsRemoval, M
<1>12. ASSUME parent \in DOMAIN doc PROVE IsTree(after)
    <2>1. IsFiniteSet(backs)
        <3> DEFINE f == [old \in kept |-> B(old)]
        <3>1. IsFiniteSet(kept) BY <1>2, FS_Subset DEF kept
        <3>2. f \in Surjection(kept, backs) BY DEF Surjection, backs
        <3> HIDE DEF f
        <3> QED BY <3>1, <3>2, FS_Surjection
    <2>2. Body \in Nodes BY <1>2
    <2>3. Body \in backs
        <3>1. M(Body) = Body BY <2>2, MovedParents DEF M
        <3> QED BY <1>2, <1>10, <2>2, <3>1
    <2>4. ASSUME NEW node \in backs \ {Body} PROVE Parent(node) \in backs
        <3>1. node \in Nodes /\ node # Body /\ M(node) \in DOMAIN doc BY <1>9, <1>10
        <3>2. Parent(node) \in Nodes BY <3>1, ParentsOfNodes
        <3>3. M(node) # Body /\ Parent(M(node)) = M(Parent(node)) BY <3>1, MovedParents DEF M
        <3>4. M(Parent(node)) \in DOMAIN doc BY <1>2, <3>1, <3>3
        <3> QED BY <1>10, <3>2, <3>4
    <2> QED BY <1>7, <1>9, <2>1, <2>3, <2>4 DEF IsTree
<1> QED BY <1>8, <1>11, <1>12 DEF after, new

(***************************************************************************)
(* Taking out what was put in leaves the tree it was put in.               *)
(***************************************************************************)
LEMMA RemovedIsAsBefore ==
    ASSUME NEW doc, IsTree(doc), IsMapping(doc), NEW parent \in DOMAIN doc,
           NEW position \in Nat \ {0}, NEW tag
    PROVE  Removed(Inserted(doc, parent, position, tag), Append(parent, position)) = doc
<1> DEFINE M(node) == Moved(node, parent, position)
           more == Inserted(doc, parent, position, tag)
           less == Removed(more, Append(parent, position))
<1>1. parent \in Nodes /\ DOMAIN doc \in SUBSET Nodes BY DEF IsTree
<1>2. IsInsertion(doc, parent, position, tag, more) /\ IsTree(more) BY InsertedTree
<1>3. IsRemoval(more, parent, position, less) /\ IsMapping(less)
    <2> HIDE DEF more
    <2> QED BY <1>1, <1>2, RemovedTree
<1> HIDE DEF more, less
<1>4. /\ \A node \in Nodes : M(node) \in DOMAIN more <=> node \in DOMAIN doc
      /\ \A node \in DOMAIN doc : more[M(node)] = doc[node]
    <2>1. \A a, b \in Nodes : M(a) = M(b) => a = b BY <1>1, MovedAreDistinct
    <2>2. \A a \in Nodes : M(a) # Append(parent, position) BY <1>1, NothingMovesToTheNew
    <2>3. DOMAIN more = {M(node) : node \in DOMAIN doc} \cup {Append(parent, position)}
          /\ \A node \in DOMAIN doc : more[M(node)] = doc[node]
        BY <1>2 DEF IsInsertion
    <2> HIDE DEF M
    <2> QED BY <1>1, <2>1, <2>2, <2>3
<1>5. DOMAIN less \in SUBSET Nodes /\ (\A node \in Nodes : node \in DOMAIN less <=> M(node) \in DOMAIN more)
      /\ \A node \in DOMAIN less : less[node] = more[M(node)]
    BY <1>3 DEF IsRemoval
<1>6. DOMAIN less = DOMAIN doc BY <1>1, <1>4, <1>5
<1>7. \A node \in DOMAIN doc : less[node] = doc[node] BY <1>4, <1>5, <1>6
<1>8. less = doc BY <1>3, <1>6, <1>7 DEF IsMapping
<1> QED BY <1>8 DEF less, more

-------------------------------------------------------------------------------
(***************************************************************************)
(* Two trees may be the same at a node, at all that is below one, or at    *)
(* all that is not. An edit below a node changes nothing beyond it, and    *)
(* what it makes of what is below depends on nothing else.                 *)
(***************************************************************************)
SameAt(a, b, node) ==
    /\ node \in DOMAIN a <=> node \in DOMAIN b
    /\ node \in DOMAIN a => a[node] = b[node]

SameBelow(a, b, top) == \A node \in Nodes : IsStrictPrefix(top, node) => SameAt(a, b, node)

SameBeyond(a, b, top) == \A node \in Nodes : ~IsStrictPrefix(top, node) => SameAt(a, b, node)

LEMMA SameIsTransitive ==
    ASSUME NEW a, NEW b, NEW c, NEW top
    PROVE  /\ SameBelow(a, b, top) /\ SameBelow(b, c, top) => SameBelow(a, c, top)
           /\ SameBeyond(a, b, top) /\ SameBeyond(b, c, top) => SameBeyond(a, c, top)
           /\ SameBelow(a, b, top) => SameBelow(b, a, top)
BY DEF SameBelow, SameBeyond, SameAt

(***************************************************************************)
(* The children of the node itself, and of all below it, are below it.     *)
(***************************************************************************)
LEMMA SameChildren ==
    ASSUME NEW a, IsTree(a), NEW b, IsTree(b), NEW top \in Nodes, SameBelow(a, b, top),
           NEW node \in Nodes, node = top \/ IsStrictPrefix(top, node)
    PROVE  /\ Children(a, node) = Children(b, node)
           /\ \A child \in Children(a, node) : a[child] = b[child]
           /\ \A kind : Peers(a, node, kind) = Peers(b, node, kind)
<1>1. ASSUME NEW child \in Nodes, child # Body, Parent(child) = node
      PROVE  SameAt(a, b, child)
    <2>1. IsStrictPrefix(node, child) BY <1>1, ParentsOfNodes
    <2>2. IsStrictPrefix(top, child) BY <2>1, PrefixesChain
    <2> QED BY <2>2 DEF SameBelow
<1>2. DOMAIN a \in SUBSET Nodes /\ DOMAIN b \in SUBSET Nodes BY DEF IsTree
<1>3. Children(a, node) = Children(b, node) BY <1>1, <1>2 DEF Children, SameAt
<1>4. \A child \in Children(a, node) : a[child] = b[child] BY <1>1, <1>2 DEF Children, SameAt
<1> QED BY <1>3, <1>4 DEF Peers

LEMMA BelowTheTop ==
    ASSUME NEW top \in Nodes, NEW parent \in Nodes, parent = top \/ IsStrictPrefix(top, parent),
           NEW position \in Nat \ {0}
    PROVE  /\ Moved(top, parent, position) = top
           /\ IsStrictPrefix(top, Append(parent, position))
           /\ \A node \in Nodes : ~IsStrictPrefix(top, node) => Moved(node, parent, position) = node
           /\ \A node \in Nodes :
                 IsStrictPrefix(top, Moved(node, parent, position)) <=> IsStrictPrefix(top, node)
<1>1. ~IsStrictPrefix(top, top) BY DEF IsStrictPrefix
<1>2. \A node \in Nodes : ~IsStrictPrefix(top, node) => ~IsStrictPrefix(parent, node)
    BY PrefixesChain
<1>3. \A node \in Nodes : ~IsStrictPrefix(top, node) => Moved(node, parent, position) = node
    BY <1>2, MovedParents
<1>4. Moved(top, parent, position) = top BY <1>1, <1>3
<1>5. Append(parent, position) \in Nodes /\ IsStrictPrefix(parent, Append(parent, position)) BY NewNode
<1>6. IsStrictPrefix(top, Append(parent, position))
    <2> DEFINE new == Append(parent, position)
    <2> HIDE DEF new
    <2> SUFFICES IsStrictPrefix(top, new) BY DEF new
    <2>1. new \in Nodes /\ IsStrictPrefix(parent, new) BY <1>5 DEF new
    <2> QED BY <2>1, PrefixesChain
<1>7. \A node \in Nodes :
         IsStrictPrefix(top, Moved(node, parent, position)) <=> IsStrictPrefix(top, node)
    BY <1>4, MovedStayBelow
<1> QED BY <1>3, <1>4, <1>6, <1>7

LEMMA InsertionIsLocal ==
    ASSUME NEW a, IsTree(a), NEW top \in Nodes,
           NEW parent \in DOMAIN a, parent = top \/ IsStrictPrefix(top, parent),
           NEW position \in Nat \ {0}, NEW tag
    PROVE  /\ SameBeyond(a, Inserted(a, parent, position, tag), top)
           /\ \A b : IsTree(b) /\ parent \in DOMAIN b /\ SameBelow(a, b, top) =>
                 SameBelow(Inserted(a, parent, position, tag), Inserted(b, parent, position, tag), top)
<1> DEFINE M(node) == Moved(node, parent, position)
           new == Append(parent, position)
           more(doc) == Inserted(doc, parent, position, tag)
<1>1. parent \in Nodes /\ DOMAIN a \in SUBSET Nodes BY DEF IsTree
<1>2. /\ M(top) = top /\ IsStrictPrefix(top, new)
      /\ \A node \in Nodes : ~IsStrictPrefix(top, node) => M(node) = node
      /\ \A node \in Nodes : IsStrictPrefix(top, M(node)) <=> IsStrictPrefix(top, node)
    BY <1>1, BelowTheTop
<1>3. ASSUME NEW doc, IsTree(doc), parent \in DOMAIN doc
      PROVE  /\ DOMAIN more(doc) = {M(node) : node \in DOMAIN doc} \cup {new}
             /\ more(doc)[new] = tag
             /\ \A node \in DOMAIN doc : more(doc)[M(node)] = doc[node]
             /\ DOMAIN doc \in SUBSET Nodes
    <2>1. IsInsertion(doc, parent, position, tag, more(doc)) BY <1>3, InsertedTree
    <2> QED BY <1>3, <2>1 DEF IsInsertion, IsTree
<1>4. \A x, y \in Nodes : M(x) = M(y) => x = y BY <1>1, MovedAreDistinct
<1>5. \A node \in Nodes : M(node) # new BY <1>1, NothingMovesToTheNew
<1> HIDE DEF M, new, more
<1>6. SameBeyond(a, more(a), top)
    <2> SUFFICES ASSUME NEW node \in Nodes, ~IsStrictPrefix(top, node) PROVE SameAt(a, more(a), node)
        BY DEF SameBeyond
    <2>1. M(node) = node /\ node # new BY <1>2
    <2>2. /\ DOMAIN more(a) = {M(x) : x \in DOMAIN a} \cup {new}
          /\ \A x \in DOMAIN a : more(a)[M(x)] = a[x]
        BY <1>3
    <2>3. node \in DOMAIN more(a) <=> node \in DOMAIN a BY <1>1, <1>4, <2>1, <2>2
    <2>4. node \in DOMAIN a => more(a)[node] = a[node] BY <2>1, <2>2
    <2> QED BY <2>3, <2>4 DEF SameAt
<1>7. ASSUME NEW b, IsTree(b), parent \in DOMAIN b, SameBelow(a, b, top)
      PROVE  SameBelow(more(a), more(b), top)
    <2> SUFFICES ASSUME NEW node \in Nodes, IsStrictPrefix(top, node) PROVE SameAt(more(a), more(b), node)
        BY DEF SameBelow
    <2>1. /\ DOMAIN more(a) = {M(x) : x \in DOMAIN a} \cup {new} /\ more(a)[new] = tag
          /\ \A x \in DOMAIN a : more(a)[M(x)] = a[x]
        BY <1>3
    <2>2. /\ DOMAIN more(b) = {M(x) : x \in DOMAIN b} \cup {new} /\ more(b)[new] = tag
          /\ \A x \in DOMAIN b : more(b)[M(x)] = b[x]
          /\ DOMAIN b \in SUBSET Nodes
        BY <1>3, <1>7
    <2>3. \A x \in Nodes : M(x) = node => SameAt(a, b, x) BY <1>2, <1>7 DEF SameBelow
    <2>4. CASE node = new BY <2>1, <2>2, <2>4 DEF SameAt
    <2>5. CASE node # new
        <3>1. node \in DOMAIN more(a) <=> \E x \in DOMAIN a : M(x) = node BY <2>1, <2>5
        <3>2. node \in DOMAIN more(b) <=> \E x \in DOMAIN b : M(x) = node BY <2>2, <2>5
        <3>3. ASSUME NEW x \in Nodes, M(x) = node
              PROVE  /\ x \in DOMAIN a <=> x \in DOMAIN b
                     /\ x \in DOMAIN a => more(a)[node] = more(b)[node]
            BY <2>1, <2>2, <2>3, <3>3 DEF SameAt
        <3> QED BY <1>1, <2>2, <3>1, <3>2, <3>3 DEF SameAt
    <2> QED BY <2>4, <2>5
<1> QED BY <1>6, <1>7 DEF more

LEMMA RemovalIsLocal ==
    ASSUME NEW a, IsTree(a), NEW top \in Nodes,
           NEW parent \in Nodes, parent = top \/ IsStrictPrefix(top, parent),
           NEW position \in Nat \ {0}
    PROVE  LET new == Append(parent, position)
           IN  /\ SameBeyond(a, Removed(a, new), top)
               /\ \A b : IsTree(b) /\ SameBelow(a, b, top) =>
                     SameBelow(Removed(a, new), Removed(b, new), top)
<1> DEFINE M(node) == Moved(node, parent, position)
           new == Append(parent, position)
           less(doc) == Removed(doc, new)
<1>2. /\ \A node \in Nodes : ~IsStrictPrefix(top, node) => M(node) = node
      /\ \A node \in Nodes : IsStrictPrefix(top, M(node)) <=> IsStrictPrefix(top, node)
      /\ \A node \in Nodes : M(node) \in Nodes
    BY BelowTheTop, MovedByMembers
<1>3. ASSUME NEW doc, IsTree(doc)
      PROVE  /\ \A node \in Nodes : node \in DOMAIN less(doc) <=> M(node) \in DOMAIN doc
             /\ \A node \in DOMAIN less(doc) : less(doc)[node] = doc[M(node)]
    <2>1. IsRemoval(doc, parent, position, less(doc)) BY <1>3, RemovedTree
    <2> QED BY <2>1 DEF IsRemoval
<1> HIDE DEF M, new, less
<1>4. SameBeyond(a, less(a), top)
    BY <1>2, <1>3 DEF SameBeyond, SameAt
<1>5. ASSUME NEW b, IsTree(b), SameBelow(a, b, top)
      PROVE  SameBelow(less(a), less(b), top)
    <2> SUFFICES ASSUME NEW node \in Nodes, IsStrictPrefix(top, node) PROVE SameAt(less(a), less(b), node)
        BY DEF SameBelow
    <2>1. SameAt(a, b, M(node)) BY <1>2, <1>5 DEF SameBelow
    <2>2. /\ node \in DOMAIN less(a) <=> M(node) \in DOMAIN a
          /\ node \in DOMAIN less(a) => less(a)[node] = a[M(node)]
        BY <1>3
    <2>3. /\ node \in DOMAIN less(b) <=> M(node) \in DOMAIN b
          /\ node \in DOMAIN less(b) => less(b)[node] = b[M(node)]
        BY <1>3, <1>5
    <2> QED BY <2>1, <2>2, <2>3 DEF SameAt
<1> QED BY <1>4, <1>5 DEF less, new

(***************************************************************************)
(* Two nodes above a third are above one another.                          *)
(***************************************************************************)
LEMMA PrefixesCompare ==
    ASSUME NEW a \in Nodes, NEW b \in Nodes, NEW c \in Nodes,
           IsStrictPrefix(a, c), IsStrictPrefix(b, c)
    PROVE  a = b \/ IsStrictPrefix(a, b) \/ IsStrictPrefix(b, a)
<1>1. a \in Seq(Nat \ {0}) /\ b \in Seq(Nat \ {0}) /\ c \in Seq(Nat \ {0})
      /\ Len(a) \in Nat /\ Len(b) \in Nat
    BY DEF Nodes
<1>2. (\A i \in 1 .. Len(a) : a[i] = c[i]) /\ (\A i \in 1 .. Len(b) : b[i] = c[i])
    BY <1>1, StrictPrefixes
<1>3. CASE Len(a) = Len(b)
    <2>1. \A i \in 1 .. Len(a) : a[i] = b[i] BY <1>2, <1>3
    <2> QED BY <1>1, <1>3, <2>1, SeqEqual
<1>4. CASE Len(a) < Len(b)
    <2>1. \A i \in 1 .. Len(a) : i \in 1 .. Len(b) BY <1>1, <1>4
    <2>2. \A i \in 1 .. Len(a) : a[i] = b[i] BY <1>2, <2>1
    <2> QED BY <1>1, <1>4, <2>2, StrictPrefixes
<1>5. CASE Len(b) < Len(a)
    <2>1. \A i \in 1 .. Len(b) : i \in 1 .. Len(a) BY <1>1, <1>5
    <2>2. \A i \in 1 .. Len(b) : b[i] = a[i] BY <1>2, <2>1
    <2> QED BY <1>1, <1>5, <2>2, StrictPrefixes
<1> QED BY <1>1, <1>3, <1>4, <1>5
===============================================================================
