------------------------- MODULE StyleCatalogProofs -------------------------
(***************************************************************************)
(* What holds of every style sheet, whatever its length and its styles:    *)
(* the chains of styles a reference is resolved through.                   *)
(***************************************************************************)
EXTENDS Classification, StructureProofs, SequenceTheorems

-------------------------------------------------------------------------------
(***************************************************************************)
(* Identifiers, their referents and the parents of styles.                 *)
(***************************************************************************)
LEMMA ReferentIsADefinition ==
    ASSUME NEW E, NEW sheet \in Seq(E), NEW id, IsDefined(sheet, id)
    PROVE  /\ Referent(sheet, id) \in DOMAIN sheet
           /\ sheet[Referent(sheet, id)].id = id
           /\ \A i \in Definitions(sheet, id) : Referent(sheet, id) <= i
<1>1. Definitions(sheet, id) \in SUBSET Nat BY DEF Definitions
<1>2. Definitions(sheet, id) # {} BY DEF IsDefined
<1>3. /\ Referent(sheet, id) \in Definitions(sheet, id)
      /\ \A i \in Definitions(sheet, id) : Referent(sheet, id) <= i
    BY <1>1, <1>2, LeastOf DEF Referent
<1> QED BY <1>3 DEF Definitions

LEMMA ParentIsAReferent ==
    ASSUME NEW E, NEW sheet \in Seq(E), NEW i, NEW type, HasParent(sheet, i, type)
    PROVE  /\ ParentStyle(sheet, i) \in DOMAIN sheet
           /\ sheet[ParentStyle(sheet, i)].id # NoId
           /\ IsDefined(sheet, sheet[ParentStyle(sheet, i)].id)
           /\ ParentStyle(sheet, i) = Referent(sheet, sheet[ParentStyle(sheet, i)].id)
<1>1. IsDefined(sheet, sheet[i].basedOn) BY DEF HasParent
<1> QED BY <1>1, ReferentIsADefinition DEF ParentStyle, IsDefined

-------------------------------------------------------------------------------
(***************************************************************************)
(* A walk along basedOn: the styles of a chain as long as no cycle closed, *)
(* no two of one identifier.                                               *)
(***************************************************************************)
IsWalk(sheet, start, type, m) ==
    /\ m \in Seq(DOMAIN sheet)
    /\ m # <<>> /\ m[1] = start
    /\ \A k \in 2 .. Len(m) :
           HasParent(sheet, m[k - 1], type) /\ m[k] = ParentStyle(sheet, m[k - 1])
    /\ \A j, k \in 1 .. Len(m) : sheet[m[j]].id = sheet[m[k]].id => j = k

(***************************************************************************)
(* A chain is a walk, or what was before the style at which a walk came    *)
(* back to an identifier.                                                  *)
(***************************************************************************)
ClosesAt(sheet, type, m, first) ==
    /\ HasParent(sheet, Last(m), type)
    /\ first \in 1 .. Len(m)
    /\ sheet[m[first]].id = sheet[ParentStyle(sheet, Last(m))].id

IsClosed(sheet, start, type, m) ==
    \E w \in Seq(DOMAIN sheet) :
        \E first \in 1 .. Len(w) :
            /\ IsWalk(sheet, start, type, w) /\ ClosesAt(sheet, type, w, first)
            /\ m = SubSeq(w, 1, first - 1)

Chains(sheet, start, type) ==
    {chain \in [members : Seq(DOMAIN sheet), blocked : BOOLEAN] :
        /\ ~chain.blocked => IsWalk(sheet, start, type, chain.members)
        /\ chain.blocked => IsClosed(sheet, start, type, chain.members)}

LEMMA ExtendedIsAChain ==
    ASSUME NEW E, NEW sheet \in Seq(E), NEW start \in DOMAIN sheet, NEW type,
           NEW chain \in Chains(sheet, start, type)
    PROVE  Extended(sheet, chain, type) \in Chains(sheet, start, type)
<1> DEFINE m == chain.members
           parent == ParentStyle(sheet, Last(m))
           visited == {n \in DOMAIN m : sheet[m[n]].id = sheet[parent].id}
<1>1. CASE chain.blocked \/ ~HasParent(sheet, Last(m), type)
    BY <1>1 DEF Extended, Last
<1>2. CASE ~chain.blocked /\ HasParent(sheet, Last(m), type)
    <2>1. IsWalk(sheet, start, type, m) /\ m \in Seq(DOMAIN sheet)
        BY <1>2 DEF Chains, Chain
    <2>2. parent \in DOMAIN sheet BY <1>2, ParentIsAReferent
    <2>3. CASE visited # {}
        <3>1. visited \in SUBSET Nat /\ visited \subseteq 1 .. Len(m) BY <2>1
        <3>2. Min(visited) \in visited
            <4> HIDE DEF visited
            <4> QED BY <2>3, <3>1, LeastOf
        <3> DEFINE first == Min(visited)
        <3>3. first \in 1 .. Len(m) /\ sheet[m[first]].id = sheet[parent].id BY <3>1, <3>2
        <3>4. Extended(sheet, chain, type) = Chain(SubSeq(m, 1, first - 1), TRUE)
            BY <1>2, <2>3 DEF Extended, Closed, Last
        <3> HIDE DEF first, visited, m
        <3>5. ClosesAt(sheet, type, m, first) BY <1>2, <3>3 DEF ClosesAt
        <3>6. IsClosed(sheet, start, type, SubSeq(m, 1, first - 1))
            BY <2>1, <3>3, <3>5 DEF IsClosed
        <3> DEFINE kept == SubSeq(m, 1, first - 1)
        <3>7. kept \in Seq(DOMAIN sheet) BY <2>1, <3>3, SubSeqProperties
        <3>8. Extended(sheet, chain, type) = [members |-> kept, blocked |-> TRUE]
            BY <3>4 DEF Chain
        <3>9. IsClosed(sheet, start, type, kept) BY <3>6
        <3> HIDE DEF kept
        <3> QED BY <3>7, <3>8, <3>9 DEF Chains
    <2>4. CASE visited = {}
        <3> DEFINE w == Append(m, parent)
        <3>1. Extended(sheet, chain, type) = Chain(w, FALSE)
            BY <1>2, <2>4 DEF Extended, Last
        <3>2. /\ w \in Seq(DOMAIN sheet) /\ Len(w) = Len(m) + 1
              /\ \A k \in 1 .. Len(m) : w[k] = m[k]
              /\ w[Len(m) + 1] = parent
            BY <2>1, <2>2
        <3>3. IsWalk(sheet, start, type, w)
            <4> HIDE DEF w, m
            <4>1. m # <<>> /\ Len(m) \in Nat /\ Len(m) >= 1 BY <2>1 DEF IsWalk
            <4>2. w # <<>> /\ w[1] = start BY <2>1, <3>2, <4>1 DEF IsWalk
            <4>3. ASSUME NEW k \in 2 .. Len(w)
                  PROVE  HasParent(sheet, w[k - 1], type) /\ w[k] = ParentStyle(sheet, w[k - 1])
                <5>1. CASE k = Len(m) + 1
                    <6>1. w[k - 1] = Last(m) BY <3>2, <4>1, <5>1 DEF Last
                    <6> QED BY <1>2, <3>2, <5>1, <6>1
                <5>2. CASE k \in 2 .. Len(m)
                    <6>0. k - 1 \in 1 .. Len(m) /\ k \in 1 .. Len(m) BY <4>1, <5>2
                    <6>1. w[k - 1] = m[k - 1] /\ w[k] = m[k] BY <3>2, <6>0
                    <6>2. HasParent(sheet, m[k - 1], type) /\ m[k] = ParentStyle(sheet, m[k - 1])
                        BY <2>1, <5>2 DEF IsWalk
                    <6> QED BY <6>1, <6>2
                <5> QED BY <3>2, <4>1, <5>1, <5>2
            <4>4. \A k \in 1 .. Len(m) : sheet[m[k]].id # sheet[parent].id
                <5> USE DEF m
                <5> QED BY <2>1, <2>4
            <4>5. ASSUME NEW j \in 1 .. Len(w), NEW k \in 1 .. Len(w),
                         sheet[w[j]].id = sheet[w[k]].id
                  PROVE  j = k
                <5> HIDE DEF parent
                <5>1. CASE j <= Len(m) /\ k <= Len(m)
                    <6>1. w[j] = m[j] /\ w[k] = m[k] /\ j \in 1 .. Len(m) /\ k \in 1 .. Len(m)
                        BY <3>2, <4>1, <5>1
                    <6>2. sheet[m[j]].id = sheet[m[k]].id => j = k BY <2>1, <6>1 DEF IsWalk
                    <6> QED BY <4>5, <6>1, <6>2
                <5>2. CASE j = Len(m) + 1 /\ k <= Len(m) BY <3>2, <4>1, <4>4, <4>5, <5>2
                <5>3. CASE j <= Len(m) /\ k = Len(m) + 1 BY <3>2, <4>1, <4>4, <4>5, <5>3
                <5> QED BY <3>2, <4>1, <5>1, <5>2, <5>3
            <4> QED BY <3>2, <4>2, <4>3, <4>5 DEF IsWalk
        <3> HIDE DEF w
        <3> QED BY <3>1, <3>2, <3>3 DEF Chains, Chain
    <2> QED BY <2>3, <2>4
<1>3. chain.blocked \in BOOLEAN BY DEF Chains, Chain
<1> QED BY <1>1, <1>2, <1>3

(***************************************************************************)
(* The steps of the walk, each of which is a chain.                        *)
(***************************************************************************)
IsRun(sheet, start, type, walk) ==
    /\ walk \in [0 .. Len(sheet) -> Chains(sheet, start, type)]
    /\ walk[0] = Chain(<<start>>, FALSE)
    /\ \A n \in 1 .. Len(sheet) : walk[n] = Extended(sheet, walk[n - 1], type)

LEMMA StartIsAChain ==
    ASSUME NEW E, NEW sheet \in Seq(E), NEW start \in DOMAIN sheet, NEW type
    PROVE  Chain(<<start>>, FALSE) \in Chains(sheet, start, type)
<1>1. <<start>> \in Seq(DOMAIN sheet) /\ Len(<<start>>) = 1 OBVIOUS
<1>2. IsWalk(sheet, start, type, <<start>>) BY <1>1 DEF IsWalk
<1> QED BY <1>1, <1>2 DEF Chains, Chain

LEMMA ChainFromIsARun ==
    ASSUME NEW E, NEW sheet \in Seq(E), NEW start \in DOMAIN sheet, NEW type
    PROVE  \E walk : IsRun(sheet, start, type, walk)
                     /\ ChainFrom(sheet, start, type) = walk[Len(sheet)]
<1> DEFINE N == Len(sheet)
           X == Chains(sheet, start, type)
           first == Chain(<<start>>, FALSE)
           step == [p \in Nat \X X |-> Extended(sheet, p[2], type)]
           IsTheWalk(w) ==
               w = [n \in 0 .. N |-> IF n = 0 THEN first ELSE Extended(sheet, w[n - 1], type)]
           walk == CHOOSE w : IsTheWalk(w)
<1>0. N \in Nat OBVIOUS
<1>1. first \in X BY StartIsAChain
<1>2. step \in [Nat \X X -> X] BY ExtendedIsAChain
<1>3. PICK f \in [0 .. N -> X] : f[0] = first /\ \A n \in 1 .. N : f[n] = step[<<n, f[n - 1]>>]
    <2> HIDE DEF N, X, first, step
    <2>1. N \in Nat /\ first \in X /\ step \in [Nat \X X -> X] BY <1>0, <1>1, <1>2
    <2>2. IsDefinedUpTo(N, X, first, step) BY <2>1, NatRecursionUpTo
    <2> QED BY <2>2 DEF IsDefinedUpTo
<1>4. \A n \in 1 .. N : f[n] = Extended(sheet, f[n - 1], type)
    <2> SUFFICES ASSUME NEW n \in 1 .. N PROVE f[n] = Extended(sheet, f[n - 1], type) OBVIOUS
    <2>1. n \in Nat /\ n - 1 \in 0 .. N BY <1>0
    <2>2. f[n - 1] \in X BY <2>1, <1>3
    <2>3. step[<<n, f[n - 1]>>] = Extended(sheet, f[n - 1], type) BY <2>1, <2>2
    <2> QED BY <1>3, <2>3
<1>5. IsTheWalk(f)
    <2> DEFINE g == [n \in 0 .. N |-> IF n = 0 THEN first ELSE Extended(sheet, f[n - 1], type)]
    <2>1. \A n \in 0 .. N : f[n] = g[n]
        <3> HIDE DEF first, N
        <3> QED BY <1>0, <1>3, <1>4
    <2>2. f = g
        <3> HIDE DEF first, N, X, step
        <3> QED BY <1>3, <2>1
    <2> QED BY <2>2
<1>6. IsTheWalk(walk) BY <1>5
<1>7. walk[0] = first /\ \A n \in 1 .. N : walk[n] = Extended(sheet, walk[n - 1], type)
    BY <1>0, <1>6
<1>8. \A n \in 0 .. N : walk[n] \in X
    <2> DEFINE S == {n \in 0 .. N : walk[n] \in X}
    <2>1. 0 \in S
        <3> HIDE DEF X, N, walk, first
        <3> QED BY <1>0, <1>1, <1>7
    <2>2. ASSUME NEW n \in 0 .. N - 1, n \in S PROVE n + 1 \in S
        <3>1. n + 1 \in 1 .. N /\ (n + 1) - 1 = n BY <1>0
        <3>2. walk[n + 1] = Extended(sheet, walk[n], type) BY <1>7, <3>1
        <3>3. walk[n + 1] \in X BY <2>2, <3>2, ExtendedIsAChain
        <3> QED BY <3>1, <3>3
    <2>3. \A n \in 0 .. N : n \in S
        <3> HIDE DEF S, N
        <3> QED BY <1>0, <2>1, <2>2, NatInductionUpTo
    <2> QED BY <2>3
<1>9. walk \in [0 .. N -> X] BY <1>6, <1>8
<1>10. ChainFrom(sheet, start, type) = walk[N] BY DEF ChainFrom
<1> HIDE DEF walk
<1> QED BY <1>7, <1>9, <1>10 DEF IsRun

(***************************************************************************)
(* A walk of one step for every style of the sheet has come to its end:    *)
(* its styles are distinct.                                                *)
(***************************************************************************)
LEMMA WalksAreShort ==
    ASSUME NEW E, NEW sheet \in Seq(E), NEW start, NEW type, NEW m,
           IsWalk(sheet, start, type, m)
    PROVE  Len(m) <= Len(sheet)
<1>1. m \in Seq(DOMAIN sheet) /\ Len(m) \in Nat /\ Len(sheet) \in Nat
      /\ DOMAIN sheet = 1 .. Len(sheet) /\ m \in [1 .. Len(m) -> 1 .. Len(sheet)]
    BY DEF IsWalk
<1>2. IsFiniteSet(1 .. Len(m)) /\ Cardinality(1 .. Len(m)) = Len(m)
      /\ IsFiniteSet(1 .. Len(sheet)) /\ Cardinality(1 .. Len(sheet)) = Len(sheet)
    <2>1. \A n \in Nat : IsFiniteSet(1 .. n) /\ Cardinality(1 .. n) = n
        <3> TAKE n \in Nat
        <3>1. IsFiniteSet(1 .. n) /\ Cardinality(1 .. n) = IF 1 > n THEN 0 ELSE n - 1 + 1
            BY FS_Interval
        <3> QED BY <3>1
    <2> QED BY <1>1, <2>1
<1>3. SUFFICES ASSUME Len(sheet) < Len(m) PROVE FALSE BY <1>1
<1>4. PICK j \in 1 .. Len(m), k \in 1 .. Len(m) : j # k /\ m[j] = m[k]
    BY <1>1, <1>2, <1>3, FS_PigeonHole
<1>5. \A x, y \in 1 .. Len(m) : sheet[m[x]].id = sheet[m[y]].id => x = y BY DEF IsWalk
<1> QED BY <1>4, <1>5

LEMMA ChainsEnd ==
    ASSUME NEW E, NEW sheet \in Seq(E), NEW start \in DOMAIN sheet, NEW type
    PROVE  LET chain == ChainFrom(sheet, start, type)
           IN  /\ chain \in Chains(sheet, start, type)
               /\ chain.blocked \/ ~HasParent(sheet, Last(chain.members), type)
<1> DEFINE N == Len(sheet)
           X == Chains(sheet, start, type)
           Ends(chain) == chain.blocked \/ ~HasParent(sheet, Last(chain.members), type)
<1>1. PICK walk : IsRun(sheet, start, type, walk)
                  /\ ChainFrom(sheet, start, type) = walk[N]
    BY ChainFromIsARun
<1>2. /\ walk \in [0 .. N -> X] /\ walk[0] = Chain(<<start>>, FALSE)
      /\ \A n \in 1 .. N : walk[n] = Extended(sheet, walk[n - 1], type)
    BY <1>1 DEF IsRun
<1>3. N \in Nat OBVIOUS
<1> DEFINE S == {n \in 0 .. N : Ends(walk[n]) \/ Len(walk[n].members) = n + 1}
<1>4. 0 \in S BY <1>2, <1>3 DEF Chain
<1>5. ASSUME NEW n \in 0 .. N - 1, n \in S PROVE n + 1 \in S
    <2>1. n \in 0 .. N /\ n + 1 \in 1 .. N /\ n + 1 \in 0 .. N /\ (n + 1) - 1 = n BY <1>3
    <2>2. walk[n + 1] = Extended(sheet, walk[n], type) BY <1>2, <2>1
    <2>3. walk[n] \in X BY <1>2, <2>1
    <2>4. CASE Ends(walk[n])
        <3>1. walk[n + 1] = walk[n] BY <2>2, <2>4 DEF Extended, Last
        <3> QED BY <2>1, <2>4, <3>1
    <2>5. CASE ~Ends(walk[n]) /\ Len(walk[n].members) = n + 1
        <3>1. \/ walk[n + 1].blocked
              \/ walk[n + 1].members = Append(walk[n].members, ParentStyle(sheet, Last(walk[n].members)))
            <4> DEFINE c == walk[n]
                       p == ParentStyle(sheet, Last(c.members))
                       visited == {k \in DOMAIN c.members : sheet[c.members[k]].id = sheet[p].id}
            <4>1. Extended(sheet, c, type) = IF visited # {} THEN Closed(c.members, Min(visited))
                                             ELSE Chain(Append(c.members, p), FALSE)
                BY <2>5 DEF Extended, Last
            <4> HIDE DEF c, p, visited
            <4>2. \/ Extended(sheet, c, type).blocked
                  \/ Extended(sheet, c, type).members = Append(c.members, p)
                BY <4>1 DEF Closed, Chain
            <4> QED BY <2>2, <4>2 DEF c, p
        <3>2. walk[n].members \in Seq(DOMAIN sheet) BY <2>3 DEF Chains
        <3>3. ParentStyle(sheet, Last(walk[n].members)) \in DOMAIN sheet BY <2>5, ParentIsAReferent
        <3>4. Ends(walk[n + 1]) \/ Len(walk[n + 1].members) = (n + 1) + 1
            <4> HIDE DEF X, S
            <4> QED BY <2>1, <2>5, <3>1, <3>2, <3>3
        <3> QED BY <2>1, <3>4
    <2> QED BY <1>5, <2>4, <2>5
<1>6. N \in S
    <2>1. N \in 0 .. N BY <1>3
    <2> HIDE DEF S, N
    <2> QED BY <1>3, <1>4, <1>5, <2>1, NatInductionUpTo
<1>7. walk[N] \in X BY <1>2, <1>3
<1>8. ASSUME ~Ends(walk[N]) PROVE FALSE
    <2>1. Len(walk[N].members) = N + 1 BY <1>6, <1>8
    <2>2. IsWalk(sheet, start, type, walk[N].members) BY <1>7, <1>8 DEF Chains
    <2> QED BY <1>3, <2>1, <2>2, WalksAreShort
<1> QED BY <1>1, <1>7, <1>8

-------------------------------------------------------------------------------
(***************************************************************************)
(* Cycles: a style whose ancestors are all in a set it is not a member of  *)
(* is in no cycle; the later styles of a chain are such a set.             *)
(***************************************************************************)
LEMMA NotItsOwnAncestor ==
    ASSUME NEW E, NEW sheet \in Seq(E), NEW i \in DOMAIN sheet, NEW type,
           NEW S, i \notin S,
           \A j \in S \cup {i} : HasParent(sheet, j, type) => ParentStyle(sheet, j) \in S
    PROVE  ~InCycle(sheet, i, type)
<1> DEFINE N == Len(sheet)
           X == SUBSET (DOMAIN sheet)
           Parents(T) == {ParentStyle(sheet, j) : j \in {k \in T : HasParent(sheet, k, type)}}
           step == [p \in Nat \X X |-> Parents(p[2])]
           AreTheAncestors(u) ==
               u = [n \in 0 .. N |-> IF n = 0 THEN {i} ELSE Parents(u[n - 1])]
           up == CHOOSE u : AreTheAncestors(u)
<1>0. N \in Nat OBVIOUS
<1>1. {i} \in X OBVIOUS
<1>2. step \in [Nat \X X -> X]
    <2>1. \A T \in X : Parents(T) \in X BY ParentIsAReferent
    <2> HIDE DEF X, Parents
    <2> QED BY <2>1
<1>3. PICK f \in [0 .. N -> X] : f[0] = {i} /\ \A n \in 1 .. N : f[n] = step[<<n, f[n - 1]>>]
    <2> HIDE DEF N, X, step
    <2>1. IsDefinedUpTo(N, X, {i}, step) BY <1>0, <1>1, <1>2, NatRecursionUpTo
    <2> QED BY <2>1 DEF IsDefinedUpTo
<1>4. \A n \in 1 .. N : f[n] = Parents(f[n - 1])
    <2> SUFFICES ASSUME NEW n \in 1 .. N PROVE f[n] = Parents(f[n - 1]) OBVIOUS
    <2> HIDE DEF X, Parents
    <2>1. n \in Nat /\ n - 1 \in 0 .. N BY <1>0
    <2>2. f[n - 1] \in X BY <2>1, <1>3
    <2>3. step[<<n, f[n - 1]>>] = Parents(f[n - 1]) BY <2>1, <2>2
    <2> QED BY <1>3, <2>3
<1>5. AreTheAncestors(f)
    <2> DEFINE g == [n \in 0 .. N |-> IF n = 0 THEN {i} ELSE Parents(f[n - 1])]
    <2> HIDE DEF N, X, Parents, step
    <2>1. \A n \in 0 .. N : f[n] = g[n] BY <1>0, <1>3, <1>4
    <2>2. f = g BY <1>3, <2>1
    <2> QED BY <2>2
<1>6. AreTheAncestors(up) BY <1>5
<1>7. up[0] = {i} /\ \A n \in 1 .. N : up[n] = Parents(up[n - 1])
    <2> HIDE DEF Parents
    <2> QED BY <1>0, <1>6
<1>8. \A n \in 1 .. N : up[n] \subseteq S
    <2> DEFINE Above == {n \in 0 .. N : n # 0 => up[n] \subseteq S}
    <2>1. 0 \in Above BY <1>0
    <2>2. ASSUME NEW n \in 0 .. N - 1, n \in Above PROVE n + 1 \in Above
        <3>1. n \in 0 .. N /\ n + 1 \in 1 .. N /\ n + 1 \in 0 .. N /\ (n + 1) - 1 = n BY <1>0
        <3>2. up[n + 1] = Parents(up[n]) BY <1>7, <3>1
        <3> HIDE DEF up
        <3>3. up[n] \subseteq S \cup {i} BY <1>7, <2>2
        <3>4. up[n + 1] \subseteq S BY <3>2, <3>3
        <3> QED BY <3>1, <3>4
    <2>3. \A n \in 0 .. N : n \in Above
        <3> HIDE DEF Above, N
        <3> QED BY <1>0, <2>1, <2>2, NatInductionUpTo
    <2> QED BY <2>3
<1>9. InCycle(sheet, i, type) = \E n \in 1 .. N : up[n] = {i} BY DEF InCycle
<1> HIDE DEF up
<1> QED BY <1>8, <1>9

LEMMA WalkMembersAreReferents ==
    ASSUME NEW E, NEW sheet \in Seq(E), NEW start, NEW type, NEW m,
           IsWalk(sheet, start, type, m), NEW k \in 2 .. Len(m)
    PROVE  m[k] = Referent(sheet, sheet[m[k]].id) /\ sheet[m[k]].id # NoId
<1>1. HasParent(sheet, m[k - 1], type) /\ m[k] = ParentStyle(sheet, m[k - 1]) BY DEF IsWalk
<1> QED BY <1>1, ParentIsAReferent

LEMMA ChainsAvoidCycles ==
    ASSUME NEW E, NEW sheet \in Seq(E), NEW start \in DOMAIN sheet, NEW type,
           NEW chain \in Chains(sheet, start, type),
           chain.blocked \/ ~HasParent(sheet, Last(chain.members), type),
           NEW k \in 1 .. Len(chain.members)
    PROVE  ~InCycle(sheet, chain.members[k], type)
<1>1. CASE ~chain.blocked
    <2> DEFINE m == chain.members
               Later == {m[j] : j \in k + 1 .. Len(m)}
    <2>1. IsWalk(sheet, start, type, m) /\ ~HasParent(sheet, Last(m), type)
        BY <1>1 DEF Chains
    <2> HIDE DEF m
    <2>2. m \in Seq(DOMAIN sheet) /\ Len(m) \in Nat /\ k \in 1 .. Len(m) BY <2>1 DEF IsWalk, m
    <2>3. m[k] \in DOMAIN sheet BY <2>2
    <2>4. m[k] \notin Later
        <3>1. \A j \in 1 .. Len(m) : m[j] = m[k] => j = k BY <2>1, <2>2 DEF IsWalk
        <3> QED BY <2>2, <3>1
    <2>5. ASSUME NEW j \in Later \cup {m[k]}, HasParent(sheet, j, type)
          PROVE  ParentStyle(sheet, j) \in Later
        <3>1. PICK n \in k .. Len(m) : j = m[n] BY <2>2, <2>5
        <3>2. n # Len(m) BY <2>1, <2>5, <3>1 DEF Last
        <3>3. n + 1 \in k + 1 .. Len(m) /\ n + 1 \in 2 .. Len(m) /\ (n + 1) - 1 = n
            BY <2>2, <3>1, <3>2
        <3>4. m[n + 1] = ParentStyle(sheet, m[n]) BY <2>1, <3>3 DEF IsWalk
        <3> QED BY <3>1, <3>3, <3>4
    <2> HIDE DEF Later
    <2>6. ~InCycle(sheet, m[k], type) BY <2>3, <2>4, <2>5, NotItsOwnAncestor
    <2> QED BY <2>6 DEF m
<1>2. CASE chain.blocked
    <2>0. PICK w \in Seq(DOMAIN sheet) : \E first \in 1 .. Len(w) :
              /\ IsWalk(sheet, start, type, w) /\ ClosesAt(sheet, type, w, first)
              /\ chain.members = SubSeq(w, 1, first - 1)
        BY <1>2 DEF Chains, IsClosed
    <2>1. PICK first \in 1 .. Len(w) :
              /\ IsWalk(sheet, start, type, w) /\ ClosesAt(sheet, type, w, first)
              /\ chain.members = SubSeq(w, 1, first - 1)
        BY <2>0
    <2> DEFINE m == chain.members
               Later == {w[j] : j \in k + 1 .. Len(w)}
    <2>2. Len(w) \in Nat /\ k \in 1 .. first - 1 /\ m[k] = w[k] /\ w[k] \in DOMAIN sheet
        BY <2>1, SubSeqProperties
    <2>3. w[k] \notin Later
        <3>0. k \in 1 .. Len(w) BY <2>2
        <3>1. \A j \in 1 .. Len(w) : w[j] = w[k] => j = k BY <2>1, <3>0 DEF IsWalk
        <3> QED BY <2>2, <3>1
    <2>4. ParentStyle(sheet, Last(w)) = w[first]
        <3>1. first \in 2 .. Len(w) BY <2>2
        <3>2. w[first] = Referent(sheet, sheet[w[first]].id)
            BY <2>1, <3>1, WalkMembersAreReferents
        <3>3. HasParent(sheet, Last(w), type)
              /\ sheet[w[first]].id = sheet[ParentStyle(sheet, Last(w))].id
            BY <2>1 DEF ClosesAt
        <3> QED BY <3>2, <3>3, ParentIsAReferent
    <2>5. ASSUME NEW j \in Later \cup {w[k]}, HasParent(sheet, j, type)
          PROVE  ParentStyle(sheet, j) \in Later
        <3>1. PICK n \in k .. Len(w) : j = w[n] BY <2>2, <2>5
        <3>2. CASE n = Len(w)
            <4>1. first \in k + 1 .. Len(w) BY <2>2
            <4> QED BY <2>4, <3>1, <3>2, <4>1 DEF Last
        <3>3. CASE n # Len(w)
            <4>1. n + 1 \in k + 1 .. Len(w) /\ n + 1 \in 2 .. Len(w) /\ (n + 1) - 1 = n
                BY <2>2, <3>1, <3>3
            <4>2. w[n + 1] = ParentStyle(sheet, w[n]) BY <2>1, <4>1 DEF IsWalk
            <4> QED BY <3>1, <4>1, <4>2
        <3> QED BY <3>2, <3>3
    <2> HIDE DEF Later
    <2>6. ~InCycle(sheet, w[k], type) BY <2>2, <2>3, <2>5, NotItsOwnAncestor
    <2> QED BY <2>2, <2>6
<1>3. chain.blocked \in BOOLEAN BY DEF Chains
<1> QED BY <1>1, <1>2, <1>3

-------------------------------------------------------------------------------
(***************************************************************************)
(* The style sheet is a sequence of styles in every state.                 *)
(***************************************************************************)
Sheet == styles \in Seq(Entries)

LEMMA SheetInvariant == Spec => []Sheet
<1>1. Init => Sheet BY DEF Init, Sheet
<1>2. Sheet /\ [Next]_vars => Sheet' BY DEF Sheet, Next, ReadStyle, vars
<1> QED BY <1>1, <1>2, PTL DEF Spec

LEMMA StartIsAStyle ==
    ASSUME NEW E, NEW sheet \in Seq(E), NEW ref, NEW type
    PROVE  Start(sheet, ref, type) \subseteq DOMAIN sheet
<1>1. CASE ref # NoId BY <1>1 DEF Start, Definitions
<1>2. CASE ref = NoId /\ type = "paragraph" /\ Defaults(sheet, type) # {}
    <2>1. Len(sheet) \in Nat /\ Defaults(sheet, type) \in SUBSET (0 .. Len(sheet))
        BY DEF Defaults
    <2>2. Max(Defaults(sheet, type)) \in Defaults(sheet, type) BY <1>2, <2>1, GreatestOf
    <2> QED BY <1>2, <2>2 DEF Start, Defaults
<1>3. CASE ref = NoId /\ ~(type = "paragraph" /\ Defaults(sheet, type) # {})
    BY <1>3 DEF Start
<1> QED BY <1>1, <1>2, <1>3

(***************************************************************************)
(* A chain without styles, or one the walk has come to the end of.         *)
(***************************************************************************)
LEMMA ChainOfReference ==
    ASSUME NEW E, NEW sheet \in Seq(E), NEW ref, NEW type
    PROVE  LET chain == ChainOf(sheet, ref, type)
           IN  \/ chain.members = <<>>
               \/ \E start \in Start(sheet, ref, type) :
                      /\ chain = ChainFrom(sheet, start, type)
                      /\ chain \in Chains(sheet, start, type)
                      /\ chain.blocked \/ ~HasParent(sheet, Last(chain.members), type)
<1> DEFINE start == CHOOSE i \in Start(sheet, ref, type) : TRUE
<1>1. CASE partStatus = "unreadable" \/ Start(sheet, ref, type) = {}
    BY <1>1 DEF ChainOf, Chain
<1>2. CASE ~(partStatus = "unreadable" \/ Start(sheet, ref, type) = {})
    <2>1. start \in Start(sheet, ref, type) BY <1>2
    <2>2. start \in DOMAIN sheet BY <2>1, StartIsAStyle
    <2>3. ChainOf(sheet, ref, type) = ChainFrom(sheet, start, type) BY <1>2 DEF ChainOf
    <2> HIDE DEF start
    <2> QED BY <2>1, <2>2, <2>3, ChainsEnd
<1> QED BY <1>1, <1>2

(***************************************************************************)
(* No style that is its own ancestor contributes to any resolution, and a  *)
(* chain is only ever cut short by a blocked level (_style_chain_levels):  *)
(* for every style sheet, however long.                                    *)
(***************************************************************************)
THEOREM NoCycleContributes == Spec => []CyclesDoNotContribute
<1>1. Sheet => CyclesDoNotContribute
    <2> SUFFICES ASSUME Sheet, NEW t \in Typed
                 PROVE  LET chain == ChainOf(styles, t[1], t[2])
                            m == chain.members
                        IN  /\ \A i \in Range(m) : ~InCycle(styles, i, t[2])
                            /\ (~chain.blocked /\ m # <<>>) => ~HasParent(styles, m[Len(m)], t[2])
        BY DEF CyclesDoNotContribute
    <2> DEFINE chain == ChainOf(styles, t[1], t[2])
               type == t[2]
    <2>1. styles \in Seq(Entries) BY DEF Sheet
    <2>2. \/ chain.members = <<>>
          \/ \E start \in Start(styles, t[1], type) :
                 /\ chain = ChainFrom(styles, start, type)
                 /\ chain \in Chains(styles, start, type)
                 /\ chain.blocked \/ ~HasParent(styles, Last(chain.members), type)
        BY <2>1, ChainOfReference
    <2> HIDE DEF chain, type
    <2>3. CASE chain.members = <<>> BY <2>3 DEF Range, chain
    <2>4. CASE chain.members # <<>>
        <3>1. PICK start \in Start(styles, t[1], type) :
                 /\ chain \in Chains(styles, start, type)
                 /\ chain.blocked \/ ~HasParent(styles, Last(chain.members), type)
            BY <2>2, <2>4
        <3>2. start \in DOMAIN styles BY <2>1, StartIsAStyle
        <3>3. \A k \in 1 .. Len(chain.members) : ~InCycle(styles, chain.members[k], type)
            BY <2>1, <3>1, <3>2, ChainsAvoidCycles
        <3>4. chain.members \in Seq(DOMAIN styles) BY <3>1 DEF Chains
        <3>5. \A i \in Range(chain.members) : ~InCycle(styles, i, type)
            BY <3>3, <3>4 DEF Range
        <3> QED BY <3>1, <3>5 DEF chain, type, Last
    <2> QED BY <2>3, <2>4
<1> QED BY <1>1, SheetInvariant, PTL

-------------------------------------------------------------------------------
(***************************************************************************)
(* A later style of an identifier that has one changes no referent, and so *)
(* neither parents nor walks.                                              *)
(***************************************************************************)
TakesNothingOver(sheet, entry) ==
    ~entry.default /\ (entry.id = NoId \/ IsDefined(sheet, entry.id))

LEMMA ReferentsStay ==
    ASSUME NEW E, NEW sheet \in Seq(E), NEW entry \in E, TakesNothingOver(sheet, entry), NEW id
    PROVE  LET after == Append(sheet, entry)
           IN  /\ IsDefined(after, id) <=> IsDefined(sheet, id)
               /\ IsDefined(sheet, id) =>
                      /\ Referent(after, id) = Referent(sheet, id)
                      /\ after[Referent(sheet, id)] = sheet[Referent(sheet, id)]
<1> DEFINE after == Append(sheet, entry)
<1>1. /\ Len(sheet) \in Nat /\ after \in Seq(E) /\ DOMAIN after = 1 .. Len(sheet) + 1
      /\ DOMAIN sheet = 1 .. Len(sheet)
      /\ \A i \in DOMAIN sheet : after[i] = sheet[i]
      /\ after[Len(sheet) + 1] = entry
    OBVIOUS
<1> HIDE DEF after
<1>2. Definitions(after, id) = Definitions(sheet, id)
                                   \cup {i \in {Len(sheet) + 1} : entry.id = id}
    BY <1>1 DEF Definitions
<1>3. IsDefined(after, id) <=> IsDefined(sheet, id)
    <2>1. CASE entry.id # id \/ id = NoId BY <1>2, <2>1 DEF IsDefined
    <2>2. CASE entry.id = id /\ id # NoId BY <1>2, <2>2 DEF IsDefined, TakesNothingOver
    <2> QED BY <2>1, <2>2
<1>4. ASSUME IsDefined(sheet, id)
      PROVE  /\ Referent(after, id) = Referent(sheet, id)
             /\ after[Referent(sheet, id)] = sheet[Referent(sheet, id)]
    <2>1. /\ Referent(sheet, id) \in DOMAIN sheet
          /\ Referent(sheet, id) \in Definitions(sheet, id)
          /\ \A i \in Definitions(sheet, id) : Referent(sheet, id) <= i
        BY <1>4, ReferentIsADefinition DEF Definitions
    <2>2. /\ Referent(after, id) \in Definitions(after, id)
          /\ \A i \in Definitions(after, id) : Referent(after, id) <= i
        BY <1>1, <1>3, <1>4, ReferentIsADefinition DEF Definitions
    <2>3. Referent(after, id) <= Referent(sheet, id) BY <1>2, <2>1, <2>2
    <2>4. Referent(after, id) \in Definitions(sheet, id) BY <1>1, <1>2, <2>1, <2>2, <2>3
    <2>5. Referent(sheet, id) <= Referent(after, id) BY <2>1, <2>4
    <2>6. Definitions(sheet, id) \subseteq Nat BY <1>1 DEF Definitions
    <2> QED BY <1>1, <2>1, <2>3, <2>4, <2>5, <2>6
<1> QED BY <1>3, <1>4 DEF after

LEMMA ParentsStay ==
    ASSUME NEW E, NEW sheet \in Seq(E), NEW entry \in E, TakesNothingOver(sheet, entry),
           NEW i \in DOMAIN sheet, NEW type
    PROVE  /\ HasParent(Append(sheet, entry), i, type) <=> HasParent(sheet, i, type)
           /\ HasParent(sheet, i, type) =>
                  ParentStyle(Append(sheet, entry), i) = ParentStyle(sheet, i)
<1>1. Append(sheet, entry)[i] = sheet[i] OBVIOUS
<1> DEFINE after == Append(sheet, entry)
<1> HIDE DEF after
<1>2. after[i] = sheet[i] BY <1>1 DEF after
<1>3. /\ IsDefined(after, sheet[i].basedOn) <=> IsDefined(sheet, sheet[i].basedOn)
      /\ IsDefined(sheet, sheet[i].basedOn) =>
             /\ Referent(after, sheet[i].basedOn) = Referent(sheet, sheet[i].basedOn)
             /\ after[Referent(sheet, sheet[i].basedOn)] = sheet[Referent(sheet, sheet[i].basedOn)]
    BY ReferentsStay DEF after
<1>4. /\ HasParent(after, i, type) <=> HasParent(sheet, i, type)
      /\ HasParent(sheet, i, type) => ParentStyle(after, i) = ParentStyle(sheet, i)
    BY <1>2, <1>3 DEF HasParent, ParentStyle
<1> QED BY <1>4 DEF after

LEMMA ExtensionsStay ==
    ASSUME NEW E, NEW sheet \in Seq(E), NEW entry \in E, TakesNothingOver(sheet, entry),
           NEW start \in DOMAIN sheet, NEW type, NEW chain \in Chains(sheet, start, type)
    PROVE  Extended(Append(sheet, entry), chain, type) = Extended(sheet, chain, type)
<1> DEFINE after == Append(sheet, entry)
           m == chain.members
           parent == ParentStyle(sheet, Last(m))
<1>0. \A i \in DOMAIN sheet : after[i] = sheet[i] OBVIOUS
<1>1. chain.blocked => Extended(after, chain, type) = Extended(sheet, chain, type)
    BY DEF Extended
<1>2. ASSUME ~chain.blocked PROVE Extended(after, chain, type) = Extended(sheet, chain, type)
    <2>1. m \in Seq(DOMAIN sheet) /\ Last(m) \in DOMAIN sheet
        <3>1. IsWalk(sheet, start, type, m) /\ m \in Seq(DOMAIN sheet)
            BY <1>2 DEF Chains
        <3> HIDE DEF m
        <3> QED BY <3>1 DEF IsWalk, Last
    <2>2. /\ HasParent(after, Last(m), type) <=> HasParent(sheet, Last(m), type)
          /\ HasParent(sheet, Last(m), type) => ParentStyle(after, Last(m)) = parent
        BY <2>1, ParentsStay
    <2> HIDE DEF after
    <2>3. CASE ~HasParent(sheet, Last(m), type) BY <2>2, <2>3 DEF Extended, Last
    <2>4. CASE HasParent(sheet, Last(m), type)
        <3>1. parent \in DOMAIN sheet BY <2>4, ParentIsAReferent
        <3> DEFINE visited(s) == {n \in DOMAIN m : s[m[n]].id = s[parent].id}
        <3>2. visited(after) = visited(sheet) BY <1>0, <2>1, <3>1
        <3>3. \A s \in {sheet, after} :
                  Extended(s, chain, type) =
                      IF visited(s) # {} THEN Closed(m, Min(visited(s)))
                      ELSE Chain(Append(m, parent), FALSE)
            <4> TAKE s \in {sheet, after}
            <4>1. HasParent(s, Last(m), type) /\ ParentStyle(s, Last(m)) = parent BY <2>2, <2>4
            <4> QED BY <1>2, <4>1 DEF Extended, Last
        <3>4. Extended(after, chain, type) =
                  IF visited(after) # {} THEN Closed(m, Min(visited(after)))
                  ELSE Chain(Append(m, parent), FALSE)
            BY <3>3
        <3>5. Extended(sheet, chain, type) =
                  IF visited(sheet) # {} THEN Closed(m, Min(visited(sheet)))
                  ELSE Chain(Append(m, parent), FALSE)
            BY <3>3
        <3> HIDE DEF visited
        <3> QED BY <3>2, <3>4, <3>5
    <2> QED BY <2>3, <2>4
<1>3. chain.blocked \in BOOLEAN BY DEF Chains
<1> QED BY <1>1, <1>2, <1>3

LEMMA WalksStay ==
    ASSUME NEW E, NEW sheet \in Seq(E), NEW entry \in E, TakesNothingOver(sheet, entry),
           NEW start \in DOMAIN sheet, NEW type
    PROVE  ChainFrom(Append(sheet, entry), start, type) = ChainFrom(sheet, start, type)
<1> DEFINE after == Append(sheet, entry)
           N == Len(sheet)
           X == Chains(sheet, start, type)
           chain == ChainFrom(sheet, start, type)
<1>1. /\ N \in Nat /\ after \in Seq(E) /\ Len(after) = N + 1
      /\ start \in DOMAIN after
    OBVIOUS
<1>2. PICK old : IsRun(sheet, start, type, old) /\ chain = old[N] BY ChainFromIsARun
<1>3. PICK new : IsRun(after, start, type, new) /\ ChainFrom(after, start, type) = new[N + 1]
    <2> HIDE DEF after, N
    <2>1. PICK new : IsRun(after, start, type, new)
                     /\ ChainFrom(after, start, type) = new[Len(after)]
        BY <1>1, ChainFromIsARun
    <2> QED BY <1>1, <2>1
<1>4. /\ old[0] = Chain(<<start>>, FALSE) /\ new[0] = Chain(<<start>>, FALSE)
      /\ \A n \in 1 .. N : old[n] = Extended(sheet, old[n - 1], type)
      /\ \A n \in 1 .. N + 1 : new[n] = Extended(after, new[n - 1], type)
      /\ \A n \in 0 .. N : old[n] \in X
    BY <1>1, <1>2, <1>3 DEF IsRun
<1> DEFINE S == {n \in 0 .. N : new[n] = old[n]}
<1>5. 0 \in S
    <2>1. 0 \in 0 .. N BY <1>1
    <2>2. new[0] = old[0] BY <1>4
    <2> QED BY <2>1, <2>2
<1>6. ASSUME NEW n \in 0 .. N - 1, n \in S PROVE n + 1 \in S
    <2>1. /\ n \in 0 .. N /\ n + 1 \in 1 .. N /\ n + 1 \in 0 .. N /\ n + 1 \in 1 .. N + 1
          /\ (n + 1) - 1 = n
        BY <1>1
    <2>2. old[n + 1] = Extended(sheet, old[n], type) BY <1>4, <2>1
    <2>3. new[n + 1] = Extended(after, old[n], type) BY <1>4, <1>6, <2>1
    <2>4. Extended(after, old[n], type) = Extended(sheet, old[n], type)
        BY <1>4, <2>1, ExtensionsStay
    <2> QED BY <2>1, <2>2, <2>3, <2>4
<1>7. new[N] = old[N]
    <2>1. N \in 0 .. N BY <1>1
    <2> HIDE DEF S, N
    <2>2. N \in S BY <1>1, <1>5, <1>6, <2>1, NatInductionUpTo
    <2> QED BY <2>2 DEF S
<1>8. chain \in X /\ (chain.blocked \/ ~HasParent(sheet, Last(chain.members), type))
    BY ChainsEnd
<1>9. new[N + 1] = Extended(after, chain, type)
    <2>1. N + 1 \in 1 .. N + 1 /\ (N + 1) - 1 = N BY <1>1
    <2> QED BY <1>2, <1>4, <1>7, <2>1
<1>10. Extended(after, chain, type) = Extended(sheet, chain, type)
    BY <1>8, ExtensionsStay
<1>11. Extended(sheet, chain, type) = chain BY <1>8 DEF Extended, Last
<1> QED BY <1>3, <1>9, <1>10, <1>11

LEMMA StartsStay ==
    ASSUME NEW E, NEW sheet \in Seq(E), NEW entry \in E, TakesNothingOver(sheet, entry),
           NEW ref, NEW type
    PROVE  Start(Append(sheet, entry), ref, type) = Start(sheet, ref, type)
<1> DEFINE after == Append(sheet, entry)
<1>1. /\ Len(sheet) \in Nat /\ after \in Seq(E) /\ DOMAIN after = 1 .. Len(sheet) + 1
      /\ DOMAIN sheet = 1 .. Len(sheet)
      /\ \A i \in DOMAIN sheet : after[i] = sheet[i]
      /\ after[Len(sheet) + 1] = entry
    OBVIOUS
<1>2. /\ IsDefined(after, ref) <=> IsDefined(sheet, ref)
      /\ IsDefined(sheet, ref) =>
             /\ Referent(after, ref) = Referent(sheet, ref)
             /\ after[Referent(sheet, ref)] = sheet[Referent(sheet, ref)]
    BY ReferentsStay
<1> HIDE DEF after
<1>3. Defaults(after, type) = Defaults(sheet, type)
    BY <1>1 DEF Defaults, TakesNothingOver
<1>4. CASE ref = NoId BY <1>3, <1>4 DEF Start, after
<1>5. CASE ref # NoId /\ ~IsDefined(sheet, ref)
    <2>1. Definitions(sheet, ref) = {} /\ Definitions(after, ref) = {}
        BY <1>2, <1>5 DEF IsDefined
    <2> QED BY <1>5, <2>1 DEF Start, after
<1>6. CASE ref # NoId /\ IsDefined(sheet, ref)
    <2>1. /\ Referent(sheet, ref) \in Definitions(sheet, ref)
          /\ Referent(after, ref) \in Definitions(after, ref)
        BY <1>1, <1>2, <1>6, ReferentIsADefinition DEF Definitions
    <2>2. /\ Start(sheet, ref, type) =
                 {i \in Definitions(sheet, ref) : i = Referent(sheet, ref) /\ sheet[i].type = type}
          /\ Start(after, ref, type) =
                 {i \in Definitions(after, ref) : i = Referent(after, ref) /\ after[i].type = type}
        BY <1>6 DEF Start
    <2> QED BY <1>2, <1>6, <2>1, <2>2 DEF after
<1> QED BY <1>4, <1>5, <1>6

(***************************************************************************)
(* A style read later takes nothing over (find_styles): for every style    *)
(* sheet and every reference.                                              *)
(***************************************************************************)
THEOREM NoReferenceIsTakenOver == Spec => ReferencesAreNotTakenOver
<1> DEFINE A ==
        LET entry == styles'[Len(styles')]
        IN  ~entry.default /\ (entry.id = NoId \/ IsDefined(styles, entry.id)) =>
                \A t \in Typed : ChainOf(styles', t[1], t[2]) = ChainOf(styles, t[1], t[2])
<1>1. Sheet /\ [Next]_vars => [A]_vars
    <2> SUFFICES ASSUME Sheet, Next PROVE A BY DEF vars
    <2>1. PICK entry \in Entries : styles' = Append(styles, entry) BY DEF Next, ReadStyle
    <2>2. styles \in Seq(Entries) /\ styles'[Len(styles')] = entry BY <2>1 DEF Sheet
    <2>3. ASSUME TakesNothingOver(styles, entry), NEW t \in Typed
          PROVE  ChainOf(styles', t[1], t[2]) = ChainOf(styles, t[1], t[2])
        <3>1. Start(styles', t[1], t[2]) = Start(styles, t[1], t[2])
            BY <2>1, <2>2, <2>3, StartsStay
        <3>2. \A i \in Start(styles, t[1], t[2]) :
                  ChainFrom(styles', i, t[2]) = ChainFrom(styles, i, t[2])
            BY <2>1, <2>2, <2>3, StartIsAStyle, WalksStay
        <3>3. CASE partStatus = "unreadable" \/ Start(styles, t[1], t[2]) = {}
            BY <3>1, <3>3 DEF ChainOf
        <3>4. CASE ~(partStatus = "unreadable" \/ Start(styles, t[1], t[2]) = {})
            <4> DEFINE start == CHOOSE i \in Start(styles, t[1], t[2]) : TRUE
            <4>1. start \in Start(styles, t[1], t[2]) BY <3>4
            <4>2. /\ ChainOf(styles, t[1], t[2]) = ChainFrom(styles, start, t[2])
                  /\ ChainOf(styles', t[1], t[2]) = ChainFrom(styles', start, t[2])
                BY <3>1, <3>4 DEF ChainOf
            <4> HIDE DEF start
            <4> QED BY <3>2, <4>1, <4>2
        <3> QED BY <3>3, <3>4
    <2> QED BY <2>2, <2>3 DEF TakesNothingOver
<1>2. Spec => [][A]_vars
    <2> HIDE DEF A
    <2> QED BY <1>1, SheetInvariant, PTL DEF Spec
<1> QED BY <1>2 DEF ReferencesAreNotTakenOver

-------------------------------------------------------------------------------
(***************************************************************************)
(* Toggles: the state after any number of levels is the parity of those    *)
(* that turn the property on, or tells what stopped the resolution.        *)
(***************************************************************************)
ToggleStates == {"absent", "on", "off", "invalid", "ambiguous", "unresolved"}

Counts == {"absent", "on", "off"}

LEMMA ToggleAtIsAState ==
    ASSUME NEW level, NEW tag
    PROVE  /\ ToggleAt(level, tag) \in ToggleStates
           /\ level.blocked = TRUE => ToggleAt(level, tag) = "unresolved"
<1> DEFINE meanings == {OnOff(p) : p \in Declared(level, tag)}
<1>1. meanings \subseteq {"on", "off", "invalid"} BY DEF OnOff
<1>2. ToggleAt(level, tag) =
          IF level.blocked THEN "unresolved"
          ELSE IF meanings = {} THEN "absent"
          ELSE IF "invalid" \in meanings THEN "invalid"
          ELSE IF meanings = {"on", "off"} THEN "ambiguous"
          ELSE CHOOSE m \in meanings : TRUE
    BY DEF ToggleAt
<1> HIDE DEF meanings
<1>3. meanings # {} => (CHOOSE m \in meanings : TRUE) \in meanings OBVIOUS
<1> QED BY <1>1, <1>2, <1>3 DEF ToggleStates

Stepped(before, here) ==
    IF before \notin Counts THEN before
    ELSE IF here = "absent" THEN before
    ELSE IF here = "on" THEN Flip(before)
    ELSE IF here = "off" THEN (IF before = "absent" THEN "off" ELSE before)
    ELSE here

LEMMA SteppedIsAState ==
    ASSUME NEW before \in ToggleStates, NEW here \in ToggleStates
    PROVE  /\ Stepped(before, here) \in ToggleStates
           /\ Stepped(before, here) \in Counts => before \in Counts /\ here \in Counts
           /\ Stepped(before, here) \in Counts =>
                  (Stepped(before, here) = "on" <=> ((before = "on") # (here = "on")))
BY DEF ToggleStates, Counts, Stepped, Flip

TurningOn(levels, tag, n) ==
    {i \in Len(levels) + 1 - n .. Len(levels) : ToggleAt(levels[i], tag) = "on"}

LEMMA ToggledIsParity ==
    ASSUME NEW L, NEW levels \in Seq(L), NEW tag
    PROVE  /\ Toggled(levels, tag) \in ToggleStates
           /\ Toggled(levels, tag) \in Counts =>
                  /\ \A i \in DOMAIN levels : levels[i].blocked # TRUE
                  /\ Cardinality(TurningOn(levels, tag, Len(levels))) % 2 =
                         IF Toggled(levels, tag) = "on" THEN 1 ELSE 0
<1> DEFINE N == Len(levels)
           X == ToggleStates
           Here(n) == ToggleAt(levels[N + 1 - n], tag)
           step == [p \in Nat \X X |-> Stepped(p[2], Here(p[1]))]
           AreTheStates(u) ==
               u = [n \in 0 .. N |-> IF n = 0 THEN "absent" ELSE Stepped(u[n - 1], Here(n))]
           state == CHOOSE u : AreTheStates(u)
<1>0. N \in Nat OBVIOUS
<1>1. "absent" \in X BY DEF ToggleStates
<1>2. step \in [Nat \X X -> X] BY ToggleAtIsAState, SteppedIsAState
<1>3. PICK f \in [0 .. N -> X] : f[0] = "absent" /\ \A n \in 1 .. N : f[n] = step[<<n, f[n - 1]>>]
    <2> HIDE DEF N, X, step
    <2>1. IsDefinedUpTo(N, X, "absent", step) BY <1>0, <1>1, <1>2, NatRecursionUpTo
    <2> QED BY <2>1 DEF IsDefinedUpTo
<1>4. \A n \in 1 .. N : f[n] = Stepped(f[n - 1], Here(n))
    <2> SUFFICES ASSUME NEW n \in 1 .. N PROVE f[n] = Stepped(f[n - 1], Here(n)) OBVIOUS
    <2> HIDE DEF X, Here
    <2>1. n \in Nat /\ n - 1 \in 0 .. N BY <1>0
    <2>2. f[n - 1] \in X BY <2>1, <1>3
    <2>3. step[<<n, f[n - 1]>>] = Stepped(f[n - 1], Here(n)) BY <2>1, <2>2
    <2> QED BY <1>3, <2>3
<1>5. AreTheStates(f)
    <2> DEFINE g == [n \in 0 .. N |-> IF n = 0 THEN "absent" ELSE Stepped(f[n - 1], Here(n))]
    <2> HIDE DEF N, X, Here, step
    <2>1. \A n \in 0 .. N : f[n] = g[n] BY <1>0, <1>3, <1>4
    <2>2. f = g BY <1>3, <2>1
    <2> QED BY <2>2
<1>6. AreTheStates(state) BY <1>5
<1>7. state[0] = "absent" /\ \A n \in 1 .. N : state[n] = Stepped(state[n - 1], Here(n))
    <2> HIDE DEF Here, N, state
    <2> QED BY <1>0, <1>6
<1>8. Toggled(levels, tag) = state[N]
    BY DEF Toggled, Stepped, Counts
<1> HIDE DEF state
<1> DEFINE On(n) == TurningOn(levels, tag, n)
           Holds(n) ==
               /\ state[n] \in X
               /\ state[n] \in Counts =>
                      /\ \A i \in N + 1 - n .. N : levels[i].blocked # TRUE
                      /\ IsFiniteSet(On(n))
                      /\ Cardinality(On(n)) % 2 = IF state[n] = "on" THEN 1 ELSE 0
           S == {n \in 0 .. N : Holds(n)}
<1>9. 0 \in S
    <2>1. On(0) = {} BY <1>0 DEF TurningOn
    <2>2. \A i \in N + 1 - 0 .. N : levels[i].blocked # TRUE BY <1>0
    <2> HIDE DEF N, X, On
    <2>4. IsFiniteSet(On(0)) /\ Cardinality(On(0)) = 0 BY <2>1, FS_EmptySet
    <2>5. 0 % 2 = 0 OBVIOUS
    <2>3. Holds(0) BY <1>1, <1>7, <2>2, <2>4, <2>5
    <2> QED BY <1>0, <2>3
<1>10. ASSUME NEW n \in 0 .. N - 1, n \in S PROVE n + 1 \in S
    <2>1. /\ n \in 0 .. N /\ n + 1 \in 1 .. N /\ n + 1 \in 0 .. N /\ (n + 1) - 1 = n
          /\ N + 1 - (n + 1) = N - n /\ N - n \in 1 .. N
          /\ N - n .. N = (N + 1 - n .. N) \cup {N - n} /\ N - n \notin N + 1 - n .. N
        BY <1>0
    <2> DEFINE here == Here(n + 1)
    <2>2. here \in ToggleStates /\ (levels[N - n].blocked = TRUE => here = "unresolved")
        BY <2>1, ToggleAtIsAState
    <2>3. state[n + 1] = Stepped(state[n], here) BY <1>7, <2>1
    <2>4. On(n + 1) = IF here = "on" THEN On(n) \cup {N - n} ELSE On(n)
        BY <2>1 DEF TurningOn
    <2>5. N - n \notin On(n) BY <2>1 DEF TurningOn
    <2> HIDE DEF here, On, N, X, Here
    <2>6. state[n] \in ToggleStates BY <1>10 DEF X
    <2>7. state[n + 1] \in ToggleStates BY <2>2, <2>3, <2>6, SteppedIsAState
    <2>8. ASSUME state[n + 1] \in Counts
          PROVE  /\ \A i \in N + 1 - (n + 1) .. N : levels[i].blocked # TRUE
                 /\ IsFiniteSet(On(n + 1))
                 /\ Cardinality(On(n + 1)) % 2 = IF state[n + 1] = "on" THEN 1 ELSE 0
        <3>1. state[n] \in Counts /\ here \in Counts
              /\ (state[n + 1] = "on" <=> ((state[n] = "on") # (here = "on")))
            BY <2>2, <2>3, <2>6, <2>8, SteppedIsAState
        <3>2. /\ \A i \in N + 1 - n .. N : levels[i].blocked # TRUE
              /\ IsFiniteSet(On(n))
              /\ Cardinality(On(n)) % 2 = IF state[n] = "on" THEN 1 ELSE 0
            BY <1>10, <3>1
        <3>3. \A i \in N + 1 - (n + 1) .. N : levels[i].blocked # TRUE
            <4>1. levels[N - n].blocked # TRUE BY <2>2, <3>1 DEF Counts
            <4> QED BY <2>1, <3>2, <4>1
        <3>4. Cardinality(On(n)) \in Nat BY <3>2, FS_CardinalityType
        <3>5. CASE here = "on"
            <4>1. IsFiniteSet(On(n + 1)) /\ Cardinality(On(n + 1)) = Cardinality(On(n)) + 1
                BY <2>4, <2>5, <3>2, <3>5, FS_AddElement
            <4>2. (state[n + 1] = "on") <=> (state[n] # "on") BY <3>1, <3>5
            <4>3. \A c \in Nat : (c + 1) % 2 = IF c % 2 = 1 THEN 0 ELSE 1 OBVIOUS
            <4> QED BY <3>2, <3>3, <3>4, <4>1, <4>2, <4>3
        <3>6. CASE here # "on"
            <4>1. On(n + 1) = On(n) BY <2>4, <3>6
            <4>2. (state[n + 1] = "on") <=> (state[n] = "on") BY <3>1, <3>6
            <4> QED BY <3>2, <3>3, <4>1, <4>2
        <3> QED BY <3>5, <3>6
    <2>9. Holds(n + 1) BY <2>7, <2>8 DEF X
    <2> QED BY <2>1, <2>9
<1>11. N \in S
    <2>1. N \in 0 .. N BY <1>0
    <2> HIDE DEF S, N
    <2> QED BY <1>0, <1>9, <1>10, <2>1, NatInductionUpTo
<1>12. Holds(N) BY <1>11
<1>13. N + 1 - N = 1 /\ DOMAIN levels = 1 .. N BY <1>0
<1> QED BY <1>8, <1>12, <1>13

(***************************************************************************)
(* What a run inherits is a sequence of levels.                            *)
(***************************************************************************)
LevelsIn(sheet) ==
    {Level(bag) : bag \in {sheet[i].bag : i \in DOMAIN sheet} \cup {<<>>, DocDefaults}}
        \cup {Blocked}

LEMMA LevelsOfAChain ==
    ASSUME NEW E, NEW sheet \in Seq(E), NEW ref, NEW type
    PROVE  LevelsOf(sheet, ChainOf(sheet, ref, type)) \in Seq(LevelsIn(sheet))
<1> DEFINE chain == ChainOf(sheet, ref, type)
<1>1. chain.members \in Seq(DOMAIN sheet)
    <2> HIDE DEF chain
    <2>1. chain.members = <<>> \/ \E start : chain \in Chains(sheet, start, type)
        BY ChainOfReference DEF chain
    <2>2. CASE chain.members = <<>> BY <2>2
    <2>3. ASSUME NEW start, chain \in Chains(sheet, start, type)
          PROVE  chain.members \in Seq(DOMAIN sheet)
        BY <2>3 DEF Chains
    <2> QED BY <2>1, <2>2, <2>3
<1> HIDE DEF chain
<1> DEFINE L == LevelsIn(sheet)
           own == [i \in DOMAIN chain.members |-> Level(sheet[chain.members[i]].bag)]
<1>2. own \in Seq(L)
    <2>1. \A i \in DOMAIN chain.members : Level(sheet[chain.members[i]].bag) \in L
        BY <1>1 DEF LevelsIn
    <2>2. DOMAIN chain.members = 1 .. Len(chain.members) /\ Len(chain.members) \in Nat
        BY <1>1
    <2> HIDE DEF L
    <2> QED BY <2>1, <2>2
<1>3. (IF chain.blocked THEN <<Blocked>> ELSE <<>>) \in Seq(L)
    <2>1. Blocked \in L BY DEF LevelsIn
    <2> HIDE DEF L
    <2> QED BY <2>1
<1>4. LevelsOf(sheet, chain) \in Seq(LevelsIn(sheet)) BY <1>2, <1>3 DEF LevelsOf
<1> QED BY <1>4 DEF chain

(***************************************************************************)
(* Bold is on exactly when an odd number of the inherited levels turn it   *)
(* on, and is never resolved through a blocked level (_resolve_toggle):    *)
(* for every style sheet and every two references.                         *)
(***************************************************************************)
THEOREM BoldIsTheParity == Spec => []BoldIsParity
<1>1. Sheet => BoldIsParity
    <2> SUFFICES ASSUME Sheet, NEW runStyle \in References, NEW paragraphStyle \in References
                 PROVE  LET levels == RunLevels(runStyle, paragraphStyle)
                            bold == Toggle(<<Level(<<>>)>> \o levels, "b")
                            on == {i \in DOMAIN levels : ToggleAt(levels[i], "b") = "on"}
                        IN  bold.status = "resolved" =>
                                /\ \A i \in DOMAIN levels : ~levels[i].blocked
                                /\ bold.value = IF Cardinality(on) % 2 = 1 THEN "on" ELSE "off"
        BY DEF BoldIsParity
    <2> DEFINE levels == RunLevels(runStyle, paragraphStyle)
               bold == Toggle(<<Level(<<>>)>> \o levels, "b")
               on == {i \in DOMAIN levels : ToggleAt(levels[i], "b") = "on"}
               state == Toggled(levels, "b")
    <2>1. levels \in Seq(LevelsIn(styles))
        <3>1. styles \in Seq(Entries) BY DEF Sheet
        <3>2. <<DefaultsLevel>> \in Seq(LevelsIn(styles)) BY DEF DefaultsLevel, LevelsIn
        <3>3. /\ LevelsOf(styles, ChainOf(styles, runStyle, "character")) \in Seq(LevelsIn(styles))
              /\ LevelsOf(styles, ChainOf(styles, paragraphStyle, "paragraph"))
                     \in Seq(LevelsIn(styles))
            BY <3>1, LevelsOfAChain
        <3> QED BY <3>2, <3>3 DEF RunLevels
    <2> HIDE DEF levels
    <2>2. /\ state \in ToggleStates
          /\ state \in Counts =>
                 /\ \A i \in DOMAIN levels : levels[i].blocked # TRUE
                 /\ Cardinality(TurningOn(levels, "b", Len(levels))) % 2 =
                        IF state = "on" THEN 1 ELSE 0
        BY <2>1, ToggledIsParity
    <2>3. on = TurningOn(levels, "b", Len(levels)) BY <2>1 DEF TurningOn
    <2>4. bold = IF state \in {"on", "off"} THEN Resolved(state) ELSE Failed(state)
        <3>1. ToggleAt(Level(<<>>), "b") = "absent" BY DEF ToggleAt, Level, Declared
        <3>2. Head(<<Level(<<>>)>> \o levels) = Level(<<>>)
              /\ Tail(<<Level(<<>>)>> \o levels) = levels
            <4> DEFINE L == LevelsIn(styles)
            <4>1. Level(<<>>) \in L BY DEF LevelsIn
            <4> HIDE DEF L
            <4> QED BY <2>1, <4>1 DEF L
        <3> QED BY <3>1, <3>2 DEF Toggle
    <2> HIDE DEF state, bold, on
    <2>5. ASSUME bold.status = "resolved"
          PROVE  /\ \A i \in DOMAIN levels : ~levels[i].blocked
                 /\ bold.value = IF Cardinality(on) % 2 = 1 THEN "on" ELSE "off"
        <3>1. state \in {"on", "off"} /\ bold.value = state
            BY <2>2, <2>4, <2>5 DEF ToggleStates, Failed, Resolved
        <3>2. \A i \in DOMAIN levels : levels[i].blocked \in BOOLEAN
            <4>1. \A level \in LevelsIn(styles) : level.blocked \in BOOLEAN
                <5>1. \A bag : Level(bag).blocked \in BOOLEAN BY DEF Level
                <5>2. Blocked.blocked \in BOOLEAN BY DEF Blocked
                <5> QED BY <5>1, <5>2 DEF LevelsIn
            <4> QED BY <2>1, <4>1
        <3>3. /\ \A i \in DOMAIN levels : levels[i].blocked # TRUE
              /\ Cardinality(on) % 2 = IF state = "on" THEN 1 ELSE 0
            BY <2>2, <2>3, <3>1 DEF Counts
        <3>4. \A i \in DOMAIN levels : ~levels[i].blocked BY <3>2, <3>3
        <3> QED BY <3>1, <3>3, <3>4
    <2> QED BY <2>5 DEF bold, on, levels
<1> QED BY <1>1, SheetInvariant, PTL

-------------------------------------------------------------------------------
(***************************************************************************)
(* The classifier's walk beside the formatting's: after n hops it is at    *)
(* the style after n on the chain, or has left its end, or has stopped at  *)
(* the first built-in style, or there is none on the chain. Where the      *)
(* chain ends at the empty identifier the walk goes on beyond it.          *)
(***************************************************************************)
Outcomes == {"walking", "broken_chain", "identified", "unrecognized"}

Identities(sheet, id) ==
    LET ids == {id} \cup {sheet[i].basedOn : i \in DOMAIN sheet}
    IN  [id : ids, visited : SUBSET ids, outcome : Outcomes]

Entry(sheet, m, k) == sheet[m[k]]

NoBuiltinUpTo(sheet, m, n) == \A k \in 1 .. n : ~IsBuiltin(Entry(sheet, m, k))

Walking(sheet, m, w, n) ==
    /\ w.outcome = "walking" /\ n + 1 \in 1 .. Len(m)
    /\ w.id = Entry(sheet, m, n + 1).id
    /\ w.visited = {Entry(sheet, m, k).id : k \in 1 .. n + 1}
    /\ NoBuiltinUpTo(sheet, m, n)

Leaving(sheet, m, w) ==
    /\ w.outcome = "walking"
    /\ ~IsDefined(sheet, w.id) \/ sheet[Referent(sheet, w.id)].type # "paragraph"
    /\ NoBuiltinUpTo(sheet, m, Len(m))

Found(sheet, m, w, n) ==
    /\ w.outcome = "identified"
    /\ \E k \in 1 .. Len(m) :
           /\ k <= n /\ IsBuiltin(Entry(sheet, m, k)) /\ NoBuiltinUpTo(sheet, m, k - 1)
           /\ w.id = Entry(sheet, m, k).id

NotFound(sheet, m, w) ==
    w.outcome \in {"broken_chain", "unrecognized"} /\ NoBuiltinUpTo(sheet, m, Len(m))

EndsAtEmpty(sheet, m) == sheet[Last(m)].basedOn = EmptyId

Beyond(sheet, m) == EndsAtEmpty(sheet, m) /\ NoBuiltinUpTo(sheet, m, Len(m))

Follows(sheet, m, w, n) ==
    \/ Walking(sheet, m, w, n) \/ Leaving(sheet, m, w) \/ Beyond(sheet, m)
    \/ Found(sheet, m, w, n) \/ NotFound(sheet, m, w)

LEMMA HopIsAnIdentity ==
    ASSUME NEW E, NEW sheet \in Seq(E), NEW id, NEW w \in Identities(sheet, id)
    PROVE  Hop(sheet, w) \in Identities(sheet, id)
<1> DEFINE ids == {id} \cup {sheet[i].basedOn : i \in DOMAIN sheet}
           entry == sheet[Referent(sheet, w.id)]
<1>1. w \in [id : ids, visited : SUBSET ids, outcome : Outcomes] BY DEF Identities
<1>2. IsDefined(sheet, w.id) => entry.basedOn \in ids BY ReferentIsADefinition
<1>3. \/ \E o \in Outcomes : Hop(sheet, w) = [w EXCEPT !.outcome = o]
      \/ Hop(sheet, w) = w
      \/ IsDefined(sheet, w.id)
         /\ Hop(sheet, w) = At(entry.basedOn, w.visited \cup {entry.basedOn})
    BY DEF Hop, Outcomes
<1> HIDE DEF ids, entry
<1>4. CASE \E o \in Outcomes : Hop(sheet, w) = [w EXCEPT !.outcome = o]
    <2>1. Hop(sheet, w) \in [id : ids, visited : SUBSET ids, outcome : Outcomes] BY <1>1, <1>4
    <2> QED BY <2>1 DEF Identities, ids
<1>5. CASE Hop(sheet, w) = w BY <1>5
<1>6. CASE IsDefined(sheet, w.id)
           /\ Hop(sheet, w) = At(entry.basedOn, w.visited \cup {entry.basedOn})
    <2>1. Hop(sheet, w) \in [id : ids, visited : SUBSET ids, outcome : Outcomes]
        BY <1>1, <1>2, <1>6 DEF At, Outcomes
    <2> QED BY <2>1 DEF Identities, ids
<1> QED BY <1>3, <1>4, <1>5, <1>6

(***************************************************************************)
(* The styles of a walk that starts at a referent all are referents.       *)
(***************************************************************************)
StartsWell(sheet, m) ==
    /\ m[1] = Referent(sheet, sheet[m[1]].id) /\ sheet[m[1]].id # NoId
    /\ sheet[m[1]].type = "paragraph"

LEMMA WalkMembers ==
    ASSUME NEW E, NEW sheet \in Seq(E), NEW start, NEW m,
           IsWalk(sheet, start, "paragraph", m), StartsWell(sheet, m), NEW k \in 1 .. Len(m)
    PROVE  /\ m[k] \in DOMAIN sheet
           /\ IsDefined(sheet, Entry(sheet, m, k).id)
           /\ Referent(sheet, Entry(sheet, m, k).id) = m[k]
           /\ Entry(sheet, m, k).type = "paragraph"
<1>0. m \in Seq(DOMAIN sheet) /\ m[k] \in DOMAIN sheet BY DEF IsWalk
<1>1. m[k] = Referent(sheet, sheet[m[k]].id) /\ sheet[m[k]].id # NoId
    <2>1. CASE k = 1 BY <2>1 DEF StartsWell
    <2>2. CASE k \in 2 .. Len(m) BY <2>2, WalkMembersAreReferents
    <2> QED BY <1>0, <2>1, <2>2
<1>2. sheet[m[k]].type = "paragraph"
    <2>1. CASE k = 1 BY <2>1 DEF StartsWell
    <2>2. CASE k \in 2 .. Len(m)
        <3>1. HasParent(sheet, m[k - 1], "paragraph") /\ m[k] = ParentStyle(sheet, m[k - 1])
            BY <2>2 DEF IsWalk
        <3> QED BY <3>1 DEF HasParent, ParentStyle
    <2> QED BY <1>0, <2>1, <2>2
<1>3. IsDefined(sheet, sheet[m[k]].id) BY <1>0, <1>1 DEF IsDefined, Definitions
<1> QED BY <1>0, <1>1, <1>2, <1>3 DEF Entry

LEMMA HopFollows ==
    ASSUME NEW E, NEW sheet \in Seq(E), NEW start, NEW m,
           IsWalk(sheet, start, "paragraph", m), StartsWell(sheet, m),
           ~HasParent(sheet, Last(m), "paragraph"),
           NEW n \in Nat, NEW id, NEW w \in Identities(sheet, id), Follows(sheet, m, w, n)
    PROVE  Follows(sheet, m, Hop(sheet, w), n + 1)
<1> DEFINE hop == Hop(sheet, w)
           entry == sheet[Referent(sheet, w.id)]
<1>0. m \in Seq(DOMAIN sheet) /\ Len(m) \in Nat /\ m # <<>> BY DEF IsWalk
<1>1. ASSUME Walking(sheet, m, w, n) PROVE Follows(sheet, m, hop, n + 1)
    <2> DEFINE at == n + 1
    <2>1. at \in 1 .. Len(m) /\ w.outcome = "walking" /\ w.id = Entry(sheet, m, at).id
          /\ NoBuiltinUpTo(sheet, m, n)
          /\ w.visited = {Entry(sheet, m, k).id : k \in 1 .. at}
        BY <1>1 DEF Walking
    <2> HIDE DEF at
    <2>2. /\ IsDefined(sheet, w.id) /\ Referent(sheet, w.id) = m[at]
          /\ entry = Entry(sheet, m, at) /\ entry.type = "paragraph"
        BY <2>1, WalkMembers DEF Entry
    <2>3. CASE IsBuiltin(entry)
        <3>1. hop = [w EXCEPT !.outcome = "identified"] BY <2>1, <2>2, <2>3 DEF Hop
        <3>2. hop.outcome = "identified" /\ hop.id = Entry(sheet, m, at).id
            BY <2>1, <3>1 DEF Identities
        <3>3. at <= n + 1 /\ NoBuiltinUpTo(sheet, m, at - 1) BY <2>1 DEF at
        <3> HIDE DEF hop, entry
        <3>4. Found(sheet, m, hop, n + 1) BY <2>1, <2>2, <2>3, <3>2, <3>3 DEF Found
        <3> QED BY <3>4 DEF Follows
    <2>4. CASE ~IsBuiltin(entry)
        <3>1. NoBuiltinUpTo(sheet, m, at)
            <4>1. \A k \in 1 .. at : k = at \/ k \in 1 .. n BY DEF at
            <4> QED BY <2>1, <2>2, <2>4, <4>1 DEF NoBuiltinUpTo
        <3>2. at < Len(m) => /\ HasParent(sheet, m[at], "paragraph")
                             /\ m[at + 1] = ParentStyle(sheet, m[at])
            <4>1. ASSUME at < Len(m) PROVE at + 1 \in 2 .. Len(m) /\ (at + 1) - 1 = at
                BY <1>0, <2>1, <4>1
            <4> QED BY <4>1 DEF IsWalk
        <3>3. at = Len(m) => ~HasParent(sheet, m[at], "paragraph") BY DEF Last
        <3>4. CASE entry.basedOn = NoId
            <4>1. ~HasParent(sheet, m[at], "paragraph")
                BY <2>2, <3>4 DEF HasParent, IsDefined, Entry
            <4>2. at = Len(m) BY <1>0, <2>1, <3>2, <4>1
            <4>3. hop = [w EXCEPT !.outcome = "unrecognized"]
                BY <2>1, <2>2, <2>4, <3>4 DEF Hop
            <4>4. hop.outcome = "unrecognized" BY <4>3 DEF Identities
            <4> HIDE DEF hop
            <4> QED BY <3>1, <4>2, <4>4 DEF Follows, NotFound
        <3>5. CASE entry.basedOn = EmptyId
            <4>1. ~HasParent(sheet, m[at], "paragraph") BY <2>2, <3>5 DEF HasParent, Entry
            <4>2. at = Len(m) BY <1>0, <2>1, <3>2, <4>1
            <4>3. sheet[Last(m)].basedOn = EmptyId BY <2>2, <3>5, <4>2 DEF Last, Entry
            <4> QED BY <3>1, <4>2, <4>3 DEF Follows, Beyond, EndsAtEmpty
        <3>6. CASE entry.basedOn # NoId /\ entry.basedOn # EmptyId
            <4>1. entry.basedOn \notin w.visited
                <5> SUFFICES ASSUME NEW j \in 1 .. at, entry.basedOn = Entry(sheet, m, j).id
                             PROVE  FALSE
                    BY <2>1
                <5>0. j \in 1 .. Len(m) BY <1>0, <2>1
                <5>1. /\ IsDefined(sheet, entry.basedOn) /\ Referent(sheet, entry.basedOn) = m[j]
                      /\ sheet[m[j]].type = "paragraph"
                    BY <5>0, WalkMembers DEF Entry
                <5>2. HasParent(sheet, m[at], "paragraph") /\ ParentStyle(sheet, m[at]) = m[j]
                    BY <2>2, <3>6, <5>1 DEF HasParent, ParentStyle, Entry
                <5>3. at < Len(m) /\ m[at + 1] = m[j] BY <1>0, <2>1, <3>2, <3>3, <5>2
                <5>4. at + 1 \in 1 .. Len(m) /\ at + 1 # j BY <1>0, <2>1, <5>3
                <5> QED BY <5>0, <5>3, <5>4 DEF IsWalk
            <4>2. hop = At(entry.basedOn, w.visited \cup {entry.basedOn})
                BY <2>1, <2>2, <2>4, <3>6, <4>1 DEF Hop
            <4>3. CASE at < Len(m)
                <5>1. HasParent(sheet, m[at], "paragraph") /\ m[at + 1] = ParentStyle(sheet, m[at])
                    BY <3>2, <4>3
                <5>2. Entry(sheet, m, at + 1).id = entry.basedOn
                    BY <2>2, <5>1, ReferentIsADefinition DEF HasParent, ParentStyle, Entry
                <5>3. at + 1 \in 1 .. Len(m) /\ 1 .. at + 1 = (1 .. at) \cup {at + 1}
                    BY <1>0, <2>1, <4>3
                <5>4. hop.id = Entry(sheet, m, at + 1).id /\ hop.outcome = "walking"
                      /\ hop.visited = w.visited \cup {Entry(sheet, m, at + 1).id}
                    BY <4>2, <5>2 DEF At
                <5>5. hop.visited = {Entry(sheet, m, k).id : k \in 1 .. at + 1}
                    BY <2>1, <5>3, <5>4
                <5> HIDE DEF hop, entry
                <5>6. Walking(sheet, m, hop, at) BY <3>1, <5>3, <5>4, <5>5 DEF Walking
                <5> QED BY <5>6 DEF Follows, at
            <4>4. CASE at = Len(m)
                <5>1. ~HasParent(sheet, m[at], "paragraph") BY <3>3, <4>4
                <5>2. hop.id = entry.basedOn /\ hop.outcome = "walking" BY <4>2 DEF At
                <5>3. ~IsDefined(sheet, hop.id) \/ sheet[Referent(sheet, hop.id)].type # "paragraph"
                    BY <2>2, <3>6, <5>1, <5>2 DEF HasParent, Entry
                <5> HIDE DEF hop, entry
                <5> QED BY <3>1, <4>4, <5>2, <5>3 DEF Follows, Leaving
            <4> QED BY <1>0, <2>1, <4>3, <4>4
        <3> QED BY <3>4, <3>5, <3>6
    <2> QED BY <2>3, <2>4
<1>2. ASSUME Leaving(sheet, m, w) PROVE Follows(sheet, m, hop, n + 1)
    <2>1. hop = [w EXCEPT !.outcome = "broken_chain"] BY <1>2 DEF Leaving, Hop
    <2>2. hop.outcome = "broken_chain" BY <2>1 DEF Identities
    <2> HIDE DEF hop
    <2> QED BY <1>2, <2>2 DEF Leaving, Follows, NotFound
<1>3. ASSUME Found(sheet, m, w, n) PROVE Follows(sheet, m, hop, n + 1)
    <2>1. hop = w BY <1>3 DEF Found, Hop
    <2>2. \A k \in 1 .. Len(m) : k <= n => k <= n + 1 BY <1>0
    <2> HIDE DEF hop
    <2>3. Found(sheet, m, hop, n + 1) BY <1>3, <2>1, <2>2 DEF Found
    <2> QED BY <2>3 DEF Follows
<1>4. ASSUME NotFound(sheet, m, w) PROVE Follows(sheet, m, hop, n + 1)
    <2>1. hop = w BY <1>4 DEF NotFound, Hop
    <2> QED BY <1>4, <2>1 DEF Follows
<1>5. ASSUME Beyond(sheet, m) PROVE Follows(sheet, m, hop, n + 1)
    BY <1>5 DEF Follows
<1> QED BY <1>1, <1>2, <1>3, <1>4, <1>5 DEF Follows

(***************************************************************************)
(* The hops of the classifier's walk from an identifier.                   *)
(***************************************************************************)
IsHopping(sheet, id, walk) ==
    /\ walk \in [0 .. MaxChainDepth + 1 -> Identities(sheet, id)]
    /\ walk[0] = At(id, {id})
    /\ \A n \in 1 .. MaxChainDepth + 1 : walk[n] = Hop(sheet, walk[n - 1])

LEMMA StyleIdentityIsHopping ==
    ASSUME NEW E, NEW sheet \in Seq(E), NEW first
    PROVE  \E walk :
               /\ IsHopping(sheet, first, walk)
               /\ LET last == walk[MaxChainDepth + 1]
                  IN  StyleIdentity(sheet, first) =
                          IF last.outcome = "walking" THEN [last EXCEPT !.outcome = "broken_chain"]
                          ELSE last
<1> DEFINE N == MaxChainDepth + 1
           X == Identities(sheet, first)
           step == [p \in Nat \X X |-> Hop(sheet, p[2])]
           IsTheWalk(u) ==
               u = [n \in 0 .. N |-> IF n = 0 THEN At(first, {first}) ELSE Hop(sheet, u[n - 1])]
           walk == CHOOSE u : IsTheWalk(u)
<1>0. N \in Nat BY DepthAssumption
<1>1. At(first, {first}) \in X BY DEF At, Identities, Outcomes
<1>2. step \in [Nat \X X -> X] BY HopIsAnIdentity
<1>3. PICK f \in [0 .. N -> X] :
          f[0] = At(first, {first}) /\ \A n \in 1 .. N : f[n] = step[<<n, f[n - 1]>>]
    <2> HIDE DEF N, X, step
    <2>1. IsDefinedUpTo(N, X, At(first, {first}), step) BY <1>0, <1>1, <1>2, NatRecursionUpTo
    <2> QED BY <2>1 DEF IsDefinedUpTo
<1>4. \A n \in 1 .. N : f[n] = Hop(sheet, f[n - 1])
    <2> SUFFICES ASSUME NEW n \in 1 .. N PROVE f[n] = Hop(sheet, f[n - 1]) OBVIOUS
    <2> HIDE DEF X
    <2>1. n \in Nat /\ n - 1 \in 0 .. N BY <1>0
    <2>2. f[n - 1] \in X BY <2>1, <1>3
    <2>3. step[<<n, f[n - 1]>>] = Hop(sheet, f[n - 1]) BY <2>1, <2>2
    <2> QED BY <1>3, <2>3
<1>5. IsTheWalk(f)
    <2> DEFINE g == [n \in 0 .. N |-> IF n = 0 THEN At(first, {first}) ELSE Hop(sheet, f[n - 1])]
    <2> HIDE DEF N, X, step
    <2>1. \A n \in 0 .. N : f[n] = g[n] BY <1>0, <1>3, <1>4
    <2>2. f = g BY <1>3, <2>1
    <2> QED BY <2>2
<1>6. IsTheWalk(walk) BY <1>5
<1>7. walk[0] = At(first, {first}) /\ \A n \in 1 .. N : walk[n] = Hop(sheet, walk[n - 1])
    <2> DEFINE base == At(first, {first})
    <2>1. walk = [n \in 0 .. N |-> IF n = 0 THEN base ELSE Hop(sheet, walk[n - 1])] BY <1>6
    <2> HIDE DEF N, walk, base
    <2>2. 0 \in 0 .. N /\ \A n \in 1 .. N : n \in 0 .. N /\ n # 0 BY <1>0
    <2>3. walk[0] = base BY <2>1, <2>2
    <2>4. \A n \in 1 .. N : walk[n] = Hop(sheet, walk[n - 1]) BY <2>1, <2>2
    <2> QED BY <2>3, <2>4 DEF base
<1>8. StyleIdentity(sheet, first) =
          IF walk[N].outcome = "walking" THEN [walk[N] EXCEPT !.outcome = "broken_chain"]
          ELSE walk[N]
    BY DEF StyleIdentity
<1> HIDE DEF walk
<1>9. \A n \in 0 .. N : walk[n] \in X
    <2> DEFINE S == {n \in 0 .. N : walk[n] \in X}
    <2>1. 0 \in S
        <3> HIDE DEF X, N
        <3> QED BY <1>0, <1>1, <1>7
    <2>2. ASSUME NEW n \in 0 .. N - 1, n \in S PROVE n + 1 \in S
        <3>1. n + 1 \in 1 .. N /\ n + 1 \in 0 .. N /\ (n + 1) - 1 = n BY <1>0
        <3>2. walk[n + 1] = Hop(sheet, walk[n]) BY <1>7, <3>1
        <3> QED BY <2>2, <3>1, <3>2, HopIsAnIdentity
    <2>3. \A n \in 0 .. N : n \in S
        <3> HIDE DEF S, N
        <3> QED BY <1>0, <2>1, <2>2, NatInductionUpTo
    <2> QED BY <2>3
<1>10. IsHopping(sheet, first, walk)
    <2>1. walk = [n \in 0 .. N |-> walk[n]] BY <1>6 DEF walk
    <2>2. walk \in [0 .. N -> X]
        <3> HIDE DEF X, N, walk
        <3> QED BY <1>9, <2>1
    <2> QED BY <1>7, <2>2 DEF IsHopping
<1> QED BY <1>8, <1>10

LEMMA IdentityFollowsTheChain ==
    ASSUME NEW E, NEW sheet \in Seq(E), NEW start, NEW m,
           IsWalk(sheet, start, "paragraph", m), StartsWell(sheet, m),
           ~HasParent(sheet, Last(m), "paragraph")
    PROVE  LET id == StyleIdentity(sheet, sheet[m[1]].id)
               seen == {k \in DOMAIN m : k <= MaxChainDepth + 1 /\ IsBuiltin(sheet[m[k]])}
           IN  /\ seen # {} => id.outcome = "identified"
               /\ id.outcome = "identified" => seen # {} \/ EndsAtEmpty(sheet, m)
               /\ \A n \in seen : (\A k \in seen : n <= k) => id.id = sheet[m[n]].id
<1> DEFINE first == sheet[m[1]].id
           N == MaxChainDepth + 1
           X == Identities(sheet, first)
           seen == {k \in DOMAIN m : k <= N /\ IsBuiltin(sheet[m[k]])}
<1>0. N \in Nat /\ m \in Seq(DOMAIN sheet) /\ Len(m) \in Nat /\ Len(m) >= 1
      /\ DOMAIN m = 1 .. Len(m)
    BY DepthAssumption DEF IsWalk
<1>1. PICK walk :
          /\ IsHopping(sheet, first, walk)
          /\ StyleIdentity(sheet, first) =
                 IF walk[N].outcome = "walking" THEN [walk[N] EXCEPT !.outcome = "broken_chain"]
                 ELSE walk[N]
    BY StyleIdentityIsHopping
<1>7. /\ walk[0] = At(first, {first}) /\ \A n \in 1 .. N : walk[n] = Hop(sheet, walk[n - 1])
      /\ \A n \in 0 .. N : walk[n] \in X
    BY <1>1 DEF IsHopping
<1> DEFINE S == {n \in 0 .. N : walk[n] \in X /\ Follows(sheet, m, walk[n], n)}
<1>9. 0 \in S
    <2>1. 0 + 1 \in 1 .. Len(m) /\ 1 .. 1 = {1} /\ Entry(sheet, m, 1).id = first
        BY <1>0 DEF Entry
    <2>2. NoBuiltinUpTo(sheet, m, 0) BY DEF NoBuiltinUpTo
    <2>3. walk[0].id = first /\ walk[0].visited = {first} /\ walk[0].outcome = "walking"
        BY <1>7 DEF At
    <2> HIDE DEF first
    <2>4. walk[0].visited = {Entry(sheet, m, k).id : k \in 1 .. 0 + 1} BY <2>1, <2>3
    <2>5. Walking(sheet, m, walk[0], 0) BY <2>1, <2>2, <2>3, <2>4 DEF Walking
    <2>7. 0 \in 0 .. N BY <1>0
    <2>6. walk[0] \in X BY <1>7, <2>7
    <2> QED BY <2>5, <2>6, <2>7 DEF Follows
<1>10. ASSUME NEW n \in 0 .. N - 1, n \in S PROVE n + 1 \in S
    <2>1. n \in Nat /\ n + 1 \in 1 .. N /\ n + 1 \in 0 .. N /\ (n + 1) - 1 = n BY <1>0
    <2>2. walk[n + 1] = Hop(sheet, walk[n]) BY <1>7, <2>1
    <2>3. walk[n + 1] \in X BY <1>7, <2>1
    <2>4. Follows(sheet, m, walk[n + 1], n + 1) BY <1>10, <2>1, <2>2, HopFollows
    <2> QED BY <2>1, <2>3, <2>4
<1>11. walk[N] \in X /\ Follows(sheet, m, walk[N], N)
    <2>1. N \in 0 .. N BY <1>0
    <2>2. N \in S
        <3> HIDE DEF S, N
        <3> QED BY <1>0, <1>9, <1>10, <2>1, NatInductionUpTo
    <2> QED BY <2>2
<1> DEFINE id == StyleIdentity(sheet, first)
<1> HIDE DEF X, N, first
<1>12. (id.outcome = "identified" <=> walk[N].outcome = "identified")
       /\ (id.outcome = "identified" => id.id = walk[N].id)
    <2>1. walk[N].outcome = "walking" => id.outcome = "broken_chain"
        BY <1>1, <1>11 DEF X, Identities
    <2>2. walk[N].outcome # "walking" => id = walk[N] BY <1>1
    <2> HIDE DEF id
    <2> QED BY <2>1, <2>2
<1> HIDE DEF id
<1>13. CASE Beyond(sheet, m)
    <2>1. seen = {}
        <3>1. ASSUME NEW k \in seen PROVE FALSE
            <4>1. k \in 1 .. Len(m) /\ IsBuiltin(Entry(sheet, m, k)) BY <1>0 DEF Entry
            <4> QED BY <1>13, <4>1 DEF Beyond, NoBuiltinUpTo
        <3> QED BY <3>1
    <2>2. EndsAtEmpty(sheet, m) BY <1>13 DEF Beyond
    <2> QED BY <2>1, <2>2 DEF id, first, N
<1>14. CASE walk[N].outcome = "identified" /\ ~Beyond(sheet, m)
    <2>1. PICK k \in 1 .. Len(m) :
              /\ k <= N /\ IsBuiltin(Entry(sheet, m, k)) /\ NoBuiltinUpTo(sheet, m, k - 1)
              /\ walk[N].id = Entry(sheet, m, k).id
        BY <1>11, <1>14 DEF Follows, Walking, Leaving, Found, NotFound
    <2>2. k \in seen BY <1>0, <2>1 DEF Entry
    <2>3. ASSUME NEW n \in seen, \A j \in seen : n <= j PROVE n = k
        <3>1. n <= k /\ n \in 1 .. Len(m) /\ IsBuiltin(sheet[m[n]]) BY <1>0, <2>2, <2>3
        <3>2. n \notin 1 .. k - 1 BY <2>1, <3>1 DEF NoBuiltinUpTo, Entry
        <3> QED BY <3>1, <3>2
    <2>4. \A n \in seen : (\A j \in seen : n <= j) => id.id = sheet[m[n]].id
        BY <1>12, <1>14, <2>1, <2>3 DEF Entry
    <2> QED BY <1>12, <1>14, <2>2, <2>4 DEF id, first, N
<1>15. CASE walk[N].outcome # "identified" /\ ~Beyond(sheet, m)
    <2>1. seen = {}
        <3>1. ASSUME NEW k \in seen PROVE FALSE
            <4>1. k \in 1 .. Len(m) /\ k \in 1 .. N /\ IsBuiltin(Entry(sheet, m, k))
                BY <1>0 DEF Entry
            <4>2. NoBuiltinUpTo(sheet, m, N) \/ NoBuiltinUpTo(sheet, m, Len(m))
                BY <1>11, <1>15 DEF Follows, Walking, Found, Leaving, NotFound
            <4> QED BY <4>1, <4>2 DEF NoBuiltinUpTo
        <3> QED BY <3>1
    <2> QED BY <1>12, <1>15, <2>1 DEF id, first, N
<1> QED BY <1>14, <1>15, <1>13

(***************************************************************************)
(* The identifier a paragraph is judged by is that of the style its chain  *)
(* starts at, when the chain has one.                                      *)
(***************************************************************************)
LEMMA JudgedByTheStart ==
    ASSUME NEW E, NEW sheet \in Seq(E), NEW ref \in StyleIds \cup {NoId},
           NEW start \in Start(sheet, ref, "paragraph"), sheet[start].id # NoId
    PROVE  IdentityRef(sheet, ref) = {sheet[start].id} /\ sheet[start].type = "paragraph"
<1>1. CASE ref \in StyleIds
    <2>1. ref # NoId BY <1>1, StyleIdsAssumption
    <2>2. start \in Definitions(sheet, ref) /\ sheet[start].type = "paragraph"
        BY <2>1 DEF Start
    <2> QED BY <1>1, <2>2 DEF Definitions, IdentityRef, IdentifierOf
<1>2. CASE ref = NoId
    <2> DEFINE D == Defaults(sheet, "paragraph")
               lasts == {j \in D : \A k \in D : k <= j}
    <2>1. D # {} /\ start = Max(D) BY <1>2 DEF Start
    <2>2. Len(sheet) \in Nat /\ D \in SUBSET (0 .. Len(sheet)) /\ D \in SUBSET Nat
        BY DEF Defaults
    <2>3. start \in D /\ \A k \in D : k <= start
        <3> HIDE DEF D
        <3> QED BY <2>1, <2>2, GreatestOf
    <2>4. lasts = {start}
        <3> HIDE DEF D
        <3>1. start \in lasts BY <2>3
        <3>2. ASSUME NEW j \in lasts PROVE j = start
            <4>1. j \in D /\ start <= j /\ j <= start BY <2>3
            <4> QED BY <2>2, <2>3, <4>1
        <3> HIDE DEF lasts
        <3> QED BY <3>1, <3>2
    <2>5. ref \notin StyleIds BY <1>2, StyleIdsAssumption
    <2>6. IdentityRef(sheet, ref) = {sheet[i].id : i \in lasts} \ {NoId}
        BY <1>2, <2>5 DEF IdentityRef, IdentifierOf
    <2> HIDE DEF lasts
    <2>7. IdentityRef(sheet, ref) = {sheet[start].id} BY <2>4, <2>6
    <2> QED BY <2>3, <2>7 DEF Defaults
<1> QED BY <1>1, <1>2

LEMMA BrokenAtOnce ==
    ASSUME NEW E, NEW sheet \in Seq(E), NEW id,
           ~IsDefined(sheet, id) \/ sheet[Referent(sheet, id)].type # "paragraph"
    PROVE  StyleIdentity(sheet, id).outcome # "identified"
<1> DEFINE N == MaxChainDepth + 1
<1>0. N \in Nat /\ N >= 1 BY DepthAssumption
<1>1. PICK walk :
          /\ IsHopping(sheet, id, walk)
          /\ StyleIdentity(sheet, id) =
                 IF walk[N].outcome = "walking" THEN [walk[N] EXCEPT !.outcome = "broken_chain"]
                 ELSE walk[N]
    BY StyleIdentityIsHopping
<1>2. /\ walk[0] = At(id, {id}) /\ \A n \in 1 .. N : walk[n] = Hop(sheet, walk[n - 1])
      /\ \A n \in 0 .. N : walk[n] \in Identities(sheet, id)
    BY <1>1 DEF IsHopping
<1> DEFINE S == {n \in 0 .. N : n # 0 => walk[n].outcome = "broken_chain"}
<1>3. 0 \in S BY <1>0
<1>4. ASSUME NEW n \in 0 .. N - 1, n \in S PROVE n + 1 \in S
    <2>1. n \in 0 .. N /\ n + 1 \in 1 .. N /\ n + 1 \in 0 .. N /\ (n + 1) - 1 = n BY <1>0
    <2>2. walk[n + 1] = Hop(sheet, walk[n]) BY <1>2, <2>1
    <2>3. CASE n = 0
        <3>1. walk[n].id = id /\ walk[n].outcome = "walking" BY <1>2, <2>3 DEF At
        <3>2. walk[n + 1] = [walk[n] EXCEPT !.outcome = "broken_chain"]
            BY <2>2, <3>1 DEF Hop
        <3>3. walk[n] \in Identities(sheet, id) BY <1>2, <2>1
        <3>4. walk[n + 1].outcome = "broken_chain" BY <3>2, <3>3 DEF Identities
        <3> QED BY <2>1, <3>4
    <2>4. CASE n # 0
        <3>1. walk[n].outcome = "broken_chain" BY <1>4, <2>4
        <3>2. walk[n + 1] = walk[n] BY <2>2, <3>1 DEF Hop
        <3> QED BY <2>1, <3>1, <3>2
    <2> QED BY <2>3, <2>4
<1>5. walk[N].outcome = "broken_chain"
    <2>1. N \in 0 .. N /\ N # 0 BY <1>0
    <2>2. N \in S
        <3> HIDE DEF S, N
        <3> QED BY <1>0, <1>3, <1>4, <2>1, NatInductionUpTo
    <2> QED BY <2>1, <2>2
<1> QED BY <1>1, <1>5

LEMMA NoStartNoClass ==
    ASSUME NEW E, NEW sheet \in Seq(E), NEW p \in Paragraph, p.ref # Ambiguous,
           Start(sheet, p.ref, "paragraph") = {}
    PROVE  Classify(sheet, p).status # "classified"
<1>1. CASE p.ref = NoId
    <2>1. p.ref \notin StyleIds BY <1>1, StyleIdsAssumption
    <2>2. Defaults(sheet, "paragraph") = {} BY <1>1 DEF Start
    <2>3. IdentityRef(sheet, p.ref) = {} BY <1>1, <2>1, <2>2 DEF IdentityRef, IdentifierOf
    <2> QED BY <2>3 DEF Classify, Outcome, Abstained
<1>2. CASE p.ref \in StyleIds
    <2>1. p.ref # NoId BY <1>2, StyleIdsAssumption
    <2>2. IdentityRef(sheet, p.ref) = {p.ref} BY <1>2 DEF IdentityRef, IdentifierOf
    <2>3. ~IsDefined(sheet, p.ref) \/ sheet[Referent(sheet, p.ref)].type # "paragraph"
        <3> SUFFICES ASSUME IsDefined(sheet, p.ref),
                            sheet[Referent(sheet, p.ref)].type = "paragraph"
                     PROVE  FALSE
            OBVIOUS
        <3>1. Referent(sheet, p.ref) \in Definitions(sheet, p.ref)
            BY ReferentIsADefinition DEF Definitions
        <3>2. Referent(sheet, p.ref) \in Start(sheet, p.ref, "paragraph")
            BY <2>1, <3>1 DEF Start
        <3> QED BY <3>2
    <2>4. StyleIdentity(sheet, p.ref).outcome # "identified" BY <2>3, BrokenAtOnce
    <2> QED BY <2>2, <2>4 DEF Classify, ByIdentity, Outcome, Abstained
<1> QED BY <1>1, <1>2 DEF Paragraph

LEMMA NotJudgedNoClass ==
    ASSUME NEW sheet, NEW p \in Paragraph,
           ~(p.story = "body" /\ p.text /\ ~p.contained /\ p.ref # Ambiguous)
    PROVE  Classify(sheet, p).status # "classified"
<1>1. p.ref = Ambiguous => IdentityRef(sheet, p.ref) = {}
    BY StyleIdsAssumption DEF IdentityRef, IdentifierOf, Ambiguous, NoId
<1> QED BY <1>1 DEF Classify, Outcome, Abstained

(***************************************************************************)
(* A paragraph is never left without the class its formatting comes from   *)
(* nor given another (identity.py and formatting.py), save in the cases    *)
(* the property names: for every style sheet, depth of the walk and table  *)
(* of built-in styles.                                                     *)
(***************************************************************************)
THEOREM ClassesFollowFormatting == Spec => []ClassFollowsFormatting
<1>1. Sheet => ClassFollowsFormatting
    <2> SUFFICES ASSUME Sheet, NEW p \in Paragraph
        PROVE  LET chain == ChainOf(styles, StyleRef(p.ref), "paragraph")
                   builtins == BuiltinsOn(chain.members)
                   result == Classify(styles, p)
                   judged == p.story = "body" /\ p.text /\ ~p.contained /\ p.ref # Ambiguous
               IN  /\ ~judged => result.status # "classified"
                   /\ (~chain.blocked /\ StartsAtReferent(chain.members) /\ judged) =>
                          /\ builtins # {} => result.status = "classified"
                          /\ result.status = "classified" =>
                                 builtins # {} \/ EndsAtEmptyId(chain.members)
                          /\ \A n \in builtins : (\A k \in builtins : n <= k) =>
                                 result.class = BuiltinClass[styles[chain.members[n]].id]
        BY DEF ClassFollowsFormatting
    <2> DEFINE chain == ChainOf(styles, StyleRef(p.ref), "paragraph")
               m == chain.members
               builtins == BuiltinsOn(m)
               result == Classify(styles, p)
               judged == p.story = "body" /\ p.text /\ ~p.contained /\ p.ref # Ambiguous
    <2>0. styles \in Seq(Entries) BY DEF Sheet
    <2>1. ~judged => result.status # "classified" BY NotJudgedNoClass
    <2>2. ASSUME ~chain.blocked, StartsAtReferent(m), judged
          PROVE  /\ builtins # {} => result.status = "classified"
                 /\ result.status = "classified" => builtins # {} \/ EndsAtEmptyId(m)
                 /\ \A n \in builtins : (\A k \in builtins : n <= k) =>
                        result.class = BuiltinClass[styles[m[n]].id]
        <3>1. StyleRef(p.ref) = p.ref /\ p.ref \in StyleIds \cup {NoId}
            BY <2>2 DEF StyleRef, Paragraph
        <3>2. partStatus # "unreadable" BY <2>2 DEF ChainOf, Chain
        <3>3. CASE Start(styles, p.ref, "paragraph") = {}
            <4>1. m = <<>> BY <3>1, <3>2, <3>3 DEF ChainOf, Chain
            <4>2. builtins = {} BY <4>1 DEF BuiltinsOn
            <4>3. result.status # "classified" BY <2>0, <2>2, <3>3, NoStartNoClass
            <4> QED BY <4>2, <4>3
        <3>4. CASE Start(styles, p.ref, "paragraph") # {}
            <4> DEFINE start == CHOOSE i \in Start(styles, p.ref, "paragraph") : TRUE
            <4>1. start \in Start(styles, p.ref, "paragraph") BY <3>4
            <4>2. chain = ChainFrom(styles, start, "paragraph")
                BY <3>1, <3>2, <3>4 DEF ChainOf
            <4> HIDE DEF start, chain
            <4>3. start \in DOMAIN styles BY <2>0, <4>1, StartIsAStyle
            <4>4. /\ chain \in Chains(styles, start, "paragraph")
                  /\ chain.blocked \/ ~HasParent(styles, Last(m), "paragraph")
                BY <2>0, <4>2, <4>3, ChainsEnd
            <4>5. IsWalk(styles, start, "paragraph", m) /\ ~HasParent(styles, Last(m), "paragraph")
                BY <2>2, <4>4 DEF Chains
            <4> HIDE DEF m
            <4>6. m # <<>> /\ m[1] = start BY <4>5 DEF IsWalk
            <4>7. styles[start].id # NoId /\ start = Referent(styles, styles[start].id)
                BY <2>2, <4>6 DEF StartsAtReferent
            <4>8. IdentityRef(styles, p.ref) = {styles[start].id}
                  /\ styles[start].type = "paragraph"
                BY <2>0, <3>1, <4>1, <4>7, JudgedByTheStart
            <4>9. StartsWell(styles, m) BY <4>6, <4>7, <4>8 DEF StartsWell
            <4> DEFINE walk == StyleIdentity(styles, styles[m[1]].id)
                       seen == {k \in DOMAIN m : k <= MaxChainDepth + 1 /\ IsBuiltin(styles[m[k]])}
            <4>10. /\ seen # {} => walk.outcome = "identified"
                   /\ walk.outcome = "identified" => seen # {} \/ EndsAtEmpty(styles, m)
                   /\ \A n \in seen : (\A k \in seen : n <= k) => walk.id = styles[m[n]].id
                BY <2>0, <4>5, <4>9, IdentityFollowsTheChain
            <4>11. EndsAtEmpty(styles, m) => EndsAtEmptyId(m)
                BY <4>6 DEF EndsAtEmpty, EndsAtEmptyId, Last
            <4>12. builtins = seen BY DEF BuiltinsOn
            <4>13. result = ByIdentity(styles, p.ref, styles[m[1]].id)
                BY <2>2, <4>6, <4>8 DEF Classify
            <4>14. result = IF walk.outcome = "identified"
                            THEN Outcome("classified", BuiltinClass[walk.id],
                                         "explicit_style_signal", FALSE)
                            ELSE Abstained("insufficient_evidence",
                                           walk.outcome = "broken_chain"
                                               /\ ~ReportsMissing(styles, p.ref))
                BY <4>13 DEF ByIdentity
            <4> HIDE DEF walk, seen, builtins, result
            <4>15. CASE walk.outcome = "identified"
                <5>1. result.status = "classified" /\ result.class = BuiltinClass[walk.id]
                    BY <4>14, <4>15 DEF Outcome
                <5> QED BY <4>10, <4>11, <4>12, <4>15, <5>1
            <4>16. CASE walk.outcome # "identified"
                <5>1. result.status = "abstained" BY <4>14, <4>16 DEF Outcome, Abstained
                <5> QED BY <4>10, <4>12, <4>16, <5>1
            <4> QED BY <4>15, <4>16
        <3> QED BY <3>3, <3>4
    <2> QED BY <2>1, <2>2
<1> QED BY <1>1, SheetInvariant, PTL
=============================================================================
