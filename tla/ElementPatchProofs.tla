------------------------- MODULE ElementPatchProofs -------------------------
(***************************************************************************)
(* What holds of every patched paragraph and run, whatever its content,    *)
(* its properties and the levels it inherits: the patcher never fails its  *)
(* own checks, and it does what the modules that patch formatting sites    *)
(* say. The inductive invariant is only that the elements stay well-formed *)
(* XML; that the checks pass is shown of one mutation of any well-formed   *)
(* element (MutationIsSound).                                              *)
(***************************************************************************)
EXTENDS ElementPatch, StructureProofs

-------------------------------------------------------------------------------
(***************************************************************************)
(* Two selections along an order-preserving correspondence of their        *)
(* indices: what deleting a property from two sequences leaves.            *)
(***************************************************************************)
Along(h, I) == {h[i] : i \in I}

Counted(I, k) == Cardinality({j \in I : j < k})

(***************************************************************************)
(* An injective image has as many members.                                 *)
(***************************************************************************)
LEMMA ImageAlong ==
    ASSUME NEW I, IsFiniteSet(I), NEW h, I \subseteq DOMAIN h,
           \A i, j \in I : h[i] = h[j] => i = j
    PROVE  /\ IsFiniteSet(Along(h, I))
           /\ Cardinality(Along(h, I)) = Cardinality(I)
<1> DEFINE J == {h[i] : i \in I}
           g == [i \in I |-> h[i]]
<1>1. g \in Bijection(I, J)
    BY DEF Bijection, Injection, Surjection, IsInjective
<1>2. ExistsBijection(I, J)
    <2> HIDE DEF g, J
    <2> QED BY <1>1 DEF ExistsBijection
<1> HIDE DEF g, J
<1> QED BY <1>2, FS_Bijection DEF J, Along

(***************************************************************************)
(* The n-th index is the one with n - 1 before it.                         *)
(***************************************************************************)
LEMMA CountedIsNth ==
    ASSUME NEW I \in SUBSET Nat, IsFiniteSet(I), NEW n \in Nat, NEW i \in I,
           Counted(I, i) = n - 1
    PROVE  Nth(I, n) = i
<1> DEFINE k == Nth(I, n)
           Before(x) == {j \in I : j < x}
<1>1. k \in I /\ Cardinality(Before(k)) = n - 1 BY DEF Nth, Counted
<1>2. \A x \in I : IsFiniteSet(Before(x)) BY FS_Subset
<1>3. ASSUME NEW x \in I, NEW y \in I, x < y PROVE Cardinality(Before(x)) # Cardinality(Before(y))
    <2>0. x \in Nat /\ y \in Nat /\ \A j \in I : j \in Nat OBVIOUS
    <2>4. \A j \in I : j < x => j < y BY <1>3, <2>0
    <2>5. \A j \in Before(x) : j \in Before(y) BY <2>4
    <2>6. x \in Before(y) BY <1>3
    <2>7. x \notin Before(x) BY <2>0
    <2> HIDE DEF Before
    <2>1. Before(x) \in SUBSET Before(y) /\ x \in Before(y) /\ x \notin Before(x) BY <2>5, <2>6, <2>7
    <2>2. Before(x) # Before(y) BY <2>1
    <2>3. IsFiniteSet(Before(y)) BY <1>2
    <2> HIDE DEF Before
    <2> QED BY <2>1, <2>2, <2>3, FS_Subset
<1>4. k = i \/ k < i \/ i < k
    <2>1. k \in Nat /\ i \in Nat BY <1>1
    <2> HIDE DEF k
    <2> QED BY <2>1
<1>5. Cardinality(Before(i)) = n - 1 BY DEF Counted
<1> HIDE DEF Before, k
<1>6. k = i BY <1>1, <1>3, <1>4, <1>5
<1> QED BY <1>6 DEF k

(***************************************************************************)
(* There is one: the indices before an index are counted by its place.     *)
(***************************************************************************)
LEMMA NthCounts ==
    ASSUME NEW I \in SUBSET Nat, IsFiniteSet(I), NEW n \in 1 .. Cardinality(I)
    PROVE  \E k \in I : Counted(I, k) = n - 1
<1> DEFINE R == {pair \in I \X I : pair[1] < pair[2]}
<1>1. IsTotalOn(R, I)
    <2>1. \A x, y \in I : <<x, y>> \in R <=> x < y OBVIOUS
    <2>2. \A x, y, z \in I : x < y /\ y < z => x < z OBVIOUS
    <2>3. \A x \in I : ~(x < x) OBVIOUS
    <2>4. \A x, y \in I : x = y \/ x < y \/ y < x OBVIOUS
    <2> HIDE DEF R
    <2> QED BY <2>1, <2>2, <2>3, <2>4, Zenon DEF IsTotalOn
<1>2. Cardinality(I) \in Nat /\ n - 1 \in 0 .. Cardinality(I) - 1 BY FS_CardinalityType
<1>3. PICK k \in I : PlaceIn(R, I, k) = n - 1
    <2> HIDE DEF R
    <2> QED BY <1>1, <1>2, EveryPlaceIsTaken
<1>4. {j \in I : <<j, k>> \in R} = {j \in I : j < k} OBVIOUS
<1> QED BY <1>3, <1>4 DEF PlaceIn, Counted

(***************************************************************************)
(* Two selections are the same when their indices correspond in order and  *)
(* corresponding elements are the same.                                    *)
(***************************************************************************)
LEMMA SelectedAlong ==
    ASSUME NEW I \in SUBSET Nat, IsFiniteSet(I), NEW h, I \subseteq DOMAIN h,
           \A i \in I : h[i] \in Nat,
           \A i, j \in I : i < j <=> h[i] < h[j],
           NEW s, NEW t, \A i \in I : t[h[i]] = s[i]
    PROVE  Selected(t, Along(h, I)) = Selected(s, I)
<1> DEFINE J == Along(h, I)
           c == Cardinality(I)
<1>1. \A i, j \in I : h[i] = h[j] => i = j
    <2> SUFFICES ASSUME NEW i \in I, NEW j \in I, h[i] = h[j] PROVE i = j OBVIOUS
    <2>1. i \in Nat /\ j \in Nat OBVIOUS
    <2>2. ~(i < j) /\ ~(j < i) OBVIOUS
    <2> QED BY <2>1, <2>2
<1>2. J \in SUBSET Nat BY DEF Along
<1>3. IsFiniteSet(J) /\ Cardinality(J) = c
    <2>1. I \subseteq DOMAIN h OBVIOUS
    <2> QED BY <1>1, <2>1, ImageAlong
<1>4. /\ c \in Nat
      /\ \A n \in 1 .. c : Nth(I, n) \in I
    BY IndicesInOrder
<1>5. ASSUME NEW n \in 1 .. c PROVE Nth(J, n) = h[Nth(I, n)]
    <2> DEFINE i == Nth(I, n)
               K == {j \in I : j < i}
    <2>1. i \in I BY <1>4
    <2>2. Cardinality(K) = n - 1
        <3>1. \E k \in I : Cardinality({j \in I : j < k}) = n - 1 BY NthCounts DEF Counted
        <3> QED BY <3>1 DEF Nth
    <2> HIDE DEF i
    <2>3. {j \in J : j < h[i]} = Along(h, K) BY <2>1 DEF Along
    <2>4. IsFiniteSet(K) /\ K \subseteq DOMAIN h BY FS_Subset
    <2>5. \A x, y \in K : h[x] = h[y] => x = y BY <1>1
    <2>6. Cardinality(Along(h, K)) = n - 1
        <3> HIDE DEF K
        <3> QED BY <2>2, <2>4, <2>5, ImageAlong
    <2>7. h[i] \in J /\ n \in Nat BY <2>1 DEF Along
    <2>8. Counted(J, h[i]) = n - 1 BY <2>3, <2>6 DEF Counted
    <2> HIDE DEF J, K
    <2> DEFINE x == h[i]
    <2>9. x \in J /\ Counted(J, x) = n - 1 BY <2>7, <2>8
    <2> HIDE DEF x
    <2>10. Nth(J, n) = x BY <1>2, <1>3, <2>7, <2>9, CountedIsNth
    <2> QED BY <2>10 DEF x, i
<1>6. \A n \in 1 .. c : t[Nth(J, n)] = s[Nth(I, n)] BY <1>4, <1>5
<1> HIDE DEF J, c
<1>7. Selected(t, J) = [n \in 1 .. c |-> t[Nth(J, n)]] BY <1>3 DEF Selected
<1>8. Selected(s, I) = [n \in 1 .. c |-> s[Nth(I, n)]] BY DEF Selected, c
<1>9. Selected(t, J) = Selected(s, I) BY <1>6, <1>7, <1>8
<1> QED BY <1>9 DEF J

-------------------------------------------------------------------------------
(***************************************************************************)
(* Inserting an element into a sequence, and the schema's ranks.           *)
(***************************************************************************)

(***************************************************************************)
(* The elements of a sequence with one inserted.                           *)
(***************************************************************************)
LEMMA PropertyInserted ==
    ASSUME NEW S, NEW s \in Seq(S), NEW e \in S, NEW p \in 1 .. Len(s) + 1
    PROVE  /\ InsertAt(s, p, e) \in Seq(S)
           /\ Len(InsertAt(s, p, e)) = Len(s) + 1
           /\ \A i \in 1 .. Len(s) + 1 :
                 InsertAt(s, p, e)[i] = IF i < p THEN s[i] ELSE IF i = p THEN e ELSE s[i - 1]
<1> DEFINE n == Len(s)
           a == SubSeq(s, 1, p - 1)
           b == SubSeq(s, p, n)
           ae == a \o <<e>>
<1>1. n \in Nat /\ p \in Nat /\ p - 1 \in Int /\ p - 1 \in Nat /\ \A i \in 1 .. n : s[i] \in S
    BY ElementOfSeq
<1>2. a \in Seq(S) /\ Len(a) = p - 1 /\ \A i \in 1 .. p - 1 : a[i] = s[i]
    <2>1. \A i \in 1 .. p - 1 : s[i] \in S BY <1>1
    <2>2. /\ a \in Seq(S)
          /\ Len(a) = IF 1 <= p - 1 THEN (p - 1) - 1 + 1 ELSE 0
          /\ \A i \in 1 .. (p - 1) - 1 + 1 : a[i] = s[1 + i - 1]
        BY <1>1, <2>1, SubSeqProperties
    <2> HIDE DEF a
    <2> QED BY <1>1, <2>2
<1>3. b \in Seq(S) /\ Len(b) = n - p + 1 /\ \A i \in 1 .. n - p + 1 : b[i] = s[p + i - 1]
    <2>1. \A i \in p .. n : s[i] \in S BY <1>1
    <2>2. /\ b \in Seq(S)
          /\ Len(b) = IF p <= n THEN n - p + 1 ELSE 0
          /\ \A i \in 1 .. n - p + 1 : b[i] = s[p + i - 1]
        BY <1>1, <2>1, SubSeqProperties
    <2> HIDE DEF b
    <2> QED BY <1>1, <2>2
<1>4. InsertAt(s, p, e) = ae \o b BY DEF InsertAt
<1>5. <<e>> \in Seq(S) /\ Len(<<e>>) = 1 /\ <<e>>[1] = e OBVIOUS
<1> HIDE DEF a, b
<1>6. /\ ae \in Seq(S) /\ Len(ae) = p
      /\ \A i \in 1 .. p : ae[i] = IF i <= p - 1 THEN s[i] ELSE e
    <2>1. /\ ae \in Seq(S)
          /\ Len(ae) = (p - 1) + 1
          /\ \A i \in 1 .. (p - 1) + 1 :
                ae[i] = IF i <= p - 1 THEN a[i] ELSE <<e>>[i - (p - 1)]
        BY <1>2, <1>5, ConcatProperties
    <2> HIDE DEF ae
    <2>2. (p - 1) + 1 = p /\ \A i \in 1 .. p : i \notin 1 .. p - 1 => i - (p - 1) = 1 BY <1>1
    <2>3. \A i \in 1 .. p : ae[i] = IF i <= p - 1 THEN s[i] ELSE e
        <3> SUFFICES ASSUME NEW i \in 1 .. p PROVE ae[i] = IF i <= p - 1 THEN s[i] ELSE e OBVIOUS
        <3>1. ae[i] = IF i <= p - 1 THEN a[i] ELSE <<e>>[i - (p - 1)] BY <2>1, <2>2
        <3>2. ASSUME i <= p - 1 PROVE a[i] = s[i] BY <1>1, <1>2, <3>2
        <3>3. ASSUME ~(i <= p - 1) PROVE <<e>>[i - (p - 1)] = e
            <4>1. i - (p - 1) = 1 BY <1>1, <3>3
            <4> QED BY <4>1
        <3> QED BY <3>1, <3>2, <3>3
    <2> QED BY <2>1, <2>2, <2>3
<1> HIDE DEF ae
<1>7. /\ ae \o b \in Seq(S) /\ Len(ae \o b) = p + (n - p + 1)
      /\ \A i \in 1 .. p + (n - p + 1) : (ae \o b)[i] = IF i <= p THEN ae[i] ELSE b[i - p]
    BY <1>3, <1>6, ConcatProperties
<1>8. p + (n - p + 1) = n + 1 BY <1>1
<1>9. ASSUME NEW i \in 1 .. n + 1
      PROVE  (ae \o b)[i] = IF i < p THEN s[i] ELSE IF i = p THEN e ELSE s[i - 1]
    <2>1. (ae \o b)[i] = IF i <= p THEN ae[i] ELSE b[i - p] BY <1>7, <1>8
    <2>2. ASSUME i > p PROVE b[i - p] = s[i - 1]
        <3>1. i - p \in 1 .. n - p + 1 /\ p + (i - p) - 1 = i - 1 BY <1>1, <2>2
        <3> QED BY <1>3, <3>1
    <2>3. ASSUME i <= p PROVE ae[i] = IF i <= p - 1 THEN s[i] ELSE e
        BY <1>1, <1>6, <2>3
    <2> QED BY <1>1, <2>1, <2>2, <2>3
<1> HIDE DEF n
<1> QED BY <1>4, <1>7, <1>8, <1>9 DEF n

(***************************************************************************)
(* Every property that is ever set has a place in the schema's order.      *)
(***************************************************************************)
LEMMA Ranks ==
    ASSUME NEW kind \in Kinds
    PROVE  /\ \A tag : Rank(kind, tag) \in Nat
           /\ \A slot \in SlotsOfKind[kind] : Rank(kind, Tag(slot)) # 0
<1> DEFINE order == CanonicalOrder[kind]
           At(tag) == {i \in 1 .. Len(order) : order[i] = tag}
<1>2. Len(order) \in Nat /\ DOMAIN order = 1 .. Len(order)
    <2>1. Len(RunOrder) = 40 /\ DOMAIN RunOrder = 1 .. 40 BY DEF RunOrder
    <2>2. Len(ParagraphOrder) = 36 /\ DOMAIN ParagraphOrder = 1 .. 36 BY DEF ParagraphOrder
    <2> QED BY <2>1, <2>2 DEF CanonicalOrder, Kinds
<1>3. DOMAIN CanonicalOrder = Kinds BY DEF CanonicalOrder, Kinds
<1>4. CanonicalRank[kind] = [tag \in Range(order) |-> IF At(tag) # {} THEN Min(At(tag)) ELSE 0]
    BY <1>3, Zenon DEF CanonicalRank, SelectInSeq
<1> HIDE DEF order
<1>5. ASSUME NEW tag \in Range(order) PROVE Rank(kind, tag) \in Nat \ {0}
    <2>1. At(tag) # {} BY <1>2, <1>5 DEF Range
    <2>2. At(tag) \in SUBSET Nat BY <1>2
    <2>3. Rank(kind, tag) = Min(At(tag)) BY <1>4, <2>1 DEF Rank
    <2>4. \A i \in At(tag) : i \in Nat \ {0} BY <1>2
    <2> HIDE DEF At
    <2> QED BY <2>1, <2>2, <2>3, <2>4, LeastOf
<1>6. ASSUME NEW tag, tag \notin Range(order) PROVE Rank(kind, tag) = 0
    <2>1. DOMAIN CanonicalRank[kind] = Range(order) BY <1>4
    <2> QED BY <1>6, <2>1 DEF Rank
<1>7. ASSUME NEW slot \in SlotsOfKind[kind] PROVE Tag(slot) \in Range(order)
    <2>1. CASE kind = "run"
        <3>1. order = RunOrder BY <2>1 DEF order, CanonicalOrder
        <3>2. RunOrder[3] = "b" /\ RunOrder[24] = "sz" /\ DOMAIN RunOrder = 1 .. 40 BY DEF RunOrder
        <3>3. slot \in {"bold", "font_size"} BY <1>7, <2>1 DEF SlotsOfKind
        <3> QED BY <3>1, <3>2, <3>3 DEF Tag, Range
    <2>2. CASE kind = "paragraph"
        <3>1. order = ParagraphOrder BY <2>2 DEF order, CanonicalOrder
        <3>2. ParagraphOrder[27] = "jc" /\ ParagraphOrder[22] = "spacing" /\ DOMAIN ParagraphOrder = 1 .. 36
            BY DEF ParagraphOrder
        <3>3. slot \in {"alignment", "spacing.line"} BY <1>7, <2>2 DEF SlotsOfKind
        <3> QED BY <3>1, <3>2, <3>3 DEF Tag, Range
    <2> QED BY <2>1, <2>2 DEF Kinds
<1> QED BY <1>5, <1>6, <1>7

-------------------------------------------------------------------------------
(***************************************************************************)
(* Setting one property among the children of a container. The other       *)
(* children keep their order and their places around it.                   *)
(***************************************************************************)

(***************************************************************************)
(* Cardinalities as the model uses them.                                   *)
(***************************************************************************)
LEMMA MoreThanOne ==
    ASSUME NEW T, IsFiniteSet(T)
    PROVE  /\ Cardinality(T) > 1 <=> \E x, y \in T : x # y
           /\ Cardinality(T) = 1 <=> \E x : T = {x}
<1>1. Cardinality(T) \in Nat BY FS_CardinalityType
<1>2. ASSUME NEW x \in T, NEW y \in T, x # y PROVE Cardinality(T) > 1
    <2>1. IsFiniteSet({x, y}) /\ Cardinality({x, y}) = 2
        <3>1. IsFiniteSet({x}) /\ Cardinality({x}) = 1 BY FS_Singleton
        <3>2. {x, y} = {x} \cup {y} OBVIOUS
        <3> QED BY <1>2, <3>1, <3>2, FS_AddElement
    <2>2. {x, y} \in SUBSET T OBVIOUS
    <2> QED BY <1>1, <2>1, <2>2, FS_Subset
<1>3. ASSUME NEW x, T = {x} PROVE Cardinality(T) = 1 BY <1>3, FS_Singleton
<1>4. T = {} => Cardinality(T) = 0 BY FS_EmptySet
<1>5. T = {} \/ (\E x : T = {x}) \/ (\E x, y \in T : x # y) OBVIOUS
<1> QED BY <1>1, <1>2, <1>3, <1>4, <1>5

IsChildren(c) == IsSequence(c) /\ \A i \in DOMAIN c : IsProperty(c[i])

LEMMA Sequences ==
    ASSUME NEW s
    PROVE  /\ \A S : s \in Seq(S) => IsSequence(s)
           /\ IsSequence(s) => Len(s) \in Nat /\ DOMAIN s = 1 .. Len(s) /\ IsFiniteSet(DOMAIN s)
<1>1. ASSUME NEW S, s \in Seq(S) PROVE IsSequence(s)
    <2>1. Len(s) \in Nat /\ s \in [1 .. Len(s) -> S] /\ DOMAIN s = 1 .. Len(s)
        BY <1>1, LenProperties
    <2>2. \A i \in 1 .. Len(s) : s[i] \in ToSet(s) BY <2>1 DEF ToSet
    <2>3. s \in [1 .. Len(s) -> ToSet(s)] BY <2>1, <2>2
    <2> QED BY <2>1, <2>3, SeqDef DEF IsSequence
<1>2. ASSUME IsSequence(s)
      PROVE  Len(s) \in Nat /\ DOMAIN s = 1 .. Len(s) /\ IsFiniteSet(DOMAIN s)
    <2>1. Len(s) \in Nat /\ DOMAIN s = 1 .. Len(s) BY <1>2, LenProperties DEF IsSequence
    <2> QED BY <2>1, FS_Interval
<1> QED BY <1>1, <1>2

LEMMA ChildrenOfABody ==
    ASSUME NEW body, IsBody(body)
    PROVE  IsChildren(PropertiesOf(body))
<1>1. Containers(body) \in SUBSET Nat BY Sequences DEF Containers, IsBody
<1>2. CASE Containers(body) = {}
    <2>1. <<>> \in Seq({}) BY EmptySeq
    <2>2. IsSequence(<<>>) BY <2>1, Sequences
    <2>3. DOMAIN <<>> = {} OBVIOUS
    <2> QED BY <1>2, <2>2, <2>3 DEF PropertiesOf, IsChildren
<1>3. CASE Containers(body) # {}
    <2>1. Min(Containers(body)) \in Containers(body) BY <1>1, <1>3, LeastOf
    <2>2. IsNode(body[Min(Containers(body))]) BY <2>1 DEF Containers, IsBody
    <2> QED BY <1>3, <2>2 DEF PropertiesOf, IsChildren, IsNode
<1> QED BY <1>2, <1>3

Others(c, slot) == DOMAIN c \ TargetsIn(c, slot)

(***************************************************************************)
(* One property of the children is set: the other children keep their      *)
(* order around it.                                                        *)
(***************************************************************************)
Sets(c, d, slot, desired, h, q, attrs) ==
    /\ DOMAIN h = Others(c, slot) /\ \A i \in Others(c, slot) : h[i] \in Nat
    /\ \A i, j \in Others(c, slot) : i < j <=> h[i] < h[j]
    /\ \A i \in Others(c, slot) : d[h[i]] = c[i]
    /\ DOMAIN d = Along(h, Others(c, slot)) \cup {q} /\ q \notin Along(h, Others(c, slot))
    /\ d[q] = [tag |-> Tag(slot), attrs |-> Written(slot, desired, attrs), nested |-> FALSE]
    /\ slot # "bold" => DOMAIN attrs \subseteq AttrsAllowed(slot)
    /\ TargetsIn(c, slot) = {} => attrs = NoAttrs
    /\ \A m \in TargetsIn(c, slot) :
          /\ c[m] = [tag |-> Tag(slot), attrs |-> attrs, nested |-> FALSE]
          /\ \A i \in Others(c, slot) : (i < m <=> h[i] < q) /\ (m < i <=> q < h[i])

IsSet(c, d, slot, desired) == \E h, q, attrs : Sets(c, d, slot, desired, h, q, attrs)

(***************************************************************************)
(* A property element with other attributes.                               *)
(***************************************************************************)
LEMMA ChangedProperty ==
    ASSUME NEW p, IsProperty(p), NEW attrs
    PROVE  [p EXCEPT !.attrs = attrs] = [tag |-> p.tag, attrs |-> attrs, nested |-> p.nested]
<1>1. p = [tag |-> p.tag, attrs |-> p.attrs, nested |-> p.nested] BY DEF IsProperty
<1> QED BY <1>1

InPlace(c, m, slot, desired) == [c EXCEPT ![m].attrs = Written(slot, desired, @)]

(***************************************************************************)
(* Setting the only property of the tag in place.                          *)
(***************************************************************************)
LEMMA SetInPlace ==
    ASSUME NEW kind, NEW slot, NEW desired, NEW c, IsChildren(c), NEW m, TargetsIn(c, slot) = {m},
           ~PropertyRefused(slot, c[m]), InOrder(kind, c),
           NEW d, d = InPlace(c, m, slot, desired)
    PROVE  IsChildren(d) /\ IsSet(c, d, slot, desired) /\ InOrder(kind, d)
<1> DEFINE p == c[m]
           e == [tag |-> Tag(slot), attrs |-> Written(slot, desired, p.attrs), nested |-> FALSE]
           S == ToSet(c) \cup {e}
<1>1. /\ Len(c) \in Nat /\ DOMAIN c = 1 .. Len(c) /\ m \in DOMAIN c /\ p.tag = Tag(slot)
      /\ IsProperty(p)
    BY Sequences DEF IsChildren, TargetsIn
<1>2. p.nested = FALSE BY <1>1 DEF PropertyRefused, IsProperty
<1>3. e = [p EXCEPT !.attrs = Written(slot, desired, p.attrs)]
    <2> HIDE DEF p
    <2> QED BY <1>1, <1>2, ChangedProperty
<1>4. d = [c EXCEPT ![m] = e] BY <1>3 DEF InPlace
<1>5. c \in Seq(S)
    <2>1. c \in Seq(ToSet(c)) BY DEF IsChildren, IsSequence
    <2> QED BY <2>1, SeqMonotonic
<1>6. d \in Seq(S) /\ Len(d) = Len(c) /\ \A j \in 1 .. Len(c) : d[j] = IF j = m THEN e ELSE c[j]
    <2> HIDE DEF e
    <2>1. e \in S OBVIOUS
    <2> HIDE DEF S
    <2> QED BY <1>1, <1>4, <1>5, <2>1, ExceptSeq
<1>7. DOMAIN d = DOMAIN c BY <1>4
<1>8. IsProperty(e) BY DEF IsProperty
<1>9. e.tag = Tag(slot) OBVIOUS
<1>10. slot # "bold" => DOMAIN p.attrs \subseteq AttrsAllowed(slot) BY DEF PropertyRefused
<1> HIDE DEF S
<1>11. IsChildren(d)
    <2>1. \A i \in DOMAIN d : IsProperty(d[i])
        BY <1>1, <1>6, <1>7, <1>8 DEF IsChildren
    <2> QED BY <1>6, <2>1, Sequences DEF IsChildren
<1>12. \A i \in DOMAIN c : d[i].tag = c[i].tag BY <1>1, <1>6, <1>9
<1>13. InOrder(kind, d) BY <1>7, <1>12 DEF InOrder
<1>14. IsSet(c, d, slot, desired)
    <2> DEFINE h == [i \in Others(c, slot) |-> i]
    <2>1. DOMAIN h = Others(c, slot) /\ \A i \in Others(c, slot) : h[i] = i OBVIOUS
    <2>2. Others(c, slot) \subseteq 1 .. Len(c) /\ m \notin Others(c, slot)
          /\ DOMAIN c = Others(c, slot) \cup {m}
        BY <1>1 DEF Others
    <2>3. Along(h, Others(c, slot)) = Others(c, slot) BY <2>1 DEF Along
    <2> HIDE DEF h
    <2>4. d[m] = e BY <1>1, <1>6
    <2>5. Sets(c, d, slot, desired, h, m, p.attrs)
        <3>1. \A i, j \in Others(c, slot) : i < j <=> h[i] < h[j] BY <2>1
        <3>2. \A i \in Others(c, slot) : h[i] \in Nat /\ d[h[i]] = c[i] BY <1>1, <1>6, <2>1, <2>2
        <3>3. DOMAIN h = Others(c, slot) BY <2>1
        <3>4. DOMAIN d = Along(h, Others(c, slot)) \cup {m} /\ m \notin Along(h, Others(c, slot))
            BY <1>7, <2>2, <2>3
        <3>5. c[m] = [tag |-> Tag(slot), attrs |-> p.attrs, nested |-> FALSE]
            <4> HIDE DEF p
            <4>1. p = [tag |-> p.tag, attrs |-> p.attrs, nested |-> p.nested] BY <1>1 DEF IsProperty
            <4>2. p = [tag |-> Tag(slot), attrs |-> p.attrs, nested |-> FALSE] BY <1>1, <1>2, <4>1
            <4> QED BY <4>2 DEF p
        <3>6. \A i \in Others(c, slot) : (i < m <=> h[i] < m) /\ (m < i <=> m < h[i]) BY <2>1
        <3> HIDE DEF p
        <3> QED BY <1>10, <2>4, <3>1, <3>2, <3>3, <3>4, <3>5, <3>6 DEF Sets
    <2> QED BY <2>5 DEF IsSet
<1> QED BY <1>11, <1>13, <1>14

(***************************************************************************)
(* Inserting a property there was none of: before the first one of a       *)
(* greater rank, which keeps the schema's order.                           *)
(***************************************************************************)
LEMMA SetAnew ==
    ASSUME NEW kind \in Kinds, NEW slot \in SlotsOfKind[kind], NEW desired, NEW c, IsChildren(c),
           TargetsIn(c, slot) = {}, InOrder(kind, c),
           NEW d, d = InsertCanonical(kind, c, Fresh(slot, desired))
    PROVE  IsChildren(d) /\ IsSet(c, d, slot, desired) /\ InOrder(kind, d)
<1> DEFINE f == Fresh(slot, desired)
           R(tag) == Rank(kind, tag)
           n == Len(c)
           later == {i \in DOMAIN c : R(c[i].tag) > R(f.tag)}
           p == IF later = {} THEN n + 1 ELSE Min(later)
           S == ToSet(c) \cup {f}
<1>1. n \in Nat /\ DOMAIN c = 1 .. n BY Sequences DEF IsChildren
<1>2. d = InsertAt(c, p, f) BY DEF InsertCanonical
<1>3. /\ f.tag = Tag(slot) /\ IsProperty(f)
      /\ f = [tag |-> Tag(slot), attrs |-> Written(slot, desired, NoAttrs), nested |-> FALSE]
    BY DEF Fresh, IsProperty
<1>4. \A tag : R(tag) \in Nat BY Ranks
<1>5. R(f.tag) # 0 BY <1>3, Ranks
<1>6. \A i, j \in 1 .. n : i < j => R(c[i].tag) <= R(c[j].tag) BY <1>1 DEF InOrder
<1>7. \A i \in 1 .. n : R(c[i].tag) # 0 BY <1>1 DEF InOrder
<1> HIDE DEF f, R
<1>8. /\ p \in 1 .. n + 1
      /\ \A i \in 1 .. n : i < p => R(c[i].tag) <= R(f.tag)
      /\ \A i \in 1 .. n : i >= p => R(f.tag) <= R(c[i].tag)
    <2>1. CASE later = {}
        <3>1. p = n + 1 BY <2>1
        <3>2. \A i \in 1 .. n : R(c[i].tag) <= R(f.tag) BY <1>1, <1>4, <2>1
        <3> HIDE DEF later, p
        <3> QED BY <1>1, <3>1, <3>2
    <2>2. CASE later # {}
        <3>1. later \in SUBSET Nat BY <1>1
        <3>2. p \in later /\ \A i \in later : p <= i BY <2>2, <3>1, LeastOf
        <3>3. p \in 1 .. n /\ R(c[p].tag) > R(f.tag) BY <1>1, <3>2
        <3>4. \A i \in 1 .. n : i \notin later => R(c[i].tag) <= R(f.tag) BY <1>1, <1>4
        <3> HIDE DEF later, p
        <3>5. \A i \in 1 .. n : i < p => R(c[i].tag) <= R(f.tag) BY <1>1, <3>2, <3>3, <3>4
        <3>6. ASSUME NEW i \in 1 .. n, i >= p PROVE R(f.tag) <= R(c[i].tag)
            <4>1. i = p \/ p < i BY <3>3, <3>6
            <4>2. R(c[p].tag) <= R(c[i].tag) BY <1>4, <1>6, <3>3, <4>1
            <4> QED BY <1>4, <3>3, <4>2
        <3> QED BY <1>1, <3>3, <3>5, <3>6
    <2> QED BY <2>1, <2>2
<1> HIDE DEF later, p
<1>9. c \in Seq(S) /\ f \in S
    <2>1. c \in Seq(ToSet(c)) BY DEF IsChildren, IsSequence
    <2> QED BY <2>1, SeqMonotonic
<1>10. /\ d \in Seq(S) /\ Len(d) = n + 1
       /\ \A i \in 1 .. n + 1 : d[i] = IF i < p THEN c[i] ELSE IF i = p THEN f ELSE c[i - 1]
    <2> HIDE DEF S
    <2>1. /\ InsertAt(c, p, f) \in Seq(S) /\ Len(InsertAt(c, p, f)) = n + 1
          /\ \A i \in 1 .. n + 1 :
                InsertAt(c, p, f)[i] = IF i < p THEN c[i] ELSE IF i = p THEN f ELSE c[i - 1]
        BY <1>8, <1>9, PropertyInserted
    <2> QED BY <1>2, <2>1
<1> HIDE DEF S
<1>11. IsSequence(d) /\ DOMAIN d = 1 .. n + 1 BY <1>10, Sequences
<1> HIDE DEF n
<1>12. \A i \in 1 .. n + 1 : \/ i < p /\ i \in 1 .. n /\ d[i] = c[i]
                             \/ i = p /\ d[i] = f
                             \/ i > p /\ i - 1 \in 1 .. n /\ i - 1 >= p /\ d[i] = c[i - 1]
    BY <1>1, <1>8, <1>10
<1>13. IsChildren(d)
    <2>1. \A i \in 1 .. n : IsProperty(c[i]) BY <1>1 DEF IsChildren
    <2> QED BY <1>3, <1>11, <1>12, <2>1 DEF IsChildren
<1>14. InOrder(kind, d)
    <2>1. ASSUME NEW i \in 1 .. n + 1 PROVE R(d[i].tag) # 0 BY <1>5, <1>7, <1>12
    <2>2. ASSUME NEW i \in 1 .. n + 1, NEW j \in 1 .. n + 1, i < j
          PROVE  R(d[i].tag) <= R(d[j].tag)
        <3>1. CASE j < p BY <1>1, <1>6, <1>8, <1>12, <2>2, <3>1
        <3>2. CASE j = p
            <4>1. i < p /\ i \in 1 .. n /\ d[i] = c[i] /\ d[j] = f BY <1>1, <1>8, <1>12, <2>2, <3>2
            <4> QED BY <1>8, <4>1
        <3>3. CASE j > p /\ i = p
            <4>1. j - 1 \in 1 .. n /\ j - 1 >= p /\ d[j] = c[j - 1] /\ d[i] = f
                BY <1>1, <1>8, <1>12, <3>3
            <4> QED BY <1>8, <4>1
        <3>4. CASE j > p /\ i < p
            <4>1. j - 1 \in 1 .. n /\ d[j] = c[j - 1] /\ i \in 1 .. n /\ d[i] = c[i] /\ i < j - 1
                BY <1>1, <1>8, <1>12, <3>4
            <4> QED BY <1>6, <4>1
        <3>5. CASE j > p /\ i > p
            <4>1. j - 1 \in 1 .. n /\ d[j] = c[j - 1] /\ i - 1 \in 1 .. n /\ d[i] = c[i - 1] /\ i - 1 < j - 1
                BY <1>1, <1>8, <1>12, <2>2, <3>5
            <4> QED BY <1>6, <4>1
        <3> QED BY <1>8, <3>1, <3>2, <3>3, <3>4, <3>5
    <2> QED BY <1>11, <2>1, <2>2 DEF InOrder, R
<1>15. IsSet(c, d, slot, desired)
    <2> DEFINE h == [i \in 1 .. n |-> IF i < p THEN i ELSE i + 1]
    <2>1. Others(c, slot) = 1 .. n BY <1>1 DEF Others
    <2>2. DOMAIN h = 1 .. n /\ \A i \in 1 .. n : h[i] = IF i < p THEN i ELSE i + 1 OBVIOUS
    <2> HIDE DEF h
    <2>3. \A i \in 1 .. n : h[i] \in Nat /\ h[i] # p /\ h[i] \in 1 .. n + 1 BY <1>1, <1>8, <2>2
    <2>4. \A i, j \in 1 .. n : i < j <=> h[i] < h[j] BY <1>1, <1>8, <2>2
    <2>5. \A i \in 1 .. n : d[h[i]] = c[i]
        <3> SUFFICES ASSUME NEW i \in 1 .. n PROVE d[h[i]] = c[i] OBVIOUS
        <3>1. CASE i < p BY <1>1, <1>8, <1>12, <2>2, <2>3, <3>1
        <3>2. CASE ~(i < p)
            <4>1. h[i] = i + 1 /\ i + 1 \in 1 .. n + 1 /\ i + 1 > p /\ (i + 1) - 1 = i
                BY <1>1, <1>8, <2>2, <3>2
            <4>2. d[i + 1] = c[(i + 1) - 1] BY <1>1, <1>8, <1>12, <4>1
            <4> QED BY <4>1, <4>2
        <3> QED BY <3>1, <3>2
    <2>6. 1 .. n + 1 = Along(h, 1 .. n) \cup {p} /\ p \notin Along(h, 1 .. n)
        <3>1. ASSUME NEW k \in 1 .. n + 1, k # p PROVE k \in Along(h, 1 .. n)
            <4>1. CASE k < p
                <5>1. k \in 1 .. n /\ h[k] = k BY <1>1, <1>8, <2>2, <4>1
                <5> QED BY <5>1 DEF Along
            <4>2. CASE k > p
                <5>1. k - 1 \in 1 .. n /\ h[k - 1] = k BY <1>1, <1>8, <2>2, <4>2
                <5> QED BY <5>1 DEF Along
            <4> QED BY <1>8, <3>1, <4>1, <4>2
        <3>2. \A k \in Along(h, 1 .. n) : k \in 1 .. n + 1 /\ k # p BY <2>3 DEF Along
        <3> QED BY <1>8, <3>1, <3>2
    <2>7. d[p] = f BY <1>8, <1>12
    <2>8. DOMAIN NoAttrs = {} BY DEF NoAttrs
    <2>9. Sets(c, d, slot, desired, h, p, NoAttrs)
        BY <1>3, <1>11, <2>1, <2>2, <2>3, <2>4, <2>5, <2>6, <2>7, <2>8 DEF Sets
    <2> QED BY <2>9 DEF IsSet
<1> QED BY <1>13, <1>14, <1>15

-------------------------------------------------------------------------------
(***************************************************************************)
(* The shape a mutation accepts, and the element it makes.                 *)
(***************************************************************************)
HasAlternate(c) == \E i \in DOMAIN c : c[i].tag = "AlternateContent"

Repeated(c, slot) == \E i, j \in TargetsIn(c, slot) : i # j

(***************************************************************************)
(* The shape checks, without cardinalities.                                *)
(***************************************************************************)
LEMMA Faults ==
    ASSUME NEW kind, NEW body, IsBody(body), NEW slot
    PROVE  ShapeFault(kind, body, slot) =
               IF Containers(body) = {} THEN Accepted
               ELSE IF Containers(body) # {1} \/ HasAlternate(PropertiesOf(body)) THEN Noncanonical
               ELSE IF Repeated(PropertiesOf(body), slot) THEN Duplicate
               ELSE IF ~InOrder(kind, PropertiesOf(body)) THEN Noncanonical
               ELSE Accepted
<1> DEFINE c == PropertiesOf(body)
<1>1. IsChildren(c) BY ChildrenOfABody
<1>2. IsFiniteSet(TargetsIn(c, slot))
    <2>1. TargetsIn(c, slot) \in SUBSET DOMAIN c BY DEF TargetsIn
    <2> HIDE DEF c
    <2> QED BY <1>1, <2>1, Sequences, FS_Subset DEF IsChildren
<1> HIDE DEF c
<1>3. Cardinality(TargetsIn(c, slot)) > 1 <=> Repeated(c, slot)
    BY <1>2, MoreThanOne DEF Repeated
<1> QED BY <1>3 DEF ShapeFault, HasAlternate, c

LEMMA AcceptedShape ==
    ASSUME NEW kind, NEW body, IsBody(body), NEW slot, ShapeFault(kind, body, slot) = Accepted
    PROVE  /\ Containers(body) \in {{}, {1}} /\ ~HasAlternate(PropertiesOf(body))
           /\ ~Repeated(PropertiesOf(body), slot) /\ InOrder(kind, PropertiesOf(body))
           /\ Containers(body) = {} => PropertiesOf(body) = <<>>
<1>1. Accepted # Noncanonical /\ Accepted # Duplicate BY DEF Accepted, Noncanonical, Duplicate
<1>2. CASE Containers(body) = {}
    <2>1. PropertiesOf(body) = <<>> BY <1>2 DEF PropertiesOf
    <2>2. DOMAIN <<>> = {} OBVIOUS
    <2> QED BY <1>2, <2>1, <2>2 DEF HasAlternate, Repeated, InOrder, TargetsIn
<1>3. CASE Containers(body) # {} BY <1>1, <1>3, Faults
<1> QED BY <1>2, <1>3

(***************************************************************************)
(* Either way one property is set.                                         *)
(***************************************************************************)
LEMMA PropertyIsSet ==
    ASSUME NEW kind \in Kinds, NEW slot \in SlotsOfKind[kind], NEW desired, NEW c, IsChildren(c),
           ~Repeated(c, slot), InOrder(kind, c),
           \A i \in TargetsIn(c, slot) : ~PropertyRefused(slot, c[i]),
           NEW d, d = SetProperty(kind, c, slot, desired)
    PROVE  IsChildren(d) /\ IsSet(c, d, slot, desired) /\ InOrder(kind, d)
<1>1. CASE TargetsIn(c, slot) = {}
    <2>1. d = InsertCanonical(kind, c, Fresh(slot, desired)) BY <1>1 DEF SetProperty
    <2> QED BY <1>1, <2>1, SetAnew
<1>2. CASE TargetsIn(c, slot) # {}
    <2>1. PICK m : TargetsIn(c, slot) = {m} BY <1>2 DEF Repeated
    <2>2. TargetsIn(c, slot) \in SUBSET Nat BY Sequences DEF TargetsIn, IsChildren
    <2>3. Min(TargetsIn(c, slot)) = m BY <1>2, <2>1, <2>2, LeastOf
    <2>4. d = InPlace(c, m, slot, desired) BY <1>2, <2>3 DEF SetProperty, InPlace
    <2>5. ~PropertyRefused(slot, c[m]) BY <2>1
    <2> QED BY <2>1, <2>4, <2>5, SetInPlace
<1> QED BY <1>1, <1>2

WithChildren(node, d) == [node EXCEPT !.children = d]

LEMMA ChangedContainer ==
    ASSUME NEW c, NEW d
    PROVE  WithChildren(Container(c), d) = Container(d)
<1> DEFINE node == Container(c)
<1>1. node \in [tag : {"properties"}, marked : {FALSE}, children : {c}]
      /\ node.tag = "properties" /\ node.marked = FALSE
    BY DEF Container
<1> HIDE DEF node
<1>2. node = [tag |-> node.tag, marked |-> node.marked, children |-> node.children] BY <1>1
<1>3. WithChildren(node, d) = [tag |-> node.tag, marked |-> node.marked, children |-> d]
    BY <1>2 DEF WithChildren
<1> QED BY <1>1, <1>3 DEF Container, node

(***************************************************************************)
(* The element a mutation makes has one container, its first child, with   *)
(* the property set, and otherwise the content it had.                     *)
(***************************************************************************)
LEMMA MutatedBody ==
    ASSUME NEW kind \in Kinds, NEW slot \in SlotsOfKind[kind], NEW desired,
           NEW body, IsBody(body), ShapeFault(kind, body, slot) = Accepted,
           \A i \in TargetsIn(PropertiesOf(body), slot) :
               ~PropertyRefused(slot, PropertiesOf(body)[i]),
           NEW d, d = SetProperty(kind, PropertiesOf(body), slot, desired),
           NEW after, after = Mutated(kind, body, slot, desired)
    PROVE  /\ IsChildren(d) /\ IsSet(PropertiesOf(body), d, slot, desired) /\ InOrder(kind, d)
           /\ IsBody(after) /\ Containers(after) = {1} /\ PropertiesOf(after) = d
           /\ IF Containers(body) = {}
              THEN /\ DOMAIN after = 1 .. Len(body) + 1 /\ after[1] = Container(d)
                   /\ \A i \in 1 .. Len(body) : after[i + 1] = body[i]
              ELSE /\ DOMAIN after = DOMAIN body /\ after[1] = WithChildren(body[1], d)
                   /\ \A i \in DOMAIN body : i # 1 => after[i] = body[i]
<1> DEFINE c == PropertiesOf(body)
           ready == EnsureContainer(body)
<1>1. IsChildren(c) BY ChildrenOfABody
<1>2. Containers(body) \in {{}, {1}} /\ ~Repeated(c, slot) /\ InOrder(kind, c)
      /\ (Containers(body) = {} => c = <<>>)
    BY AcceptedShape
<1>3. IsChildren(d) /\ IsSet(c, d, slot, desired) /\ InOrder(kind, d)
    <2>1. d = SetProperty(kind, c, slot, desired)
          /\ \A i \in TargetsIn(c, slot) : ~PropertyRefused(slot, c[i])
        OBVIOUS
    <2> HIDE DEF c
    <2> QED BY <1>1, <1>2, <2>1, PropertyIsSet, Zenon
<1>4. IsSequence(body) /\ Len(body) \in Nat /\ DOMAIN body = 1 .. Len(body)
      /\ \A i \in DOMAIN body : IsNode(body[i])
    BY Sequences DEF IsBody
<1>5. Min({1}) = 1
    <2>1. Min({1}) \in {1} BY LeastOf
    <2> QED BY <2>1
<1>6. after = [ready EXCEPT ![Min(Containers(ready))].children = SetProperty(kind, @, slot, desired)]
    BY DEF Mutated
<1>7. \A e : IsChildren(e) => /\ IsNode(Container(e))
                             /\ \A node : IsNode(node) => /\ IsNode(WithChildren(node, e))
                                                         /\ WithChildren(node, e).children = e
                                                         /\ WithChildren(node, e).tag = node.tag
    BY DEF IsNode, Container, WithChildren, IsChildren
<1>8. CASE Containers(body) = {}
    <2>1. c = <<>> /\ d = SetProperty(kind, <<>>, slot, desired) BY <1>2, <1>8
    <2> DEFINE n == Len(body)
               S == ToSet(body) \cup {Container(<<>>), Container(d)}
    <2>2. body \in Seq(S)
        <3>1. body \in Seq(ToSet(body)) BY <1>4 DEF IsSequence
        <3> QED BY <3>1, SeqMonotonic
    <2>3. <<Container(<<>>)>> \in Seq(S) /\ Len(<<Container(<<>>)>>) = 1
          /\ <<Container(<<>>)>>[1] = Container(<<>>)
        OBVIOUS
    <2>4. ready = <<Container(<<>>)>> \o body BY <1>8 DEF EnsureContainer
    <2>11. Container(d) \in S OBVIOUS
    <2> HIDE DEF S, ready
    <2>5. /\ ready \in Seq(S) /\ Len(ready) = 1 + n
          /\ \A i \in 1 .. 1 + n :
                ready[i] = IF i <= 1 THEN <<Container(<<>>)>>[i] ELSE body[i - 1]
        BY <2>2, <2>3, <2>4, ConcatProperties
    <2>6. DOMAIN ready = 1 .. n + 1 /\ ready[1] = Container(<<>>) /\ \A i \in 1 .. n : ready[i + 1] = body[i]
        <3>1. DOMAIN ready = 1 .. Len(ready) BY <2>5, LenProperties
        <3>2. 1 + n = n + 1 /\ \A i \in 1 .. n : i + 1 \in 1 .. 1 + n /\ ~(i + 1 <= 1) /\ (i + 1) - 1 = i
            BY <1>4
        <3>3. 1 \in 1 .. 1 + n BY <1>4
        <3> QED BY <2>3, <2>5, <3>1, <3>2, <3>3
    <2>7. \A i \in 1 .. n : body[i].tag # "properties" BY <1>4, <1>8 DEF Containers
    <2>8. \A i \in 1 .. n + 1 : i = 1 \/ (i - 1 \in 1 .. n /\ (i - 1) + 1 = i) BY <1>4
    <2>9. Containers(ready) = {1}
        <3>1. ready[1].tag = "properties" BY <2>6 DEF Container
        <3>2. \A i \in 1 .. n + 1 : i # 1 => ready[i].tag # "properties" BY <2>6, <2>7, <2>8
        <3>3. 1 \in 1 .. n + 1 BY <1>4
        <3> QED BY <2>6, <3>1, <3>2, <3>3 DEF Containers
    <2>10. after = [ready EXCEPT ![1] = Container(d)]
        <3>1. after = [ready EXCEPT ![1].children = SetProperty(kind, @, slot, desired)]
            BY <1>5, <1>6, <2>9
        <3>2. Container(<<>>).children = <<>> /\ WithChildren(Container(<<>>), d) = Container(d)
            BY ChangedContainer DEF Container
        <3>3. after = [ready EXCEPT ![1] = WithChildren(Container(<<>>), d)]
            BY <2>1, <2>6, <3>1, <3>2 DEF WithChildren
        <3> QED BY <3>2, <3>3
    <2> HIDE DEF n
    <2>12. /\ after \in Seq(S)
           /\ \A j \in 1 .. n + 1 : after[j] = IF j = 1 THEN Container(d) ELSE ready[j]
           /\ DOMAIN after = 1 .. n + 1
        <3>1. n \in Nat /\ Len(ready) = n + 1 /\ 1 \in 1 .. Len(ready) BY <1>4, <2>5 DEF n
        <3> QED BY <2>5, <2>6, <2>10, <2>11, <3>1, ExceptSeq
    <2>13. after[1] = Container(d) /\ \A i \in 1 .. n : after[i + 1] = body[i]
        <3>1. n \in Nat BY <1>4 DEF n
        <3>2. 1 \in 1 .. n + 1 /\ \A i \in 1 .. n : i + 1 \in 1 .. n + 1 /\ i + 1 # 1 BY <3>1
        <3> QED BY <2>6, <2>12, <3>2
    <2>14. IsBody(after)
        <3>1. IsSequence(after) BY <2>12, Sequences
        <3>2. ASSUME NEW i \in 1 .. n + 1 PROVE IsNode(after[i])
            <4>1. IsNode(Container(d)) BY <1>3, <1>7
            <4>2. CASE i = 1 BY <2>13, <4>1, <4>2
            <4>3. CASE i # 1
                <5>1. i - 1 \in 1 .. n /\ (i - 1) + 1 = i BY <2>8, <4>3
                <5>2. after[i] = body[i - 1] BY <2>13, <5>1
                <5>3. IsNode(body[i - 1]) BY <1>4, <5>1 DEF n
                <5> QED BY <5>2, <5>3
            <4> QED BY <4>2, <4>3
        <3> QED BY <2>12, <3>1, <3>2 DEF IsBody
    <2>15. Containers(after) = {1}
        <3>1. after[1].tag = "properties" BY <2>13 DEF Container
        <3>2. \A i \in 1 .. n + 1 : i # 1 => after[i].tag # "properties" BY <2>7, <2>8, <2>13
        <3>3. 1 \in 1 .. n + 1 BY <1>4 DEF n
        <3> QED BY <2>12, <3>1, <3>2, <3>3 DEF Containers
    <2>16. PropertiesOf(after) = d BY <1>5, <2>13, <2>15 DEF PropertiesOf, Container
    <2> QED BY <1>3, <1>8, <2>12, <2>13, <2>14, <2>15, <2>16 DEF n
<1>9. CASE Containers(body) = {1}
    <2>1. ready = body /\ c = body[1].children /\ 1 \in DOMAIN body /\ body[1].tag = "properties"
        <3>1. Containers(body) # {} BY <1>9
        <3> QED BY <1>5, <1>9, <3>1 DEF EnsureContainer, PropertiesOf, Containers
    <2>2. after = [body EXCEPT ![1] = WithChildren(body[1], d)]
        BY <1>5, <1>6, <1>9, <2>1 DEF WithChildren
    <2> DEFINE e == WithChildren(body[1], d)
               S == ToSet(body) \cup {e}
    <2>3. body \in Seq(S) /\ e \in S
        <3>1. body \in Seq(ToSet(body)) BY <1>4 DEF IsSequence
        <3> QED BY <3>1, SeqMonotonic
    <2>4. IsNode(e) /\ e.children = d /\ e.tag = "properties" BY <1>3, <1>4, <1>7, <2>1
    <2> HIDE DEF S, e
    <2>5. after \in Seq(S) /\ Len(after) = Len(body)
          /\ \A j \in 1 .. Len(body) : after[j] = IF j = 1 THEN e ELSE body[j]
        BY <1>4, <2>1, <2>2, <2>3, ExceptSeq DEF e
    <2>6. DOMAIN after = DOMAIN body BY <2>2
    <2>7. after[1] = e /\ \A i \in DOMAIN body : i # 1 => after[i] = body[i] BY <1>4, <2>1, <2>5
    <2>8. IsBody(after)
        <3>1. IsSequence(after) BY <2>5, Sequences
        <3> QED BY <1>4, <2>4, <2>6, <2>7, <3>1 DEF IsBody
    <2>9. Containers(after) = {1}
        <3>1. \A i \in DOMAIN body : after[i].tag = body[i].tag BY <2>1, <2>4, <2>7
        <3> QED BY <1>9, <2>6, <3>1 DEF Containers
    <2>10. PropertiesOf(after) = d BY <1>5, <2>4, <2>7, <2>9 DEF PropertiesOf
    <2>11. Containers(body) # {} BY <1>9
    <2> QED BY <1>3, <2>6, <2>7, <2>8, <2>9, <2>10, <2>11 DEF e
<1> QED BY <1>2, <1>8, <1>9

-------------------------------------------------------------------------------
(***************************************************************************)
(* Of the element's own level, the resolution of a property reads only     *)
(* what declares it and, for a paragraph, what numbers it or turns it      *)
(* around: the other properties resolve as before.                         *)
(***************************************************************************)

(***************************************************************************)
(* The properties of another tag are those there were.                     *)
(***************************************************************************)
LEMMA OtherTags ==
    ASSUME NEW c, NEW d, NEW slot, NEW desired, NEW h, NEW q, NEW attrs,
           Sets(c, d, slot, desired, h, q, attrs), NEW tag, tag # Tag(slot)
    PROVE  {i \in DOMAIN d : d[i].tag = tag} = {h[i] : i \in {j \in DOMAIN c : c[j].tag = tag}}
<1>1. \A i \in DOMAIN c : c[i].tag = tag => i \in Others(c, slot)
    BY DEF Others, TargetsIn
<1>2. \A i \in Others(c, slot) : i \in DOMAIN c BY DEF Others
<1>3. d[q].tag = Tag(slot) BY DEF Sets
<1>4. /\ DOMAIN d = {h[i] : i \in Others(c, slot)} \cup {q}
      /\ \A i \in Others(c, slot) : d[h[i]] = c[i]
    BY DEF Sets, Along
<1> QED BY <1>1, <1>2, <1>3, <1>4

LEMMA DeclaredIsKept ==
    ASSUME NEW c, NEW d, NEW slot, NEW desired, IsSet(c, d, slot, desired), NEW tag, tag # Tag(slot)
    PROVE  /\ Declared(Level(d), tag) = Declared(Level(c), tag)
           /\ (\E i \in DOMAIN d : d[i].tag = tag) <=> (\E i \in DOMAIN c : c[i].tag = tag)
<1>1. PICK h, q, attrs : Sets(c, d, slot, desired, h, q, attrs) BY DEF IsSet
<1>2. {i \in DOMAIN d : d[i].tag = tag} = {h[i] : i \in {j \in DOMAIN c : c[j].tag = tag}}
    BY <1>1, OtherTags
<1>3. \A i \in DOMAIN c : c[i].tag = tag => d[h[i]] = c[i]
    BY <1>1 DEF Sets, Others, TargetsIn
<1>4. \A s : Level(s).bag = s BY DEF Level
<1>5. {d[i] : i \in {j \in DOMAIN d : d[j].tag = tag}} = {c[i] : i \in {j \in DOMAIN c : c[j].tag = tag}}
    BY <1>2, <1>3
<1>6. \A s : Declared(Level(s), tag) = {s[i] : i \in {j \in DOMAIN s : s[j].tag = tag}}
    BY <1>4 DEF Declared
<1>7. (\E i \in DOMAIN d : d[i].tag = tag) <=> (\E i \in DOMAIN c : c[i].tag = tag)
    <2>1. {i \in DOMAIN d : d[i].tag = tag} # {} <=> {i \in DOMAIN c : c[i].tag = tag} # {}
        BY <1>2
    <2> QED BY <2>1
<1> QED BY <1>5, <1>6, <1>7

LEMMA OtherTargets ==
    ASSUME NEW c, IsSequence(c), NEW d, NEW slot, NEW desired, IsSet(c, d, slot, desired),
           NEW other, Tag(other) # Tag(slot)
    PROVE  /\ Repeated(d, other) <=> Repeated(c, other)
           /\ (\E i \in TargetsIn(d, other) : PropertyRefused(other, d[i]))
                  <=> (\E i \in TargetsIn(c, other) : PropertyRefused(other, c[i]))
<1>1. PICK h, q, attrs : Sets(c, d, slot, desired, h, q, attrs) BY DEF IsSet
<1>2. TargetsIn(d, other) = {h[i] : i \in TargetsIn(c, other)}
    BY <1>1, OtherTags DEF TargetsIn
<1>3. /\ \A i \in TargetsIn(c, other) : i \in Others(c, slot)
      /\ \A i \in TargetsIn(c, other) : d[h[i]] = c[i]
    BY <1>1 DEF Sets, Others, TargetsIn
<1>4. \A i, j \in TargetsIn(c, other) : i # j <=> h[i] # h[j]
    <2> SUFFICES ASSUME NEW i \in TargetsIn(c, other), NEW j \in TargetsIn(c, other), h[i] = h[j]
                 PROVE  i = j
        OBVIOUS
    <2>1. i \in Others(c, slot) /\ j \in Others(c, slot) BY <1>3
    <2>2. (i < j <=> h[i] < h[j]) /\ (j < i <=> h[j] < h[i]) /\ h[i] \in Nat
        BY <1>1, <2>1 DEF Sets
    <2>3. ~(i < j) /\ ~(j < i) BY <2>2
    <2>4. i \in Nat /\ j \in Nat BY <2>1, Sequences DEF Others
    <2> QED BY <2>3, <2>4
<1>5. Repeated(d, other) <=> Repeated(c, other) BY <1>2, <1>4 DEF Repeated
<1>6. (\E i \in TargetsIn(d, other) : PropertyRefused(other, d[i]))
          <=> (\E i \in TargetsIn(c, other) : PropertyRefused(other, c[i]))
    BY <1>2, <1>3
<1> QED BY <1>5, <1>6

(***************************************************************************)
(* Of the tag that was set there is one property.                          *)
(***************************************************************************)
LEMMA OwnTarget ==
    ASSUME NEW c, NEW d, NEW slot, NEW desired, NEW h, NEW q, NEW attrs,
           Sets(c, d, slot, desired, h, q, attrs)
    PROVE  /\ TargetsIn(d, slot) = {q} /\ q \in DOMAIN d /\ ~Repeated(d, slot)
           /\ Declared(Level(d), Tag(slot)) = {d[q]}
           /\ d[q].tag = Tag(slot) /\ ~d[q].nested
           /\ d[q].attrs = Written(slot, desired, attrs)
<1>1. \A i \in Others(c, slot) : d[h[i]].tag # Tag(slot)
    BY DEF Sets, Others, TargetsIn
<1>2. /\ DOMAIN d = {h[i] : i \in Others(c, slot)} \cup {q}
      /\ d[q] = [tag |-> Tag(slot), attrs |-> Written(slot, desired, attrs), nested |-> FALSE]
    BY DEF Sets, Along
<1>3. d[q].tag = Tag(slot) /\ d[q].nested = FALSE /\ d[q].attrs = Written(slot, desired, attrs)
    BY <1>2
<1>4. {i \in DOMAIN d : d[i].tag = Tag(slot)} = {q} BY <1>1, <1>2, <1>3
<1>5. Level(d).bag = d BY DEF Level
<1>6. Declared(Level(d), Tag(slot)) = {d[q]} BY <1>4, <1>5 DEF Declared
<1> QED BY <1>2, <1>3, <1>4, <1>6 DEF TargetsIn, Repeated

-------------------------------------------------------------------------------
Above(x, levels) == <<x>> \o levels

(***************************************************************************)
(* The levels with the element's own as the most specific one.             *)
(***************************************************************************)
LEMMA LevelsAbove ==
    ASSUME NEW x, NEW levels, IsSequence(levels)
    PROVE  /\ IsSequence(Above(x, levels))
           /\ DOMAIN Above(x, levels) = 1 .. Len(levels) + 1 /\ Len(Above(x, levels)) = Len(levels) + 1
           /\ Above(x, levels)[1] = x /\ \A i \in 2 .. Len(levels) + 1 : Above(x, levels)[i] = levels[i - 1]
           /\ Head(Above(x, levels)) = x /\ Tail(Above(x, levels)) = levels
           /\ Len(levels) \in Nat
<1> DEFINE S == ToSet(levels) \cup {x}
           L == Above(x, levels)
           n == Len(levels)
<1>1. levels \in Seq(S) /\ n \in Nat
    <2>1. levels \in Seq(ToSet(levels)) BY DEF IsSequence
    <2> QED BY <2>1, SeqMonotonic, LenProperties
<1>2. <<x>> \in Seq(S) /\ Len(<<x>>) = 1 /\ <<x>>[1] = x OBVIOUS
<1> HIDE DEF S
<1>3. /\ L \in Seq(S) /\ Len(L) = 1 + n
      /\ \A i \in 1 .. 1 + n : L[i] = IF i <= 1 THEN <<x>>[i] ELSE levels[i - 1]
    BY <1>1, <1>2, ConcatProperties DEF Above
<1> HIDE DEF L
<1>4. 1 + n = n + 1 BY <1>1
<1>5. L[1] = x /\ \A i \in 2 .. n + 1 : L[i] = levels[i - 1] BY <1>1, <1>2, <1>3
<1>6. IsSequence(L) /\ DOMAIN L = 1 .. n + 1 BY <1>3, <1>4, Sequences
<1>7. Head(L) = x BY <1>3, <1>5
<1>8. Tail(L) = levels
    <2>1. L # <<>> BY <1>1, <1>3, EmptySeq
    <2>2. /\ Tail(L) \in Seq(S) /\ Len(Tail(L)) = Len(L) - 1
          /\ \A i \in 1 .. Len(Tail(L)) : Tail(L)[i] = L[i + 1]
        BY <1>3, <2>1, HeadTailProperties
    <2>3. Len(Tail(L)) = n BY <1>1, <1>3, <2>2
    <2>4. \A i \in 1 .. n : i + 1 \in 2 .. n + 1 /\ (i + 1) - 1 = i BY <1>1
    <2>5. \A i \in 1 .. n : Tail(L)[i] = levels[i] BY <1>5, <2>2, <2>3, <2>4
    <2> QED BY <1>1, <2>2, <2>3, <2>5, SeqEqual
<1> QED BY <1>1, <1>3, <1>4, <1>5, <1>6, <1>7, <1>8 DEF L

LEMMA CurrentIsResolved ==
    ASSUME NEW body, NEW levels, NEW slot
    PROVE  Current(body, levels, slot) = Resolve(slot, Above(Level(PropertiesOf(body)), levels))
<1>1. {Resolve(slot, ls) : ls \in {Above(Level(PropertiesOf(body)), levels)}}
          = {Resolve(slot, Above(Level(PropertiesOf(body)), levels))}
    OBVIOUS
<1>2. Current(body, levels, slot) =
          CHOOSE v \in {Resolve(slot, ls) : ls \in {Above(Level(PropertiesOf(body)), levels)}} : TRUE
    BY DEF Current, Direct, Above
<1> QED BY <1>1, <1>2

LEMMA DeclaresByMembers ==
    ASSUME NEW level, NEW tag PROVE Declares(level, tag) <=> Declared(level, tag) # {}
BY DEF Declares, Declared

(***************************************************************************)
(* Of the first level only what it declares is read.                       *)
(***************************************************************************)
LEMMA SameCascade ==
    ASSUME NEW levels, IsSequence(levels), NEW x, NEW y, x.blocked = y.blocked,
           NEW tag, Declared(x, tag) = Declared(y, tag)
    PROVE  Cascade(Above(x, levels), tag) = Cascade(Above(y, levels), tag)
<1> DEFINE X == Above(x, levels)
           Y == Above(y, levels)
           I(L) == {i \in 1 .. Len(L) : L[i].blocked \/ Declares(L[i], tag)}
           first(L) == IF I(L) # {} THEN Min(I(L)) ELSE 0
           n == Len(levels) + 1
<1>1. /\ Len(X) = n /\ Len(Y) = n
      /\ \A i \in 1 .. n : X[i] = Y[i] \/ (X[i] = x /\ Y[i] = y)
    BY LevelsAbove
<1>2. Declares(x, tag) <=> Declares(y, tag) BY DeclaresByMembers
<1> HIDE DEF X, Y, n
<1>3. \A i \in 1 .. n : /\ X[i].blocked = Y[i].blocked /\ (Declares(X[i], tag) <=> Declares(Y[i], tag))
                        /\ Declared(X[i], tag) = Declared(Y[i], tag)
    BY <1>1, <1>2
<1>4. I(X) = I(Y) BY <1>1, <1>3
<1>5. first(X) = first(Y) BY <1>4
<1>6. first(X) # 0 => first(X) \in 1 .. n
    <2>1. I(X) \in SUBSET Nat /\ I(X) \subseteq 1 .. n BY <1>1
    <2> HIDE DEF I
    <2> QED BY <2>1, LeastOf
<1>7. \A L : Cascade(L, tag) =
          IF first(L) = 0 THEN Failed("absent")
          ELSE IF L[first(L)].blocked THEN Failed("unresolved")
          ELSE IF \E p, q \in Declared(L[first(L)], tag) : Attr(p, "val") # Attr(q, "val")
               THEN Failed("ambiguous")
          ELSE Converted(CHOOSE p \in Declared(L[first(L)], tag) : TRUE)
    BY DEF Cascade, SelectInSeq
<1> HIDE DEF first
<1>8. CASE first(X) = 0 BY <1>5, <1>7, <1>8 DEF X, Y
<1>9. CASE first(X) # 0
    <2>1. /\ X[first(X)].blocked = Y[first(Y)].blocked
          /\ Declared(X[first(X)], tag) = Declared(Y[first(Y)], tag)
        BY <1>3, <1>5, <1>6, <1>9
    <2> QED BY <1>5, <1>7, <1>9, <2>1 DEF X, Y
<1> QED BY <1>8, <1>9

LEMMA SameNumbering ==
    ASSUME NEW levels, IsSequence(levels), NEW x, NEW y,
           Declared(x, "numPr") = Declared(y, "numPr"), Declared(x, "bidi") = Declared(y, "bidi")
    PROVE  /\ Numbered(Above(x, levels)) <=> Numbered(Above(y, levels))
           /\ Bidirectional(Above(x, levels)) <=> Bidirectional(Above(y, levels))
<1> DEFINE X == Above(x, levels)
           Y == Above(y, levels)
           n == Len(levels) + 1
<1>1. /\ DOMAIN X = 1 .. n /\ DOMAIN Y = 1 .. n
      /\ \A i \in 1 .. n : X[i] = Y[i] \/ (X[i] = x /\ Y[i] = y)
    BY LevelsAbove
<1>2. Declares(x, "numPr") <=> Declares(y, "numPr") BY DeclaresByMembers
<1> HIDE DEF X, Y, n
<1>3. Numbered(X) <=> Numbered(Y) BY <1>1, <1>2 DEF Numbered
<1>4. \A i \in 1 .. n : Declared(X[i], "bidi") = Declared(Y[i], "bidi") BY <1>1
<1>5. Bidirectional(X) <=> Bidirectional(Y) BY <1>1, <1>4 DEF Bidirectional
<1> QED BY <1>3, <1>5 DEF X, Y

LEMMA SameLineSpacing ==
    ASSUME NEW levels, IsSequence(levels), NEW x, NEW y, x.blocked = y.blocked,
           \A tag \in {"numPr", "bidi", "spacing"} : Declared(x, tag) = Declared(y, tag)
    PROVE  LineSpacing(Above(x, levels)) = LineSpacing(Above(y, levels))
<1> DEFINE X == Above(x, levels)
           Y == Above(y, levels)
           I(L) == {i \in 1 .. Len(L) : L[i].blocked \/ LineProps(L[i]) # {}}
           first(L) == IF I(L) # {} THEN Min(I(L)) ELSE 0
           n == Len(levels) + 1
<1>1. /\ Len(X) = n /\ Len(Y) = n
      /\ \A i \in 1 .. n : X[i] = Y[i] \/ (X[i] = x /\ Y[i] = y)
    BY LevelsAbove
<1>2. LineProps(x) = LineProps(y) BY DEF LineProps
<1>3. (Numbered(X) <=> Numbered(Y)) /\ (Bidirectional(X) <=> Bidirectional(Y)) BY SameNumbering
<1> HIDE DEF X, Y, n
<1>4. \A i \in 1 .. n : X[i].blocked = Y[i].blocked /\ LineProps(X[i]) = LineProps(Y[i])
    BY <1>1, <1>2
<1>5. I(X) = I(Y) BY <1>1, <1>4
<1>6. first(X) = first(Y) BY <1>5
<1>7. first(X) # 0 => first(X) \in 1 .. n
    <2>1. I(X) \in SUBSET Nat /\ I(X) \subseteq 1 .. n BY <1>1
    <2> HIDE DEF I
    <2> QED BY <2>1, LeastOf
<1>8. \A L : LineSpacing(L) =
          IF Numbered(L) \/ Bidirectional(L) THEN Failed("unresolved")
          ELSE IF first(L) = 0 THEN Failed("absent")
          ELSE LineAt(L[first(L)])
    BY DEF LineSpacing, SelectInSeq
<1>9. \A v, w : v.blocked = w.blocked /\ LineProps(v) = LineProps(w) => LineAt(v) = LineAt(w)
    BY DEF LineAt
<1> HIDE DEF first
<1>10. first(X) # 0 => LineAt(X[first(X)]) = LineAt(Y[first(Y)]) BY <1>4, <1>6, <1>7, <1>9
<1> QED BY <1>3, <1>6, <1>8, <1>10 DEF X, Y

LEMMA SameToggle ==
    ASSUME NEW levels, IsSequence(levels), NEW x, NEW y, x.blocked = y.blocked,
           NEW tag, Declared(x, tag) = Declared(y, tag)
    PROVE  Toggle(Above(x, levels), tag) = Toggle(Above(y, levels), tag)
<1>1. ToggleAt(x, tag) = ToggleAt(y, tag) BY DEF ToggleAt
<1>2. /\ Head(Above(x, levels)) = x /\ Tail(Above(x, levels)) = levels
      /\ Head(Above(y, levels)) = y /\ Tail(Above(y, levels)) = levels
    BY LevelsAbove
<1> QED BY <1>1, <1>2 DEF Toggle

-------------------------------------------------------------------------------
(***************************************************************************)
(* The property that was set resolves to the desired value, the other one  *)
(* of the element as before.                                               *)
(***************************************************************************)

(***************************************************************************)
(* What the most specific level declares decides.                          *)
(***************************************************************************)
LEMMA FirstCascades ==
    ASSUME NEW levels, IsSequence(levels), NEW x, ~x.blocked,
           NEW tag, NEW p, Declared(x, tag) = {p}
    PROVE  Cascade(Above(x, levels), tag) = Converted(p)
<1> DEFINE X == Above(x, levels)
           I == {i \in 1 .. Len(X) : X[i].blocked \/ Declares(X[i], tag)}
<1>1. X[1] = x /\ 1 \in 1 .. Len(X) BY LevelsAbove
<1>2. Declares(x, tag) BY DeclaresByMembers
<1> HIDE DEF X
<1>3. Min(I) = 1 /\ I # {}
    <2>1. I \in SUBSET Nat /\ 1 \in I /\ \A i \in I : 1 <= i BY <1>1, <1>2
    <2> HIDE DEF I
    <2>2. Min(I) \in I /\ Min(I) <= 1 BY <2>1, LeastOf
    <2>3. Min(I) \in Nat /\ 1 <= Min(I) BY <2>1, <2>2
    <2> QED BY <2>2, <2>3
<1>4. Cascade(X, tag) =
          LET i == IF I # {} THEN Min(I) ELSE 0
          IN  IF i = 0 THEN Failed("absent")
              ELSE IF X[i].blocked THEN Failed("unresolved")
              ELSE IF \E r, s \in Declared(X[i], tag) : Attr(r, "val") # Attr(s, "val")
                   THEN Failed("ambiguous")
              ELSE Converted(CHOOSE r \in Declared(X[i], tag) : TRUE)
    BY DEF Cascade, SelectInSeq
<1> HIDE DEF I
<1>5. Cascade(X, tag) = Converted(CHOOSE r \in {p} : TRUE) BY <1>1, <1>3, <1>4
<1> QED BY <1>5 DEF X

LEMMA FirstLine ==
    ASSUME NEW levels, IsSequence(levels), NEW x, ~x.blocked,
           ~Numbered(Above(x, levels)), ~Bidirectional(Above(x, levels)),
           NEW p, Declared(x, "spacing") = {p}, Has(p, "line")
    PROVE  LineSpacing(Above(x, levels)) = LineOf(p)
<1> DEFINE X == Above(x, levels)
           I == {i \in 1 .. Len(X) : X[i].blocked \/ LineProps(X[i]) # {}}
<1>1. X[1] = x /\ 1 \in 1 .. Len(X) BY LevelsAbove
<1>2. LineProps(x) = {p} BY DEF LineProps
<1> HIDE DEF X
<1>3. Min(I) = 1 /\ I # {}
    <2>1. I \in SUBSET Nat /\ 1 \in I /\ \A i \in I : 1 <= i BY <1>1, <1>2
    <2> HIDE DEF I
    <2>2. Min(I) \in I /\ Min(I) <= 1 BY <2>1, LeastOf
    <2>3. Min(I) \in Nat /\ 1 <= Min(I) BY <2>1, <2>2
    <2> QED BY <2>2, <2>3
<1>4. LineSpacing(X) =
          LET i == IF I # {} THEN Min(I) ELSE 0
          IN  IF Numbered(X) \/ Bidirectional(X) THEN Failed("unresolved")
              ELSE IF i = 0 THEN Failed("absent")
              ELSE LineAt(X[i])
    BY DEF LineSpacing, SelectInSeq
<1> HIDE DEF I
<1>5. LineSpacing(X) = LineAt(x) BY <1>1, <1>3, <1>4 DEF X
<1>6. LineAt(x) = LineOf(CHOOSE r \in {p} : TRUE) BY <1>2 DEF LineAt, RuleAlone
<1> QED BY <1>5, <1>6 DEF X

LEMMA FirstToggles ==
    ASSUME NEW levels, IsSequence(levels), NEW x, ~x.blocked,
           NEW tag, NEW p, Declared(x, tag) = {p}, OnOff(p) \in {"on", "off"}
    PROVE  Toggle(Above(x, levels), tag) = Resolved(OnOff(p))
<1>1. {OnOff(r) : r \in Declared(x, tag)} = {OnOff(p)} OBVIOUS
<1>2. ToggleAt(x, tag) = OnOff(p) BY <1>1 DEF ToggleAt
<1>3. Head(Above(x, levels)) = x BY LevelsAbove
<1> QED BY <1>2, <1>3 DEF Toggle

(***************************************************************************)
(* If the property resolved, set it resolves to the desired value. For a   *)
(* paragraph this needs that it had resolved: numbering and direction are  *)
(* read elsewhere in the same container.                                   *)
(***************************************************************************)
LEMMA OwnValue ==
    ASSUME NEW c, NEW d, NEW slot \in {"bold", "font_size", "alignment", "spacing.line"},
           NEW desired \in DesiredOf[slot], IsSet(c, d, slot, desired), IsWritable(slot, desired),
           NEW levels, IsSequence(levels),
           Resolve(slot, Above(Level(c), levels)).status = "resolved"
    PROVE  Resolve(slot, Above(Level(d), levels)) = Resolved(desired)
<1> DEFINE x == Level(d)
<1>1. PICK h, q, attrs : Sets(c, d, slot, desired, h, q, attrs) BY DEF IsSet
<1> DEFINE p == d[q]
<1>2. Declared(x, Tag(slot)) = {p} /\ p.tag = Tag(slot) /\ p.attrs = Written(slot, desired, attrs)
    <2>1. /\ Declared(Level(d), Tag(slot)) = {d[q]} /\ d[q].tag = Tag(slot)
          /\ d[q].attrs = Written(slot, desired, attrs)
        <3> HIDE DEF x, p
        <3> QED BY <1>1, OwnTarget
    <2> QED BY <2>1
<1>3. ~x.blocked BY DEF Level
<1>4. \A tag : tag # Tag(slot) => Declared(x, tag) = Declared(Level(c), tag) BY DeclaredIsKept
<1>5. ValuesAreReadBack BY ValuesAssumption
<1> HIDE DEF x, p
<1>6. CASE slot = "bold"
    <2>1. desired \in {"on", "off"} BY <1>5, <1>6 DEF ValuesAreReadBack
    <2>2. OnOff(p) = desired
        <3>1. CASE desired = "on"
            <4>1. p.attrs = NoAttrs BY <1>2, <1>6, <3>1 DEF Written
            <4>2. Attr(p, "val") = NoAttr BY <4>1 DEF Attr, Has, NoAttrs
            <4> QED BY <3>1, <4>2 DEF OnOff
        <3>2. CASE desired = "off"
            <4>1. p.attrs = ValAttr("0") BY <1>2, <1>6, <3>2 DEF Written
            <4>2. Attr(p, "val") = "0" BY <4>1 DEF Attr, Has, ValAttr
            <4> QED BY <3>2, <4>2 DEF OnOff, TrueTokens, FalseTokens, NoAttr
        <3> QED BY <2>1, <3>1, <3>2
    <2>3. Tag(slot) = "b" BY <1>6 DEF Tag
    <2>5. Declared(x, "b") = {p} BY <1>2, <2>3
    <2>4. Toggle(Above(x, levels), "b") = Resolved(desired) BY <1>3, <2>1, <2>2, <2>5, FirstToggles
    <2> QED BY <1>6, <2>4 DEF Resolve, x
<1>7. CASE slot = "font_size"
    <2>1. Tag(slot) = "sz" BY <1>7 DEF Tag
    <2>2. desired \in DOMAIN Lexical BY <1>7 DEF IsWritable
    <2>3. Lexical[desired] \in DOMAIN Sizes /\ Sizes[Lexical[desired]] = desired
        BY <1>5, <1>7, <2>2 DEF ValuesAreReadBack
    <2>4. p.attrs = Overriding(ValAttr(Lexical[desired]), attrs) BY <1>2, <1>7 DEF Written
    <2>5. Attr(p, "val") = Lexical[desired] BY <2>4 DEF Attr, Has, Overriding, ValAttr
    <2>6. Converted(p) = Resolved(desired) BY <1>2, <2>1, <2>3, <2>5 DEF Converted, SizeOf
    <2>8. Declared(x, "sz") = {p} BY <1>2, <2>1
    <2>7. Cascade(Above(x, levels), "sz") = Converted(p) BY <1>3, <2>8, FirstCascades
    <2> QED BY <1>7, <2>6, <2>7 DEF Resolve, FontSize, x
<1>8. ASSUME slot \in {"alignment", "spacing.line"}
      PROVE  ~Numbered(Above(x, levels)) /\ ~Bidirectional(Above(x, levels))
    <2>1. ~Numbered(Above(Level(c), levels)) /\ ~Bidirectional(Above(Level(c), levels))
        BY <1>8 DEF Resolve, Alignment, LineSpacing, Failed
    <2>2. "numPr" # Tag(slot) /\ "bidi" # Tag(slot) BY <1>8 DEF Tag
    <2> QED BY <1>4, <2>1, <2>2, SameNumbering
<1>9. CASE slot = "alignment"
    <2>1. Tag(slot) = "jc" BY <1>9 DEF Tag
    <2>2. desired \in Alignments BY <1>5, <1>9 DEF ValuesAreReadBack
    <2>3. p.attrs = Overriding(ValAttr(desired), attrs) BY <1>2, <1>9 DEF Written
    <2>4. Attr(p, "val") = desired BY <2>3 DEF Attr, Has, Overriding, ValAttr
    <2>5. AlignmentOf(p) = Resolved(desired) BY <2>2, <2>4 DEF AlignmentOf, Alignments, NoAttr
    <2>6. Converted(p) = Resolved(desired) BY <1>2, <2>1, <2>5 DEF Converted
    <2>8. Declared(x, "jc") = {p} BY <1>2, <2>1
    <2>7. Cascade(Above(x, levels), "jc") = Converted(p) BY <1>3, <2>8, FirstCascades
    <2> QED BY <1>8, <1>9, <2>6, <2>7 DEF Resolve, Alignment, x
<1>10. CASE slot = "spacing.line"
    <2>1. Tag(slot) = "spacing" BY <1>10 DEF Tag
    <2>2. desired \in DOMAIN Lexical BY <1>10 DEF IsWritable
    <2>3. Lexical[desired] \in DOMAIN Multiples /\ Multiples[Lexical[desired]] = desired
        BY <1>5, <1>10, <2>2 DEF ValuesAreReadBack
    <2>4. p.attrs = Overriding(LineAttrs(Lexical[desired]), attrs) BY <1>2, <1>10 DEF Written
    <2>5. Has(p, "line") /\ Attr(p, "line") = Lexical[desired] /\ Attr(p, "lineRule") = "auto"
        BY <2>4 DEF Attr, Has, Overriding, LineAttrs
    <2>6. LineOf(p) = Resolved(desired) BY <2>3, <2>5 DEF LineOf
    <2>7. LineSpacing(Above(x, levels)) = LineOf(p)
        BY <1>2, <1>3, <1>8, <1>10, <2>1, <2>5, FirstLine
    <2> QED BY <1>10, <2>6, <2>7 DEF Resolve, x
<1> QED BY <1>6, <1>7, <1>9, <1>10

(***************************************************************************)
(* The other property of the same container resolves as before.            *)
(***************************************************************************)
LEMMA OtherValue ==
    ASSUME NEW kind \in Kinds, NEW slot \in SlotsOfKind[kind], NEW other \in SlotsOfKind[kind], other # slot,
           NEW c, NEW d, NEW desired, IsSet(c, d, slot, desired),
           NEW levels, IsSequence(levels)
    PROVE  /\ Resolve(other, Above(Level(d), levels)) = Resolve(other, Above(Level(c), levels))
           /\ Declared(Level(d), Tag(other)) = Declared(Level(c), Tag(other))
           /\ Tag(other) # Tag(slot)
<1> DEFINE x == Level(c)
           y == Level(d)
<1>1. \A tag : tag # Tag(slot) => Declared(y, tag) = Declared(x, tag) BY DeclaredIsKept
<1>2. y.blocked = x.blocked BY DEF Level
<1> HIDE DEF x, y
<1>3. CASE kind = "run"
    <2>1. slot \in {"bold", "font_size"} /\ other \in {"bold", "font_size"}
        BY <1>3 DEF SlotsOfKind
    <2>2. CASE other = "bold"
        <3>1. Tag(other) = "b" /\ Tag(slot) = "sz" BY <2>1, <2>2 DEF Tag
        <3>2. Toggle(Above(y, levels), "b") = Toggle(Above(x, levels), "b")
            BY <1>1, <1>2, <3>1, SameToggle
        <3> QED BY <1>1, <2>2, <3>1, <3>2 DEF Resolve, x, y
    <2>3. CASE other = "font_size"
        <3>1. Tag(other) = "sz" /\ Tag(slot) = "b" BY <2>1, <2>3 DEF Tag
        <3>2. Cascade(Above(y, levels), "sz") = Cascade(Above(x, levels), "sz")
            BY <1>1, <1>2, <3>1, SameCascade
        <3> QED BY <1>1, <2>3, <3>1, <3>2 DEF Resolve, FontSize, x, y
    <2> QED BY <2>1, <2>2, <2>3
<1>4. CASE kind = "paragraph"
    <2>1. slot \in {"alignment", "spacing.line"} /\ other \in {"alignment", "spacing.line"}
        BY <1>4 DEF SlotsOfKind
    <2>2. Declared(y, "numPr") = Declared(x, "numPr") /\ Declared(y, "bidi") = Declared(x, "bidi")
        BY <1>1, <2>1 DEF Tag
    <2>3. CASE other = "alignment"
        <3>1. Tag(other) = "jc" /\ Tag(slot) = "spacing" BY <2>1, <2>3 DEF Tag
        <3>2. Cascade(Above(y, levels), "jc") = Cascade(Above(x, levels), "jc")
            BY <1>1, <1>2, <3>1, SameCascade
        <3>3. /\ Numbered(Above(y, levels)) <=> Numbered(Above(x, levels))
              /\ Bidirectional(Above(y, levels)) <=> Bidirectional(Above(x, levels))
            BY <2>2, SameNumbering
        <3> QED BY <1>1, <2>3, <3>1, <3>2, <3>3 DEF Resolve, Alignment, x, y
    <2>4. CASE other = "spacing.line"
        <3>1. Tag(other) = "spacing" /\ Tag(slot) = "jc" BY <2>1, <2>4 DEF Tag
        <3>2. \A tag \in {"numPr", "bidi", "spacing"} : Declared(y, tag) = Declared(x, tag)
            BY <1>1, <2>2, <3>1
        <3>3. LineSpacing(Above(y, levels)) = LineSpacing(Above(x, levels))
            BY <1>2, <3>2, SameLineSpacing
        <3> QED BY <1>1, <2>4, <3>1, <3>3 DEF Resolve, x, y
    <2> QED BY <2>1, <2>3, <2>4
<1> QED BY <1>3, <1>4 DEF Kinds

-------------------------------------------------------------------------------
(***************************************************************************)
(* The allowed-delta check: the property is in its canonical form, and     *)
(* without it the children of the container are those there were.          *)
(***************************************************************************)
LEMMA OutputAttributes ==
    ASSUME NEW slot \in {"bold", "font_size", "alignment", "spacing.line"},
           NEW desired \in DesiredOf[slot], NEW attrs,
           slot # "bold" => DOMAIN attrs \subseteq AttrsAllowed(slot)
    PROVE  OutputAttrs(slot, desired, Written(slot, desired, attrs))
<1>1. ValuesAreReadBack BY ValuesAssumption
<1>2. CASE slot = "bold"
    <2>1. desired = "on" \/ desired = "off" BY <1>1, <1>2 DEF ValuesAreReadBack
    <2>2. Written(slot, desired, attrs) = Written(slot, desired, NoAttrs)
        BY <1>2, <2>1 DEF Written
    <2> QED BY <1>2, <2>2 DEF OutputAttrs
<1>3. CASE slot \in {"font_size", "alignment"}
    <2>1. ASSUME NEW token PROVE Overriding(ValAttr(token), attrs) = Overriding(ValAttr(token), NoAttrs)
        <3>1. DOMAIN attrs \subseteq {"val"} BY <1>3 DEF AttrsAllowed
        <3>2. DOMAIN attrs \cup DOMAIN ValAttr(token) = {"val"} BY <3>1 DEF ValAttr
        <3>3. DOMAIN NoAttrs \cup DOMAIN ValAttr(token) = {"val"} BY DEF ValAttr, NoAttrs
        <3>4. DOMAIN ValAttr(token) = {"val"} BY DEF ValAttr
        <3> QED BY <3>2, <3>3, <3>4 DEF Overriding
    <2>2. CASE slot = "font_size"
        <3>1. \A as : Written(slot, desired, as) = Overriding(ValAttr(Lexical[desired]), as)
            BY <2>2 DEF Written
        <3>2. Written(slot, desired, attrs) = Written(slot, desired, NoAttrs)
            BY <2>1, <3>1
        <3> QED BY <2>2, <3>2 DEF OutputAttrs
    <2>3. CASE slot = "alignment"
        <3>1. \A as : Written(slot, desired, as) = Overriding(ValAttr(desired), as)
            BY <2>3 DEF Written
        <3>2. Written(slot, desired, attrs) = Written(slot, desired, NoAttrs)
            BY <2>1, <3>1
        <3> QED BY <2>3, <3>2 DEF OutputAttrs
    <2> QED BY <1>3, <2>2, <2>3
<1>4. CASE slot = "spacing.line"
    <2> DEFINE new == LineAttrs(Lexical[desired])
               w == Overriding(new, attrs)
    <2>1. Written(slot, desired, attrs) = w BY <1>4 DEF Written
    <2>2. DOMAIN new = {"line", "lineRule"} BY DEF LineAttrs
    <2> HIDE DEF new
    <2>3. DOMAIN w = DOMAIN attrs \cup DOMAIN new BY DEF Overriding
    <2>4. DOMAIN w \subseteq SpacingAttrs BY <1>4, <2>2, <2>3 DEF AttrsAllowed, SpacingAttrs
    <2>5. \A a \in DOMAIN w : w[a] = IF a \in DOMAIN new THEN new[a] ELSE attrs[a]
        BY DEF Overriding
    <2>6. w = [a \in DOMAIN w |-> w[a]] BY DEF Overriding
    <2> HIDE DEF w
    <2>7. DOMAIN w \cup DOMAIN new = DOMAIN w BY <2>3
    <2>8. Overriding(new, w) = [a \in DOMAIN w |-> IF a \in DOMAIN new THEN new[a] ELSE w[a]]
        BY <2>7 DEF Overriding
    <2>9. \A a \in DOMAIN w : (IF a \in DOMAIN new THEN new[a] ELSE w[a]) = w[a] BY <2>5
    <2>10. Overriding(new, w) = w BY <2>6, <2>8, <2>9
    <2> QED BY <1>4, <2>1, <2>4, <2>10 DEF OutputAttrs, new
<1> QED BY <1>2, <1>3, <1>4

(***************************************************************************)
(* The output's shape is what the check demands.                           *)
(***************************************************************************)
LEMMA OutputShape ==
    ASSUME NEW kind, NEW slot \in {"bold", "font_size", "alignment", "spacing.line"},
           NEW desired \in DesiredOf[slot],
           NEW c, NEW d, IsSet(c, d, slot, desired), InOrder(kind, d),
           NEW after, Containers(after) = {1}, PropertiesOf(after) = d
    PROVE  OutputIsCanonical(kind, after, slot, desired)
<1>1. PICK h, q, attrs : Sets(c, d, slot, desired, h, q, attrs) BY DEF IsSet
<1>2. /\ TargetsIn(d, slot) = {q} /\ q \in DOMAIN d /\ ~d[q].nested
      /\ d[q].attrs = Written(slot, desired, attrs)
    BY <1>1, OwnTarget
<1>3. OutputAttrs(slot, desired, d[q].attrs)
    <2>1. slot # "bold" => DOMAIN attrs \subseteq AttrsAllowed(slot) BY <1>1 DEF Sets
    <2> QED BY <1>2, <2>1, OutputAttributes
<1>4. Cardinality({1}) = 1 BY FS_Singleton
<1> QED BY <1>2, <1>3, <1>4 DEF OutputIsCanonical

-------------------------------------------------------------------------------
StrippedChildren(c, slot) == [i \in DOMAIN c |-> StrippedProperty(c[i], slot)]

KeptIndices(c, slot) == {i \in DOMAIN c : ~Vanishes(c[i], slot)}

KeptChildren(c, slot) == Selected(StrippedChildren(c, slot), KeptIndices(c, slot))

Rest(attrs) == [a \in DOMAIN attrs \ {"line", "lineRule"} |-> attrs[a]]

(***************************************************************************)
(* Of w:spacing the strip leaves the attributes that are not the line's.   *)
(***************************************************************************)
LEMMA StrippedSpacing ==
    ASSUME NEW p, IsProperty(p), p.tag = "spacing"
    PROVE  /\ StrippedProperty(p, "spacing.line") = [tag |-> "spacing", attrs |-> Rest(p.attrs), nested |-> p.nested]
           /\ StrippedProperty(p, "spacing.line").attrs = Rest(p.attrs)
<1>1. StrippedProperty(p, "spacing.line") = [p EXCEPT !.attrs = Rest(p.attrs)]
    BY DEF StrippedProperty, WithoutAttrs, Rest
<1> DEFINE rest == Rest(p.attrs)
<1> HIDE DEF rest
<1>2. [p EXCEPT !.attrs = rest] = [tag |-> p.tag, attrs |-> rest, nested |-> p.nested]
    BY ChangedProperty
<1>3. StrippedProperty(p, "spacing.line") = [tag |-> "spacing", attrs |-> rest, nested |-> p.nested]
    BY <1>1, <1>2 DEF rest
<1>4. StrippedProperty(p, "spacing.line").attrs = rest BY <1>3
<1> QED BY <1>3, <1>4 DEF rest

LEMMA RestOfALine ==
    ASSUME NEW attrs, NEW token
    PROVE  Rest(Overriding(LineAttrs(token), attrs)) = Rest(attrs)
<1>1. DOMAIN LineAttrs(token) = {"line", "lineRule"} BY DEF LineAttrs
<1>2. DOMAIN Overriding(LineAttrs(token), attrs) = DOMAIN attrs \cup {"line", "lineRule"}
    BY <1>1 DEF Overriding
<1>3. DOMAIN Overriding(LineAttrs(token), attrs) \ {"line", "lineRule"} = DOMAIN attrs \ {"line", "lineRule"}
    BY <1>2
<1>4. \A a \in DOMAIN attrs \ {"line", "lineRule"} : Overriding(LineAttrs(token), attrs)[a] = attrs[a]
    BY <1>1 DEF Overriding
<1> QED BY <1>3, <1>4 DEF Rest

(***************************************************************************)
(* The children that remain are the same, and in the same order.           *)
(***************************************************************************)
LEMMA KeptIsKept ==
    ASSUME NEW slot \in {"bold", "font_size", "alignment", "spacing.line"}, NEW desired,
           NEW c, IsChildren(c), ~Repeated(c, slot), NEW d, IsChildren(d), IsSet(c, d, slot, desired)
    PROVE  KeptChildren(d, slot) = KeptChildren(c, slot)
<1>1. PICK h, q, attrs : Sets(c, d, slot, desired, h, q, attrs) BY DEF IsSet
<1> DEFINE T == TargetsIn(c, slot)
           O == Others(c, slot)
           H == [i \in DOMAIN c |-> IF i \in O THEN h[i] ELSE q]
           I == KeptIndices(c, slot)
           J == KeptIndices(d, slot)
           s == StrippedChildren(c, slot)
           t == StrippedChildren(d, slot)
<1>2. /\ Len(c) \in Nat /\ DOMAIN c = 1 .. Len(c) /\ IsFiniteSet(DOMAIN c)
      /\ Len(d) \in Nat /\ DOMAIN d = 1 .. Len(d)
    BY Sequences DEF IsChildren
<1>3. /\ \A i \in O : h[i] \in Nat /\ d[h[i]] = c[i]
      /\ \A i, j \in O : i < j <=> h[i] < h[j]
      /\ DOMAIN d = {h[i] : i \in O} \cup {q} /\ q \notin {h[i] : i \in O}
      /\ d[q] = [tag |-> Tag(slot), attrs |-> Written(slot, desired, attrs), nested |-> FALSE]
      /\ T = {} => attrs = NoAttrs
      /\ \A m \in T : /\ c[m] = [tag |-> Tag(slot), attrs |-> attrs, nested |-> FALSE]
                      /\ \A i \in O : (i < m <=> h[i] < q) /\ (m < i <=> q < h[i])
    BY <1>1, Zenon DEF Sets, Along
<1>4. DOMAIN c = O \cup T /\ O \cap T = {} /\ \A m, n \in T : m = n
    BY DEF Others, Repeated, TargetsIn
<1>5. q \in Nat
    <2>1. q \in DOMAIN d BY <1>3
    <2> QED BY <1>2, <2>1
<1>6. \A i \in DOMAIN c : H[i] \in Nat /\ (i \in O => H[i] = h[i]) /\ (i \in T => H[i] = q)
    BY <1>3, <1>4, <1>5
<1> HIDE DEF H
<1>7. \A i, j \in DOMAIN c : i < j <=> H[i] < H[j]
    <2> SUFFICES ASSUME NEW i \in DOMAIN c, NEW j \in DOMAIN c PROVE i < j <=> H[i] < H[j]
        OBVIOUS
    <2>1. CASE i \in O /\ j \in O BY <1>3, <1>6, <2>1
    <2>2. CASE i \in O /\ j \in T BY <1>3, <1>6, <2>2
    <2>3. CASE i \in T /\ j \in O BY <1>3, <1>6, <2>3
    <2>4. CASE i \in T /\ j \in T
        <3>1. i = j /\ H[i] = q /\ H[j] = q BY <1>4, <1>6, <2>4
        <3> QED BY <1>2, <1>5, <3>1
    <2> QED BY <1>4, <2>1, <2>2, <2>3, <2>4
<1> DEFINE w == Written(slot, desired, attrs)
<1> HIDE DEF w
<1>8. d[q] = [tag |-> Tag(slot), attrs |-> w, nested |-> FALSE] BY <1>3 DEF w
<1>9. d[q].tag = Tag(slot) /\ d[q].attrs = w /\ ~d[q].nested /\ IsProperty(d[q])
    BY <1>8 DEF IsProperty
<1>10. \A m \in T : /\ c[m].tag = Tag(slot) /\ c[m].attrs = attrs /\ ~c[m].nested /\ IsProperty(c[m])
                    /\ c[m].nested = FALSE
    <2> SUFFICES ASSUME NEW m \in T
                 PROVE  /\ c[m].tag = Tag(slot) /\ c[m].attrs = attrs /\ ~c[m].nested
                        /\ IsProperty(c[m]) /\ c[m].nested = FALSE
        OBVIOUS
    <2>1. c[m] = [tag |-> Tag(slot), attrs |-> attrs, nested |-> FALSE] BY <1>3
    <2> HIDE DEF T
    <2> QED BY <2>1 DEF IsProperty
<1>11. ASSUME slot = "spacing.line"
       PROVE  /\ StrippedProperty(d[q], slot) = [tag |-> "spacing", attrs |-> Rest(attrs), nested |-> FALSE]
              /\ StrippedProperty(d[q], slot).attrs = Rest(attrs)
              /\ \A m \in T : StrippedProperty(c[m], slot) = [tag |-> "spacing", attrs |-> Rest(attrs), nested |-> FALSE]
    <2>1. Tag(slot) = "spacing" BY <1>11 DEF Tag
    <2>2. w = Overriding(LineAttrs(Lexical[desired]), attrs) BY <1>11 DEF Written, w
    <2>3. Rest(w) = Rest(attrs) BY <2>2, RestOfALine
    <2>4. d[q].nested = FALSE BY <1>8
    <2>5. /\ StrippedProperty(d[q], slot) = [tag |-> "spacing", attrs |-> Rest(w), nested |-> d[q].nested]
          /\ StrippedProperty(d[q], slot).attrs = Rest(w)
        BY <1>9, <1>11, <2>1, StrippedSpacing
    <2>6. \A m \in T : StrippedProperty(c[m], slot) = [tag |-> "spacing", attrs |-> Rest(attrs), nested |-> FALSE]
        BY <1>10, <1>11, <2>1, StrippedSpacing
    <2> QED BY <2>3, <2>4, <2>5, <2>6
<1>12. slot = "spacing.line" => \A m \in T : StrippedProperty(d[q], slot) = StrippedProperty(c[m], slot)
    BY <1>11
<1>13. slot = "spacing.line" /\ T = {} => Vanishes(d[q], slot)
    <2> SUFFICES ASSUME slot = "spacing.line", T = {} PROVE Vanishes(d[q], slot) OBVIOUS
    <2>1. StrippedProperty(d[q], slot).attrs = Rest(NoAttrs) BY <1>3, <1>11
    <2>2. DOMAIN Rest(NoAttrs) = {} BY DEF Rest, NoAttrs
    <2> QED BY <1>9, <2>1, <2>2 DEF Vanishes
<1>14. slot # "spacing.line" => Vanishes(d[q], slot) /\ \A m \in T : Vanishes(c[m], slot)
    <2>1. d[q].tag = Tag(slot) BY <1>9
    <2>2. \A m \in T : c[m].tag = Tag(slot) BY DEF TargetsIn
    <2> QED BY <2>1, <2>2 DEF Vanishes
<1>15. \A m \in T : Vanishes(d[q], slot) <=> Vanishes(c[m], slot)
    <2> SUFFICES ASSUME NEW m \in T PROVE Vanishes(d[q], slot) <=> Vanishes(c[m], slot) OBVIOUS
    <2>1. CASE slot # "spacing.line" BY <1>14, <2>1
    <2>2. CASE slot = "spacing.line"
        <3>1. StrippedProperty(d[q], slot) = StrippedProperty(c[m], slot) BY <1>12, <2>2
        <3>2. d[q].tag = c[m].tag /\ (d[q].nested <=> c[m].nested) BY <1>9, <1>10
        <3> QED BY <3>1, <3>2 DEF Vanishes
    <2> QED BY <2>1, <2>2
<1>16. T = {} => Vanishes(d[q], slot) BY <1>13, <1>14
<1>17. I \subseteq DOMAIN c /\ \A i \in DOMAIN c : i \in I <=> ~Vanishes(c[i], slot)
    BY DEF KeptIndices
<1>18. J \subseteq DOMAIN d /\ \A i \in DOMAIN d : i \in J <=> ~Vanishes(d[i], slot)
    BY DEF KeptIndices
<1> HIDE DEF I, J, O, T
<1>19. J = Along(H, I)
    <2>1. ASSUME NEW k \in J PROVE k \in {H[i] : i \in I}
        <3>1. CASE k = q
            <4>1. PICK m \in T : TRUE BY <1>16, <1>18, <2>1, <3>1
            <4>2. m \in DOMAIN c /\ H[m] = q /\ m \in I BY <1>4, <1>6, <1>15, <1>17, <1>18, <3>1
            <4> QED BY <3>1, <4>2
        <3>2. CASE k # q
            <4>1. PICK i \in O : k = h[i] BY <1>3, <1>18, <3>2
            <4>2. i \in DOMAIN c /\ H[i] = k /\ c[i] = d[k] BY <1>3, <1>4, <1>6, <4>1
            <4> QED BY <1>17, <1>18, <4>2
        <3> QED BY <3>1, <3>2
    <2>2. ASSUME NEW i \in I PROVE H[i] \in J
        <3>1. CASE i \in O
            <4>1. H[i] \in DOMAIN d /\ d[H[i]] = c[i] BY <1>3, <1>6, <1>17, <3>1
            <4> QED BY <1>17, <1>18, <4>1
        <3>2. CASE i \in T
            <4>1. H[i] = q /\ q \in DOMAIN d BY <1>3, <1>6, <1>17, <3>2
            <4> QED BY <1>15, <1>17, <1>18, <3>2, <4>1
        <3> QED BY <1>4, <1>17, <3>1, <3>2
    <2> QED BY <2>1, <2>2 DEF Along
<1>20. \A i \in I : t[H[i]] = s[i]
    <2> SUFFICES ASSUME NEW i \in I PROVE t[H[i]] = s[i] OBVIOUS
    <2>1. s[i] = StrippedProperty(c[i], slot) BY <1>17 DEF StrippedChildren
    <2>2. \A k \in DOMAIN d : t[k] = StrippedProperty(d[k], slot) BY DEF StrippedChildren
    <2>3. CASE i \in O
        <3>1. H[i] \in DOMAIN d /\ d[H[i]] = c[i] BY <1>3, <1>6, <1>17, <2>3
        <3> QED BY <2>1, <2>2, <3>1
    <2>4. CASE i \in T
        <3>1. H[i] = q /\ q \in DOMAIN d BY <1>3, <1>6, <1>17, <2>4
        <3>2. slot = "spacing.line" BY <1>14, <1>17, <2>4
        <3> QED BY <1>12, <2>1, <2>2, <2>4, <3>1, <3>2
    <2> QED BY <1>4, <1>17, <2>3, <2>4
<1>21. I \in SUBSET Nat /\ IsFiniteSet(I) /\ I \subseteq DOMAIN H
    <2>1. DOMAIN H = DOMAIN c BY DEF H
    <2> QED BY <1>2, <1>17, <2>1, FS_Subset
<1>22. \A i \in I : H[i] \in Nat BY <1>6, <1>17
<1>23. \A i, j \in I : i < j <=> H[i] < H[j] BY <1>7, <1>17
<1> HIDE DEF s, t
<1>24. Selected(t, Along(H, I)) = Selected(s, I)
    BY <1>20, <1>21, <1>22, <1>23, SelectedAlong
<1> QED BY <1>19, <1>24 DEF KeptChildren, I, J, s, t

-------------------------------------------------------------------------------
(***************************************************************************)
(* Without the property, and without a container it alone filled, nothing  *)
(* in the element differs.                                                 *)
(***************************************************************************)

(***************************************************************************)
(* Stripping a node changes its children only.                             *)
(***************************************************************************)
LEMMA NodeIsStripped ==
    ASSUME NEW node, IsNode(node), NEW slot
    PROVE  /\ StrippedNode(node, slot) = WithChildren(node, KeptChildren(node.children, slot))
           /\ StrippedNode(node, slot).tag = node.tag
           /\ StrippedNode(node, slot).children = KeptChildren(node.children, slot)
           /\ StrippedNode(node, slot).marked <=> node.marked
<1> DEFINE k == KeptChildren(node.children, slot)
<1>1. StrippedNode(node, slot) = [node EXCEPT !.children = k]
    <2>1. DOMAIN StrippedChildren(node.children, slot) = DOMAIN node.children BY DEF StrippedChildren
    <2> QED BY <2>1 DEF StrippedNode, KeptChildren, KeptIndices, StrippedChildren
<1> HIDE DEF k
<1>2. /\ [node EXCEPT !.children = k].tag = node.tag
      /\ [node EXCEPT !.children = k].children = k
      /\ [node EXCEPT !.children = k].marked = node.marked
    BY DEF IsNode
<1> QED BY <1>1, <1>2 DEF WithChildren, k

LEMMA ChangedTwice ==
    ASSUME NEW node, IsNode(node), NEW d, NEW e
    PROVE  WithChildren(WithChildren(node, d), e) = WithChildren(node, e)
<1>1. node = [tag |-> node.tag, marked |-> node.marked, children |-> node.children] BY DEF IsNode
<1>2. WithChildren(node, d) = [tag |-> node.tag, marked |-> node.marked, children |-> d]
    BY <1>1 DEF WithChildren
<1>3. WithChildren(node, e) = [tag |-> node.tag, marked |-> node.marked, children |-> e]
    BY <1>1 DEF WithChildren
<1> DEFINE m == WithChildren(node, d)
<1>4. m = [tag |-> m.tag, marked |-> m.marked, children |-> m.children] /\ m.tag = node.tag /\ m.marked = node.marked
    BY <1>2
<1> HIDE DEF m
<1>5. WithChildren(m, e) = [tag |-> m.tag, marked |-> m.marked, children |-> e] BY <1>4 DEF WithChildren
<1> QED BY <1>3, <1>4, <1>5 DEF m

StrippedNodes(body, slot) == [i \in DOMAIN body |-> StrippedNode(body[i], slot)]

Remains(node, slot) == node.tag = "properties" => KeptChildren(node.children, slot) # <<>> \/ node.marked

Remaining(body, slot) == {i \in DOMAIN body : Remains(body[i], slot)}

LEMMA BodyIsStripped ==
    ASSUME NEW body, IsBody(body), NEW slot
    PROVE  Stripped(body, slot) = Selected(StrippedNodes(body, slot), Remaining(body, slot))
<1> DEFINE s == StrippedNodes(body, slot)
           Left(t) == {i \in DOMAIN t : t[i].tag = "properties" => t[i].children # <<>> \/ t[i].marked}
<1>1. Stripped(body, slot) = Selected(s, Left(s)) BY DEF Stripped, StrippedNodes
<1>2. DOMAIN s = DOMAIN body /\ \A i \in DOMAIN body : s[i] = StrippedNode(body[i], slot)
    BY DEF StrippedNodes
<1> HIDE DEF s
<1>3. ASSUME NEW i \in DOMAIN body
      PROVE  (s[i].tag = "properties" => s[i].children # <<>> \/ s[i].marked) <=> Remains(body[i], slot)
    <2>1. IsNode(body[i]) BY DEF IsBody
    <2>2. /\ s[i].tag = body[i].tag /\ s[i].children = KeptChildren(body[i].children, slot)
          /\ s[i].marked <=> body[i].marked
        BY <1>2, <2>1, NodeIsStripped
    <2> QED BY <2>2 DEF Remains
<1>4. Left(s) = Remaining(body, slot) BY <1>2, <1>3 DEF Remaining
<1> QED BY <1>1, <1>4 DEF s

LEMMA NothingKept ==
    ASSUME NEW slot PROVE KeptChildren(<<>>, slot) = <<>>
<1>1. KeptIndices(<<>>, slot) = {} BY DEF KeptIndices
<1>2. Cardinality({}) = 0 BY FS_EmptySet
<1>3. 1 .. 0 = {} OBVIOUS
<1>4. \A s : Selected(s, {}) = [n \in {} |-> s[Nth({}, n)]] BY <1>2, <1>3 DEF Selected
<1>5. \A s : Selected(s, {}) = <<>> BY <1>4
<1> QED BY <1>1, <1>5 DEF KeptChildren

(***************************************************************************)
(* A container that was made for the property vanishes with it.            *)
(***************************************************************************)
LEMMA StrippedAlike ==
    ASSUME NEW slot \in {"bold", "font_size", "alignment", "spacing.line"}, NEW desired,
           NEW body, IsBody(body), Containers(body) \in {{}, {1}},
           ~Repeated(PropertiesOf(body), slot),
           NEW d, IsChildren(d), IsSet(PropertiesOf(body), d, slot, desired),
           NEW after, IsBody(after),
           IF Containers(body) = {}
           THEN /\ DOMAIN after = 1 .. Len(body) + 1 /\ after[1] = Container(d)
                /\ \A i \in 1 .. Len(body) : after[i + 1] = body[i]
           ELSE /\ DOMAIN after = DOMAIN body /\ after[1] = WithChildren(body[1], d)
                /\ \A i \in DOMAIN body : i # 1 => after[i] = body[i]
    PROVE  Stripped(body, slot) = Stripped(after, slot)
<1> DEFINE c == PropertiesOf(body)
           s == StrippedNodes(body, slot)
           t == StrippedNodes(after, slot)
           I == Remaining(body, slot)
           J == Remaining(after, slot)
<1>1. KeptChildren(d, slot) = KeptChildren(c, slot)
    <2>1. IsChildren(c) BY ChildrenOfABody
    <2>2. ~Repeated(c, slot) /\ IsSet(c, d, slot, desired) OBVIOUS
    <2> HIDE DEF c
    <2> QED BY <2>1, <2>2, KeptIsKept
<1>2. Stripped(body, slot) = Selected(s, I) /\ Stripped(after, slot) = Selected(t, J)
    BY BodyIsStripped
<1>3. /\ \A i \in DOMAIN body : IsNode(body[i]) /\ s[i] = StrippedNode(body[i], slot)
      /\ DOMAIN s = DOMAIN body
      /\ \A i \in DOMAIN after : t[i] = StrippedNode(after[i], slot)
      /\ DOMAIN t = DOMAIN after
    BY DEF IsBody, StrippedNodes
<1>4. Len(body) \in Nat /\ DOMAIN body = 1 .. Len(body) /\ IsFiniteSet(DOMAIN body)
    BY Sequences DEF IsBody
<1>5. CASE Containers(body) = {}
    <2> DEFINE h == [i \in DOMAIN body |-> i + 1]
               n == Len(body)
    <2>1. KeptChildren(d, slot) = <<>>
        <3>1. c = <<>> BY <1>5 DEF PropertiesOf
        <3> QED BY <1>1, <3>1, NothingKept
    <2>2. /\ DOMAIN after = 1 .. n + 1 /\ after[1] = Container(d)
          /\ \A i \in 1 .. n : after[i + 1] = body[i]
        BY <1>5
    <2>3. ~Remains(after[1], slot)
        <3>1. Container(d).tag = "properties" /\ Container(d).children = d /\ ~Container(d).marked
            BY DEF Container
        <3> QED BY <2>1, <2>2, <3>1 DEF Remains
    <2>4. /\ I = {i \in 1 .. n : Remains(body[i], slot)}
          /\ J = {i \in 1 .. n + 1 : Remains(after[i], slot)}
        BY <1>4, <2>2 DEF Remaining
    <2> HIDE DEF I, J, s, t
    <2>5. n \in Nat BY <1>4
    <2> HIDE DEF n
    <2>6. DOMAIN h = 1 .. n /\ \A i \in 1 .. n : h[i] = i + 1 BY <1>4 DEF n
    <2> HIDE DEF h
    <2>7. J = Along(h, I)
        <3>1. ASSUME NEW k \in J PROVE k \in {h[i] : i \in I}
            <4>1. k # 1 BY <2>3, <2>4, <3>1
            <4>2. k - 1 \in 1 .. n /\ (k - 1) + 1 = k BY <2>4, <2>5, <4>1
            <4>3. after[k] = body[k - 1] /\ h[k - 1] = k BY <2>2, <2>6, <4>2
            <4>4. k - 1 \in I BY <2>4, <4>2, <4>3
            <4> QED BY <4>3, <4>4
        <3>2. ASSUME NEW i \in I PROVE h[i] \in J
            <4>1. i \in 1 .. n /\ i + 1 \in 1 .. n + 1 BY <2>4, <2>5
            <4>2. h[i] = i + 1 /\ after[i + 1] = body[i] BY <2>2, <2>6, <4>1
            <4> QED BY <2>4, <4>1, <4>2
        <3> QED BY <3>1, <3>2 DEF Along
    <2>8. \A i \in I : t[h[i]] = s[i]
        <3> SUFFICES ASSUME NEW i \in I PROVE t[h[i]] = s[i] OBVIOUS
        <3>1. i \in 1 .. n /\ i + 1 \in 1 .. n + 1 BY <2>4, <2>5
        <3>2. h[i] = i + 1 /\ after[i + 1] = body[i] BY <2>2, <2>6, <3>1
        <3>3. t[i + 1] = StrippedNode(after[i + 1], slot) BY <1>3, <2>2, <3>1
        <3>4. s[i] = StrippedNode(body[i], slot) BY <1>3, <1>4, <3>1 DEF n
        <3> QED BY <3>2, <3>3, <3>4
    <2>9. I \in SUBSET Nat /\ IsFiniteSet(I) /\ I \subseteq DOMAIN h
        <3>1. I \in SUBSET (1 .. n) BY <2>4
        <3>2. IsFiniteSet(1 .. n) BY <1>4 DEF n
        <3>3. IsFiniteSet(I) BY <3>1, <3>2, FS_Subset
        <3> QED BY <2>5, <2>6, <3>1, <3>3
    <2>10. (\A i \in I : h[i] \in Nat) /\ (\A i, j \in I : i < j <=> h[i] < h[j])
        BY <2>4, <2>5, <2>6
    <2>11. Selected(t, Along(h, I)) = Selected(s, I) BY <2>8, <2>9, <2>10, SelectedAlong
    <2> QED BY <1>2, <2>7, <2>11
<1>6. CASE Containers(body) = {1}
    <2>1. c = body[1].children /\ 1 \in DOMAIN body /\ IsNode(body[1]) /\ Containers(body) # {}
        <3>1. Containers(body) # {} BY <1>6
        <3>2. Min({1}) = 1
            <4>1. Min({1}) \in {1} BY LeastOf
            <4> QED BY <4>1
        <3>3. 1 \in DOMAIN body BY <1>6 DEF Containers
        <3> QED BY <1>3, <1>6, <3>1, <3>2, <3>3 DEF PropertiesOf
    <2>2. /\ DOMAIN after = DOMAIN body /\ after[1] = WithChildren(body[1], d)
          /\ \A i \in DOMAIN body : i # 1 => after[i] = body[i]
        BY <2>1
    <2> DEFINE k == KeptChildren(c, slot)
    <2>3. IsNode(after[1]) BY <2>1, <2>2 DEF IsBody
    <2>4. /\ after[1].children = d /\ after[1].tag = body[1].tag /\ (after[1].marked <=> body[1].marked)
        BY <2>1, <2>2 DEF WithChildren, IsNode
    <2>5. StrippedNode(body[1], slot) = WithChildren(body[1], k) BY <2>1, NodeIsStripped
    <2>6. StrippedNode(after[1], slot) = WithChildren(after[1], k) BY <1>1, <2>3, <2>4, NodeIsStripped
    <2>7. StrippedNode(after[1], slot) = StrippedNode(body[1], slot)
        BY <2>1, <2>2, <2>5, <2>6, ChangedTwice
    <2>8. Remains(after[1], slot) <=> Remains(body[1], slot) BY <1>1, <2>1, <2>4 DEF Remains
    <2>9. t = s BY <2>2, <2>7 DEF StrippedNodes
    <2>10. J = I BY <2>2, <2>8 DEF Remaining
    <2> QED BY <1>2, <2>9, <2>10
<1> QED BY <1>5, <1>6

-------------------------------------------------------------------------------
(***************************************************************************)
(* The outcomes of an operation: what is not refused is applied.           *)
(***************************************************************************)

(***************************************************************************)
(* A mutation is refused for the shape, the lexical form or the property.  *)
(***************************************************************************)
LEMMA Refusals ==
    ASSUME NEW kind, NEW body, IsBody(body), NEW slot, NEW desired
    PROVE  /\ ShapeFault(kind, body, slot) \in {Accepted, Noncanonical, Duplicate}
           /\ Refusal(kind, body, slot, desired) \in {Accepted, Noncanonical, Duplicate, UnrepresentableValue}
           /\ Refusal(kind, body, slot, desired) = Accepted <=>
                  /\ ShapeFault(kind, body, slot) = Accepted
                  /\ IsWritable(slot, desired)
                  /\ \A i \in TargetsIn(PropertiesOf(body), slot) : ~PropertyRefused(slot, PropertiesOf(body)[i])
           /\ Accepted # Noncanonical /\ Accepted # Duplicate /\ Accepted # UnrepresentableValue
           /\ Noncanonical # Duplicate /\ Noncanonical # UnrepresentableValue /\ Duplicate # UnrepresentableValue
<1>1. ShapeFault(kind, body, slot) \in {Accepted, Noncanonical, Duplicate} BY Faults
<1>2. /\ Accepted # Noncanonical /\ Accepted # Duplicate /\ Accepted # UnrepresentableValue
      /\ Noncanonical # Duplicate /\ Noncanonical # UnrepresentableValue /\ Duplicate # UnrepresentableValue
    BY DEF Accepted, Noncanonical, Duplicate, UnrepresentableValue
<1> DEFINE fault == ShapeFault(kind, body, slot)
           refused == \E i \in TargetsIn(PropertiesOf(body), slot) : PropertyRefused(slot, PropertiesOf(body)[i])
<1>3. Refusal(kind, body, slot, desired) =
          IF fault # Accepted THEN fault
          ELSE IF ~IsWritable(slot, desired) THEN UnrepresentableValue
          ELSE IF refused THEN Noncanonical
          ELSE Accepted
    BY DEF Refusal
<1>4. refused <=> ~\A i \in TargetsIn(PropertiesOf(body), slot) : ~PropertyRefused(slot, PropertiesOf(body)[i])
    OBVIOUS
<1> HIDE DEF fault, refused
<1> QED BY <1>1, <1>2, <1>3, <1>4 DEF fault

LEMMA SlotsAre ==
    ASSUME NEW kind \in Kinds, NEW slot \in SlotsOfKind[kind]
    PROVE  slot \in {"bold", "font_size", "alignment", "spacing.line"}
BY DEF Kinds, SlotsOfKind

(***************************************************************************)
(* What is not refused passes all of the checks on the output.             *)
(***************************************************************************)
LEMMA MutationIsSound ==
    ASSUME NEW kind \in Kinds, NEW slot \in SlotsOfKind[kind], NEW desired \in DesiredOf[slot],
           NEW body, IsBody(body), Refusal(kind, body, slot, desired) = Accepted,
           NEW levels, IsSequence(levels), Current(body, levels, slot).status = "resolved",
           NEW after, after = Mutated(kind, body, slot, desired)
    PROVE  /\ IsSound(kind, body, after, levels, slot, desired)
           /\ IsBody(after)
<1> DEFINE c == PropertiesOf(body)
           d == SetProperty(kind, c, slot, desired)
<1>1. slot \in {"bold", "font_size", "alignment", "spacing.line"} BY SlotsAre
<1>2. /\ ShapeFault(kind, body, slot) = Accepted /\ IsWritable(slot, desired)
      /\ \A i \in TargetsIn(PropertiesOf(body), slot) : ~PropertyRefused(slot, PropertiesOf(body)[i])
    BY Refusals
<1>3. d = SetProperty(kind, PropertiesOf(body), slot, desired) OBVIOUS
<1> HIDE DEF d
<1>4. /\ IsChildren(d) /\ IsSet(PropertiesOf(body), d, slot, desired) /\ InOrder(kind, d)
      /\ IsBody(after) /\ Containers(after) = {1} /\ PropertiesOf(after) = d
      /\ IF Containers(body) = {}
         THEN /\ DOMAIN after = 1 .. Len(body) + 1 /\ after[1] = Container(d)
              /\ \A i \in 1 .. Len(body) : after[i + 1] = body[i]
         ELSE /\ DOMAIN after = DOMAIN body /\ after[1] = WithChildren(body[1], d)
              /\ \A i \in DOMAIN body : i # 1 => after[i] = body[i]
    BY <1>2, <1>3, MutatedBody
<1>5. Containers(body) \in {{}, {1}} /\ ~Repeated(PropertiesOf(body), slot) BY <1>2, AcceptedShape
<1>6. Stripped(body, slot) = Stripped(after, slot) BY <1>1, <1>4, <1>5, StrippedAlike
<1>7. OutputIsCanonical(kind, after, slot, desired) BY <1>1, <1>4, OutputShape
<1>8. Current(after, levels, slot) = Resolved(desired)
    <2>1. Resolve(slot, Above(Level(c), levels)).status = "resolved" BY CurrentIsResolved
    <2>2. IsSet(c, d, slot, desired) BY <1>4
    <2> HIDE DEF c
    <2>3. Resolve(slot, Above(Level(d), levels)) = Resolved(desired)
        BY <1>1, <1>2, <2>1, <2>2, OwnValue
    <2> QED BY <1>4, <2>3, CurrentIsResolved
<1> QED BY <1>4, <1>6, <1>7, <1>8 DEF IsSound, AllowedDelta

LEMMA OutcomeIs ==
    ASSUME NEW kind \in Kinds, NEW slot \in SlotsOfKind[kind], NEW desired \in DesiredOf[slot],
           NEW body, IsBody(body),
           NEW levels, IsSequence(levels), Current(body, levels, slot).status = "resolved"
    PROVE  /\ Outcome(kind, body, levels, slot, desired) =
                  IF Refusal(kind, body, slot, desired) = Accepted THEN "applied"
                  ELSE Refusal(kind, body, slot, desired)
           /\ Outcome(kind, body, levels, slot, desired) \in Results \ {"integrity_error"}
           /\ Outcome(kind, body, levels, slot, desired) = "applied" <=>
                  Refusal(kind, body, slot, desired) = Accepted
<1> DEFINE refusal == Refusal(kind, body, slot, desired)
           after == Mutated(kind, body, slot, desired)
<1>1. refusal = Accepted => IsSound(kind, body, after, levels, slot, desired)
    <2> HIDE DEF after
    <2> QED BY MutationIsSound DEF after
<1>2. refusal \in {Accepted, Noncanonical, Duplicate, UnrepresentableValue} BY Refusals
<1>3. Outcome(kind, body, levels, slot, desired) =
          IF refusal # Accepted THEN refusal
          ELSE IF IsSound(kind, body, after, levels, slot, desired) THEN "applied" ELSE "integrity_error"
    BY DEF Outcome
<1> HIDE DEF refusal, after
<1>4. Outcome(kind, body, levels, slot, desired) = IF refusal = Accepted THEN "applied" ELSE refusal
    BY <1>1, <1>3
<1> QED BY <1>2, <1>4 DEF refusal, Results, Accepted, Noncanonical, Duplicate, UnrepresentableValue

-------------------------------------------------------------------------------
(***************************************************************************)
(* The states of the sites of an element, before and after the operation.  *)
(***************************************************************************)
Refused(body, slot) ==
    \E i \in TargetsIn(PropertiesOf(body), slot) : PropertyRefused(slot, PropertiesOf(body)[i])

ShapeOf(kind, body, slot) ==
    LET fault == ShapeFault(kind, body, slot)
    IN  IF fault = Noncanonical THEN "noncanonical"
        ELSE IF fault = Duplicate THEN "duplicate"
        ELSE IF Refused(body, slot) THEN "irregular"
        ELSE "canonical"

IsDeclared(body, slot) ==
    IF slot = "spacing.line" THEN LineProps(Level(PropertiesOf(body))) # {}
    ELSE Declares(Level(PropertiesOf(body)), Tag(slot))

(***************************************************************************)
(* What a site is, as a function of its element and what it inherits.      *)
(***************************************************************************)
StateOf(kind, body, levels, slot) ==
    [status |-> Current(body, levels, slot).status, value |-> Current(body, levels, slot).value,
     declared |-> IsDeclared(body, slot), shape |-> ShapeOf(kind, body, slot)]

OnceSet(desired) ==
    [status |-> "resolved", value |-> desired, declared |-> TRUE, shape |-> "canonical"]

LEMMA SitesAre ==
    /\ Sites = 1 .. 4 /\ Sites \subseteq Nat
    /\ \A site \in Sites : /\ KindOf(site) \in Kinds
                           /\ SiteSlots[site] \in SlotsOfKind[KindOf(site)]
                           /\ SiteSlots[site] \in {"bold", "font_size", "alignment", "spacing.line"}
    /\ \A s, t \in Sites : SiteSlots[s] = SiteSlots[t] => s = t
<1>1. Sites = 1 .. 4 BY DEF Sites, SiteSlots
<1>2. \A s \in 1 .. 4 : s = 1 \/ s = 2 \/ s = 3 \/ s = 4 OBVIOUS
<1>3. /\ SiteSlots[1] = "alignment" /\ SiteSlots[2] = "spacing.line"
      /\ SiteSlots[3] = "bold" /\ SiteSlots[4] = "font_size"
    BY DEF SiteSlots
<1>4. SlotsOfKind["run"] = {"bold", "font_size"} /\ SlotsOfKind["paragraph"] = {"alignment", "spacing.line"}
    BY DEF SlotsOfKind
<1>5. ASSUME NEW site \in Sites
      PROVE  /\ KindOf(site) \in Kinds /\ SiteSlots[site] \in SlotsOfKind[KindOf(site)]
             /\ SiteSlots[site] \in {"bold", "font_size", "alignment", "spacing.line"}
    BY <1>1, <1>2, <1>3, <1>4 DEF KindOf, Kinds
<1>6. ASSUME NEW s \in Sites, NEW t \in Sites, SiteSlots[s] = SiteSlots[t] PROVE s = t
    BY <1>1, <1>2, <1>3, <1>6
<1> QED BY <1>1, <1>5, <1>6

LEMMA SiteStateIs ==
    ASSUME NEW site \in Sites, IsBody(Host(site))
    PROVE  SiteState(site) = StateOf(KindOf(site), Host(site), inherited[KindOf(site)], SiteSlots[site])
<1> DEFINE kind == KindOf(site)
           slot == SiteSlots[site]
           fault == ShapeFault(kind, Host(site), slot)
<1>1. fault \in {Accepted, Noncanonical, Duplicate} /\ Accepted # Noncanonical /\ Accepted # Duplicate
      /\ Noncanonical # Duplicate
    BY Refusals
<1>2. SiteShape(site) = CASE fault = Noncanonical -> "noncanonical"
                          [] fault = Duplicate -> "duplicate"
                          [] fault = Accepted /\ Refused(Host(site), slot) -> "irregular"
                          [] OTHER -> "canonical"
    BY DEF SiteShape, Refused
<1>3. ShapeOf(kind, Host(site), slot) =
          IF fault = Noncanonical THEN "noncanonical"
          ELSE IF fault = Duplicate THEN "duplicate"
          ELSE IF Refused(Host(site), slot) THEN "irregular"
          ELSE "canonical"
    BY DEF ShapeOf
<1>4. DeclaredAt(site) = IsDeclared(Host(site), slot) BY DEF DeclaredAt, IsDeclared, Direct
<1> HIDE DEF fault
<1>5. SiteShape(site) = ShapeOf(kind, Host(site), slot) BY <1>1, <1>2, <1>3
<1> QED BY <1>4, <1>5 DEF SiteState, StateOf, CurrentAt

(***************************************************************************)
(* The values with a lexical form are those the pipeline's modules call    *)
(* representable.                                                          *)
(***************************************************************************)
LEMMA Writables ==
    ASSUME NEW slot \in {"bold", "font_size", "alignment", "spacing.line"}, NEW desired \in DesiredOf[slot]
    PROVE  IsWritable(slot, desired) <=>
               ~(/\ slot \in {"font_size", "spacing.line"}
                 /\ desired \in (Observable["font_size"] \cup Observable["spacing.line"])
                                    \ (DOMAIN Lexical \cup {Fixed}))
<1>1. ValuesAreReadBack BY ValuesAssumption
<1> QED BY <1>1 DEF ValuesAreReadBack, IsWritable

(***************************************************************************)
(* The abstract shape of a site tells how its operation ends.              *)
(***************************************************************************)
LEMMA OutcomeOfAShape ==
    ASSUME NEW kind \in Kinds, NEW slot \in SlotsOfKind[kind], NEW desired \in DesiredOf[slot],
           NEW body, IsBody(body), NEW state, state.shape = ShapeOf(kind, body, slot)
    PROVE  Pipeline!ShapeOutcome(state, slot, desired) =
               IF Refusal(kind, body, slot, desired) = Accepted THEN "applied"
               ELSE Refusal(kind, body, slot, desired)
<1> DEFINE fault == ShapeFault(kind, body, slot)
           refused == Refused(body, slot)
           held == slot \in {"font_size", "spacing.line"}
                      /\ desired \in (Observable["font_size"] \cup Observable["spacing.line"])
                                         \ (DOMAIN Lexical \cup {Fixed})
<1>1. slot \in {"bold", "font_size", "alignment", "spacing.line"} BY SlotsAre
<1>2. fault \in {Accepted, Noncanonical, Duplicate} BY Refusals
<1>3. IsWritable(slot, desired) <=> ~held BY <1>1, Writables
<1>4. state.shape = IF fault = Noncanonical THEN "noncanonical"
                    ELSE IF fault = Duplicate THEN "duplicate"
                    ELSE IF refused THEN "irregular" ELSE "canonical"
    BY DEF ShapeOf
<1>5. Refusal(kind, body, slot, desired) =
          IF fault # Accepted THEN fault
          ELSE IF ~IsWritable(slot, desired) THEN UnrepresentableValue
          ELSE IF refused THEN Noncanonical
          ELSE Accepted
    BY DEF Refusal, Refused
<1>6. Pipeline!ShapeOutcome(state, slot, desired) =
          CASE state.shape = "noncanonical" -> "noncanonical_run_properties"
            [] state.shape = "duplicate" -> "duplicate_target_property"
            [] state.shape \in {"canonical", "irregular"} /\ held -> "unrepresentable_value"
            [] state.shape = "irregular" /\ ~held -> "noncanonical_run_properties"
            [] OTHER -> "applied"
    BY DEF Pipeline!ShapeOutcome, Pipeline!Applied
<1> HIDE DEF fault, refused, held
<1>7. CASE fault = Noncanonical
    <2>1. state.shape = "noncanonical" BY <1>4, <1>7
    <2>2. Pipeline!ShapeOutcome(state, slot, desired) = "noncanonical_run_properties" BY <1>6, <2>1
    <2> QED BY <1>5, <1>7, <2>2 DEF Noncanonical, Accepted
<1>8. CASE fault = Duplicate
    <2>1. state.shape = "duplicate" BY <1>4, <1>8 DEF Duplicate, Noncanonical
    <2>2. Pipeline!ShapeOutcome(state, slot, desired) = "duplicate_target_property" BY <1>6, <2>1
    <2> QED BY <1>5, <1>8, <2>2 DEF Duplicate, Accepted
<1>9. CASE fault = Accepted
    <2>1. state.shape = IF refused THEN "irregular" ELSE "canonical"
        BY <1>4, <1>9 DEF Accepted, Duplicate, Noncanonical
    <2>2. CASE held
        <3>1. Pipeline!ShapeOutcome(state, slot, desired) = "unrepresentable_value" BY <1>6, <2>1, <2>2
        <3> QED BY <1>3, <1>5, <1>9, <2>2, <3>1 DEF UnrepresentableValue, Accepted
    <2>3. CASE ~held /\ refused
        <3>1. state.shape = "irregular" BY <2>1, <2>3
        <3>2. Pipeline!ShapeOutcome(state, slot, desired) = "noncanonical_run_properties" BY <1>6, <2>3, <3>1
        <3> QED BY <1>3, <1>5, <1>9, <2>3, <3>2 DEF Noncanonical, Accepted
    <2>4. CASE ~held /\ ~refused
        <3>1. state.shape = "canonical" BY <2>1, <2>4
        <3>2. Pipeline!ShapeOutcome(state, slot, desired) = "applied" BY <1>6, <2>4, <3>1
        <3> QED BY <1>3, <1>5, <1>9, <2>4, <3>2
    <2> QED BY <2>2, <2>3, <2>4
<1> QED BY <1>2, <1>7, <1>8, <1>9

(***************************************************************************)
(* The site of the operation afterwards.                                   *)
(***************************************************************************)
LEMMA OwnState ==
    ASSUME NEW kind \in Kinds, NEW slot \in SlotsOfKind[kind], NEW desired \in DesiredOf[slot],
           NEW body, IsBody(body), Refusal(kind, body, slot, desired) = Accepted,
           NEW levels, IsSequence(levels), Current(body, levels, slot).status = "resolved",
           NEW after, after = Mutated(kind, body, slot, desired)
    PROVE  /\ ShapeOf(kind, body, slot) = "canonical"
           /\ StateOf(kind, after, levels, slot) = OnceSet(desired)
<1> DEFINE c == PropertiesOf(body)
           d == SetProperty(kind, c, slot, desired)
<1>1. slot \in {"bold", "font_size", "alignment", "spacing.line"} BY SlotsAre
<1>2. /\ ShapeFault(kind, body, slot) = Accepted /\ IsWritable(slot, desired)
      /\ \A i \in TargetsIn(PropertiesOf(body), slot) : ~PropertyRefused(slot, PropertiesOf(body)[i])
      /\ Accepted # Noncanonical /\ Accepted # Duplicate
    BY Refusals
<1>3. d = SetProperty(kind, PropertiesOf(body), slot, desired) OBVIOUS
<1> HIDE DEF d
<1>4. /\ IsChildren(d) /\ IsSet(PropertiesOf(body), d, slot, desired) /\ InOrder(kind, d)
      /\ IsBody(after) /\ Containers(after) = {1} /\ PropertiesOf(after) = d
    BY <1>2, <1>3, MutatedBody
<1>5. ShapeOf(kind, body, slot) = "canonical" BY <1>2 DEF ShapeOf, Refused
<1>6. PICK h, q, attrs : Sets(PropertiesOf(body), d, slot, desired, h, q, attrs) BY <1>4 DEF IsSet
<1>7. /\ TargetsIn(d, slot) = {q} /\ q \in DOMAIN d /\ ~Repeated(d, slot)
      /\ Declared(Level(d), Tag(slot)) = {d[q]}
      /\ d[q].tag = Tag(slot) /\ ~d[q].nested
      /\ d[q].attrs = Written(slot, desired, attrs)
    BY <1>6, OwnTarget
<1>8. slot # "bold" => DOMAIN attrs \subseteq AttrsAllowed(slot) BY <1>6 DEF Sets
<1>9. ~PropertyRefused(slot, d[q])
    <2>1. CASE slot = "bold" BY <1>7, <2>1 DEF PropertyRefused
    <2>2. CASE slot = "font_size"
        <3>1. d[q].attrs = Overriding(ValAttr(Lexical[desired]), attrs) BY <1>7, <2>2 DEF Written
        <3>2. DOMAIN d[q].attrs = DOMAIN attrs \cup {"val"} BY <3>1 DEF Overriding, ValAttr
        <3> QED BY <1>7, <1>8, <2>2, <3>2 DEF PropertyRefused, AttrsAllowed
    <2>3. CASE slot = "alignment"
        <3>1. d[q].attrs = Overriding(ValAttr(desired), attrs) BY <1>7, <2>3 DEF Written
        <3>2. DOMAIN d[q].attrs = DOMAIN attrs \cup {"val"} BY <3>1 DEF Overriding, ValAttr
        <3> QED BY <1>7, <1>8, <2>3, <3>2 DEF PropertyRefused, AttrsAllowed, Has
    <2>4. CASE slot = "spacing.line"
        <3>1. d[q].attrs = Overriding(LineAttrs(Lexical[desired]), attrs) BY <1>7, <2>4 DEF Written
        <3>2. DOMAIN d[q].attrs = DOMAIN attrs \cup {"line", "lineRule"} BY <3>1 DEF Overriding, LineAttrs
        <3> QED BY <1>7, <1>8, <2>4, <3>2 DEF PropertyRefused, AttrsAllowed, SpacingAttrs
    <2> QED BY <1>1, <2>1, <2>2, <2>3, <2>4
<1>10. ~HasAlternate(d)
    <2>1. ~HasAlternate(PropertiesOf(body)) BY <1>2, AcceptedShape
    <2>2. "AlternateContent" # Tag(slot) BY <1>1 DEF Tag
    <2>3. (\E i \in DOMAIN d : d[i].tag = "AlternateContent") <=>
              (\E i \in DOMAIN PropertiesOf(body) : PropertiesOf(body)[i].tag = "AlternateContent")
        BY <1>4, <2>2, DeclaredIsKept
    <2> QED BY <2>1, <2>3 DEF HasAlternate
<1>11. ShapeOf(kind, after, slot) = "canonical"
    <2>1. ShapeFault(kind, after, slot) = Accepted BY <1>4, <1>7, <1>10, Faults
    <2>2. ~Refused(after, slot) BY <1>4, <1>7, <1>9 DEF Refused
    <2> QED BY <1>2, <2>1, <2>2 DEF ShapeOf
<1>12. IsDeclared(after, slot)
    <2>1. CASE slot = "spacing.line"
        <3>1. d[q].attrs = Overriding(LineAttrs(Lexical[desired]), attrs) BY <1>7, <2>1 DEF Written
        <3>2. Has(d[q], "line") BY <3>1 DEF Has, Overriding, LineAttrs
        <3>3. Tag(slot) = "spacing" BY <2>1 DEF Tag
        <3>4. d[q] \in LineProps(Level(d)) BY <1>7, <3>2, <3>3 DEF LineProps
        <3> QED BY <1>4, <2>1, <3>4 DEF IsDeclared
    <2>2. CASE slot # "spacing.line"
        <3>1. Declares(Level(d), Tag(slot)) BY <1>7, DeclaresByMembers
        <3> QED BY <1>4, <2>2, <3>1 DEF IsDeclared
    <2> QED BY <2>1, <2>2
<1>13. Current(after, levels, slot) = Resolved(desired)
    BY MutationIsSound DEF IsSound
<1>14. IsDeclared(after, slot) = TRUE BY <1>12 DEF IsDeclared
<1>15. Resolved(desired).status = "resolved" /\ Resolved(desired).value = desired BY DEF Resolved
<1> QED BY <1>5, <1>11, <1>13, <1>14, <1>15 DEF StateOf, OnceSet

(***************************************************************************)
(* The other site of the element is as it was.                             *)
(***************************************************************************)
LEMMA OtherState ==
    ASSUME NEW kind \in Kinds, NEW slot \in SlotsOfKind[kind], NEW desired \in DesiredOf[slot],
           NEW body, IsBody(body), Refusal(kind, body, slot, desired) = Accepted,
           NEW levels, IsSequence(levels),
           NEW after, after = Mutated(kind, body, slot, desired),
           NEW other \in SlotsOfKind[kind], other # slot
    PROVE  StateOf(kind, after, levels, other) = StateOf(kind, body, levels, other)
<1> DEFINE c == PropertiesOf(body)
           d == SetProperty(kind, c, slot, desired)
<1>1. slot \in {"bold", "font_size", "alignment", "spacing.line"} BY SlotsAre
<1>2. /\ ShapeFault(kind, body, slot) = Accepted /\ IsWritable(slot, desired)
      /\ \A i \in TargetsIn(PropertiesOf(body), slot) : ~PropertyRefused(slot, PropertiesOf(body)[i])
      /\ Accepted # Noncanonical /\ Accepted # Duplicate
    BY Refusals
<1>3. d = SetProperty(kind, PropertiesOf(body), slot, desired) OBVIOUS
<1> HIDE DEF d
<1>4. /\ IsChildren(d) /\ IsSet(PropertiesOf(body), d, slot, desired) /\ InOrder(kind, d)
      /\ IsBody(after) /\ Containers(after) = {1} /\ PropertiesOf(after) = d
    BY <1>2, <1>3, MutatedBody
<1>5. /\ Containers(body) \in {{}, {1}} /\ ~HasAlternate(PropertiesOf(body))
      /\ InOrder(kind, PropertiesOf(body))
      /\ Containers(body) = {} => PropertiesOf(body) = <<>>
    BY <1>2, AcceptedShape
<1>6. PropertiesOf(body) = c /\ IsSequence(c) BY ChildrenOfABody DEF IsChildren
<1> HIDE DEF c
<1>7. /\ Resolve(other, Above(Level(d), levels)) = Resolve(other, Above(Level(c), levels))
      /\ Declared(Level(d), Tag(other)) = Declared(Level(c), Tag(other))
      /\ Tag(other) # Tag(slot)
    BY <1>4, <1>6, OtherValue
<1>8. Current(after, levels, other) = Current(body, levels, other)
    BY <1>4, <1>6, <1>7, CurrentIsResolved
<1>9. /\ Repeated(d, other) <=> Repeated(c, other)
      /\ (\E i \in TargetsIn(d, other) : PropertyRefused(other, d[i]))
             <=> (\E i \in TargetsIn(c, other) : PropertyRefused(other, c[i]))
    BY <1>4, <1>6, <1>7, OtherTargets
<1>10. Refused(after, other) <=> Refused(body, other) BY <1>4, <1>6, <1>9 DEF Refused
<1>11. ShapeFault(kind, after, other) = IF Repeated(d, other) THEN Duplicate ELSE Accepted
    <2>1. "AlternateContent" # Tag(slot) BY <1>1 DEF Tag
    <2>2. (\E i \in DOMAIN d : d[i].tag = "AlternateContent") <=>
              (\E i \in DOMAIN c : c[i].tag = "AlternateContent")
        BY <1>4, <1>6, <2>1, DeclaredIsKept
    <2>3. ~HasAlternate(d) BY <1>5, <1>6, <2>2 DEF HasAlternate
    <2> QED BY <1>4, <2>3, Faults
<1>12. ShapeFault(kind, body, other) = IF Repeated(c, other) THEN Duplicate ELSE Accepted
    <2>1. CASE Containers(body) = {}
        <3>1. c = <<>> /\ DOMAIN c = {} BY <1>5, <1>6, <2>1
        <3>2. ~Repeated(c, other) BY <3>1 DEF Repeated, TargetsIn
        <3> QED BY <2>1, <3>2, Faults
    <2>2. CASE Containers(body) # {} BY <1>5, <1>6, <2>2, Faults
    <2> QED BY <2>1, <2>2
<1>13. ShapeOf(kind, after, other) = ShapeOf(kind, body, other) BY <1>9, <1>10, <1>11, <1>12 DEF ShapeOf
<1>14. IsDeclared(after, other) = IsDeclared(body, other)
    <2>1. CASE other = "spacing.line"
        <3>1. Tag(other) = "spacing" BY <2>1 DEF Tag
        <3>2. LineProps(Level(d)) = LineProps(Level(c)) BY <1>7, <3>1 DEF LineProps
        <3> QED BY <1>4, <1>6, <2>1, <3>2 DEF IsDeclared
    <2>2. CASE other # "spacing.line"
        <3>1. Declares(Level(d), Tag(other)) <=> Declares(Level(c), Tag(other)) BY <1>7, DeclaresByMembers
        <3>2. IsDeclared(after, other) = Declares(Level(d), Tag(other)) BY <1>4, <2>2 DEF IsDeclared
        <3>3. IsDeclared(body, other) = Declares(Level(c), Tag(other)) BY <1>6, <2>2 DEF IsDeclared
        <3>4. Declares(Level(d), Tag(other)) = Declares(Level(c), Tag(other)) BY <3>1 DEF Declares
        <3> QED BY <3>2, <3>3, <3>4
    <2> QED BY <2>1, <2>2
<1> QED BY <1>8, <1>13, <1>14 DEF StateOf

-------------------------------------------------------------------------------
(***************************************************************************)
(* Types: what a property may resolve to, whatever the levels.             *)
(***************************************************************************)
ToggleStates == {"absent", "on", "off", "invalid", "ambiguous", "unresolved"}

Stepped(before, here) ==
    IF before \notin {"absent", "on", "off"} THEN before
    ELSE IF here = "absent" THEN before
    ELSE IF here = "on" THEN Flip(before)
    ELSE IF here = "off" THEN (IF before = "absent" THEN "off" ELSE before)
    ELSE here

LEMMA ToggleAtIsAState ==
    ASSUME NEW level, NEW tag
    PROVE  ToggleAt(level, tag) \in ToggleStates
<1> DEFINE meanings == {OnOff(p) : p \in Declared(level, tag)}
<1>1. meanings \subseteq {"on", "off", "invalid"} BY DEF OnOff
<1>2. ToggleAt(level, tag) =
          IF level.blocked THEN "unresolved"
          ELSE IF meanings = {} THEN "absent"
          ELSE IF "invalid" \in meanings THEN "invalid"
          ELSE IF meanings = {"on", "off"} THEN "ambiguous"
          ELSE CHOOSE m \in meanings : TRUE
    BY DEF ToggleAt
<1> HIDE DEF meanings
<1>3. meanings # {} => (CHOOSE m \in meanings : TRUE) \in meanings OBVIOUS
<1> QED BY <1>1, <1>2, <1>3 DEF ToggleStates

(***************************************************************************)
(* The recursion over the inherited levels stays among its states.         *)
(***************************************************************************)
LEMMA ToggledIsAState ==
    ASSUME NEW levels, IsSequence(levels), NEW tag
    PROVE  Toggled(levels, tag) \in ToggleStates
<1> DEFINE N == Len(levels)
           X == ToggleStates
           Here(n) == ToggleAt(levels[N + 1 - n], tag)
           step == [p \in Nat \X X |-> Stepped(p[2], Here(p[1]))]
           AreTheStates(u) ==
               u = [n \in 0 .. N |-> IF n = 0 THEN "absent" ELSE Stepped(u[n - 1], Here(n))]
           state == CHOOSE u : AreTheStates(u)
<1>1. N \in Nat /\ "absent" \in X BY Sequences DEF ToggleStates
<1>2. step \in [Nat \X X -> X]
    <2>1. \A before, here \in X : Stepped(before, here) \in X BY DEF ToggleStates, Stepped, Flip
    <2> QED BY <2>1, ToggleAtIsAState
<1>3. PICK f \in [0 .. N -> X] : f[0] = "absent" /\ \A n \in 1 .. N : f[n] = step[<<n, f[n - 1]>>]
    <2> HIDE DEF N, X, step
    <2>1. IsDefinedUpTo(N, X, "absent", step) BY <1>1, <1>2, NatRecursionUpTo
    <2> QED BY <2>1 DEF IsDefinedUpTo
<1>4. \A n \in 1 .. N : f[n] = Stepped(f[n - 1], Here(n))
    <2> SUFFICES ASSUME NEW n \in 1 .. N PROVE f[n] = Stepped(f[n - 1], Here(n)) OBVIOUS
    <2> HIDE DEF X, Here
    <2>1. n \in Nat /\ n - 1 \in 0 .. N BY <1>1
    <2>2. f[n - 1] \in X BY <2>1, <1>3
    <2>3. step[<<n, f[n - 1]>>] = Stepped(f[n - 1], Here(n)) BY <2>1, <2>2
    <2> QED BY <1>3, <2>3
<1>5. AreTheStates(f)
    <2> DEFINE g == [n \in 0 .. N |-> IF n = 0 THEN "absent" ELSE Stepped(f[n - 1], Here(n))]
    <2> HIDE DEF N, X, Here, step
    <2>1. \A n \in 0 .. N : f[n] = g[n] BY <1>1, <1>3, <1>4
    <2>2. f = g BY <1>3, <2>1
    <2> QED BY <2>2
<1>6. AreTheStates(state) BY <1>5
<1>7. state[0] = "absent" /\ \A n \in 1 .. N : state[n] = Stepped(state[n - 1], Here(n))
    <2> HIDE DEF Here, N, state
    <2> QED BY <1>1, <1>6
<1>8. Toggled(levels, tag) = state[N] BY DEF Toggled, Stepped
<1> HIDE DEF state
<1> DEFINE S == {n \in 0 .. N : state[n] \in X}
<1>9. 0 \in S BY <1>1, <1>7
<1>10. ASSUME NEW n \in 0 .. N - 1, n \in S PROVE n + 1 \in S
    <2>1. n + 1 \in 1 .. N /\ n + 1 \in 0 .. N /\ (n + 1) - 1 = n BY <1>1
    <2>2. Here(n + 1) \in ToggleStates BY ToggleAtIsAState
    <2>3. state[n + 1] = Stepped(state[n], Here(n + 1)) BY <1>7, <2>1
    <2>4. state[n] \in ToggleStates BY <1>10
    <2> HIDE DEF N, Here
    <2>5. state[n + 1] \in ToggleStates BY <2>2, <2>3, <2>4 DEF ToggleStates, Stepped, Flip
    <2> QED BY <2>1, <2>5
<1>11. N \in S
    <2>1. N \in 0 .. N BY <1>1
    <2> HIDE DEF S, N
    <2> QED BY <1>1, <1>9, <1>10, <2>1, NatInductionUpTo
<1> QED BY <1>8, <1>11

(***************************************************************************)
(* What a resolution of the property may be.                               *)
(***************************************************************************)
IsReading(slot, r) ==
    \/ \E v \in Observable[slot] : r = Resolved(v)
    \/ \E status \in {"absent", "unresolved", "invalid", "ambiguous"} : r = Failed(status)

(***************************************************************************)
(* A cascade finds an observable value or none.                            *)
(***************************************************************************)
LEMMA CascadeIsReading ==
    ASSUME NEW levels, IsSequence(levels), NEW slot \in {"font_size", "alignment"}
    PROVE  IsReading(slot, Cascade(levels, Tag(slot)))
<1> DEFINE tag == Tag(slot)
           I == {i \in 1 .. Len(levels) : levels[i].blocked \/ Declares(levels[i], tag)}
           first == IF I # {} THEN Min(I) ELSE 0
           level == levels[first]
           p == CHOOSE q \in Declared(level, tag) : TRUE
<1>1. Cascade(levels, tag) =
          IF first = 0 THEN Failed("absent")
          ELSE IF level.blocked THEN Failed("unresolved")
          ELSE IF \E q, r \in Declared(level, tag) : Attr(q, "val") # Attr(r, "val")
               THEN Failed("ambiguous")
          ELSE Converted(p)
    BY DEF Cascade, SelectInSeq
<1>2. Len(levels) \in Nat BY Sequences
<1>3. ASSUME first # 0, ~level.blocked PROVE p \in Declared(level, tag)
    <2>1. I # {} /\ first = Min(I) BY <1>3
    <2>2. I \in SUBSET Nat BY <1>2
    <2>3. first \in I
        <3> HIDE DEF I
        <3> QED BY <2>1, <2>2, LeastOf
    <2>4. levels[first].blocked \/ Declares(levels[first], tag) BY <2>3
    <2>5. Declares(level, tag) BY <1>3, <2>4
    <2> HIDE DEF level
    <2>6. Declared(level, tag) # {} BY <2>5, DeclaresByMembers
    <2> QED BY <2>6
<1>4. ValuesAreReadBack BY ValuesAssumption
<1>5. ASSUME p \in Declared(level, tag) PROVE IsReading(slot, Converted(p))
    <2>1. p.tag = tag BY <1>5 DEF Declared
    <2> HIDE DEF p
    <2>2. CASE slot = "font_size"
        <3>1. Converted(p) = SizeOf(p) BY <2>1, <2>2 DEF Converted, Tag
        <3> QED BY <1>4, <2>2, <3>1 DEF SizeOf, IsReading, ValuesAreReadBack
    <2>3. CASE slot = "alignment"
        <3>1. Converted(p) = AlignmentOf(p) BY <2>1, <2>3 DEF Converted, Tag
        <3> QED BY <1>4, <2>3, <3>1 DEF AlignmentOf, IsReading, ValuesAreReadBack
    <2> QED BY <2>2, <2>3
<1> HIDE DEF first, level, p
<1> QED BY <1>1, <1>3, <1>5 DEF IsReading

LEMMA LineIsReading ==
    ASSUME NEW levels, IsSequence(levels)
    PROVE  IsReading("spacing.line", LineSpacing(levels))
<1> DEFINE I == {i \in 1 .. Len(levels) : levels[i].blocked \/ LineProps(levels[i]) # {}}
           first == IF I # {} THEN Min(I) ELSE 0
<1>1. LineSpacing(levels) =
          IF Numbered(levels) \/ Bidirectional(levels) THEN Failed("unresolved")
          ELSE IF first = 0 THEN Failed("absent")
          ELSE LineAt(levels[first])
    BY DEF LineSpacing, SelectInSeq
<1>2. ValuesAreReadBack BY ValuesAssumption
<1>3. \A p : IsReading("spacing.line", LineOf(p))
    BY <1>2 DEF LineOf, IsReading, ValuesAreReadBack
<1>4. \A level : IsReading("spacing.line", LineAt(level))
    BY <1>3 DEF LineAt, IsReading
<1> HIDE DEF first
<1> QED BY <1>1, <1>4 DEF IsReading

LEMMA ToggleIsReading ==
    ASSUME NEW levels, IsSequence(levels), NEW x
    PROVE  IsReading("bold", Toggle(Above(x, levels), "b"))
<1>1. Head(Above(x, levels)) = x /\ Tail(Above(x, levels)) = levels BY LevelsAbove
<1>2. ToggleAt(x, "b") \in ToggleStates /\ Toggled(levels, "b") \in ToggleStates
    BY ToggleAtIsAState, ToggledIsAState
<1> DEFINE state == IF ToggleAt(x, "b") = "absent" THEN Toggled(levels, "b") ELSE ToggleAt(x, "b")
<1>3. Toggle(Above(x, levels), "b") = IF state \in {"on", "off"} THEN Resolved(state) ELSE Failed(state)
    BY <1>1 DEF Toggle
<1>4. state \in ToggleStates BY <1>2
<1> HIDE DEF state
<1>5. {"on", "off"} \subseteq Observable["bold"] BY ValuesAssumption DEF ValuesAreReadBack
<1> QED BY <1>3, <1>4, <1>5 DEF IsReading, ToggleStates

LEMMA CurrentIsReading ==
    ASSUME NEW slot \in {"bold", "font_size", "alignment", "spacing.line"}, NEW body,
           NEW levels, IsSequence(levels)
    PROVE  IsReading(slot, Current(body, levels, slot))
<1> DEFINE all == Above(Level(PropertiesOf(body)), levels)
<1>1. Current(body, levels, slot) = Resolve(slot, all) BY CurrentIsResolved
<1>2. IsSequence(all) BY LevelsAbove
<1>3. IsReading("bold", Toggle(all, "b")) BY ToggleIsReading
<1> HIDE DEF all
<1>4. CASE slot = "bold" BY <1>1, <1>3, <1>4 DEF Resolve
<1>5. CASE slot = "font_size"
    <2>1. Resolve(slot, all) = Cascade(all, Tag(slot)) BY <1>5 DEF Resolve, FontSize, Tag
    <2> QED BY <1>1, <1>2, <1>5, <2>1, CascadeIsReading
<1>6. CASE slot = "alignment"
    <2>1. Resolve(slot, all) = IF Numbered(all) \/ Bidirectional(all) THEN Failed("unresolved")
                               ELSE Cascade(all, Tag(slot))
        BY <1>6 DEF Resolve, Alignment, Tag
    <2>2. IsReading(slot, Cascade(all, Tag(slot))) BY <1>2, <1>6, CascadeIsReading
    <2>3. IsReading(slot, Failed("unresolved")) BY DEF IsReading
    <2> QED BY <1>1, <2>1, <2>2, <2>3
<1>7. CASE slot = "spacing.line"
    <2>1. Resolve(slot, all) = LineSpacing(all) BY <1>7 DEF Resolve
    <2> QED BY <1>1, <1>2, <1>7, <2>1, LineIsReading
<1> QED BY <1>4, <1>5, <1>6, <1>7

(***************************************************************************)
(* The state of a site is one the pipeline's modules know.                 *)
(***************************************************************************)
LEMMA StateIsTyped ==
    ASSUME NEW kind, NEW slot \in {"bold", "font_size", "alignment", "spacing.line"}, NEW body,
           NEW levels, IsSequence(levels)
    PROVE  StateOf(kind, body, levels, slot) \in Pipeline!SlotState(slot)
<1> DEFINE r == Current(body, levels, slot)
           shape == ShapeOf(kind, body, slot)
           declared == IsDeclared(body, slot)
<1>1. IsReading(slot, r) BY CurrentIsReading
<1>2. shape \in Pipeline!Shapes BY DEF ShapeOf, Pipeline!Shapes
<1>3. declared \in BOOLEAN BY DEF IsDeclared, Declares
<1>4. StateOf(kind, body, levels, slot) =
          [status |-> r.status, value |-> r.value, declared |-> declared, shape |-> shape]
    BY DEF StateOf
<1> HIDE DEF r, shape, declared
<1>5. \/ r.status = "resolved" /\ r.value \in Observable[slot]
      \/ r.status \in {"absent", "unresolved", "invalid", "ambiguous"} /\ r.value = "None"
    BY <1>1 DEF IsReading, Resolved, Failed
<1>6. Pipeline!ResolutionStatus \ {"resolved"} = {"absent", "unresolved", "invalid", "ambiguous"}
    BY DEF Pipeline!ResolutionStatus
<1> QED BY <1>2, <1>3, <1>4, <1>5, <1>6 DEF Pipeline!SlotState, Pipeline!None

(***************************************************************************)
(* A container refused for one property is refused for the other.          *)
(***************************************************************************)
LEMMA ContainersAreShared ==
    ASSUME NEW kind, NEW body, IsBody(body), NEW s, NEW t, ShapeOf(kind, body, s) = "noncanonical"
    PROVE  ShapeOf(kind, body, t) \in {"noncanonical", "duplicate"}
<1>1. ShapeFault(kind, body, s) = Noncanonical BY DEF ShapeOf
<1>2. Accepted # Noncanonical /\ Duplicate # Noncanonical BY DEF Accepted, Noncanonical, Duplicate
<1>3. ShapeFault(kind, body, t) \in {Noncanonical, Duplicate}
    <2>1. Containers(body) # {} BY <1>1, <1>2, Faults
    <2>2. \/ Containers(body) # {1} \/ HasAlternate(PropertiesOf(body))
          \/ ~InOrder(kind, PropertiesOf(body))
        BY <1>1, <1>2, <2>1, Faults
    <2> QED BY <2>1, <2>2, Faults
<1> QED BY <1>2, <1>3 DEF ShapeOf

-------------------------------------------------------------------------------
(***************************************************************************)
(* The behaviours. The inductive invariant: the elements stay well-formed, *)
(* and the last outcome is no integrity error.                             *)
(***************************************************************************)
Formed ==
    /\ DOMAIN elements = Kinds
    /\ \A kind \in Kinds : IsBody(elements[kind]) /\ IsSequence(inherited[kind])

OutcomeTyped ==
    outcome = NoOperation
        \/ /\ outcome.site \in Sites
           /\ outcome.desired \in DesiredOf[SiteSlots[outcome.site]]
           /\ outcome.result \in Results \ {"integrity_error"}

Inv == Formed /\ OutcomeTyped

LEMMA Starts == Init => Inv
<1> SUFFICES ASSUME Init PROVE Inv OBVIOUS
<1>1. PICK document \in Documents : /\ elements = document.elements
                                    /\ inherited = document.inherited
                                    /\ outcome = NoOperation
    BY DEF Init
<1>2. IsDocument(document) BY DocumentsAssumption
<1> QED BY <1>1, <1>2 DEF IsDocument, Inv, Formed, OutcomeTyped

(***************************************************************************)
(* What one patch changes.                                                 *)
(***************************************************************************)
LEMMA PatchStep ==
    ASSUME Inv, NEW site \in Sites, NEW desired \in DesiredOf[SiteSlots[site]], Patch(site, desired),
           NEW result, result = Outcome(KindOf(site), Host(site), inherited[KindOf(site)], SiteSlots[site], desired),
           NEW after, after = Mutated(KindOf(site), Host(site), SiteSlots[site], desired)
    PROVE  /\ outcome' = [site |-> site, desired |-> desired, result |-> result]
           /\ result \in Results \ {"integrity_error"}
           /\ result = Pipeline!ShapeOutcome(package[site], SiteSlots[site], desired)
           /\ inherited' = inherited
           /\ result # "applied" => elements' = elements
           /\ result = "applied" =>
                  /\ elements' = [elements EXCEPT ![KindOf(site)] = after]
                  /\ IsBody(after)
                  /\ ShapeOf(KindOf(site), Host(site), SiteSlots[site]) = "canonical"
                  /\ StateOf(KindOf(site), after, inherited[KindOf(site)], SiteSlots[site]) = OnceSet(desired)
                  /\ \A other \in SlotsOfKind[KindOf(site)] : other # SiteSlots[site] =>
                         StateOf(KindOf(site), after, inherited[KindOf(site)], other) =
                             StateOf(KindOf(site), Host(site), inherited[KindOf(site)], other)
<1> DEFINE kind == KindOf(site)
           slot == SiteSlots[site]
           body == Host(site)
           levels == inherited[kind]
<1>1. kind \in Kinds /\ slot \in SlotsOfKind[kind] /\ desired \in DesiredOf[slot] BY SitesAre
<1>2. IsBody(body) /\ IsSequence(levels) BY <1>1 DEF Inv, Formed, Host
<1>3. Current(body, levels, slot).status = "resolved" BY DEF Patch, MayBePlanned, CurrentAt
<1>4. package[site].shape = ShapeOf(kind, body, slot)
    <2>1. package[site] = StateOf(kind, body, levels, slot) BY <1>2, SiteStateIs DEF package
    <2> QED BY <2>1 DEF StateOf
<1>5. /\ outcome' = [site |-> site, desired |-> desired, result |-> result]
      /\ inherited' = inherited
      /\ elements' = IF result = "applied"
                     THEN [elements EXCEPT ![kind] = Mutated(kind, elements[kind], slot, desired)]
                     ELSE elements
    BY DEF Patch
<1>6. after = Mutated(kind, body, slot, desired) /\ body = elements[kind]
      /\ result = Outcome(kind, body, levels, slot, desired)
    BY DEF Host
<1>7. elements' = IF result = "applied" THEN [elements EXCEPT ![kind] = after] ELSE elements
    BY <1>5, <1>6
<1> HIDE DEF kind, slot, body, levels
<1>8. /\ result = IF Refusal(kind, body, slot, desired) = Accepted THEN "applied"
                  ELSE Refusal(kind, body, slot, desired)
      /\ result \in Results \ {"integrity_error"}
      /\ result = "applied" <=> Refusal(kind, body, slot, desired) = Accepted
    BY <1>1, <1>2, <1>3, <1>6, OutcomeIs
<1>9. result = Pipeline!ShapeOutcome(package[site], slot, desired)
    BY <1>1, <1>2, <1>4, <1>8, OutcomeOfAShape
<1>10. ASSUME result = "applied"
       PROVE  /\ IsBody(after) /\ ShapeOf(kind, body, slot) = "canonical"
              /\ StateOf(kind, after, levels, slot) = OnceSet(desired)
              /\ \A other \in SlotsOfKind[kind] : other # slot =>
                     StateOf(kind, after, levels, other) = StateOf(kind, body, levels, other)
    <2>1. Refusal(kind, body, slot, desired) = Accepted BY <1>8, <1>10
    <2>2. IsBody(after) BY <1>1, <1>2, <1>3, <1>6, <2>1, MutationIsSound
    <2>3. /\ ShapeOf(kind, body, slot) = "canonical"
          /\ StateOf(kind, after, levels, slot) = OnceSet(desired)
        BY <1>1, <1>2, <1>3, <1>6, <2>1, OwnState
    <2>4. \A other \in SlotsOfKind[kind] : other # slot =>
              StateOf(kind, after, levels, other) = StateOf(kind, body, levels, other)
        BY <1>1, <1>2, <1>6, <2>1, OtherState
    <2> QED BY <2>2, <2>3, <2>4
<1> QED BY <1>5, <1>7, <1>8, <1>9, <1>10 DEF kind, slot, body, levels

LEMMA InvKept == Inv /\ [Next]_vars => Inv'
<1> SUFFICES ASSUME Inv, [Next]_vars PROVE Inv' OBVIOUS
<1>1. CASE UNCHANGED vars BY <1>1 DEF vars, Inv, Formed, OutcomeTyped
<1>2. CASE Next
    <2>7. PICK site \in Sites : \E desired \in DesiredOf[SiteSlots[site]] : Patch(site, desired)
        BY <1>2 DEF Next
    <2>1. PICK desired \in DesiredOf[SiteSlots[site]] : Patch(site, desired) BY <2>7
    <2> DEFINE kind == KindOf(site)
               result == Outcome(kind, Host(site), inherited[kind], SiteSlots[site], desired)
               after == Mutated(kind, Host(site), SiteSlots[site], desired)
    <2>2. /\ outcome' = [site |-> site, desired |-> desired, result |-> result]
          /\ result \in Results \ {"integrity_error"}
          /\ inherited' = inherited
          /\ result # "applied" => elements' = elements
          /\ result = "applied" => elements' = [elements EXCEPT ![kind] = after] /\ IsBody(after)
        BY <2>1, PatchStep
    <2> HIDE DEF result, after
    <2>3. Formed'
        <3>1. CASE result = "applied" BY <2>2, <3>1 DEF Inv, Formed
        <3>2. CASE result # "applied" BY <2>2, <3>2 DEF Inv, Formed
        <3> QED BY <3>1, <3>2
    <2>4. OutcomeTyped' BY <2>2 DEF OutcomeTyped
    <2> QED BY <2>3, <2>4 DEF Inv
<1> QED BY <1>1, <1>2

LEMMA AlwaysInv == Spec => []Inv
<1> QED BY Starts, InvKept, PTL DEF Spec

(***************************************************************************)
(* Whatever the element looks like and whatever it inherits, an operation  *)
(* that is planned and cleared never ends in a PatcherIntegrityError: what *)
(* is not refused passes the allowed-delta check and re-reads as the       *)
(* desired value (apply_cleared_operation).                                *)
(***************************************************************************)
THEOREM PatcherNeverTrips == Spec => []NoIntegrityError
<1>1. Inv => NoIntegrityError BY DEF Inv, OutcomeTyped, NoIntegrityError, NoOperation
<1> QED BY <1>1, AlwaysInv, PTL

(***************************************************************************)
(* The state of a site is that of its element.                             *)
(***************************************************************************)
LEMMA StateOfASite ==
    Formed => \A site \in Sites :
        package[site] = StateOf(KindOf(site), elements[KindOf(site)], inherited[KindOf(site)], SiteSlots[site])
<1> SUFFICES ASSUME Formed, NEW site \in Sites
             PROVE  package[site] =
                        StateOf(KindOf(site), elements[KindOf(site)], inherited[KindOf(site)], SiteSlots[site])
    OBVIOUS
<1>1. KindOf(site) \in Kinds BY SitesAre
<1>2. IsBody(Host(site)) BY <1>1 DEF Formed, Host
<1> QED BY <1>2, SiteStateIs DEF package, Host

LEMMA NextStateOfASite ==
    (Formed => \A site \in Sites :
        package[site] = StateOf(KindOf(site), elements[KindOf(site)], inherited[KindOf(site)], SiteSlots[site]))'
BY StateOfASite, PTL

LEMMA ChangedState ==
    ASSUME NEW old, NEW de,
           old \in [status : {old.status}, value : {old.value}, declared : {old.declared}, shape : {"canonical"}],
           NEW desired
    PROVE  [old EXCEPT !.status = "resolved", !.value = desired, !.declared = de] =
               [status |-> "resolved", value |-> desired, declared |-> de, shape |-> "canonical"]
<1> DEFINE new == [old EXCEPT !.status = "resolved", !.value = desired, !.declared = de]
<1>1. DOMAIN new = {"status", "value", "declared", "shape"} OBVIOUS
<1>2. new.status = "resolved" /\ new.value = desired /\ new.declared = de /\ new.shape = "canonical" OBVIOUS
<1>3. new = [f \in DOMAIN new |-> new[f]] OBVIOUS
<1> HIDE DEF new
<1>4. new = [status |-> "resolved", value |-> desired, declared |-> de, shape |-> "canonical"]
    BY <1>1, <1>2, <1>3
<1> QED BY <1>4 DEF new

(***************************************************************************)
(* A step of the element is the pipeline's step of its package.            *)
(***************************************************************************)
LEMMA PatchedAsPlanned ==
    ASSUME Inv, Inv', Next
    PROVE  /\ outcome'.result =
                  Pipeline!ShapeOutcome(package[outcome'.site], SiteSlots[outcome'.site], outcome'.desired)
           /\ package' = IF outcome'.result = "applied"
                         THEN Pipeline!Patched(package, outcome') ELSE package
<1>1. PICK site \in Sites : \E desired \in DesiredOf[SiteSlots[site]] : Patch(site, desired)
    BY DEF Next
<1>2. PICK desired \in DesiredOf[SiteSlots[site]] : Patch(site, desired) BY <1>1
<1> DEFINE kind == KindOf(site)
           slot == SiteSlots[site]
           body == Host(site)
           levels == inherited[kind]
           result == Outcome(kind, body, levels, slot, desired)
           after == Mutated(kind, body, slot, desired)
<1>3. /\ outcome' = [site |-> site, desired |-> desired, result |-> result]
      /\ result = Pipeline!ShapeOutcome(package[site], slot, desired)
      /\ inherited' = inherited
      /\ result # "applied" => elements' = elements
      /\ result = "applied" =>
             /\ elements' = [elements EXCEPT ![kind] = after]
             /\ ShapeOf(kind, body, slot) = "canonical"
             /\ StateOf(kind, after, levels, slot) = OnceSet(desired)
             /\ \A other \in SlotsOfKind[kind] : other # slot =>
                    StateOf(kind, after, levels, other) = StateOf(kind, body, levels, other)
    BY <1>2, PatchStep
<1>4. kind \in Kinds /\ slot \in SlotsOfKind[kind] /\ body = elements[kind]
    BY SitesAre DEF Host
<1>5. \A s \in Sites : package[s] = StateOf(KindOf(s), elements[KindOf(s)], inherited[KindOf(s)], SiteSlots[s])
    BY StateOfASite DEF Inv
<1>6. \A s \in Sites :
          (package')[s] = StateOf(KindOf(s), (elements')[KindOf(s)], (inherited')[KindOf(s)], SiteSlots[s])
    <2>1. Formed' BY DEF Inv
    <2> QED BY <2>1, NextStateOfASite
<1>7. package = [s \in Sites |-> package[s]] /\ package' = [s \in Sites |-> (package')[s]]
    BY DEF package
<1>8. DOMAIN elements = Kinds BY DEF Inv, Formed
<1>9. \A s, t \in Sites : SiteSlots[s] = SiteSlots[t] => s = t BY SitesAre
<1>10. \A s \in Sites : KindOf(s) \in Kinds /\ SiteSlots[s] \in SlotsOfKind[KindOf(s)] BY SitesAre
<1>11. ASSUME NEW pkg, NEW op
       PROVE  Pipeline!Patched(pkg, op) =
                  [pkg EXCEPT ![op.site] = [@ EXCEPT !.status = "resolved", !.value = op.desired,
                                                     !.declared = TRUE]]
    BY DEF Pipeline!Patched
<1> HIDE DEF kind, slot, body, levels, result, after
<1>12. outcome'.site = site /\ outcome'.desired = desired /\ outcome'.result = result BY <1>3
<1>13. CASE result # "applied"
    <2>1. \A s \in Sites : (package')[s] = package[s] BY <1>3, <1>5, <1>6, <1>13
    <2>2. package' = package BY <1>7, <2>1
    <2> QED BY <1>3, <1>12, <1>13, <2>2 DEF slot
<1>14. CASE result = "applied"
    <2> DEFINE new == OnceSet(desired)
               old == StateOf(kind, body, levels, slot)
    <2>1. package[site] = old /\ old.shape = "canonical"
        <3>1. old.shape = ShapeOf(kind, body, slot) BY DEF StateOf
        <3>2. package[site] = old BY <1>4, <1>5 DEF kind, slot, levels
        <3> QED BY <1>3, <1>14, <3>1, <3>2
    <2>2. [old EXCEPT !.status = "resolved", !.value = desired, !.declared = TRUE] = new
        <3>1. old = [status |-> old.status, value |-> old.value, declared |-> old.declared, shape |-> old.shape]
            BY DEF StateOf
        <3>2. old.shape = "canonical" BY <2>1
        <3> HIDE DEF old
        <3> DEFINE yes == TRUE
        <3> HIDE DEF yes
        <3>3. old \in [status : {old.status}, value : {old.value}, declared : {old.declared},
                       shape : {"canonical"}]
            BY <3>1, <3>2
        <3>4. [old EXCEPT !.status = "resolved", !.value = desired, !.declared = yes] =
                  [status |-> "resolved", value |-> desired, declared |-> yes, shape |-> "canonical"]
            BY <3>3, ChangedState
        <3> QED BY <3>4 DEF OnceSet, yes
    <2>3. (package')[site] = new
        <3>1. (elements')[kind] = after /\ (inherited')[kind] = levels
            BY <1>3, <1>4, <1>8, <1>14 DEF levels
        <3>2. (package')[site] = StateOf(kind, after, levels, slot) BY <1>6, <3>1 DEF kind, slot
        <3> QED BY <1>3, <1>14, <3>2
    <2>4. ASSUME NEW s \in Sites, s # site PROVE (package')[s] = package[s]
        <3>1. SiteSlots[s] # slot BY <1>9, <2>4 DEF slot
        <3>2. CASE KindOf(s) = kind
            <4>1. (elements')[kind] = after /\ (inherited')[kind] = levels
                BY <1>3, <1>4, <1>8, <1>14 DEF levels
            <4>2. (package')[s] = StateOf(kind, after, levels, SiteSlots[s]) BY <1>6, <3>2, <4>1
            <4>3. package[s] = StateOf(kind, body, levels, SiteSlots[s]) BY <1>4, <1>5, <3>2 DEF levels
            <4>4. SiteSlots[s] \in SlotsOfKind[kind] BY <1>10, <3>2
            <4> QED BY <1>3, <1>14, <3>1, <4>2, <4>3, <4>4
        <3>3. CASE KindOf(s) # kind
            <4>1. (elements')[KindOf(s)] = elements[KindOf(s)] /\ inherited' = inherited
                BY <1>3, <1>8, <1>10, <1>14, <3>3
            <4> QED BY <1>5, <1>6, <4>1
        <3> QED BY <3>2, <3>3
    <2> HIDE DEF new, old
    <2>5. Pipeline!Patched(package, outcome') =
              [package EXCEPT ![site] = [old EXCEPT !.status = "resolved", !.value = desired, !.declared = TRUE]]
        BY <1>11, <1>12, <2>1
    <2>6. Pipeline!Patched(package, outcome') = [package EXCEPT ![site] = new] BY <2>2, <2>5
    <2>7. package' = [package EXCEPT ![site] = new]
        <3> DEFINE p == package
                   r == package'
        <3>1. p = [s \in Sites |-> p[s]] /\ r = [s \in Sites |-> r[s]] BY <1>7
        <3>2. r[site] = new /\ \A s \in Sites : s # site => r[s] = p[s] BY <2>3, <2>4
        <3> HIDE DEF p, r
        <3>3. r = [p EXCEPT ![site] = new] BY <3>1, <3>2
        <3> QED BY <3>3 DEF p, r
    <2> QED BY <1>3, <1>12, <1>14, <2>6, <2>7 DEF slot
<1> QED BY <1>13, <1>14

(***************************************************************************)
(* Patching elements implements the pipeline's patch of formatting sites:  *)
(* the outcome is that of the site's abstract shape, and no site but the   *)
(* operation's changes what it resolves to, declares or refuses            *)
(* (mutate_run, mutate_paragraph).                                         *)
(***************************************************************************)
THEOREM PatchesAreThePipelines == Spec => PatchIsThePipelines
<1> DEFINE Step == /\ outcome'.result =
                          Pipeline!ShapeOutcome(package[outcome'.site], SiteSlots[outcome'.site],
                                                outcome'.desired)
                   /\ package' = IF outcome'.result = "applied"
                                 THEN Pipeline!Patched(package, outcome') ELSE package
<1>1. Inv /\ Inv' /\ [Next]_vars => [Step]_vars
    <2> SUFFICES ASSUME Inv, Inv', Next PROVE Step OBVIOUS
    <2> QED BY PatchedAsPlanned
<1> HIDE DEF Step
<1>2. Spec => [][Step]_vars BY <1>1, AlwaysInv, PTL DEF Spec
<1> QED BY <1>2 DEF PatchIsThePipelines, Step

LEMMA InvTyped == Inv => TypeOK
<1> SUFFICES ASSUME Inv PROVE TypeOK OBVIOUS
<1>1. \A site \in Sites :
          package[site] = StateOf(KindOf(site), elements[KindOf(site)], inherited[KindOf(site)], SiteSlots[site])
    BY StateOfASite DEF Inv
<1>2. \A site \in Sites : /\ KindOf(site) \in Kinds
                          /\ SiteSlots[site] \in {"bold", "font_size", "alignment", "spacing.line"}
    BY SitesAre
<1>3. \A kind \in Kinds : IsBody(elements[kind]) /\ IsSequence(inherited[kind])
    BY DEF Inv, Formed
<1> DEFINE pkg == package
<1>4. \A site \in Sites : pkg[site] = StateOf(KindOf(site), elements[KindOf(site)], inherited[KindOf(site)], SiteSlots[site])
    BY <1>1
<1> HIDE DEF pkg
<1>5. \A site \in Sites : pkg[site] \in Pipeline!SlotState(SiteSlots[site])
    BY <1>2, <1>3, <1>4, StateIsTyped
<1>6. Pipeline!SharesContainer(pkg)
    <2>1. \A s \in Sites : pkg[s].shape = ShapeOf(KindOf(s), elements[KindOf(s)], SiteSlots[s])
        <3>1. \A kind, body, levels, slot :
                  StateOf(kind, body, levels, slot).shape = ShapeOf(kind, body, slot)
            BY DEF StateOf
        <3> QED BY <1>4, <3>1
    <2>2. ASSUME NEW s \in Sites, NEW t \in Sites, KindOf(s) = KindOf(t), pkg[s].shape = "noncanonical"
          PROVE  pkg[t].shape \in {"noncanonical", "duplicate"}
        <3>1. IsBody(elements[KindOf(s)]) BY <1>2, <1>3
        <3>2. ShapeOf(KindOf(s), elements[KindOf(s)], SiteSlots[s]) = "noncanonical" BY <2>1, <2>2
        <3>3. ShapeOf(KindOf(s), elements[KindOf(s)], SiteSlots[t]) \in {"noncanonical", "duplicate"}
            BY <3>1, <3>2, ContainersAreShared
        <3> QED BY <2>1, <2>2, <3>3
    <2>3. \A s \in Sites : [site \in Sites |-> KindOf(site)][s] = KindOf(s) OBVIOUS
    <2> QED BY <2>2, <2>3 DEF Pipeline!SharesContainer
<1>7. OutcomeTyped BY DEF Inv
<1> QED BY <1>5, <1>6, <1>7 DEF TypeOK, OutcomeTyped, pkg

(***************************************************************************)
(* Every element there ever is abstracts to a package: its sites resolve   *)
(* to observable values or to none, and a container refused for one of its *)
(* properties is refused for all.                                          *)
(***************************************************************************)
THEOREM ElementTypeOK == Spec => []TypeOK
<1> QED BY InvTyped, AlwaysInv, PTL
===============================================================================
