-------------------------- MODULE ProductChainProofs --------------------------
(***************************************************************************)
(* What holds of every request of the product chain, and first of all of   *)
(* the walks over a document, its paths and its edits.                     *)
(***************************************************************************)
EXTENDS ProductChain, StructureProofs

-------------------------------------------------------------------------------
(***************************************************************************)
(* A structural path leads to the node it was made for.                    *)
(***************************************************************************)
LEMMA PlaceOfKindIsAPlace ==
    ASSUME NEW doc, IsTree(doc), NEW node, NEW child \in Children(doc, node)
    PROVE  /\ PlaceOfKind(doc, child) = 1 + PlaceAmong(Peers(doc, node, doc[child]), child)
           /\ child \in Peers(doc, node, doc[child])
<1>1. Parent(child) = node BY ChildrenOfNode
<1>2. {other \in Children(doc, Parent(child)) : doc[other] = doc[child] /\ Precedes(other, child)}
      = {other \in Peers(doc, node, doc[child]) : Precedes(other, child)}
    BY <1>1 DEF Peers
<1> QED BY <1>2 DEF PlaceOfKind, PlaceAmong, Peers

LEMMA StepToChild ==
    ASSUME NEW doc, IsTree(doc), NEW node, NEW child \in Children(doc, node)
    PROVE  Step(doc, {node}, <<doc[child], PlaceOfKind(doc, child)>>) = {child}
<1> DEFINE peers == Peers(doc, node, doc[child])
           order == InDocumentOrder(peers)
           place == PlaceOfKind(doc, child)
<1>1. peers \in SUBSET Nodes /\ IsFiniteSet(peers) BY ChildrenAreNodes
<1>2. child \in peers /\ place = 1 + PlaceAmong(peers, child) BY PlaceOfKindIsAPlace
<1> HIDE DEF peers
<1>3. PlaceAmong(peers, child) \in 0 .. Cardinality(peers) - 1 /\ Cardinality(peers) \in Nat
    BY <1>1, <1>2, PlacesOfNodes, FS_CardinalityType
<1>4. DOMAIN order = 1 .. Cardinality(peers) /\ order[PlaceAmong(peers, child) + 1] = child
    BY <1>1, <1>2, InDocumentOrderLists
<1>5. place \in DOMAIN order /\ order[place] = child
    <2> HIDE DEF order, place
    <2> QED BY <1>2, <1>3, <1>4
<1>6. {order[i] : i \in {place} \cap DOMAIN order} = {child}
    <2> HIDE DEF order, place
    <2> QED BY <1>5
<1>7. Step(doc, {node}, <<doc[child], place>>) = {order[i] : i \in {place} \cap DOMAIN order}
    BY DEF Step, peers
<1> QED BY <1>6, <1>7

LEMMA StepsStayInTree ==
    ASSUME NEW doc, IsTree(doc), NEW nodes, NEW segment
    PROVE  Step(doc, nodes, segment) \in SUBSET DOMAIN doc
<1> SUFFICES ASSUME NEW x \in Step(doc, nodes, segment) PROVE x \in DOMAIN doc OBVIOUS
<1>1. PICK node \in nodes :
          x \in {InDocumentOrder(Peers(doc, node, segment[1]))[i] :
                    i \in {segment[2]} \cap DOMAIN InDocumentOrder(Peers(doc, node, segment[1]))}
    BY DEF Step
<1> DEFINE peers == Peers(doc, node, segment[1])
<1>2. peers \in SUBSET Nodes /\ IsFiniteSet(peers) /\ peers \in SUBSET DOMAIN doc
    BY ChildrenAreNodes
<1>3. \A i \in DOMAIN InDocumentOrder(peers) : InDocumentOrder(peers)[i] \in peers
    <2> HIDE DEF peers
    <2> QED BY <1>2, InDocumentOrderLists
<1> QED BY <1>1, <1>2, <1>3

(***************************************************************************)
(* The nodes reached by the first segments of a path.                      *)
(***************************************************************************)
IsResolution(doc, path, reached) ==
    /\ reached \in [0 .. Len(path) -> SUBSET DOMAIN doc]
    /\ reached[0] = {Body}
    /\ \A i \in 1 .. Len(path) : reached[i] = Step(doc, reached[i - 1], path[i])

LEMMA ResolveIsAResolution ==
    ASSUME NEW doc, IsTree(doc), NEW path, Len(path) \in Nat
    PROVE  \E reached : IsResolution(doc, path, reached)
                        /\ Resolve(doc, path) = reached[Len(path)]
<1> DEFINE N == Len(path)
           X == SUBSET DOMAIN doc
           step == [p \in Nat \X X |-> Step(doc, p[2], path[p[1]])]
           IsReached(w) ==
               w = [i \in 0 .. N |-> IF i = 0 THEN {Body} ELSE Step(doc, w[i - 1], path[i])]
           reached == CHOOSE w : IsReached(w)
<1>0. N \in Nat OBVIOUS
<1>1. {Body} \in X BY DEF IsTree
<1>2. step \in [Nat \X X -> X] BY StepsStayInTree
<1>3. PICK f \in [0 .. N -> X] : f[0] = {Body} /\ \A n \in 1 .. N : f[n] = step[<<n, f[n - 1]>>]
    <2> HIDE DEF N, X, step
    <2>1. IsDefinedUpTo(N, X, {Body}, step) BY <1>0, <1>1, <1>2, NatRecursionUpTo
    <2> QED BY <2>1 DEF IsDefinedUpTo
<1>4. \A n \in 1 .. N : f[n] = Step(doc, f[n - 1], path[n])
    <2> SUFFICES ASSUME NEW n \in 1 .. N PROVE f[n] = Step(doc, f[n - 1], path[n]) OBVIOUS
    <2>1. n \in Nat /\ n - 1 \in 0 .. N BY <1>0
    <2>2. f[n - 1] \in X BY <2>1, <1>3
    <2>3. step[<<n, f[n - 1]>>] = Step(doc, f[n - 1], path[n]) BY <2>1, <2>2
    <2> QED BY <1>3, <2>3
<1>5. IsReached(f)
    <2> DEFINE g == [i \in 0 .. N |-> IF i = 0 THEN {Body} ELSE Step(doc, f[i - 1], path[i])]
    <2>1. \A n \in 0 .. N : f[n] = g[n]
        <3> HIDE DEF N
        <3> QED BY <1>0, <1>3, <1>4
    <2>2. f = g
        <3> HIDE DEF N, X, step
        <3> QED BY <1>3, <2>1
    <2> QED BY <2>2
<1>6. IsReached(reached) BY <1>5
<1>7. reached[0] = {Body} /\ \A n \in 1 .. N : reached[n] = Step(doc, reached[n - 1], path[n])
    <2> HIDE DEF N, reached
    <2>1. reached = [i \in 0 .. N |-> IF i = 0 THEN {Body} ELSE Step(doc, reached[i - 1], path[i])]
        BY <1>6
    <2>2. reached[0] = {Body}
        <3>1. 0 \in 0 .. N BY <1>0
        <3> QED BY <2>1, <3>1
    <2>3. ASSUME NEW n \in 1 .. N PROVE reached[n] = Step(doc, reached[n - 1], path[n])
        <3>1. n \in 0 .. N /\ n # 0 BY <1>0
        <3> QED BY <2>1, <3>1, Zenon
    <2> QED BY <2>2, <2>3
<1>8. \A n \in 0 .. N : reached[n] \in X
    <2> SUFFICES ASSUME NEW n \in 0 .. N PROVE reached[n] \in X OBVIOUS
    <2>1. CASE n = 0 BY <1>1, <1>7, <2>1
    <2>2. CASE n # 0
        <3>1. n \in 1 .. N BY <1>0, <2>2
        <3>2. reached[n] = Step(doc, reached[n - 1], path[n]) BY <1>7, <3>1
        <3> QED BY <3>2, StepsStayInTree
    <2> QED BY <2>1, <2>2
<1>9. reached \in [0 .. N -> X] BY <1>6, <1>8
<1>10. Resolve(doc, path) = reached[N] BY DEF Resolve
<1> HIDE DEF reached
<1> QED BY <1>7, <1>9, <1>10 DEF IsResolution

LEMMA PathsOfNodes ==
    ASSUME NEW doc, IsTree(doc), NEW node \in DOMAIN doc
    PROVE  /\ DOMAIN StructuralPath(doc, node) = 1 .. Len(node)
           /\ Len(StructuralPath(doc, node)) = Len(node) /\ Len(node) \in Nat
           /\ \A i \in 1 .. Len(node) :
                 /\ StructuralPath(doc, node)[i] =
                        <<doc[SubSeq(node, 1, i)], PlaceOfKind(doc, SubSeq(node, 1, i))>>
                 /\ SubSeq(node, 1, i) \in Children(doc, SubSeq(node, 1, i - 1))
<1>1. node \in Nodes /\ Len(node) \in Nat /\ DOMAIN node = 1 .. Len(node)
    BY DEF IsTree, Nodes
<1>2. DOMAIN StructuralPath(doc, node) = 1 .. Len(node) BY <1>1 DEF StructuralPath
<1>3. Len(StructuralPath(doc, node)) = Len(node)
    BY <1>1 DEF StructuralPath
<1>4. ASSUME NEW i \in 1 .. Len(node)
      PROVE  SubSeq(node, 1, i) \in Children(doc, SubSeq(node, 1, i - 1))
    <2> DEFINE a == SubSeq(node, 1, i)
    <2>1. i \in 0 .. Len(node) /\ i - 1 \in 0 .. i /\ i >= 1 BY <1>1
    <2>2. a \in DOMAIN doc BY <2>1, NodesAbove
    <2>3. a \in Nodes /\ Len(a) = i BY <1>1, <2>1, InitialPart DEF Nodes
    <2>4. SubSeq(a, 1, i - 1) = SubSeq(node, 1, i - 1) BY <1>1, <2>1, PartOfPart DEF Nodes
    <2> HIDE DEF a
    <2>5. a # Body BY <2>1, <2>3, EmptySeq DEF Body
    <2>6. Parent(a) = SubSeq(node, 1, i - 1) BY <2>3, <2>4, <2>5, ParentsOfNodes
    <2>7. a \in Children(doc, SubSeq(node, 1, i - 1)) BY <2>2, <2>5, <2>6 DEF Children
    <2> QED BY <2>7 DEF a
<1>5. \A i \in 1 .. Len(node) : StructuralPath(doc, node)[i] =
          <<doc[SubSeq(node, 1, i)], PlaceOfKind(doc, SubSeq(node, 1, i))>>
    BY <1>1 DEF StructuralPath
<1> QED BY <1>1, <1>2, <1>3, <1>4, <1>5

LEMMA PathLeadsToNode ==
    ASSUME NEW doc, IsTree(doc), NEW node \in DOMAIN doc
    PROVE  Resolve(doc, StructuralPath(doc, node)) = {node}
<1> DEFINE path == StructuralPath(doc, node)
           L == Len(node)
<1>1. node \in Nodes /\ L \in Nat /\ Len(path) = L BY PathsOfNodes DEF IsTree
<1>2. PICK reached : IsResolution(doc, path, reached) /\ Resolve(doc, path) = reached[L]
    <2> HIDE DEF path, L
    <2> QED BY <1>1, ResolveIsAResolution
<1> DEFINE S == {i \in 0 .. L : reached[i] = {SubSeq(node, 1, i)}}
<1>3. 0 \in S
    <2>1. SubSeq(node, 1, 0) = Body BY SubSeqEmpty DEF Body
    <2>2. reached[0] = {Body} /\ 0 \in 0 .. L
        <3> HIDE DEF path, L
        <3> QED BY <1>1, <1>2 DEF IsResolution
    <2> HIDE DEF path, L
    <2> QED BY <2>1, <2>2
<1>4. ASSUME NEW n \in 0 .. L - 1, n \in S PROVE n + 1 \in S
    <2>1. n + 1 \in 1 .. L /\ (n + 1) - 1 = n /\ n + 1 \in 0 .. L BY <1>1
    <2> DEFINE child == SubSeq(node, 1, n + 1)
    <2>2. /\ path[n + 1] = <<doc[child], PlaceOfKind(doc, child)>>
          /\ child \in Children(doc, SubSeq(node, 1, n))
        BY <2>1, PathsOfNodes
    <2>3. reached[n + 1] = Step(doc, reached[n], path[n + 1])
        <3> HIDE DEF path, L
        <3> QED BY <1>1, <1>2, <2>1 DEF IsResolution
    <2>4. reached[n] = {SubSeq(node, 1, n)} BY <1>4
    <2> DEFINE above == SubSeq(node, 1, n)
    <2> HIDE DEF child, path, L, above
    <2>5. Step(doc, {above}, <<doc[child], PlaceOfKind(doc, child)>>) = {child}
        BY <2>2, StepToChild DEF above
    <2>6. reached[n + 1] = {child} BY <2>2, <2>3, <2>4, <2>5 DEF above
    <2> QED BY <2>1, <2>6 DEF child
<1>5. \A n \in 0 .. L : n \in S
    <2> HIDE DEF S, L
    <2> QED BY <1>1, <1>3, <1>4, NatInductionUpTo
<1>6. reached[L] = {SubSeq(node, 1, L)}
    <2> HIDE DEF L
    <2> QED BY <1>1, <1>5
<1>7. SubSeq(node, 1, L) = node BY <1>1, SubSeqFull DEF Nodes
<1> QED BY <1>2, <1>6, <1>7

LEMMA PathsAreNames ==
    ASSUME NEW doc, IsTree(doc), NEW a \in DOMAIN doc, NEW b \in DOMAIN doc,
           StructuralPath(doc, a) = StructuralPath(doc, b)
    PROVE  a = b
<1>1. {a} = {b} BY PathLeadsToNode
<1> QED BY <1>1

-------------------------------------------------------------------------------
(***************************************************************************)
(* The dispatch: which types a record has below one of another type, and   *)
(* which tags.                                                             *)
(***************************************************************************)
BlockTypes == {"paragraph", "table", "block_container"}

Under ==
    [story |-> BlockTypes \cup {"section_properties"},
     block_container |-> BlockTypes,
     table |-> {"table_row", "table_grid", "properties_raw"},
     table_row |-> {"table_cell", "properties_raw"},
     table_cell |-> BlockTypes \cup {"properties_raw"},
     table_grid |-> {"table_grid_col"},
     paragraph |-> {"run_raw", "run_container", "properties_raw"},
     run_container |-> {"run_raw", "run_container"},
     run_raw |-> {"text_fragment", "properties_raw"}]

LEMMA UnderEachType ==
    ASSUME NEW type \in DOMAIN Decomposed, NEW tag,
           NEW t \in Entry(TakenOnce, type, tag) \cup Entry(Decomposed, type, tag)
    PROVE  t \in Under[type]
<1>1. type \in DOMAIN TakenOnce => DOMAIN TakenOnce[type] \in SUBSET Under[type]
    BY DEF TakenOnce, Under
<1>2. DOMAIN Decomposed[type] \in SUBSET Under[type]
    <2>1. CASE type \in {"story", "block_container", "table_cell"}
        BY <2>1 DEF Decomposed, Under, Blocks, BlockTypes
    <2>2. CASE type \in {"table", "table_row", "table_grid"} BY <2>2 DEF Decomposed, Under
    <2>3. CASE type \in {"paragraph", "run_container", "run_raw"}
        BY <2>3 DEF Decomposed, Under, Inline
    <2> QED BY <2>1, <2>2, <2>3 DEF Decomposed
<1> QED BY <1>1, <1>2 DEF Entry

(***************************************************************************)
(* The elements a record of each decomposed type can be made of.           *)
(***************************************************************************)
TagsMaking ==
    [paragraph |-> {"p"}, run_raw |-> {"r"}, run_container |-> RunContainers,
     block_container |-> BlockContainers, table |-> {"tbl"}, table_row |-> {"tr"},
     table_cell |-> {"tc"}, text_fragment |-> TextFragments]

LEMMA TagsOfTypes ==
    ASSUME NEW type \in DOMAIN Decomposed, NEW tag,
           NEW t \in Entry(TakenOnce, type, tag) \cup Entry(Decomposed, type, tag),
           t \in DOMAIN TagsMaking
    PROVE  tag \in TagsMaking[t]
<1>1. type \in DOMAIN TakenOnce => t \notin DOMAIN TakenOnce[type]
    BY DEF TakenOnce, TagsMaking
<1>2. ASSUME t \in DOMAIN Decomposed[type] PROVE Decomposed[type][t] = TagsMaking[t]
    <2> USE <1>2
    <2>1. CASE type = "story"
        <3>1. Decomposed[type] = [paragraph |-> {"p"}, table |-> {"tbl"},
                                  block_container |-> BlockContainers, section_properties |-> {"sectPr"}]
            BY <2>1 DEF Decomposed
        <3>2. t # "section_properties" BY DEF TagsMaking
        <3>3. t \in {"paragraph", "table", "block_container"} BY <3>1, <3>2
        <3> QED BY <3>1, <3>3 DEF TagsMaking
    <2>2. CASE type \in {"block_container", "table_cell"}
        <3>1. Decomposed[type] = Blocks BY <2>2 DEF Decomposed
        <3>2. t \in {"paragraph", "table", "block_container"} BY <3>1 DEF Blocks
        <3>3. Blocks[t] = TagsMaking[t] BY <3>2 DEF TagsMaking, Blocks
        <3> QED BY <3>1, <3>3
    <2>3. CASE type \in {"paragraph", "run_container"}
        <3>1. Decomposed[type] = Inline BY <2>3 DEF Decomposed
        <3>2. t \in {"run_raw", "run_container"} BY <3>1 DEF Inline
        <3>3. CASE t = "run_raw" BY <3>1, <3>3 DEF TagsMaking, Inline
        <3>4. CASE t = "run_container" BY <3>1, <3>4 DEF TagsMaking, Inline
        <3> QED BY <3>2, <3>3, <3>4
    <2>4. CASE type = "table"
        <3>1. Decomposed[type] = [table_row |-> {"tr"}] BY <2>4 DEF Decomposed
        <3>2. t = "table_row" BY <3>1
        <3> QED BY <3>1, <3>2 DEF TagsMaking
    <2>5. CASE type = "table_row"
        <3>1. Decomposed[type] = [table_cell |-> {"tc"}] BY <2>5 DEF Decomposed
        <3>2. t = "table_cell" BY <3>1
        <3> QED BY <3>1, <3>2 DEF TagsMaking
    <2>6. CASE type = "table_grid" BY <2>6 DEF Decomposed, TagsMaking
    <2>7. CASE type = "run_raw"
        <3>1. Decomposed[type] = [text_fragment |-> TextFragments] BY <2>7 DEF Decomposed
        <3>2. t = "text_fragment" BY <3>1
        <3> QED BY <3>1, <3>2 DEF TagsMaking
    <2> QED BY <2>1, <2>2, <2>3, <2>4, <2>5, <2>6, <2>7 DEF Decomposed
<1> QED BY <1>1, <1>2 DEF Entry

-------------------------------------------------------------------------------
(***************************************************************************)
(* The record of each node.                                                *)
(***************************************************************************)
RecordTypes == {"story", "opaque", "unparsed"} \cup UNION {Under[p] : p \in DOMAIN Under}

RecordSet == [type : RecordTypes, depth : Nat, limited : BOOLEAN]

Root == [type |-> "story", depth |-> 0, limited |-> FALSE]

LEMMA RecordsBelow ==
    ASSUME NEW doc, NEW node, NEW parent \in RecordSet
    PROVE  LET record == RecordBelow(doc, node, parent)
           IN  /\ record \in RecordSet
               /\ \/ record.type \in {"opaque", "unparsed"}
                  \/ /\ parent.type \in DOMAIN Decomposed /\ record.type \in Under[parent.type]
                     /\ record.type \in DOMAIN TagsMaking => doc[node] \in TagsMaking[record.type]
<1> DEFINE once == Entry(TakenOnce, parent.type, doc[node])
           many == Entry(Decomposed, parent.type, doc[node])
           type == IF once # {} /\ ~IsFirstOfKind(doc, node) THEN "opaque"
                   ELSE IF once \cup many # {} THEN CHOOSE t \in once \cup many : TRUE
                   ELSE "opaque"
           depth == IF Nests(type) THEN parent.depth + 1 ELSE parent.depth
           record == RecordBelow(doc, node, parent)
<1>1. CASE parent.type \notin DOMAIN Decomposed \/ parent.limited
    <2>1. record = Unparsed BY <1>1 DEF RecordBelow
    <2> HIDE DEF record
    <2> QED BY <2>1 DEF Unparsed, RecordSet, RecordTypes, record
<1>2. CASE ~(parent.type \notin DOMAIN Decomposed \/ parent.limited)
    <2>1. record = [type |-> type, depth |-> depth, limited |-> Nests(type) /\ depth >= MaxDepth]
        BY <1>2 DEF RecordBelow
    <2>2. type = "opaque" \/ type \in once \cup many
        <3> HIDE DEF once, many
        <3> QED OBVIOUS
    <2>3. type \in once \cup many =>
              /\ type \in Under[parent.type]
              /\ type \in DOMAIN TagsMaking => doc[node] \in TagsMaking[type]
        <3>1. parent.type \in DOMAIN Decomposed BY <1>2
        <3> HIDE DEF type
        <3> QED BY <3>1, UnderEachType, TagsOfTypes
    <2>4. DOMAIN Decomposed = DOMAIN Under BY DEF Decomposed, Under
    <2> HIDE DEF once, many, type, record
    <2>5. type \in RecordTypes
        <3> HIDE DEF depth
        <3> QED BY <1>2, <2>2, <2>3, <2>4 DEF RecordTypes
    <2>6. depth \in Nat BY DEF RecordSet
    <2>7. record \in RecordSet /\ record.type = type
        <3> HIDE DEF depth
        <3> QED BY <2>1, <2>5, <2>6 DEF RecordSet
    <2> QED BY <1>2, <2>2, <2>3, <2>7 DEF record
<1> QED BY <1>1, <1>2

LEMMA RecordsOfTree ==
    ASSUME NEW doc, IsTree(doc)
    PROVE  /\ Records(doc) \in [DOMAIN doc -> RecordSet]
           /\ Records(doc)[Body] = Root
           /\ \A node \in DOMAIN doc \ {Body} :
                 Records(doc)[node] = RecordBelow(doc, node, Records(doc)[Parent(node)])
<1> DEFINE T == DOMAIN doc
           X == RecordSet
           step == [p \in T \X X |-> RecordBelow(doc, p[1], p[2])]
           IsRecord(w) == w = [node \in T |-> IF node = Body THEN Root
                                              ELSE RecordBelow(doc, node, w[Parent(node)])]
           record == CHOOSE w : IsRecord(w)
<1>1. Root \in X BY DEF Root, RecordSet, RecordTypes
<1>2. step \in [T \X X -> X] BY RecordsBelow
<1>3. PICK f \in [T -> X] :
          /\ f[Body] = Root
          /\ \A node \in T \ {Body} : f[node] = step[<<node, f[Parent(node)]>>]
    <2> HIDE DEF X, step
    <2>1. IsDefinedBelow(doc, X, Root, step) BY <1>1, <1>2, TreeRecursion
    <2> QED BY <2>1 DEF IsDefinedBelow
<1>4. \A node \in T \ {Body} : f[node] = RecordBelow(doc, node, f[Parent(node)])
    <2> SUFFICES ASSUME NEW node \in T \ {Body}
                 PROVE  f[node] = RecordBelow(doc, node, f[Parent(node)]) OBVIOUS
    <2>1. Parent(node) \in T BY DEF IsTree
    <2>2. f[Parent(node)] \in X BY <2>1, <1>3
    <2>3. step[<<node, f[Parent(node)]>>] = RecordBelow(doc, node, f[Parent(node)]) BY <2>2
    <2> QED BY <1>3, <2>3
<1>5. IsRecord(f)
    <2> DEFINE g == [node \in T |-> IF node = Body THEN Root
                                    ELSE RecordBelow(doc, node, f[Parent(node)])]
    <2>1. \A node \in T : f[node] = g[node]
        <3> HIDE DEF T
        <3> QED BY <1>3, <1>4
    <2>2. f = g
        <3> HIDE DEF T, X, step
        <3> QED BY <1>3, <2>1
    <2> QED BY <2>2
<1>6. IsRecord(record) BY <1>5
<1>7. record = [node \in T |-> IF node = Body THEN Root
                               ELSE RecordBelow(doc, node, record[Parent(node)])]
    <2> HIDE DEF T, record
    <2> QED BY <1>6
<1>8. Records(doc) = [node \in T |-> record[node]] BY DEF Records, Root
<1>9. Records(doc) = record
    <2> HIDE DEF T, record, IsRecord
    <2> QED BY <1>7, <1>8
<1> HIDE DEF record
<1>10. Body \in T /\ \A node \in T \ {Body} : Parent(node) \in T BY DEF IsTree
<1>11. /\ record[Body] = Root
       /\ \A node \in T \ {Body} : record[node] = RecordBelow(doc, node, record[Parent(node)])
    <2> HIDE DEF T
    <2>1. record[Body] = Root BY <1>7, <1>10
    <2>2. ASSUME NEW node \in T \ {Body} PROVE record[node] = RecordBelow(doc, node, record[Parent(node)])
        BY <1>7, <2>2, Zenon
    <2> QED BY <2>1, <2>2
<1>12. \A node \in T : record[node] \in X
    <2> DEFINE S == {node \in T : record[node] \in X}
    <2>1. Body \in S BY <1>1, <1>10, <1>11
    <2>2. ASSUME NEW node \in T \ {Body}, Parent(node) \in S PROVE node \in S
        <3>1. record[Parent(node)] \in X /\ record[node] = RecordBelow(doc, node, record[Parent(node)])
            BY <1>11, <2>2
        <3>2. record[node] \in X BY <3>1, RecordsBelow
        <3> QED BY <3>2
    <2>3. T \in SUBSET S
        <3> HIDE DEF S
        <3> QED BY <2>1, <2>2, TreeInduction
    <2> QED BY <2>3
<1>13. record \in [T -> X]
    <2> HIDE DEF T, X
    <2> QED BY <1>7, <1>12
<1> QED BY <1>9, <1>11, <1>13

TypeAt(doc, node) == Records(doc)[node].type

LEMMA TypesBelow ==
    ASSUME NEW doc, IsTree(doc), NEW node \in DOMAIN doc \ {Body}
    PROVE  \/ TypeAt(doc, node) \in {"opaque", "unparsed"}
           \/ /\ TypeAt(doc, Parent(node)) \in DOMAIN Decomposed
              /\ TypeAt(doc, node) \in Under[TypeAt(doc, Parent(node))]
              /\ TypeAt(doc, node) \in DOMAIN TagsMaking =>
                     doc[node] \in TagsMaking[TypeAt(doc, node)]
<1> DEFINE parent == Records(doc)[Parent(node)]
<1>1. Parent(node) \in DOMAIN doc BY DEF IsTree
<1>2. parent \in RecordSet /\ Records(doc)[node] = RecordBelow(doc, node, parent)
    BY <1>1, RecordsOfTree
<1> HIDE DEF parent
<1>3. LET record == RecordBelow(doc, node, parent)
      IN  \/ record.type \in {"opaque", "unparsed"}
          \/ /\ parent.type \in DOMAIN Decomposed /\ record.type \in Under[parent.type]
             /\ record.type \in DOMAIN TagsMaking => doc[node] \in TagsMaking[record.type]
    BY <1>2, RecordsBelow
<1> QED BY <1>2, <1>3 DEF TypeAt, parent

(***************************************************************************)
(* Around a paragraph there are only blocks, around a run its containers   *)
(* and one paragraph.                                                      *)
(***************************************************************************)
OuterTypes == {"story", "block_container", "table", "table_row", "table_cell"}

LEMMA TypesAround ==
    ASSUME NEW doc, IsTree(doc), NEW node \in DOMAIN doc \ {Body}
    PROVE  LET type == TypeAt(doc, node)
               around == TypeAt(doc, Parent(node))
           IN  /\ type \in {"run_raw", "run_container"} => around \in {"paragraph", "run_container"}
               /\ type \in OuterTypes \cup {"paragraph"} => around \in OuterTypes
               /\ type = "text_fragment" => around = "run_raw"
               /\ type # "story"
<1> DEFINE type == TypeAt(doc, node)
           around == TypeAt(doc, Parent(node))
<1>1. type \in {"opaque", "unparsed"} \/ (around \in DOMAIN Decomposed /\ type \in Under[around])
    BY TypesBelow
<1> HIDE DEF type, around
<1>2. CASE type \in {"opaque", "unparsed"} BY <1>2 DEF OuterTypes, type
<1>3. CASE around \in DOMAIN Decomposed /\ type \in Under[around]
    <2>1. CASE around \in {"story", "block_container", "table_cell"}
        BY <1>3, <2>1 DEF Under, BlockTypes, OuterTypes, type, around
    <2>2. CASE around \in {"table", "table_row", "table_grid"}
        BY <1>3, <2>2 DEF Under, OuterTypes, type, around
    <2>3. CASE around \in {"paragraph", "run_container", "run_raw"}
        BY <1>3, <2>3 DEF Under, OuterTypes, type, around
    <2> QED BY <1>3, <2>1, <2>2, <2>3 DEF Decomposed
<1> QED BY <1>1, <1>2, <1>3

LEMMA NodesByType ==
    ASSUME NEW doc, IsTree(doc), NEW types
    PROVE  /\ OfType(Records(doc), types) \in SUBSET DOMAIN doc
           /\ \A node \in DOMAIN doc : node \in OfType(Records(doc), types) <=> TypeAt(doc, node) \in types
BY RecordsOfTree DEF OfType, TypeAt

LEMMA ParagraphsAbove ==
    ASSUME NEW doc, IsTree(doc), NEW node \in DOMAIN doc
    PROVE  /\ TypeAt(doc, node) \in OuterTypes \cup {"paragraph"} => ParagraphAncestors(doc, node) = {}
           /\ TypeAt(doc, node) \in {"run_raw", "run_container"} =>
                 \E p \in Paragraphs(doc) : ParagraphAncestors(doc, node) = {p}
<1> DEFINE S == {n \in DOMAIN doc :
               /\ TypeAt(doc, n) \in OuterTypes \cup {"paragraph"} => ParagraphAncestors(doc, n) = {}
               /\ TypeAt(doc, n) \in {"run_raw", "run_container"} =>
                     \E p \in Paragraphs(doc) : ParagraphAncestors(doc, n) = {p}}
<1>1. Paragraphs(doc) \in SUBSET DOMAIN doc /\ DOMAIN doc \in SUBSET Nodes
    BY NodesByType DEF Paragraphs, IsTree
<1>2. Body \in S
    <2>1. ParagraphAncestors(doc, Body) = {} BY <1>1, BodyHasNoAncestors DEF ParagraphAncestors
    <2>2. TypeAt(doc, Body) = "story" /\ Body \in DOMAIN doc
        BY RecordsOfTree DEF TypeAt, Root, IsTree
    <2> QED BY <2>1, <2>2
<1>3. ASSUME NEW n \in DOMAIN doc \ {Body}, Parent(n) \in S PROVE n \in S
    <2> DEFINE up == Parent(n)
    <2>1. up \in DOMAIN doc /\ (up \in Paragraphs(doc) <=> TypeAt(doc, up) = "paragraph")
        BY NodesByType DEF IsTree, Paragraphs
    <2>2. ParagraphAncestors(doc, n) = ParagraphAncestors(doc, up) \cup (Paragraphs(doc) \cap {up})
        BY <1>1, AncestorsOfNode DEF ParagraphAncestors
    <2>3. ASSUME TypeAt(doc, n) \in OuterTypes \cup {"paragraph"} PROVE ParagraphAncestors(doc, n) = {}
        <3>1. TypeAt(doc, up) \in OuterTypes BY <2>3, TypesAround
        <3>2. ParagraphAncestors(doc, up) = {} BY <1>3, <3>1
        <3>3. TypeAt(doc, up) # "paragraph" BY <3>1 DEF OuterTypes
        <3> HIDE DEF up
        <3> QED BY <2>1, <2>2, <3>2, <3>3
    <2>4. ASSUME TypeAt(doc, n) \in {"run_raw", "run_container"}
          PROVE  \E p \in Paragraphs(doc) : ParagraphAncestors(doc, n) = {p}
        <3>1. TypeAt(doc, up) \in {"paragraph", "run_container"} BY <2>4, TypesAround
        <3>2. CASE TypeAt(doc, up) = "paragraph"
            <4>1. ParagraphAncestors(doc, up) = {} BY <1>3, <3>2
            <4> HIDE DEF up
            <4>2. up \in Paragraphs(doc) /\ ParagraphAncestors(doc, n) = {up}
                BY <2>1, <2>2, <3>2, <4>1
            <4> QED BY <4>2
        <3>3. CASE TypeAt(doc, up) = "run_container"
            <4>1. \E p \in Paragraphs(doc) : ParagraphAncestors(doc, up) = {p} BY <1>3, <3>3
            <4> HIDE DEF up
            <4>2. ParagraphAncestors(doc, n) = ParagraphAncestors(doc, up) BY <2>1, <2>2, <3>3
            <4> QED BY <4>1, <4>2
        <3> QED BY <3>1, <3>2, <3>3
    <2> QED BY <2>3, <2>4
<1>4. DOMAIN doc \in SUBSET S
    <2> HIDE DEF S
    <2> QED BY <1>2, <1>3, TreeInduction
<1> QED BY <1>4

LEMMA NoRunAboveARun ==
    ASSUME NEW doc, IsTree(doc), NEW node \in DOMAIN doc,
           TypeAt(doc, node) \in OuterTypes \cup {"paragraph", "run_raw", "run_container"},
           NEW other \in DOMAIN doc, IsStrictPrefix(other, node)
    PROVE  TypeAt(doc, other) # "run_raw"
<1> DEFINE Inside == OuterTypes \cup {"paragraph", "run_raw", "run_container"}
           Runs == OfType(Records(doc), {"run_raw"})
           Above(n) == {r \in Runs : IsStrictPrefix(r, n)}
           S == {n \in DOMAIN doc : TypeAt(doc, n) \in Inside => Above(n) = {}}
<1>1. Runs \in SUBSET DOMAIN doc /\ DOMAIN doc \in SUBSET Nodes
    BY NodesByType DEF IsTree
<1>2. Body \in S BY <1>1, BodyHasNoAncestors DEF IsTree
<1>3. ASSUME NEW n \in DOMAIN doc \ {Body}, Parent(n) \in S, TypeAt(doc, n) \in Inside
      PROVE  Above(n) = {}
    <2>1. Parent(n) \in DOMAIN doc BY DEF IsTree
    <2>2. Above(n) = Above(Parent(n)) \cup (Runs \cap {Parent(n)}) BY <1>1, AncestorsOfNode
    <2>3. TypeAt(doc, Parent(n)) \in Inside /\ TypeAt(doc, Parent(n)) # "run_raw"
        BY <1>3, TypesAround DEF OuterTypes
    <2>4. Parent(n) \notin Runs BY <2>1, <2>3, NodesByType
    <2>5. Above(Parent(n)) = {} BY <1>3, <2>3
    <2> HIDE DEF Above, Runs
    <2> QED BY <2>2, <2>4, <2>5
<1>4. DOMAIN doc \in SUBSET S
    <2>1. \A n \in DOMAIN doc \ {Body} : Parent(n) \in S => n \in S BY <1>3
    <2> HIDE DEF S
    <2> QED BY <1>2, <2>1, TreeInduction
<1>5. Above(node) = {} BY <1>4
<1>6. other \notin Runs BY <1>5
<1> QED BY <1>6, NodesByType

-------------------------------------------------------------------------------
(***************************************************************************)
(* The walk down from a paragraph finds every run below it.                *)
(***************************************************************************)
RunsIn(doc, node) ==
    {run \in OfType(Records(doc), {"run_raw"}) : run = node \/ IsStrictPrefix(node, run)}

LEMMA RunsInNode ==
    ASSUME NEW doc, IsTree(doc), NEW node \in DOMAIN doc
    PROVE  RunsIn(doc, node) = IF Records(doc)[node].type = "run_raw" THEN {node}
                                ELSE UNION {RunsIn(doc, child) : child \in Children(doc, node)}
<1> DEFINE Runs == OfType(Records(doc), {"run_raw"})
<1>1. /\ Runs \in SUBSET DOMAIN doc /\ DOMAIN doc \in SUBSET Nodes
      /\ \A n \in DOMAIN doc : n \in Runs <=> TypeAt(doc, n) = "run_raw"
    BY NodesByType DEF IsTree
<1>2. CASE TypeAt(doc, node) = "run_raw"
    <2>1. \A run \in Runs : ~IsStrictPrefix(node, run)
        BY <1>1, <1>2, NoRunAboveARun
    <2>2. node \in Runs BY <1>1, <1>2
    <2>3. RunsIn(doc, node) = {node} BY <2>1, <2>2 DEF RunsIn
    <2> QED BY <1>2, <2>3 DEF TypeAt
<1>3. CASE TypeAt(doc, node) # "run_raw"
    <2>1. ASSUME NEW run \in RunsIn(doc, node)
          PROVE  \E child \in Children(doc, node) : run \in RunsIn(doc, child)
        <3>1. run \in Runs /\ IsStrictPrefix(node, run) BY <1>1, <1>3, <2>1 DEF RunsIn
        <3>2. PICK child \in Children(doc, node) : child = run \/ IsStrictPrefix(child, run)
            BY <1>1, <3>1, ChildTowards
        <3> QED BY <3>1, <3>2 DEF RunsIn
    <2>2. ASSUME NEW child \in Children(doc, node), NEW run \in RunsIn(doc, child)
          PROVE  run \in RunsIn(doc, node)
        <3>1. IsStrictPrefix(node, child) /\ child \in DOMAIN doc
            BY ChildrenAreBelow, ChildrenAreNodes
        <3>2. run \in Runs /\ (run = child \/ IsStrictPrefix(child, run)) BY <2>2 DEF RunsIn
        <3>3. IsStrictPrefix(node, run) BY <1>1, <3>1, <3>2, PrefixesChain
        <3> QED BY <3>2, <3>3 DEF RunsIn
    <2>3. RunsIn(doc, node) = UNION {RunsIn(doc, child) : child \in Children(doc, node)}
        BY <2>1, <2>2
    <2> QED BY <1>3, <2>3 DEF TypeAt
<1> QED BY <1>2, <1>3

LEMMA RunsOfIsComplete ==
    ASSUME NEW doc, IsTree(doc), NEW paragraph \in DOMAIN doc
    PROVE  RunsOf(doc, paragraph) = RunsIn(doc, paragraph)
<1> DEFINE D == Below(doc, paragraph) \cup {paragraph}
           IsFound(w) == w = [node \in D |-> IF Records(doc)[node].type = "run_raw" THEN {node}
                                             ELSE UNION {w[child] : child \in Children(doc, node)}]
           found == CHOOSE w : IsFound(w)
           runs == [node \in D |-> RunsIn(doc, node)]
<1>1. D \in SUBSET DOMAIN doc /\ DOMAIN doc \in SUBSET Nodes BY DEF Below, IsTree
<1>2. \A node \in D : Children(doc, node) \in SUBSET D
    <2> SUFFICES ASSUME NEW node \in D, NEW child \in Children(doc, node) PROVE child \in D
        OBVIOUS
    <2>1. child \in DOMAIN doc /\ IsStrictPrefix(node, child) BY ChildrenAreBelow, ChildrenAreNodes
    <2>2. node = paragraph \/ IsStrictPrefix(paragraph, node) BY DEF Below
    <2>3. IsStrictPrefix(paragraph, child) BY <1>1, <2>1, <2>2, PrefixesChain
    <2> QED BY <2>1, <2>3 DEF Below
<1>3. ASSUME NEW node \in D
      PROVE  runs[node] = IF Records(doc)[node].type = "run_raw" THEN {node}
                          ELSE UNION {runs[child] : child \in Children(doc, node)}
    <2>1. \A child \in Children(doc, node) : runs[child] = RunsIn(doc, child) BY <1>2
    <2>2. runs[node] = RunsIn(doc, node) OBVIOUS
    <2>3. UNION {runs[child] : child \in Children(doc, node)} =
          UNION {RunsIn(doc, child) : child \in Children(doc, node)}
        <3> HIDE DEF runs
        <3> QED BY <2>1
    <2> HIDE DEF runs
    <2> QED BY <1>1, <2>2, <2>3, RunsInNode
<1>4. IsFound(runs)
    <2> DEFINE g == [node \in D |-> IF Records(doc)[node].type = "run_raw" THEN {node}
                                    ELSE UNION {runs[child] : child \in Children(doc, node)}]
    <2>1. \A node \in D : runs[node] = g[node]
        <3> HIDE DEF runs, D
        <3> QED BY <1>3
    <2>2. runs = g
        <3> HIDE DEF D
        <3> QED BY <2>1
    <2> HIDE DEF runs, D
    <2> QED BY <2>2
<1>5. IsFound(found)
    <2> HIDE DEF IsFound, runs
    <2> QED BY <1>4
<1>6. found = [node \in D |-> IF Records(doc)[node].type = "run_raw" THEN {node}
                              ELSE UNION {found[child] : child \in Children(doc, node)}]
    <2> HIDE DEF found, D
    <2> QED BY <1>5
<1>7. RunsOf(doc, paragraph) = found[paragraph] BY DEF RunsOf
<1> HIDE DEF found
<1>8. PICK N \in Nat : \A node \in DOMAIN doc : Len(node) <= N BY TreesHaveADepth
<1> DEFINE S == {n \in 0 .. N : \A node \in D : Len(node) > N - n => found[node] = runs[node]}
<1>9. \A node \in D : Len(node) \in Nat /\ Len(node) <= N BY <1>1, <1>8 DEF Nodes
<1>10. 0 \in S
    <2> HIDE DEF D, runs
    <2> QED BY <1>8, <1>9
<1>11. ASSUME NEW node \in D, \A child \in Children(doc, node) : found[child] = runs[child]
       PROVE  found[node] = runs[node]
    <2>1. {found[child] : child \in Children(doc, node)} = {runs[child] : child \in Children(doc, node)}
        <3> HIDE DEF runs
        <3> QED BY <1>11
    <2>2. found[node] = IF Records(doc)[node].type = "run_raw" THEN {node}
                        ELSE UNION {found[child] : child \in Children(doc, node)}
        <3> HIDE DEF D
        <3> QED BY <1>6
    <2> HIDE DEF runs, D
    <2> QED BY <1>3, <2>1, <2>2
<1>12. ASSUME NEW n \in 0 .. N - 1, n \in S PROVE n + 1 \in S
    <2>1. ASSUME NEW node \in D, Len(node) > N - (n + 1) PROVE found[node] = runs[node]
        <3>1. ASSUME NEW child \in Children(doc, node) PROVE found[child] = runs[child]
            <4>1. child \in D BY <1>2
            <4>2. Len(child) = Len(node) + 1 BY ChildrenOfNode
            <4>3. Len(child) > N - n BY <1>8, <1>9, <2>1, <4>2
            <4> HIDE DEF D, runs
            <4> QED BY <1>12, <4>1, <4>3
        <3> HIDE DEF D, runs
        <3> QED BY <1>11, <3>1
    <2>2. n + 1 \in 0 .. N BY <1>8
    <2> HIDE DEF D, runs
    <2> QED BY <2>1, <2>2
<1>13. N \in S
    <2>1. N \in 0 .. N BY <1>8
    <2> HIDE DEF S
    <2> QED BY <1>8, <1>10, <1>12, <2>1, NatInductionUpTo
<1>14. ASSUME NEW node \in D PROVE found[node] = runs[node]
    <2>1. CASE Len(node) > 0
        <3> HIDE DEF D, runs
        <3> QED BY <1>8, <1>13, <2>1
    <2>2. CASE Len(node) = 0
        <3>1. ASSUME NEW child \in Children(doc, node) PROVE found[child] = runs[child]
            <4>1. child \in D BY <1>2
            <4>2. Len(child) > 0 BY <2>2, ChildrenOfNode
            <4> HIDE DEF D, runs
            <4> QED BY <1>8, <1>13, <4>1, <4>2
        <3> HIDE DEF D, runs
        <3> QED BY <1>11, <3>1
    <2> QED BY <1>9, <2>1, <2>2
<1> QED BY <1>7, <1>14

-------------------------------------------------------------------------------
(***************************************************************************)
(* The three walks agree: the runs found from a paragraph are those that   *)
(* have it for their one paragraph above, and a path is one record.        *)
(***************************************************************************)
LEMMA RunsOfAParagraph ==
    ASSUME NEW doc, IsTree(doc), NEW paragraph \in Paragraphs(doc)
    PROVE  RunsOf(doc, paragraph) =
               {run \in OfType(Records(doc), {"run_raw"}) : ParagraphAncestors(doc, run) = {paragraph}}
<1> DEFINE Runs == OfType(Records(doc), {"run_raw"})
<1>1. /\ Runs \in SUBSET DOMAIN doc /\ Paragraphs(doc) \in SUBSET DOMAIN doc
      /\ \A n \in DOMAIN doc : n \in Runs <=> TypeAt(doc, n) = "run_raw"
      /\ \A n \in DOMAIN doc : n \in Paragraphs(doc) <=> TypeAt(doc, n) = "paragraph"
    BY NodesByType DEF Paragraphs
<1>2. RunsOf(doc, paragraph) = RunsIn(doc, paragraph) BY <1>1, RunsOfIsComplete
<1>3. paragraph \notin Runs BY <1>1
<1>4. ASSUME NEW run \in Runs
      PROVE  IsStrictPrefix(paragraph, run) <=> ParagraphAncestors(doc, run) = {paragraph}
    <2>1. PICK p \in Paragraphs(doc) : ParagraphAncestors(doc, run) = {p}
        BY <1>1, ParagraphsAbove
    <2>2. IsStrictPrefix(paragraph, run) <=> paragraph \in ParagraphAncestors(doc, run)
        BY DEF ParagraphAncestors
    <2> QED BY <2>1, <2>2
<1> QED BY <1>2, <1>3, <1>4 DEF RunsIn

LEMMA OneRecordOfPath ==
    ASSUME NEW doc, IsTree(doc), NEW node \in OfType(Records(doc), {"paragraph", "run_raw"})
    PROVE  TargetRecords(doc, StructuralPath(doc, node)) = {node}
<1>1. /\ node \in DOMAIN doc /\ TypeAt(doc, node) \in {"paragraph", "run_raw"}
    BY NodesByType
<1>2. TypeAt(doc, Body) = "story" BY RecordsOfTree DEF TypeAt, Root
<1>3. node # Body BY <1>1, <1>2
<1>4. Len(node) = Len(StructuralPath(doc, node)) BY <1>1, PathsOfNodes
<1>5. \A other \in DOMAIN doc : StructuralPath(doc, other) = StructuralPath(doc, node) => other = node
    BY <1>1, PathsAreNames
<1>6. Records(doc)[node].type # "unparsed" BY <1>1 DEF TypeAt
<1> QED BY <1>1, <1>3, <1>4, <1>5, <1>6 DEF TargetRecords

-------------------------------------------------------------------------------
(***************************************************************************)
(* Edits. An edit embeds the old tree in the new one. It is harmless when  *)
(* what has a record keeps its tag, and when a new node has no record or   *)
(* is the first property element of its parent. Then nothing that has a    *)
(* record gets another one, or another path.                               *)
(***************************************************************************)
IsOpen(doc, node) == TypeAt(doc, node) \in DOMAIN Decomposed /\ ~Records(doc)[node].limited

PropertyTags == {"pPr", "rPr"}

IsHarmless(before, after, f) ==
    /\ \A node \in DOMAIN before : TypeAt(before, node) # "unparsed" => after[f[node]] = before[node]
    /\ \A new \in DOMAIN after : IsNew(before, f, new) =>
          /\ new # Body
          /\ \E node \in DOMAIN before :
                /\ Parent(new) = f[node]
                /\ IsOpen(before, node) =>
                      after[new] \in PropertyTags /\ Peers(before, node, after[new]) = {}

Carries(before, after, f) ==
    /\ IsEmbedding(before, after, f)
    /\ \A node \in DOMAIN before : Records(after)[f[node]] = Records(before)[node]
    /\ \A node \in DOMAIN before : TypeAt(before, node) # "unparsed" =>
          /\ after[f[node]] = before[node]
          /\ StructuralPath(after, f[node]) = StructuralPath(before, node)
    /\ \A new \in DOMAIN after : IsNew(before, f, new) =>
          TypeAt(after, new) \in {"properties_raw", "opaque", "unparsed"}

LEMMA OpenRecords ==
    ASSUME NEW doc, NEW node, NEW parent \in RecordSet
    PROVE  RecordBelow(doc, node, parent).type = "unparsed" <=>
               parent.type \notin DOMAIN Decomposed \/ parent.limited
<1> DEFINE open == parent.type \in DOMAIN Decomposed /\ ~parent.limited
           once == Entry(TakenOnce, parent.type, doc[node])
           many == Entry(Decomposed, parent.type, doc[node])
           type == IF once # {} /\ ~IsFirstOfKind(doc, node) THEN "opaque"
                   ELSE IF once \cup many # {} THEN CHOOSE t \in once \cup many : TRUE
                   ELSE "opaque"
           depth == IF Nests(type) THEN parent.depth + 1 ELSE parent.depth
           record == RecordBelow(doc, node, parent)
<1>1. CASE ~open BY <1>1 DEF RecordBelow, Unparsed
<1>2. CASE open
    <2>1. record = [type |-> type, depth |-> depth, limited |-> Nests(type) /\ depth >= MaxDepth]
        BY <1>2 DEF RecordBelow
    <2>2. type = "opaque" \/ type \in once \cup many
        <3> HIDE DEF once, many
        <3> QED OBVIOUS
    <2>3. type \in once \cup many => type \in Under[parent.type]
        <3> HIDE DEF type
        <3> QED BY <1>2, UnderEachType
    <2>4. "unparsed" \notin Under[parent.type]
        <3>1. DOMAIN Decomposed = DOMAIN Under BY DEF Decomposed, Under
        <3>2. \A t \in DOMAIN Under : "unparsed" \notin Under[t] BY DEF Under, BlockTypes
        <3> QED BY <1>2, <3>1, <3>2
    <2> HIDE DEF once, many, type, depth, record
    <2>5. record.type = type BY <2>1
    <2> QED BY <1>2, <2>2, <2>3, <2>4, <2>5 DEF record
<1> QED BY <1>1, <1>2

LEMMA OpenNodes ==
    ASSUME NEW doc, IsTree(doc), NEW node \in DOMAIN doc \ {Body}
    PROVE  /\ TypeAt(doc, node) # "unparsed" <=> IsOpen(doc, Parent(node))
           /\ TypeAt(doc, node) # "unparsed" => TypeAt(doc, Parent(node)) # "unparsed"
<1>1. Parent(node) \in DOMAIN doc BY DEF IsTree
<1>2. /\ Records(doc)[Parent(node)] \in RecordSet
      /\ Records(doc)[node] = RecordBelow(doc, node, Records(doc)[Parent(node)])
    BY <1>1, RecordsOfTree
<1>3. TypeAt(doc, node) # "unparsed" <=> IsOpen(doc, Parent(node))
    BY <1>2, OpenRecords DEF IsOpen, TypeAt
<1>4. "unparsed" \notin DOMAIN Decomposed BY DEF Decomposed
<1> QED BY <1>3, <1>4 DEF IsOpen

(***************************************************************************)
(* Among the siblings of a node that has a record, those of its tag are    *)
(* the same before and after.                                              *)
(***************************************************************************)
LEMMA SiblingsOfEmbedded ==
    ASSUME NEW before, IsTree(before), NEW after, IsTree(after), NEW f, IsEmbedding(before, after, f),
           IsHarmless(before, after, f),
           NEW node \in DOMAIN before \ {Body}, TypeAt(before, node) # "unparsed"
    PROVE  /\ \A c \in Children(before, Parent(node)) :
                 f[c] \in Children(after, Parent(f[node])) /\ after[f[c]] = before[c]
           /\ \A other \in Children(after, Parent(f[node])) :
                 after[other] = after[f[node]] =>
                     \E c \in Children(before, Parent(node)) : f[c] = other /\ before[c] = before[node]
<1>1. /\ Parent(node) \in DOMAIN before /\ Parent(f[node]) = f[Parent(node)]
      /\ \A a, b \in DOMAIN before : f[a] = f[b] => a = b
    BY DEF IsEmbedding, IsTree
<1>2. IsOpen(before, Parent(node)) BY OpenNodes
<1>3. ASSUME NEW c \in Children(before, Parent(node))
      PROVE  f[c] \in Children(after, Parent(f[node])) /\ after[f[c]] = before[c]
    <2>1. c \in DOMAIN before \ {Body} /\ Parent(c) = Parent(node) BY DEF Children
    <2>2. TypeAt(before, c) # "unparsed" BY <1>2, <2>1, OpenNodes
    <2> QED BY <1>1, <2>1, <2>2, ChildrenOfEmbedded DEF IsHarmless
<1>4. node \in Children(before, Parent(node)) BY DEF Children
<1>5. after[f[node]] = before[node] BY DEF IsHarmless
<1>6. ASSUME NEW other \in Children(after, Parent(f[node])), after[other] = after[f[node]]
      PROVE  \E c \in Children(before, Parent(node)) : f[c] = other /\ before[c] = before[node]
    <2>1. ASSUME IsNew(before, f, other) PROVE FALSE
        <3>1. other \in DOMAIN after /\ Parent(other) = f[Parent(node)] BY <1>1 DEF Children
        <3>2. PICK x \in DOMAIN before :
                  /\ Parent(other) = f[x]
                  /\ IsOpen(before, x) => Peers(before, x, after[other]) = {}
            BY <2>1, <3>1 DEF IsHarmless
        <3>3. x = Parent(node) BY <1>1, <3>1, <3>2
        <3>4. node \in Peers(before, x, after[other]) BY <1>4, <1>5, <1>6, <3>3 DEF Peers
        <3> QED BY <1>2, <3>2, <3>3, <3>4
    <2>2. PICK c \in Children(before, Parent(node)) : other = f[c]
        BY <1>1, <2>1, ChildrenOfEmbedded
    <2> QED BY <1>3, <1>5, <1>6, <2>2
<1> QED BY <1>3, <1>6

LEMMA EmbeddedRecords ==
    ASSUME NEW before, IsTree(before), NEW after, IsTree(after), NEW f, IsEmbedding(before, after, f),
           IsHarmless(before, after, f)
    PROVE  \A node \in DOMAIN before : Records(after)[f[node]] = Records(before)[node]
<1> DEFINE S == {node \in DOMAIN before : Records(after)[f[node]] = Records(before)[node]}
<1>1. /\ Body \in DOMAIN before /\ f[Body] = Body
      /\ \A n \in DOMAIN before : f[n] \in DOMAIN after
      /\ \A n \in DOMAIN before \ {Body} :
            Parent(n) \in DOMAIN before /\ f[n] # Body /\ Parent(f[n]) = f[Parent(n)]
      /\ \A a, b \in DOMAIN before : Precedes(f[a], f[b]) <=> Precedes(a, b)
    BY DEF IsEmbedding, IsTree
<1>2. Body \in S BY <1>1, RecordsOfTree
<1>3. ASSUME NEW node \in DOMAIN before \ {Body}, Parent(node) \in S PROVE node \in S
    <2> DEFINE parent == Records(before)[Parent(node)]
    <2>1. Records(before)[node] = RecordBelow(before, node, parent) BY RecordsOfTree
    <2>2. Records(after)[f[node]] = RecordBelow(after, f[node], parent) BY <1>1, <1>3, RecordsOfTree
    <2>3. CASE TypeAt(before, node) = "unparsed"
        <3>1. parent.type \notin DOMAIN Decomposed \/ parent.limited
            BY <2>3, OpenNodes DEF IsOpen, TypeAt
        <3>2. RecordBelow(before, node, parent) = Unparsed /\ RecordBelow(after, f[node], parent) = Unparsed
            BY <3>1 DEF RecordBelow
        <3> QED BY <2>1, <2>2, <3>2
    <2>4. CASE TypeAt(before, node) # "unparsed"
        <3>1. after[f[node]] = before[node] BY <2>4 DEF IsHarmless
        <3>2. /\ \A c \in Children(before, Parent(node)) :
                    f[c] \in Children(after, Parent(f[node])) /\ after[f[c]] = before[c]
              /\ \A other \in Children(after, Parent(f[node])) : after[other] = after[f[node]] =>
                    \E c \in Children(before, Parent(node)) : f[c] = other /\ before[c] = before[node]
            BY <2>4, SiblingsOfEmbedded
        <3>3. \A c \in Children(before, Parent(node)) : c \in DOMAIN before BY DEF Children
        <3>4. IsFirstOfKind(after, f[node]) <=> IsFirstOfKind(before, node)
            BY <1>1, <3>1, <3>2, <3>3 DEF IsFirstOfKind
        <3> HIDE DEF parent
        <3>5. RecordBelow(after, f[node], parent) = RecordBelow(before, node, parent)
            BY <3>1, <3>4 DEF RecordBelow
        <3> QED BY <2>1, <2>2, <3>5
    <2> QED BY <2>3, <2>4
<1>4. DOMAIN before \in SUBSET S
    <2> HIDE DEF S
    <2> QED BY <1>2, <1>3, TreeInduction
<1> QED BY <1>4

LEMMA EmbeddedPlaces ==
    ASSUME NEW before, IsTree(before), NEW after, IsTree(after), NEW f, IsEmbedding(before, after, f),
           IsHarmless(before, after, f),
           NEW node \in DOMAIN before \ {Body}, TypeAt(before, node) # "unparsed"
    PROVE  PlaceOfKind(after, f[node]) = PlaceOfKind(before, node)
<1> DEFINE S == {c \in Children(before, Parent(node)) : before[c] = before[node] /\ Precedes(c, node)}
           T == {o \in Children(after, Parent(f[node])) : after[o] = after[f[node]] /\ Precedes(o, f[node])}
           g == [c \in S |-> f[c]]
<1>1. /\ \A c \in Children(before, Parent(node)) :
            f[c] \in Children(after, Parent(f[node])) /\ after[f[c]] = before[c]
      /\ \A other \in Children(after, Parent(f[node])) : after[other] = after[f[node]] =>
            \E c \in Children(before, Parent(node)) : f[c] = other /\ before[c] = before[node]
    BY SiblingsOfEmbedded
<1>2. \A a, b \in DOMAIN before : (f[a] = f[b] => a = b) /\ (Precedes(f[a], f[b]) <=> Precedes(a, b))
    BY DEF IsEmbedding
<1>3. after[f[node]] = before[node] BY DEF IsHarmless
<1>4. S \in SUBSET DOMAIN before /\ \A c \in Children(before, Parent(node)) : c \in DOMAIN before
    BY DEF Children
<1>5. IsFiniteSet(S) BY <1>4, FS_Subset DEF IsTree
<1>6. g \in [S -> T] BY <1>1, <1>2, <1>3, <1>4
<1>7. \A x, y \in S : g[x] = g[y] => x = y BY <1>2, <1>4
<1>8. \A y \in T : \E x \in S : g[x] = y BY <1>1, <1>2, <1>4
<1>9. Cardinality(T) = Cardinality(S)
    <2> HIDE DEF S, T, g
    <2> QED BY <1>5, <1>6, <1>7, <1>8, SameSize
<1> QED BY <1>9 DEF PlaceOfKind

LEMMA PartsOfParsed ==
    ASSUME NEW doc, IsTree(doc), NEW node \in DOMAIN doc, TypeAt(doc, node) # "unparsed"
    PROVE  \A i \in 0 .. Len(node) : TypeAt(doc, SubSeq(node, 1, i)) # "unparsed"
<1> DEFINE S == {n \in DOMAIN doc : TypeAt(doc, n) # "unparsed" =>
                    \A i \in 0 .. Len(n) : TypeAt(doc, SubSeq(n, 1, i)) # "unparsed"}
<1>1. Body \in S
    <2>1. Body \in DOMAIN doc /\ Body \in Seq(Nat \ {0}) /\ Len(Body) = 0 BY DEF IsTree, Body
    <2>2. SubSeq(Body, 1, 0) = Body
        <3>1. Len(SubSeq(Body, 1, 0)) = 0 /\ SubSeq(Body, 1, 0) \in Seq(Nat \ {0}) BY <2>1, InitialPart
        <3> QED BY <3>1, EmptySeq DEF Body
    <2>3. \A i \in 0 .. Len(Body) : i = 0 BY <2>1
    <2> QED BY <2>1, <2>2, <2>3
<1>2. ASSUME NEW n \in DOMAIN doc \ {Body}, Parent(n) \in S, TypeAt(doc, n) # "unparsed",
             NEW i \in 0 .. Len(n)
      PROVE  TypeAt(doc, SubSeq(n, 1, i)) # "unparsed"
    <2>1. n \in Nodes /\ n \in Seq(Nat \ {0}) /\ Len(n) \in Nat BY DEF IsTree, Nodes
    <2>2. Parent(n) = SubSeq(n, 1, Len(n) - 1) /\ Len(n) - 1 \in 0 .. Len(n) BY <2>1, ParentsAsParts
    <2>3. CASE i = Len(n)
        <3>1. SubSeq(n, 1, Len(n)) = n BY <2>1, SubSeqFull
        <3> QED BY <1>2, <2>3, <3>1
    <2>4. CASE i # Len(n)
        <3>1. i \in 0 .. Len(n) - 1 BY <2>1, <2>4
        <3>2. Len(Parent(n)) = Len(n) - 1 BY <2>1, ParentsOfNodes
        <3>3. SubSeq(Parent(n), 1, i) = SubSeq(n, 1, i) BY <2>1, <2>2, <3>1, PartOfPart
        <3>4. TypeAt(doc, Parent(n)) # "unparsed" BY <1>2, OpenNodes
        <3> QED BY <1>2, <3>1, <3>2, <3>3, <3>4
    <2> QED BY <2>3, <2>4
<1>3. DOMAIN doc \in SUBSET S
    <2>1. \A n \in DOMAIN doc \ {Body} : Parent(n) \in S => n \in S BY <1>2
    <2> HIDE DEF S
    <2> QED BY <1>1, <2>1, TreeInduction
<1> QED BY <1>3

LEMMA EmbeddedPaths ==
    ASSUME NEW before, IsTree(before), NEW after, IsTree(after), NEW f, IsEmbedding(before, after, f),
           IsHarmless(before, after, f), NEW node \in DOMAIN before, TypeAt(before, node) # "unparsed"
    PROVE  StructuralPath(after, f[node]) = StructuralPath(before, node)
<1> DEFINE p == StructuralPath(before, node)
           q == StructuralPath(after, f[node])
<1>1. f[node] \in DOMAIN after /\ Len(f[node]) = Len(node) BY DEF IsEmbedding
<1>2. Len(node) \in Nat /\ \A i \in 1 .. Len(node) :
          p[i] = <<before[SubSeq(node, 1, i)], PlaceOfKind(before, SubSeq(node, 1, i))>>
    BY PathsOfNodes
<1>3. \A i \in 1 .. Len(node) :
          q[i] = <<after[SubSeq(f[node], 1, i)], PlaceOfKind(after, SubSeq(f[node], 1, i))>>
    BY <1>1, PathsOfNodes
<1>4. ASSUME NEW i \in 1 .. Len(node) PROVE q[i] = p[i]
    <2> DEFINE part == SubSeq(node, 1, i)
    <2>1. i \in 0 .. Len(node) BY <1>2
    <2>2. SubSeq(f[node], 1, i) = f[part] BY <2>1 DEF IsEmbedding
    <2>3. part \in DOMAIN before /\ TypeAt(before, part) # "unparsed" BY <2>1, NodesAbove, PartsOfParsed
    <2>4. part # Body
        <3>1. part \in Children(before, SubSeq(node, 1, i - 1)) BY PathsOfNodes
        <3> QED BY <3>1 DEF Children
    <2> HIDE DEF part
    <2>5. after[f[part]] = before[part] BY <2>3 DEF IsHarmless
    <2>6. PlaceOfKind(after, f[part]) = PlaceOfKind(before, part) BY <2>3, <2>4, EmbeddedPlaces
    <2> HIDE DEF p, q
    <2>7. q[i] = <<after[f[part]], PlaceOfKind(after, f[part])>> BY <1>3, <2>2
    <2>8. p[i] = <<before[part], PlaceOfKind(before, part)>> BY <1>2 DEF part
    <2> QED BY <2>5, <2>6, <2>7, <2>8
<1>5. q = p
    <2>1. p = [i \in 1 .. Len(node) |-> p[i]] /\ q = [i \in 1 .. Len(node) |-> q[i]]
        <3>1. DOMAIN node = 1 .. Len(node) /\ DOMAIN f[node] = 1 .. Len(node)
            <4>1. node \in Seq(Nat \ {0}) /\ f[node] \in Seq(Nat \ {0}) BY <1>1 DEF IsTree, Nodes
            <4> QED BY <1>1, <4>1
        <3> QED BY <3>1 DEF StructuralPath
    <2> HIDE DEF p, q
    <2> QED BY <1>4, <2>1
<1> QED BY <1>5

LEMMA PropertiesAreNotContent ==
    ASSUME NEW doc, NEW node, NEW parent \in RecordSet, doc[node] \in PropertyTags
    PROVE  RecordBelow(doc, node, parent).type \in {"properties_raw", "opaque", "unparsed"}
<1> DEFINE once == Entry(TakenOnce, parent.type, doc[node])
           many == Entry(Decomposed, parent.type, doc[node])
           type == IF once # {} /\ ~IsFirstOfKind(doc, node) THEN "opaque"
                   ELSE IF once \cup many # {} THEN CHOOSE t \in once \cup many : TRUE
                   ELSE "opaque"
           depth == IF Nests(type) THEN parent.depth + 1 ELSE parent.depth
           record == RecordBelow(doc, node, parent)
<1>1. CASE parent.type \notin DOMAIN Decomposed \/ parent.limited
    BY <1>1 DEF RecordBelow, Unparsed
<1>2. CASE ~(parent.type \notin DOMAIN Decomposed \/ parent.limited)
    <2>1. record = [type |-> type, depth |-> depth, limited |-> Nests(type) /\ depth >= MaxDepth]
        BY <1>2 DEF RecordBelow
    <2>2. type = "opaque" \/ type \in once \cup many
        <3> HIDE DEF once, many
        <3> QED OBVIOUS
    <2>3. many = {}
        <3>1. \A t \in DOMAIN Decomposed[parent.type] : doc[node] \notin Decomposed[parent.type][t]
            <4>1. CASE parent.type = "story"
                BY <4>1 DEF Decomposed, PropertyTags, BlockContainers
            <4>2. CASE parent.type \in {"block_container", "table_cell"}
                <5>1. Decomposed[parent.type] = Blocks BY <4>2 DEF Decomposed
                <5> QED BY <5>1 DEF Blocks, PropertyTags, BlockContainers
            <4>3. CASE parent.type \in {"paragraph", "run_container"}
                <5>1. Decomposed[parent.type] = Inline BY <4>3 DEF Decomposed
                <5> QED BY <5>1 DEF Inline, PropertyTags, RunContainers, BlockContainers
            <4>4. CASE parent.type \in {"table", "table_row", "table_grid"}
                BY <4>4 DEF Decomposed, PropertyTags
            <4>5. CASE parent.type = "run_raw"
                BY <4>5 DEF Decomposed, PropertyTags, TextFragments
            <4> QED BY <1>2, <4>1, <4>2, <4>3, <4>4, <4>5 DEF Decomposed
        <3> QED BY <1>2, <3>1 DEF Entry
    <2>4. once \in SUBSET {"properties_raw"}
        <3>1. CASE parent.type \notin DOMAIN TakenOnce BY <3>1 DEF Entry
        <3>2. CASE parent.type = "table"
            <4>1. TakenOnce[parent.type] = [properties_raw |-> {"tblPr"}, table_grid |-> {"tblGrid"}]
                BY <3>2 DEF TakenOnce
            <4> QED BY <4>1 DEF Entry, PropertyTags
        <3>3. CASE parent.type = "table_row" BY <3>3 DEF Entry, TakenOnce
        <3>4. CASE parent.type = "table_cell" BY <3>4 DEF Entry, TakenOnce
        <3>5. CASE parent.type = "paragraph" BY <3>5 DEF Entry, TakenOnce
        <3>6. CASE parent.type = "run_raw" BY <3>6 DEF Entry, TakenOnce
        <3> QED BY <3>1, <3>2, <3>3, <3>4, <3>5, <3>6 DEF TakenOnce
    <2> HIDE DEF once, many, type, depth, record
    <2>5. record.type = type BY <2>1
    <2> QED BY <2>2, <2>3, <2>4, <2>5 DEF record
<1> QED BY <1>1, <1>2

LEMMA HarmlessEditsCarry ==
    ASSUME NEW before, IsTree(before), NEW after, IsTree(after), NEW f, IsEmbedding(before, after, f),
           IsHarmless(before, after, f)
    PROVE  Carries(before, after, f)
<1>1. \A node \in DOMAIN before : Records(after)[f[node]] = Records(before)[node] BY EmbeddedRecords
<1>2. \A node \in DOMAIN before : TypeAt(before, node) # "unparsed" =>
          after[f[node]] = before[node] /\ StructuralPath(after, f[node]) = StructuralPath(before, node)
    BY EmbeddedPaths DEF IsHarmless
<1>3. ASSUME NEW new \in DOMAIN after, IsNew(before, f, new)
      PROVE  TypeAt(after, new) \in {"properties_raw", "opaque", "unparsed"}
    <2>1. PICK node \in DOMAIN before :
              /\ Parent(new) = f[node]
              /\ IsOpen(before, node) => after[new] \in PropertyTags
        BY <1>3 DEF IsHarmless
    <2>2. new # Body BY <1>3 DEF IsHarmless
    <2> DEFINE parent == Records(before)[node]
    <2>3. Records(after)[new] = RecordBelow(after, new, parent) BY <1>1, <2>1, <2>2, RecordsOfTree
    <2>4. parent \in RecordSet BY RecordsOfTree
    <2>5. CASE IsOpen(before, node)
        BY <2>1, <2>3, <2>4, <2>5, PropertiesAreNotContent DEF TypeAt
    <2>6. CASE ~IsOpen(before, node)
        <3>1. RecordBelow(after, new, parent).type = "unparsed"
            BY <2>4, <2>6, OpenRecords DEF IsOpen, TypeAt
        <3> QED BY <2>3, <3>1 DEF TypeAt
    <2> QED BY <2>5, <2>6
<1> QED BY <1>1, <1>2, <1>3 DEF Carries

-------------------------------------------------------------------------------
(***************************************************************************)
(* What carries on from one edit to the next, and what is carried.         *)
(***************************************************************************)
LEMMA NothingIsEdited ==
    ASSUME NEW doc, IsTree(doc)
    PROVE  Carries(doc, doc, [node \in DOMAIN doc |-> node])
<1> DEFINE f == [node \in DOMAIN doc |-> node]
<1>1. /\ Body \in DOMAIN doc /\ \A node \in DOMAIN doc \ {Body} : Parent(node) \in DOMAIN doc
      /\ \A node \in DOMAIN doc : \A n \in 0 .. Len(node) : SubSeq(node, 1, n) \in DOMAIN doc
    BY NodesAbove DEF IsTree
<1>2. f \in [DOMAIN doc -> DOMAIN doc] /\ \A node \in DOMAIN doc : f[node] = node OBVIOUS
<1> HIDE DEF f
<1>3. IsEmbedding(doc, doc, f) BY <1>1, <1>2 DEF IsEmbedding
<1>4. \A node \in DOMAIN doc : ~IsNew(doc, f, node) BY <1>2 DEF IsNew
<1> QED BY <1>2, <1>3, <1>4 DEF Carries, f

LEMMA EditAfterEdit ==
    ASSUME NEW a, IsTree(a), NEW b, IsTree(b), NEW c, IsTree(c),
           NEW f, Carries(a, b, f), NEW g, Carries(b, c, g)
    PROVE  Carries(a, c, [node \in DOMAIN a |-> g[f[node]]])
<1> DEFINE h == [node \in DOMAIN a |-> g[f[node]]]
<1>1. /\ f \in [DOMAIN a -> DOMAIN b] /\ f[Body] = Body
      /\ \A node \in DOMAIN a :
            Len(f[node]) = Len(node) /\ \A n \in 0 .. Len(node) : SubSeq(f[node], 1, n) = f[SubSeq(node, 1, n)]
      /\ \A node \in DOMAIN a \ {Body} : f[node] # Body /\ Parent(f[node]) = f[Parent(node)]
      /\ \A x, y \in DOMAIN a : /\ f[x] = f[y] => x = y
                                /\ IsStrictPrefix(f[x], f[y]) <=> IsStrictPrefix(x, y)
                                /\ Precedes(f[x], f[y]) <=> Precedes(x, y)
    BY DEF Carries, IsEmbedding
<1>2. /\ g \in [DOMAIN b -> DOMAIN c] /\ g[Body] = Body
      /\ \A node \in DOMAIN b :
            Len(g[node]) = Len(node) /\ \A n \in 0 .. Len(node) : SubSeq(g[node], 1, n) = g[SubSeq(node, 1, n)]
      /\ \A node \in DOMAIN b \ {Body} : g[node] # Body /\ Parent(g[node]) = g[Parent(node)]
      /\ \A x, y \in DOMAIN b : /\ g[x] = g[y] => x = y
                                /\ IsStrictPrefix(g[x], g[y]) <=> IsStrictPrefix(x, y)
                                /\ Precedes(g[x], g[y]) <=> Precedes(x, y)
    BY DEF Carries, IsEmbedding
<1>3. \A node \in DOMAIN a : f[node] \in DOMAIN b /\ h[node] = g[f[node]] BY <1>1
<1>4. h \in [DOMAIN a -> DOMAIN c] BY <1>1, <1>2
<1>5. /\ Body \in DOMAIN a /\ \A node \in DOMAIN a \ {Body} : Parent(node) \in DOMAIN a
      /\ \A node \in DOMAIN a : \A n \in 0 .. Len(node) : SubSeq(node, 1, n) \in DOMAIN a
    BY NodesAbove DEF IsTree
<1> HIDE DEF h
<1>6. h[Body] = Body BY <1>1, <1>2, <1>3, <1>5
<1>7. \A node \in DOMAIN a :
          Len(h[node]) = Len(node) /\ \A n \in 0 .. Len(node) : SubSeq(h[node], 1, n) = h[SubSeq(node, 1, n)]
    <2> SUFFICES ASSUME NEW node \in DOMAIN a
                 PROVE  /\ Len(h[node]) = Len(node)
                        /\ \A n \in 0 .. Len(node) : SubSeq(h[node], 1, n) = h[SubSeq(node, 1, n)]
        OBVIOUS
    <2>1. f[node] \in DOMAIN b /\ h[node] = g[f[node]] /\ Len(f[node]) = Len(node) BY <1>1, <1>3
    <2>2. ASSUME NEW n \in 0 .. Len(node) PROVE SubSeq(h[node], 1, n) = h[SubSeq(node, 1, n)]
        <3>1. SubSeq(g[f[node]], 1, n) = g[SubSeq(f[node], 1, n)] BY <1>2, <2>1
        <3>2. SubSeq(f[node], 1, n) = f[SubSeq(node, 1, n)] BY <1>1
        <3>3. SubSeq(node, 1, n) \in DOMAIN a BY <1>5
        <3> QED BY <1>3, <2>1, <3>1, <3>2, <3>3
    <2> QED BY <1>2, <2>1, <2>2
<1>8. \A node \in DOMAIN a \ {Body} : h[node] # Body /\ Parent(h[node]) = h[Parent(node)]
    BY <1>1, <1>2, <1>3, <1>5
<1>9. \A x, y \in DOMAIN a : /\ h[x] = h[y] => x = y
                             /\ IsStrictPrefix(h[x], h[y]) <=> IsStrictPrefix(x, y)
                             /\ Precedes(h[x], h[y]) <=> Precedes(x, y)
    BY <1>1, <1>2, <1>3
<1>10. IsEmbedding(a, c, h) BY <1>4, <1>6, <1>7, <1>8, <1>9 DEF IsEmbedding
<1>11. \A node \in DOMAIN a : Records(c)[h[node]] = Records(a)[node]
    BY <1>3 DEF Carries
<1>12. \A node \in DOMAIN a : TypeAt(a, node) # "unparsed" =>
          c[h[node]] = a[node] /\ StructuralPath(c, h[node]) = StructuralPath(a, node)
    <2> SUFFICES ASSUME NEW node \in DOMAIN a, TypeAt(a, node) # "unparsed"
                 PROVE  c[h[node]] = a[node] /\ StructuralPath(c, h[node]) = StructuralPath(a, node)
        OBVIOUS
    <2>1. TypeAt(b, f[node]) # "unparsed" BY DEF Carries, TypeAt
    <2>2. b[f[node]] = a[node] /\ StructuralPath(b, f[node]) = StructuralPath(a, node) BY DEF Carries
    <2>3. c[g[f[node]]] = b[f[node]] /\ StructuralPath(c, g[f[node]]) = StructuralPath(b, f[node])
        BY <1>3, <2>1 DEF Carries
    <2> QED BY <1>3, <2>2, <2>3
<1>13. ASSUME NEW new \in DOMAIN c, IsNew(a, h, new)
       PROVE  TypeAt(c, new) \in {"properties_raw", "opaque", "unparsed"}
    <2>1. CASE IsNew(b, g, new) BY <2>1 DEF Carries
    <2>2. CASE ~IsNew(b, g, new)
        <3>1. PICK old \in DOMAIN b : g[old] = new BY <2>2 DEF IsNew
        <3>2. IsNew(a, f, old) BY <1>3, <1>13, <3>1 DEF IsNew
        <3>3. TypeAt(b, old) \in {"properties_raw", "opaque", "unparsed"} BY <3>2 DEF Carries
        <3> QED BY <3>1, <3>3 DEF Carries, TypeAt
    <2> QED BY <2>1, <2>2
<1>14. Carries(a, c, h) BY <1>10, <1>11, <1>12, <1>13 DEF Carries
<1> QED BY <1>14 DEF h

LEMMA CarriedTypes ==
    ASSUME NEW before, IsTree(before), NEW after, IsTree(after), NEW f, Carries(before, after, f),
           NEW types, types \cap {"properties_raw", "opaque", "unparsed"} = {}
    PROVE  OfType(Records(after), types) = {f[node] : node \in OfType(Records(before), types)}
<1>1. /\ \A node \in DOMAIN before : node \in OfType(Records(before), types) <=> TypeAt(before, node) \in types
      /\ \A node \in DOMAIN after : node \in OfType(Records(after), types) <=> TypeAt(after, node) \in types
      /\ OfType(Records(before), types) \in SUBSET DOMAIN before
      /\ OfType(Records(after), types) \in SUBSET DOMAIN after
    BY NodesByType
<1>2. \A node \in DOMAIN before : f[node] \in DOMAIN after /\ TypeAt(after, f[node]) = TypeAt(before, node)
    BY DEF Carries, IsEmbedding, TypeAt
<1>3. ASSUME NEW node \in DOMAIN after, TypeAt(after, node) \in types
      PROVE  \E old \in DOMAIN before : f[old] = node
    BY <1>3 DEF Carries, IsNew
<1> QED BY <1>1, <1>2, <1>3

ShownIn(doc, node) ==
    {other \in Below(doc, node) :
        Records(doc)[other].type = "text_fragment" /\ doc[other] \in ContributingTags}

LEMMA CarriedText ==
    ASSUME NEW before, IsTree(before), NEW after, IsTree(after), NEW f, Carries(before, after, f),
           NEW node \in DOMAIN before
    PROVE  DefaultText(after, f[node]) = DefaultText(before, node)
<1> DEFINE S == ShownIn(before, node)
           T == ShownIn(after, f[node])
           a == InDocumentOrder(S)
           b == InDocumentOrder(T)
           g == [x \in S |-> f[x]]
<1>1. /\ \A x \in DOMAIN before : f[x] \in DOMAIN after
      /\ \A x \in DOMAIN before : TypeAt(after, f[x]) = TypeAt(before, x)
      /\ \A x, y \in DOMAIN before : /\ f[x] = f[y] => x = y
                                     /\ IsStrictPrefix(f[x], f[y]) <=> IsStrictPrefix(x, y)
                                     /\ Precedes(f[x], f[y]) <=> Precedes(x, y)
    BY DEF Carries, IsEmbedding, TypeAt
<1>2. \A x \in DOMAIN before : TypeAt(before, x) = "text_fragment" => after[f[x]] = before[x]
    BY DEF Carries
<1>3. /\ S = {x \in DOMAIN before : IsStrictPrefix(node, x) /\ TypeAt(before, x) = "text_fragment"
                                    /\ before[x] \in ContributingTags}
      /\ T = {x \in DOMAIN after : IsStrictPrefix(f[node], x) /\ TypeAt(after, x) = "text_fragment"
                                   /\ after[x] \in ContributingTags}
    BY DEF ShownIn, Below, TypeAt
<1>4. \A y \in DOMAIN after : TypeAt(after, y) = "text_fragment" => \E x \in DOMAIN before : f[x] = y
    BY DEF Carries, IsNew
<1>5. g \in [S -> T] BY <1>1, <1>2, <1>3
<1>6. \A y \in T : \E x \in S : g[x] = y BY <1>1, <1>2, <1>3, <1>4
<1>7. \A x, y \in S : (g[x] = g[y] => x = y) /\ (Precedes(g[x], g[y]) <=> Precedes(x, y)) BY <1>1, <1>3
<1>8. S \in SUBSET Nodes /\ T \in SUBSET Nodes /\ IsFiniteSet(S)
    <2>1. S \in SUBSET DOMAIN before /\ T \in SUBSET DOMAIN after BY <1>3
    <2> HIDE DEF S, T
    <2> QED BY <2>1, FS_Subset DEF IsTree
<1>9. /\ DefaultText(before, node) = [i \in DOMAIN a |-> before[a[i]]]
      /\ DefaultText(after, f[node]) = [i \in DOMAIN b |-> after[b[i]]]
    BY DEF DefaultText, ShownIn
<1>10. DOMAIN b = DOMAIN a /\ \A i \in DOMAIN a : b[i] = g[a[i]]
    <2> HIDE DEF S, T, g
    <2> QED BY <1>5, <1>6, <1>7, <1>8, OrderOfImage
<1>11. \A i \in DOMAIN a : a[i] \in S
    <2> HIDE DEF S
    <2> QED BY <1>8, InDocumentOrderLists
<1>12. \A x \in S : x \in DOMAIN before /\ g[x] = f[x] /\ TypeAt(before, x) = "text_fragment" BY <1>3
<1> HIDE DEF S, T, a, b, g
<1>13. \A i \in DOMAIN a : after[b[i]] = before[a[i]] BY <1>2, <1>10, <1>11, <1>12
<1> QED BY <1>9, <1>10, <1>13

LEMMA CarriedTarget ==
    ASSUME NEW before, IsTree(before), NEW after, IsTree(after), NEW f, Carries(before, after, f),
           NEW node \in DOMAIN before, TypeAt(before, node) # "unparsed"
    PROVE  /\ f[node] \in DOMAIN after /\ TypeAt(after, f[node]) = TypeAt(before, node)
           /\ after[f[node]] = before[node]
           /\ StructuralPath(after, f[node]) = StructuralPath(before, node)
           /\ Resolve(after, StructuralPath(before, node)) = {f[node]}
           /\ DefaultText(after, f[node]) = DefaultText(before, node)
<1>1. f[node] \in DOMAIN after BY DEF Carries, IsEmbedding
<1>2. /\ TypeAt(after, f[node]) = TypeAt(before, node) /\ after[f[node]] = before[node]
      /\ StructuralPath(after, f[node]) = StructuralPath(before, node)
    BY DEF Carries, TypeAt
<1> QED BY <1>1, <1>2, PathLeadsToNode, CarriedText

(***************************************************************************)
(* The edits of the patcher and of the review copy are harmless: a new     *)
(* element goes where nothing has a record, or is the first w:pPr or w:rPr *)
(* of its parent; an element without a record gets another tag.            *)
(***************************************************************************)
LEMMA InsertionsCarry ==
    ASSUME NEW doc, IsTree(doc), NEW parent \in DOMAIN doc, NEW position \in Nat \ {0}, NEW tag,
           IsOpen(doc, parent) => tag \in PropertyTags /\ Peers(doc, parent, tag) = {}
    PROVE  Carries(doc, Inserted(doc, parent, position, tag),
                   [node \in DOMAIN doc |-> Moved(node, parent, position)])
<1> DEFINE after == Inserted(doc, parent, position, tag)
           f == [node \in DOMAIN doc |-> Moved(node, parent, position)]
           new == Append(parent, position)
<1>1. IsTree(after) BY InsertedTree
<1>2. GrowsAt(doc, after, f, parent, new, tag) BY InsertionGrows
<1> HIDE DEF after, f, new
<1>3. IsEmbedding(doc, after, f) BY <1>2 DEF GrowsAt
<1>4. IsHarmless(doc, after, f) BY <1>2 DEF GrowsAt, IsHarmless
<1>5. Carries(doc, after, f) BY <1>1, <1>3, <1>4, HarmlessEditsCarry
<1> QED BY <1>5 DEF f, after

LEMMA RetaggingCarries ==
    ASSUME NEW doc, IsTree(doc), NEW parent \in DOMAIN doc, ~IsOpen(doc, parent),
           NEW retagged \in SUBSET Children(doc, parent), NEW tag
    PROVE  LET after == [node \in DOMAIN doc |-> IF node \in retagged THEN tag ELSE doc[node]]
           IN  IsTree(after) /\ Carries(doc, after, [node \in DOMAIN doc |-> node])
<1> DEFINE after == [node \in DOMAIN doc |-> IF node \in retagged THEN tag ELSE doc[node]]
           f == [node \in DOMAIN doc |-> node]
<1>1. DOMAIN after = DOMAIN doc OBVIOUS
<1>2. IsTree(after)
    <2> HIDE DEF after
    <2> QED BY <1>1 DEF IsTree
<1>3. \A node \in retagged : node \in DOMAIN doc \ {Body} /\ Parent(node) = parent BY DEF Children
<1>4. \A node \in retagged : TypeAt(doc, node) = "unparsed" BY <1>3, OpenNodes
<1>5. \A node \in DOMAIN doc : TypeAt(doc, node) # "unparsed" => after[node] = doc[node] BY <1>4
<1> HIDE DEF after
<1>6. f \in [DOMAIN doc -> DOMAIN after] /\ \A node \in DOMAIN doc : f[node] = node BY <1>1
<1>7. IsEmbedding(doc, doc, f) BY NothingIsEdited DEF Carries
<1> HIDE DEF f
<1>8. IsEmbedding(doc, after, f) BY <1>1, <1>7 DEF IsEmbedding
<1>9. IsHarmless(doc, after, f) BY <1>1, <1>5, <1>6 DEF IsHarmless, IsNew
<1>10. Carries(doc, after, f) BY <1>2, <1>8, <1>9, HarmlessEditsCarry
<1> QED BY <1>2, <1>10 DEF f, after
(***************************************************************************)
(* A path does not depend on what is below a node that is not above its    *)
(* own: the path of a run is the same however other runs, or itself, were  *)
(* changed inside.                                                         *)
(***************************************************************************)
LEMMA SamePath ==
    ASSUME NEW a, IsTree(a), NEW b, IsTree(b), NEW inside \in SUBSET Nodes,
           \A node \in Nodes : (\A top \in inside : ~IsStrictPrefix(top, node)) => SameAt(a, b, node),
           NEW target \in DOMAIN a, \A top \in inside : ~IsStrictPrefix(top, target)
    PROVE  target \in DOMAIN b /\ b[target] = a[target] /\ StructuralPath(b, target) = StructuralPath(a, target)
<1>1. DOMAIN a \in SUBSET Nodes /\ DOMAIN b \in SUBSET Nodes BY DEF IsTree
<1>2. target \in Nodes /\ target \in Seq(Nat \ {0}) BY <1>1 DEF Nodes
<1>3. target \in DOMAIN b /\ b[target] = a[target] BY <1>2 DEF SameAt
<1>4. /\ DOMAIN StructuralPath(a, target) = 1 .. Len(target) /\ Len(target) \in Nat
      /\ \A i \in 1 .. Len(target) : StructuralPath(a, target)[i] =
             <<a[SubSeq(target, 1, i)], PlaceOfKind(a, SubSeq(target, 1, i))>>
    BY PathsOfNodes
<1>5. /\ DOMAIN StructuralPath(b, target) = 1 .. Len(target)
      /\ \A i \in 1 .. Len(target) : StructuralPath(b, target)[i] =
             <<b[SubSeq(target, 1, i)], PlaceOfKind(b, SubSeq(target, 1, i))>>
    BY <1>3, PathsOfNodes
<1>6. ASSUME NEW i \in 1 .. Len(target)
      PROVE  LET part == SubSeq(target, 1, i)
             IN  a[part] = b[part] /\ PlaceOfKind(a, part) = PlaceOfKind(b, part)
    <2> DEFINE part == SubSeq(target, 1, i)
    <2>1. i \in 0 .. Len(target) /\ i >= 1 BY <1>4
    <2>2. part \in Nodes /\ Len(part) = i /\ part \in DOMAIN a BY <1>2, <2>1, InitialPart, NodesAbove DEF Nodes
    <2>3. part # Body BY <2>1, <2>2 DEF Body
    <2>4. part = target \/ IsStrictPrefix(part, target)
        <3>1. CASE i = Len(target) BY <1>2, <3>1
        <3>2. CASE i < Len(target)
            <4>1. \A j \in 1 .. i : part[j] = target[j] BY <1>2, <2>1, InitialPart
            <4>2. part \in Seq(Nat \ {0}) BY <2>2 DEF Nodes
            <4> HIDE DEF part
            <4> QED BY <1>2, <2>2, <3>2, <4>1, <4>2, StrictPrefixes
        <3> QED BY <1>4, <3>1, <3>2
    <2> HIDE DEF part
    <2>5. \A top \in inside : ~IsStrictPrefix(top, part) BY <1>2, <2>2, <2>4, PrefixesChain
    <2>6. a[part] = b[part] BY <2>2, <2>5 DEF SameAt
    <2>7. Parent(part) \in Nodes BY <2>2, <2>3, ParentsOfNodes
    <2>8. ASSUME NEW other \in Nodes, other # Body, Parent(other) = Parent(part)
          PROVE  SameAt(a, b, other)
        <3>1. \A top \in inside : ~IsStrictPrefix(top, other)
            <4> SUFFICES ASSUME NEW top \in inside, IsStrictPrefix(top, other) PROVE FALSE OBVIOUS
            <4>1. top = Parent(other) \/ IsStrictPrefix(top, Parent(other)) BY <2>8, AboveTheParent
            <4>2. IsStrictPrefix(top, part) BY <2>2, <2>3, <2>8, <4>1, AboveTheParent
            <4> QED BY <2>5, <4>2
        <3> QED BY <3>1
    <2>9. {other \in Children(a, Parent(part)) : a[other] = a[part] /\ Precedes(other, part)} =
          {other \in Children(b, Parent(part)) : b[other] = b[part] /\ Precedes(other, part)}
        BY <1>1, <2>6, <2>8 DEF Children, SameAt
    <2>10. PlaceOfKind(a, part) = PlaceOfKind(b, part) BY <2>9 DEF PlaceOfKind
    <2> QED BY <2>6, <2>10 DEF part
<1>7. \A i \in 1 .. Len(target) : StructuralPath(a, target)[i] = StructuralPath(b, target)[i]
    BY <1>4, <1>5, <1>6
<1>8. StructuralPath(a, target) = [i \in 1 .. Len(target) |-> StructuralPath(a, target)[i]]
    BY <1>4 DEF StructuralPath
<1>9. StructuralPath(b, target) = [i \in 1 .. Len(target) |-> StructuralPath(b, target)[i]]
    BY <1>5 DEF StructuralPath
<1>10. StructuralPath(b, target) = StructuralPath(a, target)
    <2> DEFINE sa == StructuralPath(a, target)
               sb == StructuralPath(b, target)
    <2> HIDE DEF sa, sb
    <2>1. \A i \in 1 .. Len(target) : sa[i] = sb[i] BY <1>7 DEF sa, sb
    <2>2. sa = [i \in 1 .. Len(target) |-> sa[i]] BY <1>8 DEF sa
    <2>3. sb = [i \in 1 .. Len(target) |-> sb[i]] BY <1>9 DEF sb
    <2>4. sa = sb BY <2>1, <2>2, <2>3
    <2> QED BY <2>4 DEF sa, sb
<1> QED BY <1>3, <1>10

(***************************************************************************)
(* Whatever the document, its walks see the same paragraphs and runs.      *)
(***************************************************************************)
LEMMA WalksAgreeInATree ==
    ASSUME NEW doc, IsTree(doc)
    PROVE  WalksAgree(doc)
<1> DEFINE Runs == OfType(Records(doc), {"run_raw"})
           ancestors == [r \in Runs |-> ParagraphAncestors(doc, r)]
<1>1. /\ Runs \in SUBSET DOMAIN doc
      /\ \A n \in DOMAIN doc : n \in Runs <=> TypeAt(doc, n) = "run_raw"
      /\ TargetsOf(doc) \in SUBSET DOMAIN doc
    BY NodesByType DEF TargetsOf
<1>2. \A p \in Paragraphs(doc) : RunsOf(doc, p) = {r \in Runs : ancestors[r] = {p}}
    <2> SUFFICES ASSUME NEW p \in Paragraphs(doc)
                 PROVE  RunsOf(doc, p) = {r \in Runs : ancestors[r] = {p}}
        OBVIOUS
    <2>1. RunsOf(doc, p) = {r \in Runs : ParagraphAncestors(doc, r) = {p}} BY RunsOfAParagraph
    <2> QED BY <2>1
<1>3. \A r \in Runs : Cardinality(ancestors[r]) = 1
    <2> SUFFICES ASSUME NEW r \in Runs PROVE Cardinality(ancestors[r]) = 1 OBVIOUS
    <2>1. PICK p \in Paragraphs(doc) : ParagraphAncestors(doc, r) = {p} BY <1>1, ParagraphsAbove
    <2>2. ancestors[r] = {p} BY <2>1
    <2> QED BY <2>2, FS_Singleton
<1>4. \A node \in TargetsOf(doc) :
         /\ TargetRecords(doc, StructuralPath(doc, node)) = {node}
         /\ Resolve(doc, StructuralPath(doc, node)) = {node}
    BY <1>1, OneRecordOfPath, PathLeadsToNode DEF TargetsOf
<1> QED BY <1>2, <1>3, <1>4 DEF WalksAgree

-------------------------------------------------------------------------------
(***************************************************************************)
(* An edit that keeps what has a record; one such edit after another.      *)
(***************************************************************************)
IsEditOf(before, after) == IsTree(after) /\ \E f : Carries(before, after, f)

LEMMA EditsCompose ==
    ASSUME NEW a, IsTree(a), NEW b, IsEditOf(a, b), NEW c, IsEditOf(b, c)
    PROVE  IsEditOf(a, c)
<1>1. PICK f : Carries(a, b, f) BY DEF IsEditOf
<1>2. PICK g : Carries(b, c, g) BY DEF IsEditOf
<1>3. Carries(a, c, [node \in DOMAIN a |-> g[f[node]]])
    BY <1>1, <1>2, EditAfterEdit DEF IsEditOf
<1> QED BY <1>3 DEF IsEditOf

LEMMA NoEdit ==
    ASSUME NEW doc, IsTree(doc)
    PROVE  IsEditOf(doc, doc)
BY NothingIsEdited DEF IsEditOf

LEMMA InsertionIsAnEdit ==
    ASSUME NEW doc, IsTree(doc), NEW parent \in DOMAIN doc, NEW position \in Nat \ {0}, NEW tag,
           IsOpen(doc, parent) => tag \in PropertyTags /\ Peers(doc, parent, tag) = {}
    PROVE  IsEditOf(doc, Inserted(doc, parent, position, tag))
<1>1. IsTree(Inserted(doc, parent, position, tag)) BY InsertedTree
<1>2. Carries(doc, Inserted(doc, parent, position, tag),
              [node \in DOMAIN doc |-> Moved(node, parent, position)])
    BY InsertionsCarry
<1> QED BY <1>1, <1>2 DEF IsEditOf

(***************************************************************************)
(* A property container is there after EnsureContainer, in first place,    *)
(* and whatever is in it has no record.                                    *)
(***************************************************************************)
LEMMA ContainersAreNotOpen ==
    ASSUME NEW doc, IsTree(doc), NEW node \in DOMAIN doc \ {Body}, doc[node] \in PropertyTags
    PROVE  ~IsOpen(doc, node)
<1>1. /\ Records(doc)[Parent(node)] \in RecordSet
      /\ Records(doc)[node] = RecordBelow(doc, node, Records(doc)[Parent(node)])
    BY RecordsOfTree DEF IsTree
<1>2. TypeAt(doc, node) \in {"properties_raw", "opaque", "unparsed"}
    BY <1>1, PropertiesAreNotContent DEF TypeAt
<1>3. TypeAt(doc, node) \notin DOMAIN Decomposed BY <1>2 DEF Decomposed
<1> QED BY <1>3 DEF IsOpen

LEMMA EnsuredContainer ==
    ASSUME NEW doc, IsTree(doc), NEW node \in DOMAIN doc, NEW tag \in PropertyTags,
           Peers(doc, node, tag) \subseteq {Append(node, 1)}
    PROVE  /\ IsEditOf(doc, EnsureContainer(doc, node, tag))
           /\ Append(node, 1) \in DOMAIN EnsureContainer(doc, node, tag)
           /\ ~IsOpen(EnsureContainer(doc, node, tag), Append(node, 1))
<1>1. node \in Nodes BY DEF IsTree
<1>2. Append(node, 1) # Body BY <1>1 DEF Body, Nodes
<1>3. CASE Peers(doc, node, tag) # {}
    <2>1. EnsureContainer(doc, node, tag) = doc BY <1>3 DEF EnsureContainer
    <2>2. Append(node, 1) \in DOMAIN doc /\ doc[Append(node, 1)] = tag BY <1>3 DEF Peers, Children
    <2> QED BY <1>2, <2>1, <2>2, NoEdit, ContainersAreNotOpen
<1>4. CASE Peers(doc, node, tag) = {}
    <2> DEFINE ready == Inserted(doc, node, 1, tag)
    <2>1. EnsureContainer(doc, node, tag) = ready BY <1>4 DEF EnsureContainer
    <2>2. IsEditOf(doc, ready) BY <1>4, InsertionIsAnEdit
    <2>3. IsInsertion(doc, node, 1, tag, ready) BY InsertedTree
    <2>4. IsTree(ready) BY <2>2 DEF IsEditOf
    <2> HIDE DEF ready
    <2>5. Append(node, 1) \in DOMAIN ready /\ ready[Append(node, 1)] = tag BY <2>3 DEF IsInsertion
    <2> QED BY <1>2, <2>1, <2>2, <2>4, <2>5, ContainersAreNotOpen
<1> QED BY <1>3, <1>4

LEMMA RankedInsertionIsAnEdit ==
    ASSUME NEW doc, IsTree(doc), NEW container \in DOMAIN doc, ~IsOpen(doc, container), NEW tag, NEW rank
    PROVE  IsEditOf(doc, InsertedByRank(doc, container, tag, rank))
BY RankedPlaces, InsertionIsAnEdit

-------------------------------------------------------------------------------
(***************************************************************************)
(* What a path names, as the site of a rule, an item or a candidate.       *)
(***************************************************************************)
TypeOfTarget == [run |-> "run_raw", paragraph |-> "paragraph"]

IsTarget(doc, type, path, node) ==
    /\ type \in {"run", "paragraph"} /\ node \in DOMAIN doc
    /\ TypeAt(doc, node) = TypeOfTarget[type] /\ path = StructuralPath(doc, node)

NamesTarget(doc, type, path) == \E node \in DOMAIN doc : IsTarget(doc, type, path, node)

LEMMA TargetsOfEdited ==
    ASSUME NEW before, IsTree(before), NEW after, IsEditOf(before, after), NEW type, NEW path,
           NamesTarget(before, type, path)
    PROVE  NamesTarget(after, type, path)
<1>1. PICK node \in DOMAIN before : IsTarget(before, type, path, node) BY DEF NamesTarget
<1>2. PICK f : Carries(before, after, f) BY DEF IsEditOf
<1>3. TypeAt(before, node) # "unparsed" BY <1>1 DEF IsTarget, TypeOfTarget
<1>4. /\ f[node] \in DOMAIN after /\ TypeAt(after, f[node]) = TypeAt(before, node)
      /\ StructuralPath(after, f[node]) = StructuralPath(before, node)
    BY <1>2, <1>3, CarriedTarget DEF IsEditOf
<1> QED BY <1>1, <1>4 DEF NamesTarget, IsTarget

LEMMA TargetFound ==
    ASSUME NEW doc, IsTree(doc), NEW type, NEW path, NEW node, IsTarget(doc, type, path, node)
    PROVE  NodeAt(doc, path) = node
<1>1. Resolve(doc, path) = {node} BY PathLeadsToNode DEF IsTarget
<1> QED BY <1>1 DEF NodeAt

LEMMA SameTargetsAfterAnEdit ==
    ASSUME NEW before, IsTree(before), NEW after, IsEditOf(before, after)
    PROVE  SameTargets(before, after)
<1>1. PICK f : Carries(before, after, f) BY DEF IsEditOf
<1> SUFFICES ASSUME NEW node \in TargetsOf(before)
             PROVE  \E other \in Resolve(after, StructuralPath(before, node)) :
                        /\ after[other] = before[node]
                        /\ DefaultText(after, other) = DefaultText(before, node)
    BY DEF SameTargets
<1>2. node \in DOMAIN before /\ TypeAt(before, node) # "unparsed" BY NodesByType DEF TargetsOf
<1>3. /\ after[f[node]] = before[node]
      /\ Resolve(after, StructuralPath(before, node)) = {f[node]}
      /\ DefaultText(after, f[node]) = DefaultText(before, node)
    BY <1>1, <1>2, CarriedTarget DEF IsEditOf
<1> QED BY <1>3

-------------------------------------------------------------------------------
(***************************************************************************)
(* The patcher's edit of a site it accepts.                                *)
(***************************************************************************)
LEMMA PatchIsAnEdit ==
    ASSUME NEW doc, IsTree(doc), NEW site, NamesTarget(doc, site.type, site.path), IsPatchable(doc, site)
    PROVE  IsEditOf(doc, Patched(doc, site))
<1>1. PICK node \in DOMAIN doc : IsTarget(doc, site.type, site.path, node) BY DEF NamesTarget
<1>2. NodeAt(doc, site.path) = node BY <1>1, TargetFound
<1> DEFINE tag == PropertiesTag[site.type]
           ready == EnsureContainer(doc, node, tag)
           container == Append(node, 1)
           desired == DesiredTag[site.rule.property]
           present == Peers(ready, container, OtherTag[site.rule.property])
           retagged == [e \in DOMAIN ready |-> IF e \in present THEN desired ELSE ready[e]]
<1>3. tag \in PropertyTags BY <1>1 DEF IsTarget, PropertiesTag, PropertyTags
<1>4. Peers(doc, node, tag) \subseteq {container} BY <1>2 DEF IsPatchable
<1> HIDE DEF tag
<1>5. IsEditOf(doc, ready) /\ container \in DOMAIN ready /\ ~IsOpen(ready, container)
    BY <1>3, <1>4, EnsuredContainer
<1>6. Patched(doc, site) =
        IF present = {} THEN InsertedByRank(ready, container, desired, Rank[site.type]) ELSE retagged
    BY <1>2 DEF Patched, tag
<1>7. present \in SUBSET Children(ready, container) BY DEF Peers
<1> HIDE DEF ready, container, present
<1>8. IsTree(ready) BY <1>5 DEF IsEditOf
<1>9. IsEditOf(ready, InsertedByRank(ready, container, desired, Rank[site.type]))
    BY <1>5, <1>8, RankedInsertionIsAnEdit
<1>10. IsEditOf(ready, retagged)
    <2>1. LET after == [e \in DOMAIN ready |-> IF e \in present THEN desired ELSE ready[e]]
          IN  IsTree(after) /\ Carries(ready, after, [e \in DOMAIN ready |-> e])
        BY <1>5, <1>7, <1>8, RetaggingCarries
    <2> QED BY <2>1 DEF IsEditOf
<1> HIDE DEF retagged
<1>11. IsEditOf(ready, Patched(doc, site)) BY <1>6, <1>9, <1>10
<1> QED BY <1>5, <1>8, <1>11, EditsCompose

-------------------------------------------------------------------------------
(***************************************************************************)
(* The sites of a document are targets of it: the paragraphs and runs that *)
(* the walks of the session find, each with a rule of the profile.         *)
(***************************************************************************)
SitesIn(doc, rules) ==
    {site \in [type : {"run", "paragraph"}, path : {StructuralPath(doc, n) : n \in DOMAIN doc},
               rule : ToSet(rules)] :
        NamesTarget(doc, site.type, site.path)}

HasRules(profile) == profile.rules \in Seq(ToSet(profile.rules))

LEMMA RulesAreTheProfiles ==
    ASSUME NEW profile, HasRules(profile), NEW class, NEW type \in {"run", "paragraph"}
    PROVE  RulesFor(profile, class, type) \in Seq(ToSet(profile.rules))
<1> DEFINE rules == profile.rules
           R == ToSet(rules)
           having(i) == {j \in DOMAIN rules :
                            /\ rules[j].class = class
                            /\ rules[j].property = CanonicalProperties[type][i]}
           rulesOf == [i \in DOMAIN CanonicalProperties[type] |-> Selected(rules, having(i))]
<1>1. rules \in Seq(R) BY DEF HasRules
<1>2. DOMAIN CanonicalProperties[type] = 1 .. 2 BY DEF CanonicalProperties
<1>3. ASSUME NEW i \in 1 .. 2 PROVE Selected(rules, having(i)) \in Seq(R)
    <2>1. having(i) \in SUBSET DOMAIN rules OBVIOUS
    <2> HIDE DEF having, rules, R
    <2> QED BY <1>1, <2>1, SelectedElements
<1>4. RulesFor(profile, class, type) = FlattenSeq(rulesOf) BY DEF RulesFor
<1> HIDE DEF having, R
<1>5. rulesOf \in [1 .. 2 -> Seq(R)] BY <1>2, <1>3
<1> HIDE DEF rulesOf, rules
<1>6. rulesOf \in Seq(Seq(R))
    <2>1. \E n \in Nat : rulesOf \in [1 .. n -> Seq(R)] BY <1>5
    <2> DEFINE X == Seq(R)
    <2> HIDE DEF X
    <2>2. \E n \in Nat : rulesOf \in [1 .. n -> X] BY <2>1 DEF X
    <2>3. rulesOf \in Seq(X) BY <2>2, SeqDef
    <2> QED BY <2>3 DEF X
<1>7. FlattenSeq(rulesOf) \in Seq(R) BY <1>6, FlattenedElements
<1> QED BY <1>4, <1>7 DEF R, rules

LEMMA SitesAtATarget ==
    ASSUME NEW doc, IsTree(doc), NEW profile, NEW type, NEW node \in DOMAIN doc,
           IsTarget(doc, type, StructuralPath(doc, node), node),
           NEW rules \in Seq(ToSet(profile.rules))
    PROVE  SitesAt(doc, node, type, rules) \in Seq(SitesIn(doc, profile.rules))
<1> DEFINE S == SitesIn(doc, profile.rules)
           sites == SitesAt(doc, node, type, rules)
           R == ToSet(profile.rules)
<1>1. Len(rules) \in Nat /\ DOMAIN rules = 1 .. Len(rules) OBVIOUS
<1>2. sites = [i \in 1 .. Len(rules) |->
                  [type |-> type, path |-> StructuralPath(doc, node), rule |-> rules[i]]]
    BY <1>1 DEF SitesAt
<1>3. ASSUME NEW rule \in R
      PROVE  [type |-> type, path |-> StructuralPath(doc, node), rule |-> rule] \in S
    <2>1. type \in {"run", "paragraph"} BY DEF IsTarget
    <2>2. NamesTarget(doc, type, StructuralPath(doc, node)) BY DEF NamesTarget
    <2> HIDE DEF R
    <2> QED BY <2>1, <2>2 DEF SitesIn, R
<1>4. \A i \in 1 .. Len(rules) : rules[i] \in R BY <1>1, ElementOfSeq
<1> HIDE DEF S, sites, R
<1>5. sites \in [1 .. Len(rules) -> S] BY <1>2, <1>3, <1>4
<1>6. sites \in Seq(S) BY <1>1, <1>5, SeqDef
<1> QED BY <1>6 DEF S, sites

LEMMA SitesOfAParagraph ==
    ASSUME NEW doc, IsTree(doc), NEW profile, HasRules(profile), NEW paragraph \in Paragraphs(doc)
    PROVE  SitesOfParagraph(doc, paragraph, profile) \in Seq(SitesIn(doc, profile.rules))
<1> DEFINE S == SitesIn(doc, profile.rules)
           class == ClassOf(doc, paragraph)
           found == RunsOf(doc, paragraph)
           runs == InDocumentOrder(found)
           rules(type) == RulesFor(profile, class, type)
           sitesOf == [i \in DOMAIN runs |-> SitesAt(doc, runs[i], "run", rules("run"))]
<1>1. /\ OfType(Records(doc), {"run_raw"}) \in SUBSET DOMAIN doc
      /\ Paragraphs(doc) \in SUBSET DOMAIN doc
      /\ \A n \in DOMAIN doc : n \in OfType(Records(doc), {"run_raw"}) => TypeAt(doc, n) = "run_raw"
      /\ \A n \in DOMAIN doc : n \in Paragraphs(doc) => TypeAt(doc, n) = "paragraph"
    BY NodesByType DEF Paragraphs
<1>2. found \in SUBSET OfType(Records(doc), {"run_raw"}) BY RunsOfAParagraph
<1>3. found \in SUBSET Nodes /\ IsFiniteSet(found) BY <1>1, <1>2, FS_Subset DEF IsTree
<1>4. runs \in Seq(found)
    <2> HIDE DEF found
    <2> QED BY <1>3, InDocumentOrderLists
<1>5. rules("run") \in Seq(ToSet(profile.rules)) /\ rules("paragraph") \in Seq(ToSet(profile.rules))
    BY RulesAreTheProfiles
<1>6. SitesOfParagraph(doc, paragraph, profile) =
        SitesAt(doc, paragraph, "paragraph", rules("paragraph")) \o FlattenSeq(sitesOf)
    BY DEF SitesOfParagraph, SitesOfRuns
<1>7. SitesAt(doc, paragraph, "paragraph", rules("paragraph")) \in Seq(S)
    <2>1. IsTarget(doc, "paragraph", StructuralPath(doc, paragraph), paragraph)
        BY <1>1 DEF IsTarget, TypeOfTarget
    <2> HIDE DEF rules, class
    <2> QED BY <1>1, <1>5, <2>1, SitesAtATarget
<1>8. ASSUME NEW run \in found PROVE SitesAt(doc, run, "run", rules("run")) \in Seq(S)
    <2>1. IsTarget(doc, "run", StructuralPath(doc, run), run)
        BY <1>1, <1>2 DEF IsTarget, TypeOfTarget
    <2> HIDE DEF rules, class, found
    <2> QED BY <1>1, <1>2, <1>5, <2>1, SitesAtATarget
<1> HIDE DEF S, class, found, rules
<1>9. Len(runs) \in Nat /\ DOMAIN runs = 1 .. Len(runs) /\ \A i \in 1 .. Len(runs) : runs[i] \in found
    BY <1>4, ElementOfSeq
<1> HIDE DEF runs
<1>10. sitesOf \in [1 .. Len(runs) -> Seq(S)] BY <1>8, <1>9
<1> HIDE DEF sitesOf
<1>11. sitesOf \in Seq(Seq(S)) BY <1>9, <1>10, SeqDef
<1>12. FlattenSeq(sitesOf) \in Seq(S) BY <1>11, FlattenedElements
<1>13. SitesOfParagraph(doc, paragraph, profile) \in Seq(S) BY <1>6, <1>7, <1>12, ConcatProperties
<1> QED BY <1>13 DEF S

LEMMA SitesAreTargets ==
    ASSUME NEW doc, IsTree(doc), NEW profile, HasRules(profile)
    PROVE  SitesOf(doc, profile) \in Seq(SitesIn(doc, profile.rules))
<1> DEFINE S == SitesIn(doc, profile.rules)
           listed == Classified(doc)
           paragraphs == InDocumentOrder(listed)
           sitesOf == [i \in DOMAIN paragraphs |-> SitesOfParagraph(doc, paragraphs[i], profile)]
<1>1. listed \in SUBSET Paragraphs(doc) BY DEF Classified
<1>2. Paragraphs(doc) \in SUBSET DOMAIN doc BY NodesByType DEF Paragraphs
<1>3. listed \in SUBSET Nodes /\ IsFiniteSet(listed) BY <1>1, <1>2, FS_Subset DEF IsTree
<1>4. SitesOf(doc, profile) = FlattenSeq(sitesOf) BY DEF SitesOf, SitesOfParagraphs
<1> HIDE DEF listed
<1>5. paragraphs \in Seq(listed) BY <1>3, InDocumentOrderLists
<1>6. /\ Len(paragraphs) \in Nat /\ DOMAIN paragraphs = 1 .. Len(paragraphs)
      /\ \A i \in 1 .. Len(paragraphs) : paragraphs[i] \in listed
    BY <1>5, ElementOfSeq
<1> HIDE DEF S, paragraphs
<1>7. \A p \in listed : SitesOfParagraph(doc, p, profile) \in Seq(S)
    BY <1>1, SitesOfAParagraph DEF S
<1>8. sitesOf \in [1 .. Len(paragraphs) -> Seq(S)] BY <1>6, <1>7
<1> HIDE DEF sitesOf
<1>9. sitesOf \in Seq(Seq(S)) BY <1>6, <1>8, SeqDef
<1>10. FlattenSeq(sitesOf) \in Seq(S) BY <1>9, FlattenedElements
<1> QED BY <1>4, <1>10 DEF S

-------------------------------------------------------------------------------
(***************************************************************************)
(* The items of a report, and the candidates taken from them.              *)
(***************************************************************************)
IsListing(doc, items) ==
    \E E : items \in Seq(E) /\ \A item \in E : NamesTarget(doc, item.type, item.path)

LEMMA WiderSequence ==
    ASSUME NEW E, NEW F, E \subseteq F, NEW s \in Seq(E)
    PROVE  s \in Seq(F)
<1>1. Len(s) \in Nat /\ s \in [1 .. Len(s) -> E] BY SeqDef, LenProperties
<1>2. s \in [1 .. Len(s) -> F] BY <1>1
<1> QED BY <1>1, <1>2, SeqDef

LEMMA NothingListed ==
    ASSUME NEW doc
    PROVE  IsListing(doc, <<>>)
<1> DEFINE E == {}
<1>1. <<>> \in Seq(E) BY EmptySeq
<1>2. \A item \in E : NamesTarget(doc, item.type, item.path) OBVIOUS
<1> HIDE DEF E
<1> QED BY <1>1, <1>2 DEF IsListing

LEMMA ListingsJoin ==
    ASSUME NEW doc, NEW s, IsListing(doc, s), NEW t, IsListing(doc, t)
    PROVE  IsListing(doc, s \o t)
<1>1. PICK E : s \in Seq(E) /\ \A item \in E : NamesTarget(doc, item.type, item.path) BY DEF IsListing
<1>2. PICK F : t \in Seq(F) /\ \A item \in F : NamesTarget(doc, item.type, item.path) BY DEF IsListing
<1>3. s \in Seq(E \cup F) /\ t \in Seq(E \cup F)
    <2>1. E \subseteq E \cup F /\ F \subseteq E \cup F OBVIOUS
    <2> QED BY <1>1, <1>2, <2>1, WiderSequence
<1>4. s \o t \in Seq(E \cup F) BY <1>3, ConcatProperties
<1> QED BY <1>1, <1>2, <1>4 DEF IsListing

LEMMA ListingGrows ==
    ASSUME NEW doc, NEW s, IsListing(doc, s), NEW item, NamesTarget(doc, item.type, item.path)
    PROVE  IsListing(doc, Append(s, item))
<1>1. PICK E : s \in Seq(E) /\ \A i \in E : NamesTarget(doc, i.type, i.path) BY DEF IsListing
<1>2. s \in Seq(E \cup {item})
    <2>1. E \subseteq E \cup {item} OBVIOUS
    <2> QED BY <1>1, <2>1, WiderSequence
<1>3. Append(s, item) \in Seq(E \cup {item}) BY <1>2, AppendProperties
<1> QED BY <1>1, <1>3 DEF IsListing

LEMMA ListingOfEdited ==
    ASSUME NEW before, IsTree(before), NEW after, IsEditOf(before, after),
           NEW items, IsListing(before, items)
    PROVE  IsListing(after, items)
<1>1. PICK E : items \in Seq(E) /\ \A i \in E : NamesTarget(before, i.type, i.path) BY DEF IsListing
<1>2. \A i \in E : NamesTarget(after, i.type, i.path) BY <1>1, TargetsOfEdited
<1> QED BY <1>1, <1>2 DEF IsListing

LEMMA ItemsAreListed ==
    ASSUME NEW doc, NEW rules, NEW sites \in Seq(SitesIn(doc, rules)), NEW kind
    PROVE  IsListing(doc, ItemsFor(kind, doc, sites))
<1> DEFINE S == SitesIn(doc, rules)
           item(site) == Item(kind, site, HashNow(doc, site.path))
           E == {item(site) : site \in S}
<1>1. Len(sites) \in Nat /\ DOMAIN sites = 1 .. Len(sites) OBVIOUS
<1>2. \A i \in 1 .. Len(sites) : sites[i] \in S BY <1>1, ElementOfSeq
<1>3. ItemsFor(kind, doc, sites) = [i \in 1 .. Len(sites) |-> item(sites[i])] BY <1>1 DEF ItemsFor
<1>4. \A i \in E : NamesTarget(doc, i.type, i.path) BY DEF SitesIn, Item
<1> HIDE DEF S, item
<1>5. \A i \in 1 .. Len(sites) : item(sites[i]) \in E BY <1>2
<1> HIDE DEF E
<1>6. ItemsFor(kind, doc, sites) \in [1 .. Len(sites) -> E] BY <1>3, <1>5
<1>7. ItemsFor(kind, doc, sites) \in Seq(E) BY <1>1, <1>6, SeqDef
<1> QED BY <1>4, <1>7 DEF IsListing

LEMMA CandidatesAreTargets ==
    ASSUME NEW doc, NEW rep, IsListing(doc, ItemsOf(rep))
    PROVE  /\ Len(Candidates(rep)) \in Nat
           /\ \A n \in 1 .. Len(Candidates(rep)) :
                 NamesTarget(doc, Candidates(rep)[n].type, Candidates(rep)[n].path)
<1> DEFINE items == ItemsOf(rep)
           targets == [i \in DOMAIN items |-> Target(items[i])]
           first == {i \in DOMAIN targets : \A j \in 1 .. i - 1 : targets[j] # targets[i]}
           c == Candidates(rep)
<1>1. PICK E : items \in Seq(E) /\ \A i \in E : NamesTarget(doc, i.type, i.path) BY DEF IsListing
<1> DEFINE T == {Target(i) : i \in E}
<1>2. c = Selected(targets, first) BY DEF Candidates, Distinct
<1> HIDE DEF items
<1>3. Len(items) \in Nat /\ DOMAIN items = 1 .. Len(items) BY <1>1
<1>4. \A i \in 1 .. Len(items) : items[i] \in E BY <1>1, <1>3, ElementOfSeq
<1>5. targets \in [1 .. Len(items) -> T] BY <1>3, <1>4
<1>6. \A t \in T : NamesTarget(doc, t.type, t.path) BY <1>1 DEF Target
<1> HIDE DEF targets, T
<1>7. targets \in Seq(T) BY <1>3, <1>5, SeqDef
<1>8. first \in SUBSET DOMAIN targets OBVIOUS
<1> HIDE DEF first, c
<1>9. c \in Seq(T) BY <1>2, <1>7, <1>8, SelectedElements
<1>10. Len(c) \in Nat /\ \A n \in 1 .. Len(c) : c[n] \in T BY <1>9, ElementOfSeq
<1> QED BY <1>6, <1>10 DEF c

LEMMA NoCandidates == Len(Candidates(NoReport)) = 0
<1> DEFINE targets == [i \in DOMAIN ItemsOf(NoReport) |-> Target(ItemsOf(NoReport)[i])]
           first == {i \in DOMAIN targets : \A j \in 1 .. i - 1 : targets[j] # targets[i]}
<1>1. ItemsOf(NoReport) = <<>> BY DEF ItemsOf, NoReport
<1>2. DOMAIN ItemsOf(NoReport) = {} BY <1>1
<1>3. first = {} BY <1>2
<1>4. Candidates(NoReport) = Selected(targets, first) BY DEF Candidates, Distinct
<1> HIDE DEF targets, first
<1>5. Selected(targets, first) = [n \in 1 .. 0 |-> targets[Nth(first, n)]]
    BY <1>3, FS_EmptySet DEF Selected
<1>6. Selected(targets, first) = <<>> BY <1>5
<1> QED BY <1>4, <1>6

-------------------------------------------------------------------------------
(***************************************************************************)
(* A run whose children, and theirs, are the old ones at their places is   *)
(* to the marking what it was.                                             *)
(***************************************************************************)
IsLike(before, run, after, copy) ==
    /\ RunPropertiesCanonical(after, copy) <=> RunPropertiesCanonical(before, run)
    /\ IsHighlighted(after, copy) <=> IsHighlighted(before, run)
    /\ Cardinality(Highlights(after, copy)) = Cardinality(Highlights(before, run))
    /\ Reason(after, copy) = Reason(before, run)

KeepsTags(before, after, f) == \A node \in DOMAIN before : after[f[node]] = before[node]

KeepsChildren(before, after, f, node) ==
    Children(after, f[node]) = {f[c] : c \in Children(before, node)}

IsPeersImage(before, after, f, node, kind) ==
    Peers(after, f[node], kind) = {f[c] : c \in Peers(before, node, kind)}

LEMMA PeersOfImage ==
    ASSUME NEW before, NEW after, NEW f, KeepsTags(before, after, f),
           NEW node, KeepsChildren(before, after, f, node), NEW kind
    PROVE  IsPeersImage(before, after, f, node, kind)
<1>1. \A c \in Children(before, node) : c \in DOMAIN before BY DEF Children
<1> QED BY <1>1 DEF Peers, KeepsChildren, KeepsTags, IsPeersImage

LEMMA PropertiesOfImage ==
    ASSUME NEW before, IsTree(before), NEW after, IsTree(after), NEW f, IsEmbedding(before, after, f),
           KeepsTags(before, after, f),
           NEW node \in DOMAIN before, KeepsChildren(before, after, f, node)
    PROVE  PropertiesInOrder(after, f[node]) <=> PropertiesInOrder(before, node)
<1> DEFINE A == {child \in Children(before, node) : before[child] # "w14"}
           B == {child \in Children(after, f[node]) : after[child] # "w14"}
<1>1. \A c \in Children(before, node) : c \in DOMAIN before BY DEF Children
<1>2. B = {f[c] : c \in A} BY <1>1 DEF KeepsChildren, KeepsTags
<1>3. \A c \in A : after[f[c]] = before[c] /\ c \in DOMAIN before BY <1>1 DEF KeepsTags
<1>4. \A c, d \in A : Precedes(f[c], f[d]) <=> Precedes(c, d) BY <1>3 DEF IsEmbedding
<1>5. /\ PropertiesInOrder(before, node) <=>
            (\A child \in A : before[child] \in DOMAIN RunRank) /\ Sorted(before, A, RunRank)
      /\ PropertiesInOrder(after, f[node]) <=>
            (\A child \in B : after[child] \in DOMAIN RunRank) /\ Sorted(after, B, RunRank)
    BY DEF PropertiesInOrder
<1> HIDE DEF A, B
<1>6. Sorted(after, B, RunRank) <=> Sorted(before, A, RunRank)
    <2>1. Sorted(after, B, RunRank) <=>
             \A c, d \in A : Precedes(f[c], f[d]) => RunRank[after[f[c]]] <= RunRank[after[f[d]]]
        BY <1>2, Zenon DEF Sorted
    <2>2. ASSUME NEW c \in A, NEW d \in A
          PROVE  (Precedes(f[c], f[d]) => RunRank[after[f[c]]] <= RunRank[after[f[d]]]) <=>
                 (Precedes(c, d) => RunRank[before[c]] <= RunRank[before[d]])
        BY <1>3, <1>4, Zenon
    <2> QED BY <2>1, <2>2, Zenon DEF Sorted
<1>7. (\A child \in B : after[child] \in DOMAIN RunRank) <=> (\A child \in A : before[child] \in DOMAIN RunRank)
    BY <1>2, <1>3, Zenon
<1> QED BY <1>5, <1>6, <1>7

LEMMA UntouchedRun ==
    ASSUME NEW before, IsTree(before), NEW after, IsTree(after), NEW f, IsEmbedding(before, after, f),
           KeepsTags(before, after, f),
           NEW run \in DOMAIN before, KeepsChildren(before, after, f, run),
           \A c \in Children(before, run) :
              KeepsChildren(before, after, f, c) /\ (f[c] = Append(f[run], 1) <=> c = Append(run, 1))
    PROVE  IsLike(before, run, after, f[run])
<1> DEFINE P == Peers(before, run, "rPr")
           Q == Peers(after, f[run], "rPr")
<1>1. \A c \in Children(before, run) : c \in DOMAIN before /\ after[f[c]] = before[c]
    BY DEF Children, KeepsTags
<1>2. \A a, b \in DOMAIN before : f[a] = f[b] => a = b BY DEF IsEmbedding
<1>3. ASSUME NEW kind PROVE Peers(after, f[run], kind) = {f[c] : c \in Peers(before, run, kind)}
    <2>1. IsPeersImage(before, after, f, run, kind) BY PeersOfImage
    <2> QED BY <2>1 DEF IsPeersImage
<1>4. ASSUME NEW c \in Children(before, run), NEW kind
      PROVE  Peers(after, f[c], kind) = {f[d] : d \in Peers(before, c, kind)}
    <2>1. IsPeersImage(before, after, f, c, kind) BY PeersOfImage
    <2> QED BY <2>1 DEF IsPeersImage
<1>5. \A c \in Children(before, run) : PropertiesInOrder(after, f[c]) <=> PropertiesInOrder(before, c)
    BY <1>1, PropertiesOfImage
<1>6. Q = {f[c] : c \in P} /\ P \in SUBSET Children(before, run) /\ IsFiniteSet(P)
    BY <1>3, ChildrenAreNodes
<1>7. \A c \in Children(before, run) : \A kind : Peers(before, c, kind) \in SUBSET DOMAIN before
    BY DEF Peers, Children
<1>8. Cardinality(Q) = Cardinality(P)
    <2> DEFINE g == [c \in P |-> f[c]]
    <2>1. g \in [P -> Q] /\ \A q \in Q : \E c \in P : g[c] = q BY <1>6
    <2>2. \A c, d \in P : g[c] = g[d] => c = d BY <1>1, <1>2, <1>6
    <2> HIDE DEF g, P, Q
    <2> QED BY <1>6, <2>1, <2>2, SameSize
<1>9. RunPropertiesCanonical(after, f[run]) <=> RunPropertiesCanonical(before, run)
    <2>1. /\ RunPropertiesCanonical(before, run) <=> Cardinality(P) <= 1 /\
                \A c \in P : c = Append(run, 1) /\ PropertiesInOrder(before, c)
          /\ RunPropertiesCanonical(after, f[run]) <=> Cardinality(Q) <= 1 /\
                \A c \in Q : c = Append(f[run], 1) /\ PropertiesInOrder(after, c)
        BY DEF RunPropertiesCanonical
    <2>2. (\A c \in Q : c = Append(f[run], 1) /\ PropertiesInOrder(after, c)) <=>
          (\A c \in P : c = Append(run, 1) /\ PropertiesInOrder(before, c))
        <3> HIDE DEF P, Q
        <3> QED BY <1>5, <1>6, Zenon
    <2> HIDE DEF P, Q
    <2> QED BY <1>8, <2>1, <2>2
<1>10. IsHighlighted(after, f[run]) <=> IsHighlighted(before, run)
    <2>1. /\ IsHighlighted(before, run) <=>
                Cardinality(P) = 1 /\ \E c \in P : Peers(before, c, "highlight") # {}
          /\ IsHighlighted(after, f[run]) <=>
                Cardinality(Q) = 1 /\ \E c \in Q : Peers(after, c, "highlight") # {}
        BY DEF IsHighlighted
    <2>2. ASSUME NEW c \in P
          PROVE  Peers(after, f[c], "highlight") # {} <=> Peers(before, c, "highlight") # {}
        <3>1. Peers(after, f[c], "highlight") = {f[d] : d \in Peers(before, c, "highlight")}
            BY <1>4, <1>6
        <3> QED BY <3>1
    <2> HIDE DEF P, Q
    <2>3. (\E c \in Q : Peers(after, c, "highlight") # {}) <=> (\E c \in P : Peers(before, c, "highlight") # {})
        BY <1>6, <2>2, Zenon
    <2> QED BY <1>8, <2>1, <2>3
<1>11. Cardinality(Highlights(after, f[run])) = Cardinality(Highlights(before, run))
    <2> DEFINE H == Highlights(before, run)
               I == Highlights(after, f[run])
               g == [h \in H |-> f[h]]
    <2>1. /\ H = UNION {Peers(before, c, "highlight") : c \in P}
          /\ I = UNION {Peers(after, c, "highlight") : c \in Q}
        BY DEF Highlights
    <2>2. \A c \in P : c \in Children(before, run) BY <1>6
    <2>3. H \in SUBSET DOMAIN before
        <3> HIDE DEF P
        <3> QED BY <1>7, <2>1, <2>2
    <2>4. \A i : i \in I <=> \E c \in P : i \in Peers(after, f[c], "highlight")
        <3> HIDE DEF P, Q
        <3> QED BY <1>6, <2>1
    <2>5. \A h : h \in H <=> \E c \in P : h \in Peers(before, c, "highlight")
        <3> HIDE DEF P
        <3> QED BY <2>1
    <2>6. I = {f[h] : h \in H}
        <3> HIDE DEF P, H, I
        <3>1. ASSUME NEW i \in I PROVE \E h \in H : i = f[h]
            <4>1. PICK c \in P : i \in Peers(after, f[c], "highlight") BY <2>4
            <4>2. Peers(after, f[c], "highlight") = {f[d] : d \in Peers(before, c, "highlight")} BY <1>4, <2>2
            <4> QED BY <2>5, <4>1, <4>2
        <3>2. ASSUME NEW h \in H PROVE f[h] \in I
            <4>1. PICK c \in P : h \in Peers(before, c, "highlight") BY <2>5
            <4>2. Peers(after, f[c], "highlight") = {f[d] : d \in Peers(before, c, "highlight")} BY <1>4, <2>2
            <4> QED BY <2>4, <4>1, <4>2
        <3> QED BY <3>1, <3>2
    <2>7. IsFiniteSet(H)
        <3> HIDE DEF H
        <3> QED BY <2>3, FS_Subset DEF IsTree
    <2> HIDE DEF H, I
    <2>8. g \in [H -> I] /\ (\A i \in I : \E h \in H : g[h] = i) /\ (\A h, i \in H : g[h] = g[i] => h = i)
        BY <1>2, <2>3, <2>6
    <2> HIDE DEF g
    <2>9. Cardinality(I) = Cardinality(H) BY <2>7, <2>8, SameSize
    <2> QED BY <2>9 DEF H, I
<1>12. IsDeleted(after, f[run]) <=> IsDeleted(before, run)
    <2>1. Len(f[run]) = Len(run) /\ \A n \in 0 .. Len(run) : SubSeq(f[run], 1, n) = f[SubSeq(run, 1, n)]
        BY DEF IsEmbedding
    <2>2. Len(run) \in Nat /\ \A n \in 0 .. Len(run) : SubSeq(run, 1, n) \in DOMAIN before
        BY NodesAbove DEF IsTree, Nodes
    <2>3. ASSUME NEW n \in 1 .. Len(run) - 1 PROVE after[SubSeq(f[run], 1, n)] = before[SubSeq(run, 1, n)]
        <3>1. n \in 0 .. Len(run) BY <2>2
        <3>2. SubSeq(f[run], 1, n) = f[SubSeq(run, 1, n)] BY <2>1, <3>1
        <3>3. SubSeq(run, 1, n) \in DOMAIN before BY <2>2, <3>1
        <3> QED BY <3>2, <3>3 DEF KeepsTags
    <2>4. Peers(after, f[run], "delText") # {} <=> Peers(before, run, "delText") # {}
        <3>1. Peers(after, f[run], "delText") = {f[c] : c \in Peers(before, run, "delText")} BY <1>3
        <3> QED BY <3>1
    <2> QED BY <2>1, <2>3, <2>4 DEF IsDeleted
<1>13. (\A c \in Children(after, f[run]) : after[c] \notin Surface) <=>
       (\A c \in Children(before, run) : before[c] \notin Surface)
    BY <1>1 DEF KeepsChildren
<1>14. Reason(after, f[run]) = Reason(before, run)
    BY <1>9, <1>10, <1>12, <1>13 DEF Reason
<1> QED BY <1>9, <1>10, <1>11, <1>14 DEF IsLike

(***************************************************************************)
(* What is put into a run or into its first child is in no other run, as   *)
(* no run is in another.                                                   *)
(***************************************************************************)
IsRun(doc, node) == node \in DOMAIN doc /\ TypeAt(doc, node) = "run_raw"

LEMMA OtherRunsUntouched ==
    ASSUME NEW before, IsTree(before), NEW after, IsTree(after), NEW f, NEW parent, NEW new, NEW tag,
           GrowsAt(before, after, f, parent, new, tag),
           NEW x, IsRun(before, x), parent \in {x, Append(x, 1)},
           NEW y, IsRun(before, y), y # x
    PROVE  IsLike(before, y, after, f[y])
<1>1. /\ IsEmbedding(before, after, f) /\ KeepsTags(before, after, f)
      /\ \A node \in DOMAIN before \ {Body} : Parent(node) # parent => f[node][Len(node)] = node[Len(node)]
    BY DEF GrowsAt, KeepsTags
<1>2. x \in Nodes /\ y \in Nodes /\ x \in DOMAIN before /\ y \in DOMAIN before BY DEF IsTree, IsRun
<1>3. ~IsStrictPrefix(x, y) /\ ~IsStrictPrefix(y, x)
    BY <1>2, NoRunAboveARun DEF IsRun
<1>4. IsStrictPrefix(x, Append(x, 1)) /\ Parent(Append(x, 1)) = x BY <1>2, NewNode
<1>5. y # parent BY <1>3, <1>4
<1>6. ASSUME NEW c \in Children(before, y) PROVE c # parent
    <2>1. c \in Nodes /\ c # Body /\ Parent(c) = y BY ChildrenOfNode
    <2>2. IsStrictPrefix(y, c) BY <2>1, ParentsOfNodes
    <2> QED BY <1>3, <1>4, <2>1, <2>2
<1>7. \A node \in DOMAIN before \ {parent} : KeepsChildren(before, after, f, node)
    BY ChildrenOfGrown DEF KeepsChildren
<1>8. KeepsChildren(before, after, f, y) BY <1>2, <1>5, <1>7
<1>9. ASSUME NEW c \in Children(before, y)
      PROVE  KeepsChildren(before, after, f, c) /\ (f[c] = Append(f[y], 1) <=> c = Append(y, 1))
    <2>1. c \in DOMAIN before /\ c # Body /\ Parent(c) = y /\ c = Append(y, c[Len(c)]) BY ChildrenOfNode
    <2>2. KeepsChildren(before, after, f, c) BY <1>6, <1>7, <2>1
    <2>3. f[c] \in Children(after, f[y]) BY <1>1, <1>2, ChildrenOfEmbedded
    <2>4. f[c] = Append(f[y], f[c][Len(f[c])]) /\ f[y] \in Nodes BY <2>3, ChildrenOfNode
    <2>5. Len(f[c]) = Len(c) BY <1>1, <2>1 DEF IsEmbedding
    <2>6. f[c][Len(c)] = c[Len(c)] BY <1>1, <1>5, <2>1
    <2> DEFINE k == c[Len(c)]
    <2>7. c = Append(y, k) /\ f[c] = Append(f[y], k) BY <2>1, <2>4, <2>5, <2>6
    <2> HIDE DEF k
    <2>8. \A node \in Nodes : Append(node, k) = Append(node, 1) <=> k = 1
        <3> SUFFICES ASSUME NEW node \in Nodes, Append(node, k) = Append(node, 1) PROVE k = 1 OBVIOUS
        <3>1. node \in Seq(Nat \ {0}) /\ Len(node) + 1 # 0 BY DEF Nodes
        <3> QED BY <3>1
    <2> QED BY <1>2, <2>2, <2>4, <2>7, <2>8
<1> QED BY <1>1, <1>2, <1>8, <1>9, UntouchedRun

(***************************************************************************)
(* A run that can be marked has, or is given, one container in first place *)
(* with its properties in order and no highlight among them.               *)
(***************************************************************************)
IsReady(doc, run) ==
    /\ Peers(doc, run, "rPr") = {Append(run, 1)}
    /\ Peers(doc, Append(run, 1), "highlight") = {}
    /\ PropertiesInOrder(doc, Append(run, 1))

LEMMA ReadyAsItIs ==
    ASSUME NEW doc, IsTree(doc), NEW run, Reason(doc, run) = "none", Peers(doc, run, "rPr") # {}
    PROVE  IsReady(doc, run)
<1> DEFINE P == Peers(doc, run, "rPr")
<1>1. /\ Cardinality(P) <= 1
      /\ \A c \in P : c = Append(run, 1) /\ PropertiesInOrder(doc, c)
      /\ ~(Cardinality(P) = 1 /\ \E c \in P : Peers(doc, c, "highlight") # {})
    BY DEF Reason, IsHighlighted, RunPropertiesCanonical
<1>2. P = {Append(run, 1)} BY <1>1
<1>3. Cardinality(P) = 1
    <2> HIDE DEF P
    <2> QED BY <1>2, FS_Singleton
<1> QED BY <1>1, <1>2, <1>3 DEF IsReady

LEMMA ReadyWithANewContainer ==
    ASSUME NEW before, IsTree(before), NEW after, IsTree(after), NEW f, NEW run,
           Peers(before, run, "rPr") = {}, GrowsAt(before, after, f, run, Append(run, 1), "rPr")
    PROVE  IsReady(after, run)
<1> DEFINE new == Append(run, 1)
<1> HIDE DEF new
<1>1. GrowsAt(before, after, f, run, new, "rPr") BY DEF new
<1>2. /\ Children(after, run) = {f[c] : c \in Children(before, run)} \cup {new}
      /\ Children(after, new) = {}
    BY <1>1, ChildrenOfGrown
<1>3. after[new] = "rPr" /\ \A node \in DOMAIN before : after[f[node]] = before[node]
    BY <1>1 DEF GrowsAt
<1>4. \A c \in Children(before, run) : c \in DOMAIN before /\ before[c] # "rPr" BY DEF Peers, Children
<1>5. Peers(after, run, "rPr") = {new} BY <1>2, <1>3, <1>4 DEF Peers
<1>6. Peers(after, new, "highlight") = {} BY <1>2 DEF Peers
<1>7. PropertiesInOrder(after, new) BY <1>2 DEF PropertiesInOrder, Sorted
<1> QED BY <1>5, <1>6, <1>7 DEF IsReady, new

(***************************************************************************)
(* The mark on such a run: one highlight, at the end of what ranks before  *)
(* it, and the properties still in order.                                  *)
(***************************************************************************)
Shows(doc, run) ==
    /\ IsHighlighted(doc, run) /\ RunPropertiesCanonical(doc, run)
    /\ Cardinality(Highlights(doc, run)) = 1

LEMMA OrderAroundTheMark ==
    ASSUME NEW doc, IsTree(doc), NEW container \in DOMAIN doc, PropertiesInOrder(doc, container),
           NEW child \in Children(doc, container), doc[child] # "w14"
    PROVE  LET position == RankedPlace(doc, container, "highlight", RunRank)
               moved == Moved(child, container, position)
           IN  /\ doc[child] \in DOMAIN RunRank
               /\ Precedes(moved, Append(container, position)) => RunRank[doc[child]] <= 3
               /\ Precedes(Append(container, position), moved) => RunRank[doc[child]] >= 3
<1> DEFINE position == RankedPlace(doc, container, "highlight", RunRank)
           later == LaterThan(doc, container, "highlight", RunRank)
           moved == Moved(child, container, position)
           new == Append(container, position)
           k == Len(container) + 1
           place == child[k]
<1>1. /\ position \in Nat \ {0}
      /\ \A c \in later : c[k] >= position
      /\ \A c \in Children(doc, container) : c[k] >= position => \E first \in later : first[k] = position
    BY RankedPlaces
<1>2. /\ \A c \in later : c \in Children(doc, container) /\ doc[c] \in DOMAIN RunRank /\ RunRank[doc[c]] > 3
      /\ \A c \in Children(doc, container) :
            doc[c] \in DOMAIN RunRank /\ RunRank[doc[c]] > 3 => c \in later
    BY DEF LaterThan, RunRank
<1>3. \A tag \in DOMAIN RunRank : RunRank[tag] \in 1 .. 4 BY DEF RunRank
<1>4. /\ \A c \in Children(doc, container) : doc[c] # "w14" => doc[c] \in DOMAIN RunRank
      /\ \A a, b \in Children(doc, container) :
            doc[a] # "w14" /\ doc[b] # "w14" /\ Precedes(a, b) => RunRank[doc[a]] <= RunRank[doc[b]]
    BY DEF PropertiesInOrder, Sorted
<1>5. container \in Nodes BY DEF IsTree
<1> HIDE DEF position, later
<1>6. place \in Nat \ {0} /\ moved[k] = IF place >= position THEN place + 1 ELSE place
    BY <1>1, MovedChild
<1>7. /\ child \in Nodes /\ child # Body /\ Parent(child) = container /\ Len(container) \in Nat
    BY ChildrenOfNode
<1>8. /\ new \in Nodes /\ new # Body /\ Parent(new) = container /\ new[k] = position
    BY <1>1, <1>5, NewNode
<1>9. moved \in Nodes /\ moved # Body /\ Parent(moved) = container
    <2>1. moved \in Nodes BY <1>1, <1>5, <1>7, MovedByMembers
    <2>2. moved # Body /\ Parent(moved) = Moved(container, container, position)
        BY <1>1, <1>5, <1>7, MovedParents
    <2>3. ~IsStrictPrefix(container, container) BY DEF IsStrictPrefix
    <2> QED BY <1>1, <1>5, <2>1, <2>2, <2>3, MovedParents
<1> HIDE DEF new, moved
<1>10. Precedes(moved, new) <=> moved[k] < position BY <1>8, <1>9, SiblingOrder
<1>11. Precedes(new, moved) <=> position < moved[k] BY <1>8, <1>9, SiblingOrder
<1> HIDE DEF place
<1>12. ASSUME Precedes(moved, new) PROVE RunRank[doc[child]] <= 3
    <2>1. ~(place >= position) BY <1>1, <1>6, <1>10, <1>12
    <2>2. child \notin later BY <1>1, <2>1 DEF place
    <2> QED BY <1>2, <1>3, <1>4, <2>2
<1>13. ASSUME Precedes(new, moved) PROVE RunRank[doc[child]] >= 3
    <2>1. place >= position BY <1>1, <1>6, <1>11, <1>13
    <2>2. PICK first \in later : first[k] = position BY <1>1, <2>1 DEF place
    <2>3. first \in Children(doc, container) /\ doc[first] \in DOMAIN RunRank /\ RunRank[doc[first]] > 3
        BY <1>2
    <2>4. first \in Nodes /\ first # Body /\ Parent(first) = container BY <2>3, ChildrenOfNode
    <2>5. CASE first[k] < child[k]
        <3>1. Precedes(first, child) BY <1>7, <2>4, <2>5, SiblingOrder
        <3>2. doc[first] # "w14" BY <2>3 DEF RunRank
        <3>3. RunRank[doc[first]] <= RunRank[doc[child]] BY <1>4, <2>3, <3>1, <3>2
        <3>4. doc[child] \in DOMAIN RunRank BY <1>4
        <3> QED BY <1>3, <2>3, <3>3, <3>4
    <2>6. CASE ~(first[k] < child[k])
        <3>1. first[k] = child[k] BY <1>1, <1>6, <2>1, <2>2, <2>6 DEF place
        <3>2. first = child
            <4>1. Len(first) = k /\ first = Append(container, first[Len(first)]) BY <2>3, ChildrenOfNode
            <4>2. Len(child) = k /\ child = Append(container, child[Len(child)]) BY ChildrenOfNode
            <4> QED BY <3>1, <4>1, <4>2
        <3> QED BY <1>3, <2>3, <3>2
    <2> QED BY <2>5, <2>6
<1> QED BY <1>4, <1>12, <1>13 DEF position, moved, new

LEMMA MarkShows ==
    ASSUME NEW doc, IsTree(doc), NEW run \in DOMAIN doc, IsReady(doc, run)
    PROVE  LET container == Append(run, 1)
               position == RankedPlace(doc, container, "highlight", RunRank)
           IN  /\ container \in DOMAIN doc /\ position \in Nat \ {0}
               /\ Moved(run, container, position) = run
               /\ Shows(Inserted(doc, container, position, "highlight"), run)
               /\ Peers(Inserted(doc, container, position, "highlight"), run, "rPr") = {container}
               /\ Peers(Inserted(doc, container, position, "highlight"), container, "highlight") =
                      {Append(container, position)}
<1> DEFINE container == Append(run, 1)
           position == RankedPlace(doc, container, "highlight", RunRank)
           after == Inserted(doc, container, position, "highlight")
           new == Append(container, position)
           f == [node \in DOMAIN doc |-> Moved(node, container, position)]
<1>1. /\ Peers(doc, run, "rPr") = {container} /\ Peers(doc, container, "highlight") = {}
      /\ PropertiesInOrder(doc, container)
    BY DEF IsReady
<1>2. container \in Children(doc, run) BY <1>1 DEF Peers
<1>3. container \in DOMAIN doc /\ container # Body /\ Parent(container) = run /\ container # run
      /\ run \in Nodes /\ container \in Nodes /\ Len(container) = Len(run) + 1 /\ Len(run) \in Nat
    <2>1. container \in DOMAIN doc /\ container # Body /\ Parent(container) = run
          /\ run \in Nodes /\ container \in Nodes /\ Len(container) = Len(run) + 1 /\ Len(run) \in Nat
        BY <1>2, ChildrenOfNode
    <2> HIDE DEF container
    <2> QED BY <2>1
<1>4. position \in Nat \ {0} BY <1>3, RankedPlaces
<1>5. GrowsAt(doc, after, f, container, new, "highlight") BY <1>3, <1>4, InsertionGrows
<1>6. IsTree(after) BY <1>3, <1>4, InsertedTree
<1>7. Moved(run, container, position) = run
    <2>1. run \in Seq(Nat \ {0}) /\ container \in Seq(Nat \ {0}) BY <1>3 DEF Nodes
    <2>2. ~IsStrictPrefix(container, run)
        <3> HIDE DEF container
        <3> QED BY <1>3, <2>1, StrictPrefixes
    <2> QED BY <1>3, <1>4, <2>2, MovedParents
<1>8. \A child \in Children(doc, container) : doc[child] # "w14" =>
         /\ doc[child] \in DOMAIN RunRank
         /\ Precedes(f[child], new) => RunRank[doc[child]] <= 3
         /\ Precedes(new, f[child]) => RunRank[doc[child]] >= 3
    <2>1. \A child \in Children(doc, container) : child \in DOMAIN doc BY DEF Children
    <2> QED BY <1>1, <1>3, <2>1, OrderAroundTheMark
<1>9. f[run] = run BY <1>7
<1> HIDE DEF container, position, after, new, f
<1>10. /\ \A node \in DOMAIN doc : after[f[node]] = doc[node]
       /\ after[new] = "highlight" /\ f[container] = container /\ new \in Nodes
       /\ \A a, b \in DOMAIN doc : Precedes(f[a], f[b]) <=> Precedes(a, b)
    BY <1>5, <1>6 DEF GrowsAt, IsEmbedding, IsTree
<1>11. /\ Children(after, run) = {f[c] : c \in Children(doc, run)}
       /\ Children(after, container) = {f[c] : c \in Children(doc, container)} \cup {new}
    <2>1. run \in DOMAIN doc \ {container} BY <1>3
    <2>2. /\ Children(after, f[run]) = {f[c] : c \in Children(doc, run)}
          /\ Children(after, container) = {f[c] : c \in Children(doc, container)} \cup {new}
        BY <1>5, <1>6, <2>1, ChildrenOfGrown
    <2> QED BY <1>9, <2>2
<1>12. \A node, c : c \in Children(doc, node) => c \in DOMAIN doc BY DEF Children
<1>13. Peers(after, run, "rPr") = {container}
    <2>1. Peers(after, run, "rPr") = {f[c] : c \in Peers(doc, run, "rPr")}
        BY <1>10, <1>11, <1>12 DEF Peers
    <2> QED BY <1>1, <1>10, <2>1
<1>14. Peers(after, container, "highlight") = {new}
    <2>1. \A c \in Children(doc, container) : doc[c] # "highlight" BY <1>1 DEF Peers
    <2> QED BY <1>10, <1>11, <1>12, <2>1 DEF Peers
<1>15. PropertiesInOrder(after, container)
    <2> DEFINE A == {child \in Children(doc, container) : doc[child] # "w14"}
               B == {child \in Children(after, container) : after[child] # "w14"}
    <2>1. B = {f[c] : c \in A} \cup {new} BY <1>10, <1>11, <1>12
    <2>2. "highlight" \in DOMAIN RunRank /\ RunRank["highlight"] = 3 BY DEF RunRank
    <2>3. \A c \in A : c \in DOMAIN doc /\ after[f[c]] = doc[c] /\ doc[c] \in DOMAIN RunRank
        BY <1>8, <1>10, <1>12
    <2>4. \A child \in B : after[child] \in DOMAIN RunRank BY <1>10, <2>1, <2>2, <2>3
    <2>5. \A c, d \in A : Precedes(c, d) => RunRank[doc[c]] <= RunRank[doc[d]]
        BY <1>1 DEF PropertiesInOrder, Sorted
    <2>6. \A c \in A : /\ Precedes(f[c], new) => RunRank[doc[c]] <= 3
                       /\ Precedes(new, f[c]) => RunRank[doc[c]] >= 3
        BY <1>8
    <2>7. ASSUME NEW a \in B, NEW b \in B, Precedes(a, b) PROVE RunRank[after[a]] <= RunRank[after[b]]
        <3> HIDE DEF A, B
        <3>1. CASE a # new /\ b # new
            <4>1. PICK c \in A : a = f[c] BY <2>1, <3>1
            <4>2. PICK d \in A : b = f[d] BY <2>1, <3>1
            <4>3. Precedes(c, d) BY <1>10, <2>3, <2>7, <4>1, <4>2
            <4> QED BY <2>3, <2>5, <4>1, <4>2, <4>3
        <3>2. CASE a # new /\ b = new
            <4>1. PICK c \in A : a = f[c] BY <2>1, <3>2
            <4> QED BY <1>10, <2>2, <2>3, <2>6, <2>7, <3>2, <4>1
        <3>3. CASE a = new /\ b # new
            <4>1. PICK d \in A : b = f[d] BY <2>1, <3>3
            <4>2. RunRank[doc[d]] >= 3 BY <2>6, <2>7, <3>3, <4>1
            <4>3. \A tag \in DOMAIN RunRank : RunRank[tag] \in Nat BY DEF RunRank
            <4> QED BY <1>10, <2>2, <2>3, <3>3, <4>1, <4>2, <4>3
        <3>4. CASE a = new /\ b = new BY <1>10, <2>2, <3>4
        <3> QED BY <3>1, <3>2, <3>3, <3>4
    <2> QED BY <2>4, <2>7 DEF PropertiesInOrder, Sorted
<1>16. Cardinality({container}) = 1 /\ Cardinality({new}) = 1 BY FS_Singleton
<1>17. IsHighlighted(after, run) BY <1>13, <1>14, <1>16 DEF IsHighlighted
<1>18. RunPropertiesCanonical(after, run)
    <2>1. container = Append(run, 1) BY DEF container
    <2>2. Cardinality(Peers(after, run, "rPr")) <= 1 BY <1>13, <1>16
    <2> QED BY <1>13, <1>15, <2>1, <2>2 DEF RunPropertiesCanonical
<1>19. Cardinality(Highlights(after, run)) = 1
    <2>1. Highlights(after, run) = {new} BY <1>13, <1>14 DEF Highlights
    <2> QED BY <1>16, <2>1
<1>20. Shows(after, run) BY <1>17, <1>18, <1>19 DEF Shows
<1> QED BY <1>3, <1>4, <1>7, <1>13, <1>14, <1>20 DEF container, position, after, new

(***************************************************************************)
(* What a mark makes of each run: the marked one, which could be marked,   *)
(* shows it; the others are what they were.                                *)
(***************************************************************************)
Follows(before, run, after, copy) ==
    IsLike(before, run, after, copy) \/ (Reason(before, run) = "none" /\ Shows(after, copy))

RunsFollow(before, after, f) ==
    \A run \in DOMAIN before : IsRun(before, run) => Follows(before, run, after, f[run])

LEMMA LikeIsTransitive ==
    ASSUME NEW a, NEW r, NEW b, NEW s, IsLike(a, r, b, s), NEW c, NEW t, IsLike(b, s, c, t)
    PROVE  IsLike(a, r, c, t)
BY DEF IsLike

LEMMA ReadyForTheMark ==
    ASSUME NEW doc, IsTree(doc), NEW x, IsRun(doc, x), Reason(doc, x) = "none"
    PROVE  LET ready == EnsureContainer(doc, x, "rPr")
           IN  /\ IsTree(ready) /\ IsReady(ready, x)
               /\ \E f : /\ Carries(doc, ready, f) /\ f[x] = x
                         /\ \A y \in DOMAIN doc : IsRun(doc, y) /\ y # x => IsLike(doc, y, ready, f[y])
<1> DEFINE ready == EnsureContainer(doc, x, "rPr")
           identity == [node \in DOMAIN doc |-> node]
           new == Append(x, 1)
           f == [node \in DOMAIN doc |-> Moved(node, x, 1)]
<1>1. x \in DOMAIN doc BY DEF IsRun
<1>2. ASSUME Peers(doc, x, "rPr") # {}
      PROVE  /\ IsTree(ready) /\ IsReady(ready, x)
             /\ \E g : /\ Carries(doc, ready, g) /\ g[x] = x
                       /\ \A y \in DOMAIN doc : IsRun(doc, y) /\ y # x => IsLike(doc, y, ready, g[y])
    <2>1. ready = doc BY <1>2 DEF EnsureContainer
    <2>2. IsReady(doc, x) BY <1>2, ReadyAsItIs
    <2>3. Carries(doc, doc, identity) BY NothingIsEdited
    <2>4. \A y \in DOMAIN doc : identity[y] = y /\ IsLike(doc, y, doc, y) BY DEF IsLike
    <2> HIDE DEF ready, identity
    <2> QED BY <1>1, <2>1, <2>2, <2>3, <2>4
<1>3. ASSUME Peers(doc, x, "rPr") = {}
      PROVE  /\ IsTree(ready) /\ IsReady(ready, x)
             /\ \E g : /\ Carries(doc, ready, g) /\ g[x] = x
                       /\ \A y \in DOMAIN doc : IsRun(doc, y) /\ y # x => IsLike(doc, y, ready, g[y])
    <2>1. ready = Inserted(doc, x, 1, "rPr") BY <1>3 DEF EnsureContainer
    <2>2. IsTree(ready) BY <1>1, <2>1, InsertedTree
    <2>3. GrowsAt(doc, ready, f, x, new, "rPr") BY <1>1, <2>1, InsertionGrows
    <2>4. Carries(doc, ready, f)
        <3>1. "rPr" \in PropertyTags BY DEF PropertyTags
        <3> QED BY <1>1, <1>3, <2>1, <3>1, InsertionsCarry
    <2> HIDE DEF ready, f
    <2>5. IsReady(ready, x) BY <1>3, <2>2, <2>3, ReadyWithANewContainer
    <2>6. f[x] = x BY <2>3 DEF GrowsAt
    <2>7. ASSUME NEW y \in DOMAIN doc, IsRun(doc, y), y # x PROVE IsLike(doc, y, ready, f[y])
        <3>1. x \in {x, Append(x, 1)} OBVIOUS
        <3> HIDE DEF new
        <3> QED BY <2>2, <2>3, <2>7, <3>1, OtherRunsUntouched
    <2> QED BY <2>2, <2>4, <2>5, <2>6, <2>7
<1> QED BY <1>2, <1>3

LEMMA MarkFollows ==
    ASSUME NEW doc, IsTree(doc), NEW x, IsRun(doc, x), Reason(doc, x) = "none"
    PROVE  LET after == Highlighted(doc, x)
           IN  /\ IsTree(after)
               /\ \E f : Carries(doc, after, f) /\ RunsFollow(doc, after, f) /\ Shows(after, f[x])
<1> DEFINE ready == EnsureContainer(doc, x, "rPr")
           container == Append(x, 1)
           position == RankedPlace(ready, container, "highlight", RunRank)
           after == Highlighted(doc, x)
<1>1. IsTree(ready) /\ IsReady(ready, x) BY ReadyForTheMark
<1>2. PICK f : /\ Carries(doc, ready, f) /\ f[x] = x
               /\ \A y \in DOMAIN doc : IsRun(doc, y) /\ y # x => IsLike(doc, y, ready, f[y])
    BY ReadyForTheMark
<1>3. after = InsertedByRank(ready, container, "highlight", RunRank) BY DEF Highlighted
<1> HIDE DEF ready
<1>4. \A y \in DOMAIN doc : IsRun(doc, y) => IsRun(ready, f[y])
    BY <1>2 DEF Carries, IsEmbedding, IsRun, TypeAt
<1>5. x \in DOMAIN doc /\ IsRun(ready, x) /\ x \in DOMAIN ready BY <1>2, <1>4 DEF IsRun
<1>6. /\ container \in DOMAIN ready /\ position \in Nat \ {0}
      /\ Moved(x, container, position) = x
      /\ Shows(Inserted(ready, container, position, "highlight"), x)
    BY <1>1, <1>5, MarkShows
<1>7. after = Inserted(ready, container, position, "highlight") BY <1>1, <1>3, <1>6, RankedPlaces
<1> DEFINE g == [node \in DOMAIN ready |-> Moved(node, container, position)]
           new == Append(container, position)
<1>8. IsTree(after) BY <1>1, <1>6, <1>7, InsertedTree
<1>9. GrowsAt(ready, after, g, container, new, "highlight") BY <1>1, <1>6, <1>7, InsertionGrows
<1>10. Carries(ready, after, g)
    <2>1. ready[container] = "rPr" /\ container # Body
        <3>1. container \in Peers(ready, x, "rPr") BY <1>1 DEF IsReady
        <3> HIDE DEF container
        <3> QED BY <3>1 DEF Peers, Children
    <2>2. ~IsOpen(ready, container)
        <3>1. "rPr" \in PropertyTags BY DEF PropertyTags
        <3> HIDE DEF container
        <3> QED BY <1>1, <1>6, <2>1, <3>1, ContainersAreNotOpen
    <2> QED BY <1>1, <1>6, <1>7, <2>2, InsertionsCarry
<1>11. g[x] = x BY <1>5, <1>6
<1> HIDE DEF after, g, position, new
<1>12. ASSUME NEW y \in DOMAIN ready, IsRun(ready, y), y # x PROVE IsLike(ready, y, after, g[y])
    <2>1. container \in {x, Append(x, 1)} OBVIOUS
    <2> HIDE DEF container
    <2> QED BY <1>1, <1>5, <1>8, <1>9, <1>12, <2>1, OtherRunsUntouched
<1> DEFINE h == [node \in DOMAIN doc |-> g[f[node]]]
<1>13. Carries(doc, after, h) BY <1>1, <1>2, <1>8, <1>10, EditAfterEdit
<1>14. ASSUME NEW y \in DOMAIN doc, IsRun(doc, y) PROVE Follows(doc, y, after, h[y])
    <2>1. h[y] = g[f[y]] OBVIOUS
    <2>2. CASE y = x BY <1>2, <1>6, <1>7, <1>11, <2>1, <2>2 DEF Follows
    <2>3. CASE y # x
        <3>1. f[y] # x BY <1>2, <1>5, <2>3 DEF Carries, IsEmbedding
        <3>2. f[y] \in DOMAIN ready BY <1>4, <1>14 DEF IsRun
        <3>3. IsLike(ready, f[y], after, g[f[y]]) BY <1>4, <1>12, <1>14, <3>1, <3>2
        <3>4. IsLike(doc, y, ready, f[y]) BY <1>2, <1>14, <2>3
        <3>5. IsLike(doc, y, after, g[f[y]]) BY <3>3, <3>4, LikeIsTransitive
        <3> QED BY <2>1, <3>5 DEF Follows
    <2> QED BY <2>2, <2>3
<1>15. Shows(after, h[x]) BY <1>2, <1>5, <1>6, <1>7, <1>11
<1>16. RunsFollow(doc, after, h) BY <1>14 DEF RunsFollow
<1> HIDE DEF h
<1> QED BY <1>8, <1>13, <1>15, <1>16 DEF after

-------------------------------------------------------------------------------
(***************************************************************************)
(* The review copy against the clean one, run by run.                      *)
(***************************************************************************)
RunKept(clean, run, copy, marked) ==
    /\ RunPropertiesCanonical(clean, run) => RunPropertiesCanonical(copy, marked)
    /\ Cardinality(Highlights(copy, marked))
            <= IF Highlights(clean, run) = {} THEN 1 ELSE Cardinality(Highlights(clean, run))
    /\ IsHighlighted(copy, marked) \/ Reason(copy, marked) = Reason(clean, run)

IsCopy(clean, copy, f) ==
    /\ Carries(clean, copy, f)
    /\ \A run \in DOMAIN clean : IsRun(clean, run) => RunKept(clean, run, copy, f[run])

LEMMA HighlightsAreFew ==
    ASSUME NEW doc, IsTree(doc), NEW run
    PROVE  /\ Cardinality(Highlights(doc, run)) \in Nat
           /\ Highlights(doc, run) = {} <=> Cardinality(Highlights(doc, run)) = 0
<1> DEFINE H == Highlights(doc, run)
<1>1. H \in SUBSET DOMAIN doc BY DEF Highlights, Peers, Children
<1> HIDE DEF H
<1>2. IsFiniteSet(H) BY <1>1, FS_Subset DEF IsTree
<1>3. Cardinality(H) \in Nat /\ (Cardinality(H) = 0 <=> H = {}) BY <1>2, FS_CardinalityType, FS_EmptySet
<1> QED BY <1>3 DEF H

LEMMA CopyOfItself ==
    ASSUME NEW doc, IsTree(doc)
    PROVE  \E f : IsCopy(doc, doc, f)
<1> DEFINE f == [node \in DOMAIN doc |-> node]
<1>1. Carries(doc, doc, f) BY NothingIsEdited
<1>2. \A run \in DOMAIN doc : f[run] = run OBVIOUS
<1> HIDE DEF f
<1>3. ASSUME NEW run \in DOMAIN doc PROVE RunKept(doc, run, doc, f[run])
    <2>1. /\ Cardinality(Highlights(doc, run)) \in Nat
          /\ Highlights(doc, run) = {} <=> Cardinality(Highlights(doc, run)) = 0
        BY HighlightsAreFew
    <2> QED BY <1>2, <2>1 DEF RunKept
<1> QED BY <1>1, <1>3 DEF IsCopy

LEMMA CopyAfterAMark ==
    ASSUME NEW clean, IsTree(clean), NEW copy, IsTree(copy), NEW after, IsTree(after),
           NEW f, IsCopy(clean, copy, f), NEW g, Carries(copy, after, g), RunsFollow(copy, after, g)
    PROVE  IsCopy(clean, after, [node \in DOMAIN clean |-> g[f[node]]])
<1> DEFINE h == [node \in DOMAIN clean |-> g[f[node]]]
<1>1. Carries(clean, copy, f) BY DEF IsCopy
<1>2. Carries(clean, after, h) BY <1>1, EditAfterEdit
<1>3. ASSUME NEW run \in DOMAIN clean, IsRun(clean, run) PROVE RunKept(clean, run, after, h[run])
    <2>1. RunKept(clean, run, copy, f[run]) BY <1>3 DEF IsCopy
    <2>2. f[run] \in DOMAIN copy /\ IsRun(copy, f[run])
        BY <1>1, <1>3 DEF Carries, IsEmbedding, IsRun, TypeAt
    <2>3. Follows(copy, f[run], after, g[f[run]]) BY <2>2 DEF RunsFollow
    <2>4. /\ Cardinality(Highlights(clean, run)) \in Nat
          /\ Highlights(clean, run) = {} <=> Cardinality(Highlights(clean, run)) = 0
        BY HighlightsAreFew
    <2>5. RunKept(clean, run, after, g[f[run]])
        <3>1. CASE IsLike(copy, f[run], after, g[f[run]]) BY <2>1, <3>1 DEF IsLike, RunKept
        <3>2. CASE Shows(after, g[f[run]]) BY <2>4, <3>2 DEF Shows, RunKept
        <3> QED BY <2>3, <3>1, <3>2 DEF Follows
    <2> QED BY <2>5
<1> QED BY <1>2, <1>3 DEF IsCopy

LEMMA RunOfACopy ==
    ASSUME NEW clean, IsTree(clean), NEW copy, IsTree(copy), NEW f, Carries(clean, copy, f),
           NEW run, IsRun(clean, run)
    PROVE  IsRun(copy, f[run]) /\ NodeAt(copy, StructuralPath(clean, run)) = f[run]
<1>1. run \in DOMAIN clean /\ TypeAt(clean, run) # "unparsed" BY DEF IsRun
<1>2. /\ f[run] \in DOMAIN copy /\ TypeAt(copy, f[run]) = TypeAt(clean, run)
      /\ Resolve(copy, StructuralPath(clean, run)) = {f[run]}
    BY <1>1, CarriedTarget
<1> QED BY <1>2 DEF IsRun, NodeAt

(***************************************************************************)
(* The runs a candidate may be marked on: in the copy, those of the clean  *)
(* document again. Afterwards it shows, or there was none to mark.         *)
(***************************************************************************)
TargetRuns(doc, type, path) == IF type = "run" THEN {NodeAt(doc, path)} ELSE RunsOf(doc, NodeAt(doc, path))

IsVisible(clean, copy, type, path) ==
    \/ \E run \in TargetRuns(clean, type, path) :
          IsHighlighted(copy, NodeAt(copy, StructuralPath(clean, run)))
    \/ \A run \in TargetRuns(clean, type, path) : Reason(clean, run) # "none"

LEMMA TargetRunsAreRuns ==
    ASSUME NEW doc, IsTree(doc), NEW type, NEW path, NamesTarget(doc, type, path)
    PROVE  \A run \in TargetRuns(doc, type, path) : IsRun(doc, run)
<1>1. PICK node \in DOMAIN doc : IsTarget(doc, type, path, node) BY DEF NamesTarget
<1>2. NodeAt(doc, path) = node BY <1>1, TargetFound
<1>3. CASE type = "run"
    BY <1>1, <1>2, <1>3 DEF TargetRuns, IsTarget, IsRun, TypeOfTarget
<1>4. CASE type # "run"
    <2>1. node \in Paragraphs(doc) BY <1>1, <1>4, NodesByType DEF IsTarget, TypeOfTarget, Paragraphs
    <2>2. TargetRuns(doc, type, path) = RunsOf(doc, node) BY <1>2, <1>4 DEF TargetRuns
    <2>3. RunsOf(doc, node) \in SUBSET OfType(Records(doc), {"run_raw"}) BY <2>1, RunsOfAParagraph
    <2> QED BY <2>2, <2>3, NodesByType DEF IsRun
<1> QED BY <1>3, <1>4

LEMMA TargetRunsOfACopy ==
    ASSUME NEW clean, IsTree(clean), NEW copy, IsTree(copy), NEW f, Carries(clean, copy, f),
           NEW type, NEW path, NamesTarget(clean, type, path)
    PROVE  /\ \A run \in TargetRuns(clean, type, path) : f[run] \in TargetRuns(copy, type, path)
           /\ \A other \in TargetRuns(copy, type, path) :
                 \E run \in TargetRuns(clean, type, path) : other = f[run]
<1>1. PICK node \in DOMAIN clean : IsTarget(clean, type, path, node) BY DEF NamesTarget
<1>2. TypeAt(clean, node) # "unparsed" /\ path = StructuralPath(clean, node)
    BY <1>1 DEF IsTarget, TypeOfTarget
<1>3. NodeAt(clean, path) = node BY <1>1, TargetFound
<1>4. /\ f[node] \in DOMAIN copy /\ TypeAt(copy, f[node]) = TypeAt(clean, node)
      /\ Resolve(copy, path) = {f[node]}
    BY <1>2, CarriedTarget
<1>5. NodeAt(copy, path) = f[node] BY <1>4 DEF NodeAt
<1>6. CASE type = "run" BY <1>3, <1>5, <1>6 DEF TargetRuns
<1>7. CASE type # "run"
    <2> DEFINE R == OfType(Records(clean), {"run_raw"})
               C == OfType(Records(copy), {"run_raw"})
    <2>1. RunsOf(clean, node) = RunsIn(clean, node) /\ RunsOf(copy, f[node]) = RunsIn(copy, f[node])
        BY <1>4, RunsOfIsComplete
    <2>2. /\ RunsOf(clean, node) = {run \in R : run = node \/ IsStrictPrefix(node, run)}
          /\ RunsOf(copy, f[node]) = {run \in C : run = f[node] \/ IsStrictPrefix(f[node], run)}
        BY <2>1 DEF RunsIn
    <2>3. C = {f[run] : run \in R}
        <3> DEFINE types == {"run_raw"}
        <3>1. types \cap {"properties_raw", "opaque", "unparsed"} = {} OBVIOUS
        <3> HIDE DEF types
        <3> QED BY <3>1, CarriedTypes DEF types
    <2>4. R \in SUBSET DOMAIN clean BY NodesByType
    <2>5. \A run \in DOMAIN clean : /\ IsStrictPrefix(f[node], f[run]) <=> IsStrictPrefix(node, run)
                                    /\ f[run] = f[node] <=> run = node
        BY DEF Carries, IsEmbedding
    <2> HIDE DEF R, C
    <2>6. /\ TargetRuns(clean, type, path) = RunsOf(clean, node)
          /\ TargetRuns(copy, type, path) = RunsOf(copy, f[node])
        BY <1>3, <1>5, <1>7 DEF TargetRuns
    <2> QED BY <2>2, <2>3, <2>4, <2>5, <2>6
<1> QED BY <1>6, <1>7

LEMMA VisibleStays ==
    ASSUME NEW clean, IsTree(clean), NEW copy, IsTree(copy), NEW after, IsTree(after),
           NEW f, IsCopy(clean, copy, f), NEW g, Carries(copy, after, g), RunsFollow(copy, after, g),
           NEW type, NEW path, NamesTarget(clean, type, path), IsVisible(clean, copy, type, path)
    PROVE  IsVisible(clean, after, type, path)
<1>1. CASE \A run \in TargetRuns(clean, type, path) : Reason(clean, run) # "none"
    BY <1>1 DEF IsVisible
<1>2. CASE \E run \in TargetRuns(clean, type, path) :
              IsHighlighted(copy, NodeAt(copy, StructuralPath(clean, run)))
    <2>1. PICK run \in TargetRuns(clean, type, path) :
              IsHighlighted(copy, NodeAt(copy, StructuralPath(clean, run)))
        BY <1>2
    <2>2. IsRun(clean, run) BY TargetRunsAreRuns
    <2>3. Carries(clean, copy, f) BY DEF IsCopy
    <2>4. IsRun(copy, f[run]) /\ NodeAt(copy, StructuralPath(clean, run)) = f[run]
        BY <2>2, <2>3, RunOfACopy
    <2> DEFINE h == [node \in DOMAIN clean |-> g[f[node]]]
    <2>5. Carries(clean, after, h) BY <2>3, EditAfterEdit
    <2>6. h[run] = g[f[run]] BY <2>2 DEF IsRun
    <2> HIDE DEF h
    <2>7. NodeAt(after, StructuralPath(clean, run)) = g[f[run]] BY <2>2, <2>5, <2>6, RunOfACopy
    <2>8. Follows(copy, f[run], after, g[f[run]]) BY <2>4 DEF RunsFollow, IsRun
    <2>9. IsHighlighted(after, g[f[run]]) BY <2>1, <2>4, <2>8 DEF Follows, IsLike, Shows
    <2> QED BY <2>7, <2>9 DEF IsVisible
<1> QED BY <1>1, <1>2 DEF IsVisible

LEMMA FirstMarkable ==
    ASSUME NEW doc, IsTree(doc), NEW node \in Paragraphs(doc)
    PROVE  /\ \A run \in MarkedRun(doc, node) : run \in RunsOf(doc, node) /\ Reason(doc, run) = "none"
           /\ MarkedRun(doc, node) = {} => \A run \in RunsOf(doc, node) : Reason(doc, run) # "none"
<1> DEFINE found == RunsOf(doc, node)
           runs == InDocumentOrder(found)
           markable == {i \in 1 .. Len(runs) : Reason(doc, runs[i]) = "none"}
           first == IF markable # {} THEN Min(markable) ELSE 0
<1>1. found \in SUBSET OfType(Records(doc), {"run_raw"}) BY RunsOfAParagraph
<1>2. found \in SUBSET DOMAIN doc BY <1>1, NodesByType
<1>3. found \in SUBSET Nodes /\ IsFiniteSet(found) BY <1>2, FS_Subset DEF IsTree
<1>4. MarkedRun(doc, node) = {runs[i] : i \in {first} \ {0}} BY DEF MarkedRun, SelectInSeq
<1> HIDE DEF found
<1>5. runs \in Seq(found) /\ \A run \in found : \E i \in 1 .. Len(runs) : runs[i] = run
    <2>1. /\ runs \in Seq(found) /\ Len(runs) = Cardinality(found) /\ Cardinality(found) \in Nat
          /\ \A run \in found : runs[PlaceAmong(found, run) + 1] = run
        BY <1>3, InDocumentOrderLists
    <2>2. ASSUME NEW run \in found PROVE PlaceAmong(found, run) + 1 \in 1 .. Len(runs)
        <3> DEFINE place == PlaceAmong(found, run)
        <3>1. place \in 0 .. Cardinality(found) - 1 BY <1>3, PlacesOfNodes
        <3> HIDE DEF place, runs
        <3>2. place + 1 \in 1 .. Len(runs) BY <2>1, <3>1
        <3> QED BY <3>2 DEF place
    <2> QED BY <2>1, <2>2
<1>6. Len(runs) \in Nat /\ \A i \in 1 .. Len(runs) : runs[i] \in found BY <1>5, ElementOfSeq
<1>7. markable \in SUBSET (Nat \ {0}) BY <1>6
<1> HIDE DEF runs
<1>8. ASSUME markable # {} PROVE Min(markable) \in markable
    <2> HIDE DEF markable
    <2> QED BY <1>7, <1>8, LeastOf
<1>9. ASSUME NEW run \in MarkedRun(doc, node) PROVE run \in found /\ Reason(doc, run) = "none"
    <2>1. markable # {} /\ run = runs[Min(markable)] BY <1>4
    <2>2. Min(markable) \in markable BY <1>8, <2>1
    <2>3. Min(markable) \in 1 .. Len(runs) /\ Reason(doc, runs[Min(markable)]) = "none" BY <2>2
    <2> HIDE DEF markable
    <2> QED BY <1>6, <2>1, <2>3
<1>10. ASSUME MarkedRun(doc, node) = {}, NEW run \in found PROVE Reason(doc, run) # "none"
    <2>1. markable = {}
        <3> SUFFICES ASSUME markable # {} PROVE FALSE OBVIOUS
        <3>1. first \in markable /\ first # 0 BY <1>7, <1>8
        <3> HIDE DEF first
        <3> QED BY <1>4, <1>10, <3>1
    <2>2. PICK i \in 1 .. Len(runs) : runs[i] = run BY <1>5
    <2> QED BY <2>1, <2>2
<1> QED BY <1>9, <1>10 DEF found

LEMMA MarkableRuns ==
    ASSUME NEW doc, IsTree(doc), NEW target, NamesTarget(doc, target.type, target.path),
           NEW hash, NEW kinds
    PROVE  LET runs == MarkOf(doc, target, NodeAt(doc, target.path), hash, kinds).runs
           IN  /\ \A run \in runs : /\ run \in TargetRuns(doc, target.type, target.path)
                                    /\ IsRun(doc, run) /\ Reason(doc, run) = "none"
               /\ runs = {} => \A run \in TargetRuns(doc, target.type, target.path) : Reason(doc, run) # "none"
<1> DEFINE node == NodeAt(doc, target.path)
           runs == MarkOf(doc, target, node, hash, kinds).runs
<1>1. IsTarget(doc, target.type, target.path, node) BY TargetFound DEF NamesTarget
<1>2. \A run \in TargetRuns(doc, target.type, target.path) : IsRun(doc, run) BY TargetRunsAreRuns
<1>3. CASE target.type = "run"
    <2>1. runs = {run \in {node} : Reason(doc, run) = "none"} BY <1>3 DEF MarkOf
    <2>2. TargetRuns(doc, target.type, target.path) = {node} BY <1>3 DEF TargetRuns
    <2> HIDE DEF runs, node
    <2>3. /\ \A run \in runs : run \in TargetRuns(doc, target.type, target.path) /\ Reason(doc, run) = "none"
          /\ runs = {} => \A run \in TargetRuns(doc, target.type, target.path) : Reason(doc, run) # "none"
        BY <2>1, <2>2
    <2> QED BY <1>2, <2>3 DEF runs, node
<1>4. CASE target.type # "run"
    <2>1. runs = MarkedRun(doc, node) BY <1>4 DEF MarkOf
    <2>2. TargetRuns(doc, target.type, target.path) = RunsOf(doc, node) BY <1>4 DEF TargetRuns
    <2>3. node \in Paragraphs(doc) BY <1>1, <1>4, NodesByType DEF IsTarget, TypeOfTarget, Paragraphs
    <2> HIDE DEF runs, node
    <2>4. /\ \A run \in runs : run \in TargetRuns(doc, target.type, target.path) /\ Reason(doc, run) = "none"
          /\ runs = {} => \A run \in TargetRuns(doc, target.type, target.path) : Reason(doc, run) # "none"
        BY <2>1, <2>2, <2>3, FirstMarkable
    <2> QED BY <1>2, <2>4 DEF runs, node
<1> QED BY <1>3, <1>4

(***************************************************************************)
(* One candidate marked: the copy is a copy still, what showed shows, and  *)
(* the candidate does or has no run that can.                              *)
(***************************************************************************)
AfterMark(copy, runs) ==
    IF runs = {} THEN copy ELSE Highlighted(copy, CHOOSE run \in runs : TRUE)

LEMMA NothingMarked ==
    ASSUME NEW doc, IsTree(doc)
    PROVE  \E g : Carries(doc, doc, g) /\ RunsFollow(doc, doc, g)
<1> DEFINE g == [node \in DOMAIN doc |-> node]
<1>1. Carries(doc, doc, g) BY NothingIsEdited
<1>2. \A run \in DOMAIN doc : g[run] = run OBVIOUS
<1> HIDE DEF g
<1>3. RunsFollow(doc, doc, g) BY <1>2 DEF RunsFollow, Follows, IsLike
<1> QED BY <1>1, <1>3

LEMMA CandidateMarked ==
    ASSUME NEW clean, IsTree(clean), NEW copy, IsTree(copy), NEW f, IsCopy(clean, copy, f),
           NEW target, NamesTarget(clean, target.type, target.path),
           NamesTarget(copy, target.type, target.path), NEW hash, NEW kinds
    PROVE  LET after == AfterMark(copy, MarkOf(copy, target, NodeAt(copy, target.path), hash, kinds).runs)
           IN  /\ IsTree(after) /\ IsEditOf(copy, after) /\ \E h : IsCopy(clean, after, h)
               /\ IsVisible(clean, after, target.type, target.path)
               /\ \A type, path : NamesTarget(clean, type, path) /\ IsVisible(clean, copy, type, path) =>
                     IsVisible(clean, after, type, path)
<1> DEFINE runs == MarkOf(copy, target, NodeAt(copy, target.path), hash, kinds).runs
           after == AfterMark(copy, runs)
           mine == TargetRuns(clean, target.type, target.path)
           x == CHOOSE run \in runs : TRUE
<1>1. /\ \A run \in runs : /\ run \in TargetRuns(copy, target.type, target.path)
                           /\ IsRun(copy, run) /\ Reason(copy, run) = "none"
      /\ runs = {} => \A run \in TargetRuns(copy, target.type, target.path) : Reason(copy, run) # "none"
    BY MarkableRuns
<1>2. Carries(clean, copy, f) BY DEF IsCopy
<1>3. /\ \A run \in mine : f[run] \in TargetRuns(copy, target.type, target.path)
      /\ \A other \in TargetRuns(copy, target.type, target.path) : \E run \in mine : other = f[run]
      /\ \A run \in mine : IsRun(clean, run)
    BY <1>2, TargetRunsOfACopy, TargetRunsAreRuns
<1>4. runs # {} => x \in runs /\ after = Highlighted(copy, x) BY DEF AfterMark
<1>5. runs = {} => after = copy BY DEF AfterMark
<1> HIDE DEF runs, after, mine, x
<1>6. IsTree(after) /\ \E g : /\ Carries(copy, after, g) /\ RunsFollow(copy, after, g)
                              /\ runs # {} => Shows(after, g[x])
    <2>1. CASE runs = {} BY <1>5, <2>1, NothingMarked
    <2>2. CASE runs # {} BY <1>1, <1>4, <2>2, MarkFollows
    <2> QED BY <2>1, <2>2
<1>7. PICK g : /\ Carries(copy, after, g) /\ RunsFollow(copy, after, g)
               /\ runs # {} => Shows(after, g[x])
    BY <1>6
<1> DEFINE h == [node \in DOMAIN clean |-> g[f[node]]]
<1>8. IsCopy(clean, after, h) BY <1>6, <1>7, CopyAfterAMark
<1>9. IsEditOf(copy, after) BY <1>6, <1>7 DEF IsEditOf
<1>10. \A run \in mine : h[run] = g[f[run]] /\ run \in DOMAIN clean BY <1>3 DEF IsRun
<1> HIDE DEF h
<1>11. IsVisible(clean, after, target.type, target.path)
    <2>1. CASE runs = {}
        <3>1. after = copy BY <1>5, <2>1
        <3>2. \A run \in mine : NodeAt(copy, StructuralPath(clean, run)) = f[run]
            BY <1>2, <1>3, RunOfACopy
        <3>3. \A run \in mine : IsHighlighted(copy, f[run]) \/ Reason(copy, f[run]) = Reason(clean, run)
            BY <1>3, <1>10 DEF IsCopy, RunKept
        <3>4. \A run \in mine : Reason(copy, f[run]) # "none" BY <1>1, <1>3, <2>1
        <3> QED BY <3>1, <3>2, <3>3, <3>4 DEF IsVisible, mine
    <2>2. CASE runs # {}
        <3>1. PICK run \in mine : x = f[run] BY <1>1, <1>3, <1>4, <2>2
        <3>2. Carries(clean, after, h) BY <1>8 DEF IsCopy
        <3>3. NodeAt(after, StructuralPath(clean, run)) = h[run] BY <1>3, <1>6, <3>2, RunOfACopy
        <3>4. IsHighlighted(after, h[run]) BY <1>7, <1>10, <2>2, <3>1 DEF Shows
        <3> QED BY <3>3, <3>4 DEF IsVisible, mine
    <2> QED BY <2>1, <2>2
<1>12. ASSUME NEW type, NEW path, NamesTarget(clean, type, path), IsVisible(clean, copy, type, path)
       PROVE  IsVisible(clean, after, type, path)
    BY <1>6, <1>7, <1>12, VisibleStays
<1>13. \E k : IsCopy(clean, after, k) BY <1>8
<1> QED BY <1>6, <1>9, <1>11, <1>12, <1>13 DEF after, runs

(***************************************************************************)
(* Every item of a report has its candidate.                               *)
(***************************************************************************)
LEMMA EveryItemIsACandidate ==
    ASSUME NEW doc, NEW rep, IsListing(doc, ItemsOf(rep)), NEW item \in ToSet(ItemsOf(rep))
    PROVE  \E n \in 1 .. Len(Candidates(rep)) : Candidates(rep)[n] = Target(item)
<1> DEFINE items == ItemsOf(rep)
           targets == [i \in DOMAIN items |-> Target(items[i])]
           first == {i \in DOMAIN targets : \A j \in 1 .. i - 1 : targets[j] # targets[i]}
           c == Candidates(rep)
<1>1. PICK E : items \in Seq(E) BY DEF IsListing
<1> DEFINE T == {Target(i) : i \in E}
<1>2. c = Selected(targets, first) BY DEF Candidates, Distinct
<1>3. PICK k \in DOMAIN items : item = items[k] BY DEF ToSet
<1> HIDE DEF items
<1>4. Len(items) \in Nat /\ DOMAIN items = 1 .. Len(items) BY <1>1
<1>5. \A i \in 1 .. Len(items) : items[i] \in E BY <1>1, <1>4, ElementOfSeq
<1>6. targets \in [1 .. Len(items) -> T] BY <1>4, <1>5
<1>7. targets[k] = Target(item) /\ DOMAIN targets = 1 .. Len(items) BY <1>3, <1>4
<1> HIDE DEF targets, T
<1>8. targets \in Seq(T) BY <1>4, <1>6, SeqDef
<1>9. first \in SUBSET DOMAIN targets OBVIOUS
<1>10. PICK i \in first : targets[i] = targets[k]
    <2> DEFINE same == {i \in 1 .. Len(items) : targets[i] = targets[k]}
    <2>1. same \in SUBSET Nat /\ k \in same BY <1>3, <1>4
    <2>2. Min(same) \in same /\ \A m \in same : Min(same) <= m
        <3> HIDE DEF same
        <3> QED BY <2>1, LeastOf
    <2> DEFINE m == Min(same)
    <2> HIDE DEF m
    <2>3. m \in 1 .. Len(items) /\ targets[m] = targets[k] BY <2>2 DEF m
    <2>4. ASSUME NEW j \in 1 .. m - 1 PROVE targets[j] # targets[m]
        <3>1. j \in 1 .. Len(items) /\ ~(m <= j) BY <1>4, <2>3
        <3>2. j \notin same BY <2>2, <3>1 DEF m
        <3> QED BY <2>3, <3>1, <3>2
    <2>5. m \in first BY <1>7, <2>3, <2>4
    <2> QED BY <2>3, <2>5
<1> HIDE DEF first, c
<1>11. c \in Seq(T) /\ ToSet(c) = {targets[n] : n \in first} BY <1>2, <1>8, <1>9, SelectedElements
<1>12. Target(item) \in ToSet(c) BY <1>7, <1>10, <1>11
<1>13. \E n \in 1 .. Len(c) : c[n] = Target(item) BY <1>11, <1>12 DEF ToSet
<1> QED BY <1>13 DEF c

-------------------------------------------------------------------------------
(***************************************************************************)
(* The inductive invariant: the document being formatted is an edit of the *)
(* posted one; the items of the report, and the changes it is made from,   *)
(* name targets of the document that is read by them; the review copy is   *)
(* the clean document with a mark for each candidate that could have one.  *)
(***************************************************************************)
BeforeTheReport == {"received", "profile", "package", "session"}

WithAReview == {"bind", "mark", "deliver"}

ReviewIsSound ==
    /\ IsListing(tree, ItemsOf(report)) /\ IsListing(review, ItemsOf(report))
    /\ \E f : IsCopy(tree, review, f)
    /\ \A n \in 1 .. Len(marks) :
          IsVisible(tree, review, Candidates(report)[n].type, Candidates(report)[n].path)

ChainInv ==
    /\ TypeOK
    /\ request \in Requests
    /\ IsEditOf(request.tree, tree)
    /\ stage \in BeforeTheReport => review = request.tree /\ report = NoReport /\ marks = <<>>
    /\ IsListing(tree, transforms)
    /\ stage \in WithAReview \/ answer = 200 => ReviewIsSound
    /\ stage = "deliver" \/ answer = 200 => Len(marks) = Len(Candidates(report))
    /\ \E M : marks \in Seq(M)
    /\ stage \in {"session"} \cup WithAReview \/ answer = 200 => ParseStatus(request.package) = "ok"
    /\ answer = 200 => delivery.base \in CanonicalBaseName(request.name)

KeepsTargets == IsEditOf(tree, tree') /\ IsEditOf(review, review')

LEMMA PostedAreTrees ==
    ASSUME NEW r \in Requests
    PROVE  IsTree(r.tree) /\ HasRules(r.profile)
BY RequestsAssumption DEF HasRules

LEMMA InitChain == Init => ChainInv
<1> SUFFICES ASSUME Init PROVE ChainInv OBVIOUS
<1> USE DEF Init
<1>1. IsTree(request.tree) BY PostedAreTrees
<1>2. IsEditOf(request.tree, tree) BY <1>1, NoEdit
<1>3. \E M : marks \in Seq(M)
    <2>1. <<>> \in Seq(Nat) OBVIOUS
    <2> QED BY <2>1
<1>4. IsListing(tree, transforms) BY NothingListed
<1>5. TypeOK
    <2>1. Len(marks) <= Len(Candidates(report)) BY NoCandidates
    <2> QED BY <1>1, <2>1 DEF TypeOK, Stages, Codes
<1> QED BY <1>1, <1>2, <1>3, <1>4, <1>5 DEF ChainInv, WithAReview

LEMMA DecidedSites ==
    ASSUME ChainInv, NEW verdicts
    PROVE  SitesDecided(tree, verdicts) \in Seq(SitesIn(tree, request.profile.rules))
<1> DEFINE sites == SitesOf(tree, request.profile)
           indices == {i \in DOMAIN sites : Verdict(tree, sites[i], request.inherited) \in verdicts}
<1>1. IsTree(tree) /\ HasRules(request.profile) BY PostedAreTrees DEF ChainInv, TypeOK
<1>2. sites \in Seq(SitesIn(tree, request.profile.rules)) BY <1>1, SitesAreTargets
<1>3. indices \in SUBSET DOMAIN sites OBVIOUS
<1>4. SitesDecided(tree, verdicts) = Selected(sites, indices) BY DEF SitesDecided, Decided
<1> HIDE DEF sites, indices
<1> QED BY <1>2, <1>3, <1>4, SelectedElements

LEMMA ApplyKeepsInv ==
    ASSUME ChainInv, ApplyOperation
    PROVE  ChainInv' /\ KeepsTargets
<1>1. PICK site \in FirstApplicable :
          /\ tree' = Patched(tree, site)
          /\ transforms' = Append(transforms, Item("applied_change", site, HashNow(tree, site.path)))
    BY DEF ApplyOperation
<1>2. IsTree(tree) /\ IsTree(review) /\ IsTree(request.tree) BY PostedAreTrees DEF ChainInv, TypeOK
<1>3. Unapplied(tree) \in Seq(SitesIn(tree, request.profile.rules)) BY DecidedSites DEF Unapplied
<1>4. IsPatchable(tree, site) /\ NamesTarget(tree, site.type, site.path)
    <2>1. PICK i \in DOMAIN Unapplied(tree) : site = Unapplied(tree)[i] /\ IsPatchable(tree, Unapplied(tree)[i])
        BY DEF FirstApplicable, FirstPatchable
    <2>2. site \in SitesIn(tree, request.profile.rules) BY <1>3, <2>1, ElementOfSeq
    <2> QED BY <2>1, <2>2 DEF SitesIn
<1>5. IsEditOf(tree, tree') BY <1>1, <1>2, <1>4, PatchIsAnEdit
<1>6. IsTree(tree') BY <1>5 DEF IsEditOf
<1>7. IsEditOf(request.tree, tree') BY <1>2, <1>5, EditsCompose DEF ChainInv
<1>8. IsListing(tree', transforms')
    <2> DEFINE item == Item("applied_change", site, HashNow(tree, site.path))
    <2>1. NamesTarget(tree, item.type, item.path) BY <1>4 DEF Item
    <2> HIDE DEF item
    <2>2. IsListing(tree, Append(transforms, item)) BY <2>1, ListingGrows DEF ChainInv
    <2> QED BY <1>1, <1>2, <1>5, <2>2, ListingOfEdited DEF item
<1>9. UNCHANGED <<request, stage, report, review, marks, delivery, answer>> /\ stage = "session"
    BY DEF ApplyOperation
<1>10. IsEditOf(review, review') BY <1>2, <1>9, NoEdit
<1>11. TypeOK' BY <1>6, <1>9 DEF ChainInv, TypeOK
<1>12. stage' \notin WithAReview /\ stage' # "deliver" /\ answer' # 200
    BY <1>9 DEF ChainInv, TypeOK, WithAReview
<1> QED BY <1>5, <1>7, <1>8, <1>9, <1>10, <1>11, <1>12 DEF ChainInv, KeepsTargets

LEMMA EndKeepsInv ==
    ASSUME ChainInv, EndSession
    PROVE  ChainInv' /\ KeepsTargets
<1>1. /\ stage = "session" /\ stage' = "bind" /\ answer' = answer /\ review' = tree /\ report' = Report(tree)
      /\ UNCHANGED <<request, tree, transforms, marks, delivery>>
    BY DEF EndSession, Proceed
<1>2. IsTree(tree) /\ IsTree(review) BY DEF ChainInv, TypeOK
<1>3. review = request.tree /\ marks = <<>> BY <1>1 DEF ChainInv, BeforeTheReport
<1>4. IsEditOf(review, review') /\ IsEditOf(tree, tree') BY <1>1, <1>2, <1>3, NoEdit DEF ChainInv
<1>5. IsListing(tree, ItemsOf(Report(tree)))
    <2> DEFINE unapplied == ItemsFor("unapplied_change", tree, Unapplied(tree))
               reviewed == ItemsFor("review_item", tree, SitesDecided(tree, {"review", "human_choice"}))
    <2>1. IsListing(tree, unapplied) BY DecidedSites, ItemsAreListed DEF Unapplied
    <2>2. IsListing(tree, reviewed) BY DecidedSites, ItemsAreListed
    <2>3. ItemsOf(Report(tree)) = transforms \o unapplied \o reviewed BY DEF ItemsOf, Report
    <2> HIDE DEF unapplied, reviewed
    <2>4. IsListing(tree, transforms \o unapplied) BY <2>1, ListingsJoin DEF ChainInv
    <2> QED BY <2>2, <2>3, <2>4, ListingsJoin
<1>6. ReviewIsSound'
    <2>1. \E f : IsCopy(tree, tree, f) BY <1>2, CopyOfItself
    <2>2. IsListing(tree', ItemsOf(report')) /\ IsListing(review', ItemsOf(report')) BY <1>1, <1>5
    <2>3. \A n \in 1 .. Len(marks') : FALSE BY <1>1, <1>3
    <2> QED BY <1>1, <2>1, <2>2, <2>3 DEF ReviewIsSound
<1>7. TypeOK'
    <2>1. Len(Candidates(report')) \in Nat BY <1>6, CandidatesAreTargets DEF ReviewIsSound
    <2>2. Len(marks') <= Len(Candidates(report')) BY <1>1, <1>3, <2>1
    <2> QED BY <1>1, <1>2, <2>2 DEF ChainInv, TypeOK, Stages
<1> QED BY <1>1, <1>4, <1>6, <1>7 DEF ChainInv, KeepsTargets, BeforeTheReport, WithAReview, TypeOK

LEMMA MarkKeepsInv ==
    ASSUME ChainInv, MarkCandidate
    PROVE  ChainInv' /\ KeepsTargets
<1> DEFINE target == Candidates(report)[Len(marks) + 1]
           node == NodeAt(review, target.path)
<1>1. PICK hash, mark :
          /\ mark = MarkOf(review, target, node, hash, SourceKinds(report, target))
          /\ marks' = Append(marks, [mark EXCEPT !.runs = {StructuralPath(review, r) : r \in @}])
          /\ review' = IF mark.runs = {} THEN review
                       ELSE Highlighted(review, CHOOSE run \in mark.runs : TRUE)
    BY DEF MarkCandidate
<1>2. /\ stage = "mark" /\ Len(marks) < Len(Candidates(report))
      /\ UNCHANGED <<request, stage, tree, transforms, report, delivery, answer>>
    BY DEF MarkCandidate
<1>3. IsTree(tree) /\ IsTree(review) /\ ReviewIsSound BY <1>2 DEF ChainInv, TypeOK, WithAReview
<1>4. PICK M : marks \in Seq(M) BY DEF ChainInv
<1>5. /\ Len(Candidates(report)) \in Nat /\ Len(marks) \in Nat
      /\ \A n \in 1 .. Len(Candidates(report)) :
            /\ NamesTarget(tree, Candidates(report)[n].type, Candidates(report)[n].path)
            /\ NamesTarget(review, Candidates(report)[n].type, Candidates(report)[n].path)
    BY <1>3, <1>4, CandidatesAreTargets DEF ReviewIsSound
<1>6. /\ NamesTarget(tree, target.type, target.path) /\ NamesTarget(review, target.type, target.path)
      /\ \A n \in 1 .. Len(marks) : n \in 1 .. Len(Candidates(report))
    <2>1. Len(marks) + 1 \in 1 .. Len(Candidates(report)) BY <1>2, <1>5
    <2> QED BY <1>2, <1>5, <2>1
<1>7. review' = AfterMark(review, mark.runs) BY <1>1 DEF AfterMark
<1>8. PICK f : IsCopy(tree, review, f) BY <1>3 DEF ReviewIsSound
<1> HIDE DEF target
<1>9. /\ IsTree(review') /\ IsEditOf(review, review') /\ \E h : IsCopy(tree, review', h)
      /\ IsVisible(tree, review', target.type, target.path)
      /\ \A type, path : NamesTarget(tree, type, path) /\ IsVisible(tree, review, type, path) =>
            IsVisible(tree, review', type, path)
    BY <1>1, <1>3, <1>6, <1>7, <1>8, CandidateMarked
<1>10. (\E N : marks' \in Seq(N)) /\ Len(marks') = Len(marks) + 1
    <2> DEFINE result == [mark EXCEPT !.runs = {StructuralPath(review, r) : r \in @}]
    <2>1. marks' = Append(marks, result) BY <1>1
    <2> HIDE DEF result
    <2>2. M \subseteq M \cup {result} OBVIOUS
    <2>3. marks \in Seq(M \cup {result}) BY <1>4, <2>2, WiderSequence
    <2> QED BY <2>1, <2>3, AppendProperties
<1>11. TypeOK'
    <2>1. Len(marks') <= Len(Candidates(report')) BY <1>2, <1>5, <1>10
    <2> QED BY <1>2, <1>9, <2>1 DEF ChainInv, TypeOK
<1>12. ReviewIsSound'
    <2>1. IsListing(tree, ItemsOf(report)) /\ IsListing(review', ItemsOf(report))
        BY <1>3, <1>9, ListingOfEdited DEF ReviewIsSound
    <2>2. ASSUME NEW n \in 1 .. Len(marks')
          PROVE  IsVisible(tree, review', Candidates(report)[n].type, Candidates(report)[n].path)
        <3>1. CASE n = Len(marks) + 1 BY <1>9, <3>1 DEF target
        <3>2. CASE n # Len(marks) + 1
            <4>1. n \in 1 .. Len(marks) BY <1>5, <1>10, <3>2
            <4>2. IsVisible(tree, review, Candidates(report)[n].type, Candidates(report)[n].path)
                BY <1>3, <4>1 DEF ReviewIsSound
            <4>3. NamesTarget(tree, Candidates(report)[n].type, Candidates(report)[n].path)
                BY <1>5, <1>6, <4>1
            <4> QED BY <1>9, <4>2, <4>3
        <3> QED BY <3>1, <3>2
    <2> QED BY <1>2, <1>9, <2>1, <2>2 DEF ReviewIsSound
<1>13. IsEditOf(tree, tree') BY <1>2, <1>3, NoEdit
<1> QED
    BY <1>2, <1>9, <1>10, <1>11, <1>12, <1>13
    DEF ChainInv, KeepsTargets, BeforeTheReport, WithAReview, TypeOK

LEMMA OthersKeepInv ==
    ASSUME ChainInv, UNCHANGED <<request, tree, transforms, report, review, marks>>,
           stage' \in BeforeTheReport => stage \in BeforeTheReport,
           stage' \in WithAReview \/ answer' = 200 => stage \in WithAReview \/ answer = 200,
           stage' = "deliver" \/ answer' = 200 => Len(marks) = Len(Candidates(report)),
           stage' \in Stages, answer' \in Codes \cup {0}, stage' = "answered" <=> answer' # 0,
           delivery' # NoDelivery <=> answer' = 200,
           stage' \in {"session"} \cup WithAReview \/ answer' = 200 =>
               \/ stage \in {"session"} \cup WithAReview \/ answer = 200
               \/ ParseStatus(request.package) = "ok",
           answer' = 200 => delivery'.base \in CanonicalBaseName(request.name)
    PROVE  ChainInv' /\ KeepsTargets
<1>1. IsTree(tree) /\ IsTree(review) BY DEF ChainInv, TypeOK
<1>2. KeepsTargets BY <1>1, NoEdit DEF KeepsTargets
<1>3. TypeOK' BY <1>1 DEF ChainInv, TypeOK
<1>4. ReviewIsSound => ReviewIsSound' BY DEF ReviewIsSound
<1> QED BY <1>2, <1>3, <1>4 DEF ChainInv

(***************************************************************************)
(* One lemma for the steps that neither edit the document nor report.      *)
(***************************************************************************)
LEMMA QuietSteps ==
    ASSUME ChainInv,
           ReceiveUpload \/ ReadProfile \/ ParsePackage \/ BindReport \/ FinishReview \/ RefuseName \/ Deliver
    PROVE  ChainInv' /\ KeepsTargets
<1>1. /\ stage \in Stages /\ answer \in Codes \cup {0} /\ (stage = "answered" <=> answer # 0)
      /\ (delivery # NoDelivery <=> answer = 200)
      /\ stage = "deliver" \/ answer = 200 => Len(marks) = Len(Candidates(report))
    BY DEF ChainInv, TypeOK
<1> USE <1>1, OthersKeepInv DEF Proceed, Answer, Stages, Codes, BeforeTheReport, WithAReview
<1>2. CASE ReceiveUpload BY <1>2 DEF ReceiveUpload
<1>3. CASE ReadProfile BY <1>3 DEF ReadProfile
<1>4. CASE ParsePackage BY <1>4 DEF ParsePackage
<1>5. CASE BindReport BY <1>5 DEF BindReport
<1>6. CASE FinishReview BY <1>6 DEF FinishReview
<1>7. CASE RefuseName BY <1>7 DEF RefuseName
<1>8. CASE Deliver
    <2>1. PICK base \in CanonicalBaseName(request.name) :
              IF NameIsSafe(base)
              THEN Answer(200) /\ delivery' = Delivery(base, [clean |-> tree, review |-> review, report |-> report])
              ELSE Answer(500) /\ UNCHANGED delivery
        BY <1>8 DEF Deliver
    <2>2. stage = "deliver" /\ UNCHANGED <<request, tree, transforms, report, review, marks>>
        BY <1>8 DEF Deliver
    <2>3. NameIsSafe(base) => Delivery(base, [clean |-> tree, review |-> review, report |-> report]) # NoDelivery
        BY DEF NameIsSafe, Delivery, NoDelivery
    <2>4. delivery' # NoDelivery <=> answer' = 200 BY <2>1, <2>2, <2>3
    <2>5. answer' = 200 => delivery'.base = base BY <2>1, <2>2 DEF Delivery
    <2> QED BY <2>1, <2>2, <2>4, <2>5
<1> QED BY <1>2, <1>3, <1>4, <1>5, <1>6, <1>7, <1>8

LEMMA NextChain ==
    ASSUME ChainInv, [Next]_vars
    PROVE  ChainInv' /\ KeepsTargets
<1>1. CASE UNCHANGED vars
    <2>1. IsTree(tree) /\ IsTree(review) BY DEF ChainInv, TypeOK
    <2>2. KeepsTargets BY <1>1, <2>1, NoEdit DEF vars, KeepsTargets
    <2>3. ChainInv' BY <1>1 DEF vars, ChainInv, TypeOK, ReviewIsSound
    <2> QED BY <2>2, <2>3
<1>2. CASE Next BY <1>1, <1>2, QuietSteps, ApplyKeepsInv, EndKeepsInv, MarkKeepsInv DEF Next, Done
<1> QED BY <1>1, <1>2

THEOREM ChainInvariant == Spec => []ChainInv
BY InitChain, NextChain, PTL DEF Spec

(***************************************************************************)
(* The document, clean and marked, is a tree at every step of every        *)
(* request; no more results than candidates; a delivery exactly with a 200.*)
(***************************************************************************)
THEOREM ChainTypeOK == Spec => []TypeOK
<1>1. ChainInv => TypeOK BY DEF ChainInv
<1> QED BY <1>1, ChainInvariant, PTL

(***************************************************************************)
(* In whatever is formatted or marked, the walk that decides, the index    *)
(* that rebinds and the walk that resolves see the same paragraphs and     *)
(* runs, each found by exactly one path.                                   *)
(***************************************************************************)
THEOREM WalksAlwaysAgree == Spec => []EveryWalkSeesTheSameTargets
<1>1. ChainInv => EveryWalkSeesTheSameTargets
    BY WalksAgreeInATree DEF ChainInv, TypeOK, EveryWalkSeesTheSameTargets
<1> QED BY <1>1, ChainInvariant, PTL

(***************************************************************************)
(* No change of the patcher and no mark of the review makes a path name    *)
(* another paragraph or run, or changes what it reads as.                  *)
(***************************************************************************)
THEOREM PathsOutliveEdits == Spec => TargetsSurviveEdits
<1>1. ASSUME ChainInv, [Next]_vars
      PROVE  [SameTargets(tree, tree') /\ SameTargets(review, review')]_<<tree, review>>
    <2>1. IsTree(tree) /\ IsTree(review) BY <1>1 DEF ChainInv, TypeOK
    <2>2. KeepsTargets BY <1>1, NextChain
    <2> QED BY <2>1, <2>2, SameTargetsAfterAnEdit DEF KeepsTargets
<1> QED BY <1>1, ChainInvariant, PTL DEF Spec, TargetsSurviveEdits

(***************************************************************************)
(* However many candidates are marked: run properties that were in order   *)
(* are, and a run gets one highlight at most.                              *)
(***************************************************************************)
THEOREM MarkedRunsAlwaysCanonical == Spec => []MarkedRunsStayCanonical
<1>1. ASSUME ChainInv PROVE MarkedRunsStayCanonical
    <2> SUFFICES ASSUME stage = "mark", NEW run \in OfType(Records(tree), {"run_raw"})
                 PROVE  LET copy == NodeAt(review, StructuralPath(tree, run))
                        IN  /\ RunPropertiesCanonical(tree, run) => RunPropertiesCanonical(review, copy)
                            /\ Cardinality(Highlights(review, copy))
                                  <= IF Highlights(tree, run) = {} THEN 1 ELSE Cardinality(Highlights(tree, run))
        BY DEF MarkedRunsStayCanonical
    <2>1. IsTree(tree) /\ IsTree(review) /\ ReviewIsSound BY <1>1 DEF ChainInv, TypeOK, WithAReview
    <2>2. PICK f : IsCopy(tree, review, f) BY <2>1 DEF ReviewIsSound
    <2>3. IsRun(tree, run) BY <2>1, NodesByType DEF IsRun
    <2>4. NodeAt(review, StructuralPath(tree, run)) = f[run] BY <2>1, <2>2, <2>3, RunOfACopy DEF IsCopy
    <2>5. RunKept(tree, run, review, f[run]) BY <2>2, <2>3 DEF IsCopy, IsRun
    <2> QED BY <2>4, <2>5 DEF RunKept
<1> QED BY <1>1, ChainInvariant, PTL

(***************************************************************************)
(* In a delivery no item of the report is lost from sight: its target is   *)
(* highlighted in the review copy unless it has no run that could be.      *)
(***************************************************************************)
THEOREM EveryItemIsAlwaysVisible == Spec => []EveryItemIsVisible
<1>1. ASSUME ChainInv, answer = 200, NEW item \in ToSet(ItemsOf(report))
      PROVE  IsVisible(tree, review, item.type, item.path)
    <2>1. ReviewIsSound /\ Len(marks) = Len(Candidates(report)) BY <1>1 DEF ChainInv
    <2>2. PICK n \in 1 .. Len(Candidates(report)) : Candidates(report)[n] = Target(item)
        BY <1>1, <2>1, EveryItemIsACandidate DEF ReviewIsSound
    <2>3. Target(item).type = item.type /\ Target(item).path = item.path BY DEF Target
    <2> QED BY <2>1, <2>2, <2>3 DEF ReviewIsSound
<1>2. ChainInv => EveryItemIsVisible BY <1>1 DEF EveryItemIsVisible, IsVisible, TargetRuns
<1> QED BY <1>2, ChainInvariant, PTL

-------------------------------------------------------------------------------
(***************************************************************************)
(* A package that parses is read in full: of the relationships to a part   *)
(* the first makes its story, and a part nothing relates makes its own.    *)
(***************************************************************************)
LEMMA EveryPartIsOneStory ==
    ASSUME NEW pkg, pkg.relationships \in Seq(ToSet(pkg.relationships)), ParseStatus(pkg) = "ok",
           NEW part \in RelatedParts(pkg)
                   \cup {p \in DOMAIN pkg.parts : pkg.parts[p].content \in StoryTypes}
    PROVE  \E story \in Stories(pkg) :
               /\ {s \in Stories(pkg) : s.part = part} = {story}
               /\ story.status = "ok"
<1>1. PartsAreDistinct(Stories(pkg)) /\ \A story \in Stories(pkg) : story.status = "ok"
    BY DEF ParseStatus
<1>2. \E story \in Stories(pkg) : story.part = part
    <2>1. CASE part \in RelatedParts(pkg)
        <3> DEFINE to == {i \in StoryRelationships(pkg) : pkg.relationships[i].target = part}
        <3>1. to # {} BY <2>1 DEF RelatedParts
        <3>2. to \in SUBSET Nat BY DEF StoryRelationships
        <3> DEFINE i == Min(to)
        <3>3. i \in to /\ \A j \in to : i <= j
            <4> HIDE DEF to
            <4> QED BY <3>1, <3>2, LeastOf
        <3> HIDE DEF i
        <3>4. i \in FirstOfTarget(pkg) BY <3>3 DEF FirstOfTarget
        <3> DEFINE rel == pkg.relationships[i]
                   story == Story(rel.type, rel.target, StoryStatus(pkg, rel.type, rel.target))
        <3>5. story \in RelatedStories(pkg) BY <3>4 DEF RelatedStories
        <3>6. story.part = part BY <3>3 DEF Story
        <3> HIDE DEF story
        <3> QED BY <3>5, <3>6 DEF Stories
    <2>2. CASE part \notin RelatedParts(pkg)
        <3> DEFINE type == pkg.parts[part].content
                   story == Story(type, part, StoryStatus(pkg, type, part))
        <3>1. story \in OrphanStories(pkg) BY <2>2 DEF OrphanStories
        <3>2. story.part = part BY DEF Story
        <3> HIDE DEF story
        <3> QED BY <3>1, <3>2 DEF Stories
    <2> QED BY <2>1, <2>2
<1>3. PICK story \in Stories(pkg) : story.part = part BY <1>2
<1>4. \A s \in Stories(pkg) : s.part = part => s = story BY <1>1, <1>3 DEF PartsAreDistinct
<1> HIDE DEF Stories
<1> QED BY <1>1, <1>3, <1>4

(***************************************************************************)
(* A product is only made of a package every story of which was read.      *)
(***************************************************************************)
THEOREM StoriesAreAlwaysComplete == Spec => []StoriesAreComplete
<1>1. ChainInv => StoriesAreComplete
    <2> SUFFICES ASSUME ChainInv, answer = 200 PROVE StoriesAreComplete
        BY DEF StoriesAreComplete
    <2>1. request.package.relationships \in Seq(ToSet(request.package.relationships))
        BY RequestsAssumption DEF ChainInv
    <2>2. ParseStatus(request.package) = "ok" BY DEF ChainInv
    <2> QED BY <2>1, <2>2, EveryPartIsOneStory DEF StoriesAreComplete
<1> QED BY <1>1, ChainInvariant, PTL

-------------------------------------------------------------------------------
(***************************************************************************)
(* A name is tidy when making it safe again would change no character of   *)
(* it but at its end. What is left of a tidy name at its start is tidy.    *)
(***************************************************************************)
IsPlain(name, i) == name[i] \notin Forbidden /\ name[i] # Nul

IsTidy(name) ==
    /\ name # <<>> => name[1] # Space
    /\ \A i \in DOMAIN name : IsPlain(name, i) /\ ~IsRepeated(name, i)

LEMMA TidyPart ==
    ASSUME NEW C, NEW s \in Seq(C), IsTidy(s), NEW n \in 0 .. Len(s)
    PROVE  IsTidy(SubSeq(s, 1, n))
<1> DEFINE t == SubSeq(s, 1, n)
<1>1. Len(s) \in Nat /\ n \in Nat /\ DOMAIN s = 1 .. Len(s) OBVIOUS
<1>2. t \in Seq(C) /\ Len(t) = n /\ \A i \in 1 .. n : t[i] = s[i] BY InitialPart
<1>3. DOMAIN t = 1 .. n BY <1>2
<1> HIDE DEF t
<1>4. t # <<>> => t[1] # Space
    <2> SUFFICES ASSUME t # <<>> PROVE t[1] # Space OBVIOUS
    <2>1. 1 <= n BY <1>1, <1>2
    <2>2. s # <<>> /\ t[1] = s[1] BY <1>1, <1>2, <2>1
    <2> QED BY <2>2 DEF IsTidy
<1>5. ASSUME NEW i \in 1 .. n PROVE IsPlain(t, i) /\ ~IsRepeated(t, i)
    <2>1. i \in DOMAIN s /\ t[i] = s[i] BY <1>1, <1>2
    <2>2. i > 1 => t[i - 1] = s[i - 1] BY <1>1, <1>2
    <2> QED BY <2>1, <2>2 DEF IsTidy, IsPlain, IsRepeated
<1>6. IsTidy(t) BY <1>3, <1>4, <1>5 DEF IsTidy
<1> QED BY <1>6 DEF t

LEMMA WholeSequence ==
    ASSUME NEW C, NEW s \in Seq(C)
    PROVE  SubSeq(s, 1, Len(s)) = s
<1>1. Len(s) \in 0 .. Len(s) OBVIOUS
<1>2. /\ SubSeq(s, 1, Len(s)) \in Seq(C) /\ Len(SubSeq(s, 1, Len(s))) = Len(s)
      /\ \A i \in 1 .. Len(s) : SubSeq(s, 1, Len(s))[i] = s[i]
    BY <1>1, InitialPart
<1> QED BY <1>2, SeqEqual

LEMMA EndStripped ==
    ASSUME NEW C, NEW s \in Seq(C), NEW chars
    PROVE  /\ \E n \in 0 .. Len(s) : StripEnd(s, chars) = SubSeq(s, 1, n)
           /\ s # <<>> /\ Last(s) \notin chars => StripEnd(s, chars) = s
<1> DEFINE kept == {i \in 1 .. Len(s) : s[i] \notin chars}
           last == IF kept # {} THEN Max(kept) ELSE 0
<1>1. StripEnd(s, chars) = SubSeq(s, 1, last) BY DEF StripEnd, SelectLastInSeq
<1>2. Len(s) \in Nat /\ kept \in SUBSET (0 .. Len(s)) OBVIOUS
<1>3. kept # {} => Max(kept) \in kept /\ \A i \in kept : i <= Max(kept)
    <2> HIDE DEF kept
    <2> QED BY <1>2, GreatestOf
<1>4. last \in 0 .. Len(s) BY <1>2, <1>3
<1>5. ASSUME s # <<>>, Last(s) \notin chars PROVE last = Len(s)
    <2>1. Len(s) \in 1 .. Len(s) BY <1>2, <1>5
    <2>2. Len(s) \in kept BY <1>5, <2>1 DEF Last
    <2>3. kept # {} /\ Max(kept) \in 0 .. Len(s) /\ Len(s) <= Max(kept)
        <3> HIDE DEF kept
        <3> QED BY <1>2, <1>3, <2>2
    <2> QED BY <1>2, <2>3
<1> HIDE DEF last
<1> QED BY <1>1, <1>4, <1>5, WholeSequence

LEMMA StartStripped ==
    ASSUME NEW C, NEW s \in Seq(C)
    PROVE  /\ StripStart(s) \in Seq(C) /\ Len(StripStart(s)) <= Len(s)
           /\ ToSet(StripStart(s)) \subseteq ToSet(s)
           /\ StripStart(s) # <<>> => StripStart(s)[1] # Space
           /\ s # <<>> /\ s[1] # Space => StripStart(s) = s
<1> DEFINE kept == {i \in 1 .. Len(s) : s[i] # Space}
           t == StripStart(s)
           first == Min(kept)
<1>1. t = IF kept = {} \/ first = 0 THEN <<>> ELSE SubSeq(s, first, Len(s))
    BY DEF StripStart, SelectInSeq
<1>2. /\ Len(s) \in Nat /\ kept \in SUBSET Nat /\ DOMAIN s = 1 .. Len(s)
      /\ \A i \in kept : i \in 1 .. Len(s) /\ s[i] # Space
    OBVIOUS
<1>3. s # <<>> /\ s[1] # Space => 1 \in kept BY <1>2
<1> HIDE DEF kept
<1>4. kept # {} => first \in kept /\ \A i \in kept : first <= i BY <1>2, LeastOf
<1> HIDE DEF first, t
<1>5. CASE kept = {}
    <2>1. t = <<>> BY <1>1, <1>5
    <2>2. t \in Seq(C) /\ Len(t) = 0 /\ ToSet(t) = {} BY <2>1 DEF ToSet
    <2> QED BY <1>2, <1>3, <1>5, <2>1, <2>2 DEF t
<1>6. CASE kept # {}
    <2>1. first \in 1 .. Len(s) /\ s[first] # Space BY <1>2, <1>4, <1>6
    <2>2. t = SubSeq(s, first, Len(s)) BY <1>1, <1>6, <2>1
    <2>3. \A i \in first .. Len(s) : s[i] \in C BY <1>2, <2>1, ElementOfSeq
    <2>4. /\ t \in Seq(C) /\ Len(t) = Len(s) - first + 1
          /\ \A i \in 1 .. Len(s) - first + 1 : t[i] = s[first + i - 1]
        BY <1>2, <2>1, <2>2, <2>3, SubSeqProperties
    <2>5. t[1] # Space
        <3>1. 1 \in 1 .. Len(s) - first + 1 /\ first + 1 - 1 = first BY <1>2, <2>1
        <3> QED BY <2>1, <2>4, <3>1
    <2>6. ToSet(t) \subseteq ToSet(s)
        <3>1. DOMAIN t = 1 .. Len(s) - first + 1 BY <2>4
        <3>2. \A i \in DOMAIN t : first + i - 1 \in DOMAIN s BY <1>2, <2>1, <3>1
        <3> QED BY <2>4, <3>1, <3>2 DEF ToSet
    <2>7. s # <<>> /\ s[1] # Space => t = s
        <3> SUFFICES ASSUME s # <<>>, s[1] # Space PROVE t = s OBVIOUS
        <3>1. first = 1 BY <1>3, <1>4, <2>1
        <3> QED BY <2>2, <3>1, WholeSequence
    <2>8. Len(t) <= Len(s) BY <1>2, <2>1, <2>4
    <2> QED BY <2>4, <2>5, <2>6, <2>7, <2>8 DEF t
<1> QED BY <1>5, <1>6

LEMMA ForbiddenReplaced ==
    ASSUME NEW C, NEW s \in Seq(C)
    PROVE  /\ Replaced(s) \in Seq(C \cup {Underscore}) /\ Len(Replaced(s)) = Len(s)
           /\ \A i \in DOMAIN Replaced(s) : Replaced(s)[i] \notin Forbidden
           /\ \A i \in DOMAIN Replaced(s) : Replaced(s)[i] \in {s[i], Underscore}
           /\ (\A i \in DOMAIN s : s[i] \notin Forbidden) => Replaced(s) = s
<1> DEFINE t == Replaced(s)
<1>1. Len(s) \in Nat /\ DOMAIN s = 1 .. Len(s) /\ \A i \in 1 .. Len(s) : s[i] \in C BY ElementOfSeq
<1>2. /\ t = [i \in 1 .. Len(s) |-> IF s[i] \in Forbidden THEN Underscore ELSE s[i]]
    BY <1>1 DEF Replaced
<1>3. Underscore \notin Forbidden BY DEF Underscore, Forbidden
<1> HIDE DEF t
<1>4. t \in [1 .. Len(s) -> C \cup {Underscore}] BY <1>1, <1>2
<1>5. t \in Seq(C \cup {Underscore}) /\ Len(t) = Len(s) /\ DOMAIN t = 1 .. Len(s) BY <1>1, <1>4, SeqDef
<1>6. \A i \in DOMAIN t : t[i] \notin Forbidden /\ t[i] \in {s[i], Underscore} BY <1>2, <1>3, <1>5
<1>7. (\A i \in DOMAIN s : s[i] \notin Forbidden) => t = s
    <2> SUFFICES ASSUME \A i \in DOMAIN s : s[i] \notin Forbidden PROVE t = s OBVIOUS
    <2>1. \A i \in 1 .. Len(s) : t[i] = s[i] BY <1>1, <1>2
    <2>2. s \in Seq(C \cup {Underscore})
        <3>1. C \subseteq C \cup {Underscore} OBVIOUS
        <3> QED BY <3>1, WiderSequence
    <2> QED BY <1>5, <2>1, <2>2, SeqEqual
<1> QED BY <1>5, <1>6, <1>7 DEF t

(***************************************************************************)
(* Of a run of spaces or of underscores the first is kept: what is left    *)
(* has no two of them in a row, since all between two kept characters      *)
(* repeat the first of the two.                                            *)
(***************************************************************************)
LEMMA RepeatedAreAlike ==
    ASSUME NEW C, NEW s \in Seq(C), NEW a \in 1 .. Len(s), NEW b \in 1 .. Len(s), a < b,
           \A k \in a + 1 .. b - 1 : IsRepeated(s, k)
    PROVE  s[b - 1] = s[a]
<1> DEFINE D == b - 1 - a
           S == {d \in 0 .. D : s[a + d] = s[a]}
<1>1. Len(s) \in Nat /\ D \in Nat OBVIOUS
<1>2. 0 \in S OBVIOUS
<1>3. \A d \in 0 .. D - 1 : d \in S => d + 1 \in S
    <2> SUFFICES ASSUME NEW d \in 0 .. D - 1, s[a + d] = s[a] PROVE s[a + (d + 1)] = s[a]
        BY <1>1
    <2>1. a + (d + 1) \in a + 1 .. b - 1 /\ a + (d + 1) - 1 = a + d BY <1>1
    <2>2. IsRepeated(s, a + (d + 1)) BY <2>1
    <2> QED BY <2>1, <2>2 DEF IsRepeated
<1>4. a + D = b - 1 OBVIOUS
<1> HIDE DEF S, D
<1>5. \A d \in 0 .. D : d \in S BY <1>1, <1>2, <1>3, NatInductionUpTo
<1>6. D \in S BY <1>1, <1>5
<1> QED BY <1>4, <1>6 DEF S

LEMMA RepeatedCollapsed ==
    ASSUME NEW C, NEW s \in Seq(C)
    PROVE  /\ Collapsed(s) \in Seq(C) /\ Len(Collapsed(s)) <= Len(s)
           /\ \A n \in DOMAIN Collapsed(s) : \E i \in DOMAIN s : Collapsed(s)[n] = s[i]
           /\ Collapsed(s) # <<>> => s # <<>> /\ Collapsed(s)[1] = s[1]
           /\ \A n \in DOMAIN Collapsed(s) : ~IsRepeated(Collapsed(s), n)
<1> DEFINE J == {i \in DOMAIN s : ~IsRepeated(s, i)}
           t == Collapsed(s)
           c == Cardinality(J)
<1>1. Len(s) \in Nat /\ DOMAIN s = 1 .. Len(s) OBVIOUS
<1>2. J \in SUBSET DOMAIN s /\ t = Selected(s, J) BY DEF Collapsed
<1>3. J \in SUBSET Nat /\ IsFiniteSet(J)
    <2>1. IsFiniteSet(DOMAIN s) BY <1>1, FS_Interval
    <2> HIDE DEF J
    <2> QED BY <1>1, <1>2, <2>1, FS_Subset
<1>4. \A i \in DOMAIN s : i \in J <=> ~IsRepeated(s, i) OBVIOUS
<1> HIDE DEF J, t
<1>5. /\ t \in Seq(C) /\ Len(t) = c /\ c \in Nat /\ c <= Len(s)
      /\ \A n \in 1 .. c : t[n] = s[Nth(J, n)] /\ Nth(J, n) \in J
    BY <1>2, SelectedElements
<1>6. /\ \A i \in J : \E n \in 1 .. c : Nth(J, n) = i
      /\ \A m, n \in 1 .. c : m < n <=> Nth(J, m) < Nth(J, n)
    BY <1>3, IndicesInOrder
<1> HIDE DEF c
<1>7. DOMAIN t = 1 .. c BY <1>5
<1>8. ASSUME t # <<>> PROVE s # <<>> /\ t[1] = s[1]
    <2>1. 1 \in 1 .. c BY <1>5, <1>8
    <2>2. Nth(J, 1) \in J /\ Nth(J, 1) \in DOMAIN s /\ Nth(J, 1) \in Nat BY <1>1, <1>2, <1>5, <2>1
    <2>3. 1 \in DOMAIN s BY <1>1, <2>2
    <2>4. 1 \in J BY <1>4, <2>3 DEF IsRepeated
    <2>5. PICK n \in 1 .. c : Nth(J, n) = 1 BY <1>6, <2>4
    <2>6. ~(1 < n)
        <3> SUFFICES ASSUME 1 < n PROVE FALSE OBVIOUS
        <3>1. Nth(J, 1) < Nth(J, n) BY <1>6, <2>1
        <3> QED BY <1>1, <2>2, <2>5, <3>1
    <2>7. n = 1 BY <1>5, <2>6
    <2> QED BY <1>5, <2>1, <2>3, <2>5, <2>7
<1>9. ASSUME NEW n \in 1 .. c PROVE ~IsRepeated(t, n)
    <2> SUFFICES ASSUME IsRepeated(t, n) PROVE FALSE OBVIOUS
    <2>1. n > 1 /\ t[n] = t[n - 1] /\ t[n] \in {Space, Underscore} BY DEF IsRepeated
    <2>2. n - 1 \in 1 .. c /\ n - 1 < n BY <1>5, <2>1
    <2> DEFINE a == Nth(J, n - 1)
               b == Nth(J, n)
    <2>3. a \in J /\ b \in J /\ t[n - 1] = s[a] /\ t[n] = s[b] BY <1>5, <2>2
    <2>4. a < b BY <1>6, <2>2
    <2>5. ASSUME NEW k \in J PROVE ~(a < k /\ k < b)
        <3>1. PICK m \in 1 .. c : Nth(J, m) = k BY <1>6
        <3>2. a < k => n - 1 < m BY <1>6, <2>2, <3>1
        <3>3. k < b => m < n BY <1>6, <3>1
        <3> QED BY <1>5, <3>2, <3>3
    <2> HIDE DEF a, b
    <2>6. a \in 1 .. Len(s) /\ b \in 1 .. Len(s) BY <1>1, <1>2, <2>3
    <2>7. \A k \in a + 1 .. b - 1 : IsRepeated(s, k)
        <3> SUFFICES ASSUME NEW k \in a + 1 .. b - 1 PROVE IsRepeated(s, k) OBVIOUS
        <3>1. k \in DOMAIN s /\ a < k /\ k < b BY <1>1, <2>6
        <3> QED BY <1>4, <2>5, <3>1
    <2>8. s[b - 1] = s[a] BY <2>4, <2>6, <2>7, RepeatedAreAlike
    <2>9. IsRepeated(s, b) BY <2>1, <2>3, <2>4, <2>6, <2>8 DEF IsRepeated
    <2> QED BY <1>2, <1>4, <2>3, <2>9
<1>10. \A n \in 1 .. c : \E i \in DOMAIN s : t[n] = s[i] BY <1>2, <1>5
<1> QED BY <1>5, <1>7, <1>8, <1>9, <1>10 DEF t

LEMMA NothingToCollapse ==
    ASSUME NEW C, NEW s \in Seq(C), \A i \in DOMAIN s : ~IsRepeated(s, i)
    PROVE  Collapsed(s) = s
<1> DEFINE L == Len(s)
<1>1. L \in Nat /\ DOMAIN s = 1 .. L OBVIOUS
<1>2. {i \in DOMAIN s : ~IsRepeated(s, i)} = 1 .. L BY <1>1
<1>3. Collapsed(s) = Selected(s, 1 .. L) BY <1>2 DEF Collapsed
<1> HIDE DEF L
<1>4. Cardinality(1 .. L) = L BY <1>1, FS_Interval
<1>5. /\ Selected(s, 1 .. L) \in Seq(C) /\ Len(Selected(s, 1 .. L)) = L
      /\ \A n \in 1 .. L : Selected(s, 1 .. L)[n] = s[Nth(1 .. L, n)]
    BY <1>1, <1>4, SelectedElements
<1>6. \A n \in 1 .. L : Selected(s, 1 .. L)[n] = s[n] BY <1>1, <1>5, NthOfAll
<1> QED BY <1>3, <1>5, <1>6, SeqEqual DEF L

(***************************************************************************)
(* A name made safe is tidy; cut and validated, it is left alone when it   *)
(* is made safe again.                                                     *)
(***************************************************************************)
LEMMA CleanedIsTidy ==
    ASSUME NEW C, NEW raw \in Seq(C), Nul \notin ToSet(raw)
    PROVE  /\ Cleaned(raw) \in Seq(C \cup {Underscore}) /\ Len(Cleaned(raw)) <= Len(raw)
           /\ IsTidy(Cleaned(raw))
<1> DEFINE started == StripStart(raw)
           ended == StripEnd(started, {Space})
           replaced == Replaced(ended)
           collapsed == Collapsed(replaced)
           D == C \cup {Underscore}
<1>1. /\ started \in Seq(C) /\ Len(started) <= Len(raw) /\ ToSet(started) \subseteq ToSet(raw)
      /\ started # <<>> => started[1] # Space
    BY StartStripped
<1>2. Cleaned(raw) = StripEnd(collapsed, Edge) BY DEF Cleaned
<1> HIDE DEF started
<1>3. PICK m \in 0 .. Len(started) : ended = SubSeq(started, 1, m) BY <1>1, EndStripped
<1> HIDE DEF ended
<1>4. ended \in Seq(C) /\ Len(ended) = m /\ \A i \in 1 .. m : ended[i] = started[i] BY <1>1, <1>3, InitialPart
<1>5. Len(started) \in Nat /\ DOMAIN started = 1 .. Len(started) /\ DOMAIN ended = 1 .. m BY <1>1, <1>4
<1>6. \A i \in 1 .. m : ended[i] # Nul
    <2>1. \A i \in 1 .. m : started[i] \in ToSet(started) BY <1>5 DEF ToSet
    <2> QED BY <1>1, <1>4, <2>1
<1>7. ended # <<>> => ended[1] # Space
    <2> SUFFICES ASSUME ended # <<>> PROVE ended[1] # Space OBVIOUS
    <2>1. 1 \in 1 .. m /\ started # <<>> BY <1>1, <1>4, <1>5
    <2> QED BY <1>1, <1>4, <2>1
<1>8. /\ replaced \in Seq(D) /\ Len(replaced) = m
      /\ \A i \in DOMAIN replaced : replaced[i] \notin Forbidden /\ replaced[i] \in {ended[i], Underscore}
    BY <1>4, ForbiddenReplaced
<1> HIDE DEF replaced
<1>9. DOMAIN replaced = 1 .. m BY <1>8
<1>10. \A i \in DOMAIN replaced : IsPlain(replaced, i)
    BY <1>6, <1>8, <1>9 DEF IsPlain, Underscore, Nul
<1>11. replaced # <<>> => replaced[1] # Space
    <2> SUFFICES ASSUME replaced # <<>> PROVE replaced[1] # Space OBVIOUS
    <2>1. 1 \in 1 .. m BY <1>8
    <2>2. ended # <<>> BY <1>4, <2>1
    <2>3. Underscore # Space BY DEF Underscore, Space
    <2> QED BY <1>7, <1>8, <1>9, <2>1, <2>2, <2>3
<1>12. /\ collapsed \in Seq(D) /\ Len(collapsed) <= m
       /\ \A n \in DOMAIN collapsed : \E i \in DOMAIN replaced : collapsed[n] = replaced[i]
       /\ collapsed # <<>> => replaced # <<>> /\ collapsed[1] = replaced[1]
       /\ \A n \in DOMAIN collapsed : ~IsRepeated(collapsed, n)
    BY <1>8, RepeatedCollapsed
<1> HIDE DEF collapsed, D
<1>13. IsTidy(collapsed) BY <1>10, <1>11, <1>12 DEF IsTidy, IsPlain
<1>14. PICK n \in 0 .. Len(collapsed) : Cleaned(raw) = SubSeq(collapsed, 1, n)
    BY <1>2, <1>12, EndStripped
<1>15. IsTidy(Cleaned(raw)) BY <1>12, <1>13, <1>14, TidyPart
<1>16. Cleaned(raw) \in Seq(D) /\ Len(Cleaned(raw)) = n BY <1>12, <1>14, InitialPart
<1>17. n <= Len(raw)
    <2>1. Len(raw) \in Nat /\ Len(collapsed) \in Nat BY <1>12
    <2> QED BY <1>1, <1>5, <1>12, <2>1
<1> QED BY <1>15, <1>16, <1>17 DEF D

LEMMA TidyIsLeftAlone ==
    ASSUME NEW C, NEW base \in Seq(C), IsTidy(base), IsCanonicalBase(base),
           Len(base) <= MaxName, Len(base) <= MaxRawName
    PROVE  CanonicalBaseName(base) = {base}
<1>1. base # <<>> /\ base[1] # Space /\ Last(base) \notin Edge BY DEF IsCanonicalBase, IsTidy
<1>2. StripStart(base) = base BY <1>1, StartStripped
<1>3. StripEnd(base, {Space}) = base
    <2>1. Last(base) \notin {Space} BY <1>1 DEF Edge
    <2> QED BY <1>1, <2>1, EndStripped
<1>4. Replaced(base) = base BY ForbiddenReplaced DEF IsTidy, IsPlain
<1>5. Collapsed(base) = base BY NothingToCollapse DEF IsTidy
<1>6. StripEnd(base, Edge) = base BY <1>1, EndStripped
<1>7. Cleaned(base) = base BY <1>2, <1>3, <1>4, <1>5, <1>6 DEF Cleaned
<1>8. Len(base) \in Nat /\ Len(base) # 0 /\ DOMAIN base = 1 .. Len(base) BY <1>1
<1>9. Cut(base) = base BY <1>8, NamesAssumption DEF Cut
<1>10. Nul \notin ToSet(base) BY DEF IsTidy, IsPlain, ToSet
<1>11. IsAccepted(base) BY <1>7, <1>8, <1>10, NamesAssumption DEF IsAccepted
<1> QED BY <1>7, <1>9, <1>11 DEF CanonicalBaseName

LEMMA CanonicalNames ==
    ASSUME NEW C, NEW raw \in Seq(C), NEW base \in CanonicalBaseName(raw)
    PROVE  /\ IsCanonicalBase(base) /\ IsTidy(base) /\ Len(base) <= MaxName
           /\ CanonicalBaseName(base) = {base}
<1> DEFINE D == C \cup {Underscore}
           name == Cleaned(raw)
           part == SubSeq(name, 1, MaxName)
<1>1. base = Cut(name) /\ IsAccepted(raw) /\ IsCanonicalBase(base) BY DEF CanonicalBaseName
<1>2. Nul \notin ToSet(raw) /\ Len(raw) <= MaxRawName /\ Len(raw) \in Nat
    BY <1>1 DEF IsAccepted
<1>3. name \in Seq(D) /\ Len(name) <= Len(raw) /\ IsTidy(name) BY <1>2, CleanedIsTidy
<1> HIDE DEF D, name
<1>4. Len(name) \in Nat BY <1>3
<1>5. \E n \in 0 .. Len(name) : base = SubSeq(name, 1, n) /\ n <= MaxName
    <2>1. CASE Len(name) > MaxName
        <3>1. MaxName \in 0 .. Len(name) BY <1>4, <2>1, NamesAssumption
        <3>2. part \in Seq(D) /\ Len(part) = MaxName BY <1>3, <3>1, InitialPart
        <3>3. base = StripEnd(part, Edge) BY <1>1, <2>1 DEF Cut
        <3>4. PICK n \in 0 .. MaxName : base = SubSeq(part, 1, n)
            <4> HIDE DEF part
            <4> QED BY <3>2, <3>3, EndStripped
        <3>5. SubSeq(part, 1, n) = SubSeq(name, 1, n) BY <1>3, <3>1, PartOfPart
        <3> QED BY <1>4, <3>1, <3>4, <3>5
    <2>2. CASE ~(Len(name) > MaxName)
        <3>1. base = name BY <1>1, <2>2 DEF Cut
        <3>2. base = SubSeq(name, 1, Len(name)) BY <1>3, <3>1, WholeSequence
        <3> QED BY <1>4, <2>2, <3>2, NamesAssumption
    <2> QED BY <2>1, <2>2
<1>6. PICK n \in 0 .. Len(name) : base = SubSeq(name, 1, n) /\ n <= MaxName BY <1>5
<1>7. base \in Seq(D) /\ Len(base) = n BY <1>3, <1>6, InitialPart
<1>8. IsTidy(base) BY <1>3, <1>6, TidyPart
<1>9. Len(base) <= MaxRawName BY <1>2, <1>3, <1>4, <1>6, <1>7, NamesAssumption
<1>10. CanonicalBaseName(base) = {base} BY <1>1, <1>6, <1>7, <1>8, <1>9, TidyIsLeftAlone
<1> QED BY <1>1, <1>6, <1>7, <1>8, <1>10

(***************************************************************************)
(* The name of a delivery is one that making safe leaves as it is, however *)
(* the uploaded name was stripped, collapsed and cut.                      *)
(***************************************************************************)
THEOREM DeliveredNamesStayCanonical == Spec => []DeliveredNamesAreCanonical
<1>1. ChainInv => DeliveredNamesAreCanonical
    <2> SUFFICES ASSUME ChainInv, answer = 200 PROVE DeliveredNamesAreCanonical
        BY DEF DeliveredNamesAreCanonical
    <2>1. request.name \in Seq(ToSet(request.name)) BY RequestsAssumption DEF ChainInv
    <2>2. delivery.base \in CanonicalBaseName(request.name) BY DEF ChainInv
    <2> QED BY <2>1, <2>2, CanonicalNames DEF DeliveredNamesAreCanonical
<1> QED BY <1>1, ChainInvariant, PTL

-------------------------------------------------------------------------------
(***************************************************************************)
(* Numbers. The powers of ten and the count of the digits are recursive    *)
(* functions; a coefficient is below ten to the number of its digits, so   *)
(* the short cuts of _exact_half_points only leave out what is no exact    *)
(* integer, or is larger than the largest font size.                       *)
(***************************************************************************)
LEMMA PowersOfTen ==
    /\ PowerOfTen[0] = 1
    /\ \A n \in Nat \ {0} : PowerOfTen[n] = 10 * PowerOfTen[n - 1]
    /\ PowerOfTen \in [Nat -> Nat]
<1> DEFINE IsPowers(f) == f = [n \in Nat |-> IF n = 0 THEN 1 ELSE 10 * f[n - 1]]
           step == [p \in Nat \X Nat |-> 10 * p[2]]
<1>1. step \in [Nat \X Nat -> Nat] OBVIOUS
<1>2. \A n, m \in Nat : step[<<n, m>>] = 10 * m OBVIOUS
<1> HIDE DEF step
<1>3. IsDefinedOnNat(Nat, 1, step) BY <1>1, NatRecursion
<1>4. PICK f \in [Nat -> Nat] : f[0] = 1 /\ \A n \in Nat \ {0} : f[n] = step[<<n, f[n - 1]>>]
    BY <1>3 DEF IsDefinedOnNat
<1>5. \A n \in Nat \ {0} : n - 1 \in Nat /\ f[n] = 10 * f[n - 1]
    <2> SUFFICES ASSUME NEW n \in Nat \ {0} PROVE n - 1 \in Nat /\ f[n] = 10 * f[n - 1] OBVIOUS
    <2>1. n - 1 \in Nat /\ n \in Nat /\ f[n - 1] \in Nat BY <1>4
    <2>2. f[n] = step[<<n, f[n - 1]>>] BY <1>4
    <2> QED BY <1>2, <2>1, <2>2
<1>6. IsPowers(f) BY <1>4, <1>5
<1>7. PowerOfTen = CHOOSE g : IsPowers(g) BY DEF PowerOfTen
<1>8. IsPowers(PowerOfTen) BY <1>6, <1>7
<1>9. ASSUME NEW g, IsPowers(g) PROVE g = f
    <2> DEFINE S == {n \in Nat : g[n] = f[n]}
    <2>1. 0 \in S BY <1>4, <1>9
    <2>2. ASSUME NEW n \in Nat, n \in S PROVE n + 1 \in S
        <3>1. n + 1 \in Nat \ {0} /\ n + 1 - 1 = n OBVIOUS
        <3>2. g[n + 1] = 10 * g[n] BY <1>9, <3>1
        <3>3. f[n + 1] = 10 * f[n] BY <1>5, <3>1
        <3> QED BY <2>2, <3>2, <3>3
    <2>3. ASSUME NEW n \in Nat PROVE n \in S
        <3>1. \A k \in 0 .. n - 1 : k \in S => k + 1 \in S BY <2>2
        <3> HIDE DEF S
        <3>2. \A k \in 0 .. n : k \in S BY <2>1, <3>1, NatInductionUpTo
        <3> QED BY <3>2
    <2>4. \A n \in Nat : g[n] = f[n] BY <2>3
    <2>5. g \in [Nat -> Nat] /\ DOMAIN g = Nat
        <3>1. DOMAIN g = Nat /\ g = [n \in Nat |-> g[n]] BY <1>9
        <3> QED BY <2>4, <3>1, <1>4
    <2> QED BY <1>4, <2>4, <2>5
<1> HIDE DEF IsPowers
<1>10. PowerOfTen = f BY <1>8, <1>9
<1> QED BY <1>4, <1>5, <1>10

LEMMA PowersArePositive ==
    \A n \in Nat : PowerOfTen[n] \in Nat /\ PowerOfTen[n] >= 1
<1> DEFINE S == {n \in Nat : PowerOfTen[n] >= 1}
<1>1. 0 \in S BY PowersOfTen
<1>2. ASSUME NEW n \in Nat, n \in S PROVE n + 1 \in S
    <2>1. n + 1 \in Nat \ {0} /\ n + 1 - 1 = n OBVIOUS
    <2>2. PowerOfTen[n + 1] = 10 * PowerOfTen[n] BY <2>1, PowersOfTen
    <2> QED BY <1>2, <2>2, PowersOfTen
<1>3. ASSUME NEW n \in Nat PROVE n \in S
    <2>1. \A k \in 0 .. n - 1 : k \in S => k + 1 \in S BY <1>2
    <2> HIDE DEF S
    <2>2. \A k \in 0 .. n : k \in S BY <1>1, <2>1, NatInductionUpTo
    <2> QED BY <2>2
<1> QED BY <1>3, PowersOfTen

LEMMA PowersGrow ==
    ASSUME NEW m \in Nat, NEW n \in Nat, m <= n
    PROVE  PowerOfTen[m] <= PowerOfTen[n]
<1> DEFINE S == {k \in Nat : PowerOfTen[m] <= PowerOfTen[m + k]}
<1>1. 0 \in S
    <2>1. m + 0 = m OBVIOUS
    <2> QED BY <2>1, PowersArePositive
<1>2. ASSUME NEW k \in 0 .. n - m - 1, k \in S PROVE k + 1 \in S
    <2>1. m + (k + 1) \in Nat \ {0} /\ m + (k + 1) - 1 = m + k /\ m + k \in Nat OBVIOUS
    <2>2. PowerOfTen[m + (k + 1)] = 10 * PowerOfTen[m + k] BY <2>1, PowersOfTen
    <2>3. PowerOfTen[m + k] \in Nat /\ PowerOfTen[m] \in Nat BY <2>1, PowersArePositive
    <2>4. PowerOfTen[m] <= PowerOfTen[m + k] BY <1>2
    <2>5. PowerOfTen[m] <= PowerOfTen[m + (k + 1)] BY <2>2, <2>3, <2>4
    <2> QED BY <2>5
<1>3. n - m \in Nat /\ m + (n - m) = n OBVIOUS
<1> HIDE DEF S
<1>4. \A k \in 0 .. n - m : k \in S BY <1>1, <1>2, <1>3, NatInductionUpTo
<1>5. n - m \in S BY <1>3, <1>4
<1> QED BY <1>3, <1>5 DEF S

LEMMA TenThousand == PowerOfTen[4] = 10000
<1>1. 4 \in Nat \ {0} /\ 3 \in Nat \ {0} /\ 2 \in Nat \ {0} /\ 1 \in Nat \ {0} OBVIOUS
<1>2. 4 - 1 = 3 /\ 3 - 1 = 2 /\ 2 - 1 = 1 /\ 1 - 1 = 0 OBVIOUS
<1> QED BY <1>1, <1>2, PowersOfTen

LEMMA Quotient ==
    ASSUME NEW c \in Nat
    PROVE  /\ c \div 10 \in Nat /\ c < 10 * (c \div 10) + 10
           /\ c >= 10 => c \div 10 < c
OBVIOUS

LEMMA DigitsAreCounted ==
    \A c \in Nat : Digits[c] \in Nat /\ Digits[c] = IF c < 10 THEN 1 ELSE 1 + Digits[c \div 10]
<1> DEFINE IsCount(f) == f = [c \in Nat |-> IF c < 10 THEN 1 ELSE 1 + f[c \div 10]]
           X == [Nat -> Nat]
           start == [c \in Nat |-> 1]
           step == [p \in Nat \X X |-> [c \in Nat |-> IF c < 10 THEN 1 ELSE 1 + p[2][c \div 10]]]
<1>1. start \in X OBVIOUS
<1>2. step \in [Nat \X X -> X]
    <2> SUFFICES ASSUME NEW p \in Nat \X X
                 PROVE  [c \in Nat |-> IF c < 10 THEN 1 ELSE 1 + p[2][c \div 10]] \in X
        OBVIOUS
    <2>1. p[2] \in [Nat -> Nat] OBVIOUS
    <2>2. \A c \in Nat : p[2][c \div 10] \in Nat BY <2>1, Quotient
    <2> QED BY <2>2
<1>3. \A n \in Nat, f \in X, c \in Nat :
          step[<<n, f>>][c] = IF c < 10 THEN 1 ELSE 1 + f[c \div 10]
    OBVIOUS
<1> HIDE DEF start, step, X
<1>4. IsDefinedOnNat(X, start, step) BY <1>1, <1>2, NatRecursion
<1>5. PICK g \in [Nat -> X] : \A n \in Nat \ {0} : g[n] = step[<<n, g[n - 1]>>]
    BY <1>4 DEF IsDefinedOnNat
<1>6. \A n, c \in Nat : g[n][c] \in Nat BY <1>5 DEF X
<1>7. ASSUME NEW n \in Nat, NEW c \in Nat
      PROVE  g[n + 1][c] = IF c < 10 THEN 1 ELSE 1 + g[n][c \div 10]
    <2>1. n + 1 \in Nat \ {0} /\ n + 1 - 1 = n /\ g[n] \in X BY <1>5
    <2>2. g[n + 1] = step[<<n + 1, g[n]>>] BY <1>5, <2>1
    <2> QED BY <1>3, <2>1, <2>2
<1> DEFINE S == {n \in Nat : n = 0 \/ \A c \in 0 .. n - 1 : g[n + 1][c] = g[n][c]}
<1>8. 0 \in S OBVIOUS
<1>9. ASSUME NEW n \in Nat, n \in S PROVE n + 1 \in S
    <2> SUFFICES ASSUME NEW c \in 0 .. n PROVE g[n + 1 + 1][c] = g[n + 1][c] OBVIOUS
    <2>1. n + 1 \in Nat /\ c \in Nat OBVIOUS
    <2>2. g[n + 1 + 1][c] = IF c < 10 THEN 1 ELSE 1 + g[n + 1][c \div 10] BY <1>7, <2>1
    <2>3. g[n + 1][c] = IF c < 10 THEN 1 ELSE 1 + g[n][c \div 10] BY <1>7, <2>1
    <2>4. CASE c < 10 BY <2>2, <2>3, <2>4
    <2>5. CASE c >= 10
        <3>1. c \div 10 \in 0 .. n - 1 /\ n # 0 BY <2>5, Quotient
        <3>2. g[n + 1][c \div 10] = g[n][c \div 10] BY <1>9, <3>1
        <3> QED BY <2>1, <2>2, <2>3, <2>5, <3>2
    <2> QED BY <2>1, <2>4, <2>5
<1>10. ASSUME NEW n \in Nat PROVE n \in S
    <2>1. \A k \in 0 .. n - 1 : k \in S => k + 1 \in S BY <1>9
    <2> HIDE DEF S
    <2>2. \A k \in 0 .. n : k \in S BY <1>8, <2>1, NatInductionUpTo
    <2> QED BY <2>2
<1>11. ASSUME NEW n \in Nat, NEW c \in 0 .. n - 1 PROVE g[n][c] = g[c + 1][c]
    <2> DEFINE T == {k \in Nat : g[c + 1 + k][c] = g[c + 1][c]}
    <2>1. 0 \in T OBVIOUS
    <2>2. ASSUME NEW k \in 0 .. n - (c + 1) - 1, k \in T PROVE k + 1 \in T
        <3>1. c + 1 + k \in Nat /\ c \in 0 .. c + 1 + k - 1 /\ c + 1 + k # 0 OBVIOUS
        <3>2. c + 1 + k \in S BY <1>10, <3>1
        <3>3. g[c + 1 + k + 1][c] = g[c + 1 + k][c] BY <3>1, <3>2
        <3>4. c + 1 + (k + 1) = c + 1 + k + 1 /\ k + 1 \in Nat OBVIOUS
        <3> QED BY <2>2, <3>3, <3>4
    <2>3. n - (c + 1) \in Nat /\ c + 1 + (n - (c + 1)) = n OBVIOUS
    <2> HIDE DEF T
    <2>4. \A k \in 0 .. n - (c + 1) : k \in T BY <2>1, <2>2, <2>3, NatInductionUpTo
    <2>5. n - (c + 1) \in T BY <2>3, <2>4
    <2> QED BY <2>3, <2>5 DEF T
<1> DEFINE h == [c \in Nat |-> g[c + 1][c]]
<1> HIDE DEF S
<1>12. h \in [Nat -> Nat] BY <1>6
<1>13. ASSUME NEW c \in Nat PROVE h[c] = IF c < 10 THEN 1 ELSE 1 + h[c \div 10]
    <2>1. h[c] = IF c < 10 THEN 1 ELSE 1 + g[c][c \div 10] BY <1>7
    <2>2. CASE c < 10 BY <2>1, <2>2
    <2>3. CASE c >= 10
        <3>1. c \div 10 \in 0 .. c - 1 /\ c \div 10 \in Nat BY <2>3, Quotient
        <3>2. g[c][c \div 10] = g[c \div 10 + 1][c \div 10] BY <1>11, <3>1
        <3>3. h[c \div 10] = g[c \div 10 + 1][c \div 10] BY <3>1
        <3> HIDE DEF h
        <3> QED BY <2>1, <2>3, <3>2, <3>3
    <2> QED BY <2>2, <2>3
<1> HIDE DEF h
<1>14. IsCount(h)
    <2>1. h = [c \in Nat |-> h[c]] BY <1>12
    <2> QED BY <1>13, <2>1
<1>15. Digits = CHOOSE f : IsCount(f) BY DEF Digits
<1>16. IsCount(Digits) BY <1>14, <1>15
<1>17. \A c \in Nat : Digits[c] = IF c < 10 THEN 1 ELSE 1 + Digits[c \div 10] BY <1>16
<1> HIDE DEF IsCount
<1> DEFINE T == {n \in Nat : \A c \in 0 .. n : Digits[c] \in Nat}
<1>18. 0 \in T BY <1>17
<1>19. ASSUME NEW n \in Nat, n \in T PROVE n + 1 \in T
    <2> SUFFICES ASSUME NEW c \in 0 .. n + 1 PROVE Digits[c] \in Nat OBVIOUS
    <2>1. CASE c < 10 BY <1>17, <2>1
    <2>2. CASE c >= 10
        <3>1. c \div 10 \in 0 .. n BY <2>2, Quotient
        <3>2. Digits[c \div 10] \in Nat BY <1>19, <3>1
        <3> QED BY <1>17, <2>2, <3>2
    <2> QED BY <2>1, <2>2
<1>20. ASSUME NEW n \in Nat PROVE n \in T
    <2>1. \A k \in 0 .. n - 1 : k \in T => k + 1 \in T BY <1>19
    <2> HIDE DEF T
    <2>2. \A k \in 0 .. n : k \in T BY <1>18, <2>1, NatInductionUpTo
    <2> QED BY <2>2
<1>21. \A n \in Nat : Digits[n] \in Nat BY <1>20
<1> QED BY <1>17, <1>21

LEMMA DigitsBound ==
    \A c \in Nat : c < PowerOfTen[Digits[c]]
<1> DEFINE T == {n \in Nat : \A c \in 0 .. n : c < PowerOfTen[Digits[c]]}
<1>1. \A c \in Nat : c < 10 => c < PowerOfTen[Digits[c]]
    <2>1. PowerOfTen[1] = 10
        <3>1. 1 \in Nat \ {0} /\ 1 - 1 = 0 OBVIOUS
        <3> QED BY <3>1, PowersOfTen
    <2>2. \A c \in Nat : c < 10 => Digits[c] = 1 BY DigitsAreCounted
    <2> QED BY <2>1, <2>2
<1>2. 0 \in T BY <1>1
<1>3. ASSUME NEW n \in Nat, n \in T PROVE n + 1 \in T
    <2> SUFFICES ASSUME NEW c \in 0 .. n + 1 PROVE c < PowerOfTen[Digits[c]] OBVIOUS
    <2>1. CASE c < 10 BY <1>1, <2>1
    <2>2. CASE c >= 10
        <3> DEFINE q == c \div 10
        <3>1. q \in 0 .. n /\ q \in Nat /\ c < 10 * q + 10 BY <2>2, Quotient
        <3> HIDE DEF q
        <3>2. q < PowerOfTen[Digits[q]] BY <1>3, <3>1
        <3>3. Digits[c] = 1 + Digits[q] /\ Digits[q] \in Nat BY <2>2, <3>1, DigitsAreCounted DEF q
        <3>4. 1 + Digits[q] \in Nat \ {0} /\ 1 + Digits[q] - 1 = Digits[q] BY <3>3
        <3>5. PowerOfTen[1 + Digits[q]] = 10 * PowerOfTen[Digits[q]]
            <4> DEFINE m == 1 + Digits[q]
            <4>1. m \in Nat \ {0} /\ m - 1 = Digits[q] BY <3>3
            <4> HIDE DEF m
            <4>2. PowerOfTen[m] = 10 * PowerOfTen[m - 1] BY <4>1, PowersOfTen
            <4> QED BY <4>1, <4>2 DEF m
        <3>6. PowerOfTen[Digits[q]] \in Nat BY <3>3, PowersArePositive
        <3>7. c < 10 * PowerOfTen[Digits[q]] BY <3>1, <3>2, <3>6
        <3> QED BY <3>3, <3>5, <3>7
    <2> QED BY <2>1, <2>2
<1>4. ASSUME NEW n \in Nat PROVE n \in T
    <2>1. \A k \in 0 .. n - 1 : k \in T => k + 1 \in T BY <1>3
    <2> HIDE DEF T
    <2>2. \A k \in 0 .. n : k \in T BY <1>2, <2>1, NatInductionUpTo
    <2> QED BY <2>2
<1>5. \A n \in Nat : n \in 0 .. n OBVIOUS
<1> QED BY <1>4, <1>5

LEMMA QuotientOfNaturals ==
    ASSUME NEW a \in Nat, NEW b \in Nat, b >= 1
    PROVE  a \div b \in Nat
OBVIOUS

LEMMA CanonicalIsADecimal ==
    ASSUME NEW d, IsDecimal(d)
    PROVE  IsDecimal(CanonicalDecimal(d))
<1> DEFINE c == d.coefficient
           T == {n \in 0 .. Digits[c] : c % PowerOfTen[n] = 0}
           zeros == Max(T)
<1>1. c \in Nat /\ d.exponent \in Int BY DEF IsDecimal
<1>2. CASE c = 0
    <2>1. CanonicalDecimal(d) = Decimal(FALSE, 0, 0) BY <1>2 DEF CanonicalDecimal
    <2> QED BY <2>1 DEF Decimal, IsDecimal
<1>3. CASE c # 0
    <2>1. CanonicalDecimal(d) = Decimal(d.negative, c \div PowerOfTen[zeros], d.exponent + zeros)
        BY <1>3 DEF CanonicalDecimal
    <2> HIDE DEF c
    <2>2. Digits[c] \in Nat BY <1>1, DigitsAreCounted
    <2>3. 0 \in T BY <1>1, <2>2, PowersOfTen
    <2>4. T \in SUBSET (0 .. Digits[c]) OBVIOUS
    <2> HIDE DEF T
    <2>5. zeros \in 0 .. Digits[c]
        <3>1. T # {} BY <2>3
        <3> QED BY <2>2, <2>4, <3>1, GreatestOf
    <2> HIDE DEF zeros
    <2>6. PowerOfTen[zeros] \in Nat /\ PowerOfTen[zeros] >= 1 BY <2>2, <2>5, PowersArePositive
    <2>7. c \div PowerOfTen[zeros] \in Nat BY <1>1, <2>6, QuotientOfNaturals
    <2>8. d.exponent + zeros \in Int BY <1>1, <2>2, <2>5
    <2> QED BY <2>1, <2>7, <2>8 DEF Decimal, IsDecimal
<1> QED BY <1>2, <1>3

LEMMA ProductIsLarge ==
    ASSUME NEW a \in Nat, NEW b \in Nat, a >= 1
    PROVE  a * b \in Nat /\ a * b >= b /\ b * a >= b
OBVIOUS

(***************************************************************************)
(* The integer a positive decimal is in units is positive.                 *)
(***************************************************************************)
LEMMA ExactIntegers ==
    ASSUME NEW d, IsDecimal(d), d.coefficient >= 1, NEW unit \in Nat, unit >= 1, NEW n \in Exactly(d, unit)
    PROVE  /\ n \in Nat /\ n >= 1
           /\ d.exponent >= 0 => n >= unit * PowerOfTen[d.exponent]
           /\ d.exponent < 0 => d.coefficient * unit >= PowerOfTen[-d.exponent]
<1> DEFINE c == d.coefficient
           e == d.exponent
<1>1. c \in Nat /\ e \in Int /\ c >= 1 BY DEF IsDecimal
<1>2. c * unit \in Nat /\ c * unit >= 1 /\ c * unit >= unit BY <1>1, ProductIsLarge
<1>3. CASE e >= 0
    <2>1. n = c * unit * PowerOfTen[e] BY <1>3 DEF Exactly
    <2> DEFINE p == PowerOfTen[e]
               m == c * unit
    <2>2. p \in Nat /\ p >= 1 BY <1>1, <1>3, PowersArePositive
    <2>3. m \in Nat /\ m >= unit /\ m >= 1 BY <1>2
    <2>4. n = m * p BY <2>1
    <2> HIDE DEF m, p, c, e
    <2>5. m * p >= unit * p BY <2>2, <2>3
    <2>6. m * p >= m /\ m * p \in Nat BY <2>2, <2>3, ProductIsLarge
    <2>7. n \in Nat /\ n >= 1 /\ n >= unit * p BY <2>3, <2>4, <2>5, <2>6
    <2>8. ~(e < 0) BY <1>1, <1>3
    <2> QED BY <2>7, <2>8 DEF p, e
<1>4. CASE e < 0
    <2> DEFINE p == PowerOfTen[-e]
               m == c * unit
    <2>1. n = m \div p /\ n * p = m BY <1>1, <1>4 DEF Exactly
    <2>2. p \in Nat /\ p >= 1
        <3>1. -e \in Nat BY <1>1, <1>4
        <3> HIDE DEF e
        <3> QED BY <3>1, PowersArePositive
    <2>3. m \in Nat /\ m >= 1 BY <1>2
    <2> HIDE DEF m, p, c, e
    <2>4. n \in Nat BY <2>1, <2>2, <2>3, QuotientOfNaturals
    <2>5. n # 0 BY <2>1, <2>2, <2>3
    <2>6. n * p >= p BY <2>2, <2>4, <2>5, ProductIsLarge
    <2>7. n >= 1 /\ m >= p BY <2>1, <2>4, <2>5, <2>6
    <2>8. ~(e >= 0) BY <1>1, <1>4
    <2> QED BY <2>4, <2>7, <2>8 DEF m, p, c, e
<1> QED BY <1>1, <1>3, <1>4

LEMMA AcceptedNumbersAreWritten ==
    ASSUME NEW d, IsDecimal(d), NEW property, IsNumeric(property), NumberFault(property, d) = "none"
    PROVE  \E n \in Written(property, d) : n > 0 /\ ReadsBackAs(property, n, d)
<1> DEFINE c == d.coefficient
           e == d.exponent
<1>1. c \in Nat /\ e \in Int BY DEF IsDecimal
<1>2. Positive(d) /\ c >= 1
    <2>1. Positive(d) BY DEF NumberFault
    <2> QED BY <1>1, <2>1 DEF Positive
<1>3. PICK n \in Exactly(d, UnitOf(property)) : n <= LargestOf(property)
    BY DEF NumberFault
<1>4. UnitOf(property) \in Nat /\ UnitOf(property) >= 1 BY DEF UnitOf
<1>5. /\ n \in Nat /\ n >= 1
      /\ e >= 0 => n >= UnitOf(property) * PowerOfTen[e]
      /\ e < 0 => c * UnitOf(property) >= PowerOfTen[-e]
    BY <1>2, <1>3, <1>4, ExactIntegers
<1>6. ReadsBackAs(property, n, d) BY <1>3 DEF ReadsBackAs
<1>7. CASE property = "line_spacing"
    <2>1. n \in WrittenLine(d) BY <1>2, <1>3, <1>7 DEF WrittenLine, UnitOf, LargestOf
    <2> QED BY <1>5, <1>6, <1>7, <2>1 DEF Written
<1>8. CASE property = "font_size"
    <2>1. UnitOf(property) = 2 /\ LargestOf(property) = MaxHalfPoints BY <1>8 DEF UnitOf, LargestOf
    <2>2. ~GivesUp(d)
        <3>1. ASSUME e > 3 PROVE FALSE
            <4> HIDE DEF e
            <4>1. PowerOfTen[4] <= PowerOfTen[e] /\ e \in Nat BY <1>1, <3>1, PowersGrow
            <4>2. PowerOfTen[e] \in Nat BY <4>1, PowersArePositive
            <4> QED BY <1>3, <1>5, <2>1, <3>1, <4>1, <4>2, TenThousand, LimitsAssumption
        <3>2. ASSUME -e > Digits[c] + 1 PROVE FALSE
            <4> HIDE DEF e, c
            <4>1. Digits[c] \in Nat /\ c < PowerOfTen[Digits[c]] BY <1>1, DigitsAreCounted, DigitsBound
            <4> DEFINE k == Digits[c] + 1
            <4>2. k \in Nat \ {0} /\ k - 1 = Digits[c] /\ -e \in Nat /\ k <= -e BY <1>1, <3>2, <4>1
            <4>3. -e >= 0 /\ e < 0 BY <1>1, <3>2, <4>1
            <4> HIDE DEF k
            <4>4. PowerOfTen[k] = 10 * PowerOfTen[Digits[c]] BY <4>2, PowersOfTen
            <4>5. PowerOfTen[k] <= PowerOfTen[-e] BY <4>2, PowersGrow
            <4>6. PowerOfTen[-e] \in Nat /\ PowerOfTen[Digits[c]] \in Nat BY <4>1, <4>2, PowersArePositive
            <4>7. c * 2 >= PowerOfTen[-e] BY <1>5, <2>1, <4>3
            <4> QED BY <1>1, <4>1, <4>4, <4>5, <4>6, <4>7
        <3> QED BY <3>1, <3>2 DEF GivesUp
    <2>3. n \in WrittenHalfPoints(d) BY <1>2, <1>3, <2>1, <2>2 DEF WrittenHalfPoints
    <2> QED BY <1>5, <1>6, <1>8, <2>3 DEF Written
<1> QED BY <1>7, <1>8 DEF IsNumeric

LEMMA NoFirstFault ==
    ASSUME NEW S, NEW faults \in Seq(S), FirstFault(faults) = "none"
    PROVE  \A i \in DOMAIN faults : faults[i] = "none"
<1> DEFINE I == {i \in 1 .. Len(faults) : faults[i] # "none"}
<1>1. DOMAIN faults = 1 .. Len(faults) /\ Len(faults) \in Nat OBVIOUS
<1>2. I # {} => FirstFault(faults) = IF Min(I) = 0 THEN "none" ELSE faults[Min(I)]
    BY DEF FirstFault, SelectInSeq
<1>3. I # {} => Min(I) \in I
    <2>1. I \in SUBSET Nat OBVIOUS
    <2> HIDE DEF I
    <2> QED BY <2>1, LeastOf
<1>4. \A i \in I : i # 0 /\ faults[i] # "none" OBVIOUS
<1>5. I = {}
    <2> HIDE DEF I
    <2> QED BY <1>2, <1>3, <1>4
<1> QED BY <1>1, <1>5

LEMMA OneMore ==
    ASSUME NEW S, NEW s \in Seq(S), NEW x \in S
    PROVE  /\ s \o <<x>> \in Seq(S) /\ Len(s \o <<x>>) = Len(s) + 1
           /\ \A i \in 1 .. Len(s) : (s \o <<x>>)[i] = s[i]
           /\ (s \o <<x>>)[Len(s) + 1] = x
OBVIOUS

LEMMA NoFaultInASet ==
    ASSUME NEW rule, rule.allowed \in Seq(ToSet(rule.allowed)), SetFault(rule) = "none"
    PROVE  \A value \in ValuesOf(rule) : ValueFault(rule.property, value) = "none"
<1> DEFINE allowed == rule.allowed
           faults == [i \in DOMAIN allowed |-> ValueFault(rule.property, allowed[i])]
           all == faults \o <<AllowedFault(rule)>>
           V == {ValueFault(rule.property, v) : v \in ToSet(allowed)} \cup {AllowedFault(rule)}
<1>1. rule.value = NoValue /\ FirstFault(all) = "none" BY DEF SetFault
<1>2. DOMAIN allowed = 1 .. Len(allowed) /\ Len(allowed) \in Nat OBVIOUS
<1>3. faults \in Seq(V) /\ Len(faults) = Len(allowed)
    <2>1. faults \in [1 .. Len(allowed) -> V]
        <3>1. \A i \in DOMAIN allowed : allowed[i] \in ToSet(allowed) BY DEF ToSet
        <3> QED BY <1>2, <3>1
    <2> HIDE DEF faults, V
    <2> QED BY <1>2, <2>1, SeqDef
<1>5. \A i \in DOMAIN allowed : faults[i] = ValueFault(rule.property, allowed[i]) OBVIOUS
<1>6. /\ all \in Seq(V) /\ Len(all) = Len(allowed) + 1
      /\ \A i \in 1 .. Len(allowed) : all[i] = faults[i]
      /\ all[Len(allowed) + 1] = AllowedFault(rule)
    <2>1. AllowedFault(rule) \in V OBVIOUS
    <2> HIDE DEF faults, V
    <2> QED BY <1>3, <2>1, OneMore
<1> HIDE DEF faults, all, V
<1>7. \A i \in 1 .. Len(allowed) + 1 : all[i] = "none"
    <2>1. DOMAIN all = 1 .. Len(allowed) + 1 BY <1>6
    <2> QED BY <1>1, <1>6, <2>1, NoFirstFault
<1>8. \A v \in ToSet(allowed) : ValueFault(rule.property, v) = "none"
    <2> SUFFICES ASSUME NEW i \in DOMAIN allowed PROVE ValueFault(rule.property, allowed[i]) = "none"
        BY DEF ToSet
    <2>1. i \in 1 .. Len(allowed) /\ i \in 1 .. Len(allowed) + 1 BY <1>2
    <2> QED BY <1>5, <1>6, <1>7, <2>1
<1>9. AllowedFault(rule) = "none"
    <2>1. Len(allowed) + 1 \in 1 .. Len(allowed) + 1 BY <1>2
    <2> QED BY <1>6, <1>7, <2>1
<1>10. rule.preferred = NoValue \/ ValueFault(rule.property, rule.preferred) = "none"
    BY <1>9 DEF AllowedFault
<1> QED BY <1>1, <1>8, <1>10 DEF ValuesOf

LEMMA NoFaultInARule ==
    ASSUME NEW rule, IsParsed(rule), NEW schema, RuleFault(schema, rule) = "none"
    PROVE  /\ rule.property \in PropertiesOf(schema)
           /\ \A value \in ValuesOf(rule) : ValueFault(rule.property, value) = "none"
<1>1. rule.property \in PropertiesOf(schema) /\ rule.class \in {"body", "heading"}
    BY DEF RuleFault
<1>2. \/ rule.mode = "exact" /\ ExactFault(rule) = "none"
      \/ rule.mode = "set" /\ SetFault(rule) = "none"
      \/ rule.mode = "preserve" /\ PreserveFault(rule) = "none"
    BY <1>1 DEF RuleFault
<1>3. ToSet(<<>>) = {} BY DEF ToSet
<1>4. CASE ExactFault(rule) = "none"
    <2>1. rule.allowed = <<>> /\ rule.preferred = NoValue /\ ValueFault(rule.property, rule.value) = "none"
        BY <1>4 DEF ExactFault
    <2> QED BY <1>1, <1>3, <2>1 DEF ValuesOf
<1>5. CASE SetFault(rule) = "none" BY <1>1, <1>5, NoFaultInASet DEF IsParsed
<1>6. CASE PreserveFault(rule) = "none"
    <2>1. rule.allowed = <<>> /\ rule.preferred = NoValue /\ rule.value = NoValue
        BY <1>6 DEF PreserveFault
    <2> QED BY <1>1, <1>3, <2>1 DEF ValuesOf
<1> QED BY <1>2, <1>4, <1>5, <1>6

(***************************************************************************)
(* Whatever is in a profile without fault, the session's own checks accept *)
(* it and the patcher writes it.                                           *)
(***************************************************************************)
LEMMA AcceptedRules ==
    ASSUME NEW rule, IsParsed(rule), NEW schema, RuleFault(schema, rule) = "none",
           NEW d \in RuleValuesOf(rule)
    PROVE  /\ SessionAccepts(rule.property, d)
           /\ IsNumeric(rule.property) =>
                  \E n \in Written(rule.property, d) : n > 0 /\ ReadsBackAs(rule.property, n, d)
<1>1. PICK v \in ValuesOf(rule) : d = AdaptedValue(rule.property, v) BY DEF RuleValuesOf
<1>2. ValueFault(rule.property, v) = "none" /\ rule.property \in PropertiesOf(schema) BY NoFaultInARule
<1>3. rule.property \in {"bold", "alignment", "font_size", "line_spacing"} BY <1>2 DEF PropertiesOf
<1>4. CASE IsNumeric(rule.property)
    <2>1. d = CanonicalDecimal(v) BY <1>1, <1>4 DEF AdaptedValue, CanonicalValue, IsNumeric
    <2>2. IsDecimal(d) BY <1>4, <2>1, CanonicalIsADecimal DEF IsParsed
    <2>3. NumberFault(rule.property, d) = "none" BY <1>2, <1>4, <2>1 DEF ValueFault, IsNumeric
    <2>4. SessionAccepts(rule.property, d)
        <3>1. Positive(d) /\ WithinCapability(d) BY <2>3 DEF NumberFault
        <3>2. PICK n \in Exactly(d, UnitOf(rule.property)) : n <= LargestOf(rule.property)
            BY <2>3 DEF NumberFault
        <3>3. rule.property = "line_spacing" => n <= MaxLineTwips BY <3>2 DEF LargestOf
        <3> QED BY <1>4, <3>1, <3>2, <3>3 DEF SessionAccepts, IsNumeric
    <2> QED BY <1>4, <2>2, <2>3, <2>4, AcceptedNumbersAreWritten
<1>5. CASE rule.property = "bold"
    <2>1. v \in {"true", "false"} BY <1>2, <1>5 DEF ValueFault
    <2>2. d = v BY <1>1, <1>5 DEF AdaptedValue, CanonicalValue, IsNumeric
    <2> QED BY <1>5, <2>1, <2>2 DEF SessionAccepts, IsNumeric
<1>6. CASE rule.property = "alignment"
    <2>1. v \in {"left", "center", "right", "justify"} BY <1>2, <1>6 DEF ValueFault
    <2>2. d = IF v = "justify" THEN "both" ELSE v
        BY <1>1, <1>6 DEF AdaptedValue, CanonicalValue, IsNumeric
    <2> QED BY <1>6, <2>1, <2>2 DEF SessionAccepts, IsNumeric
<1> QED BY <1>3, <1>4, <1>5, <1>6 DEF IsNumeric

LEMMA AcceptedProfiles ==
    ASSUME NEW profile, profile.rules \in Seq(ToSet(profile.rules)),
           \A rule \in ToSet(profile.rules) : IsParsed(rule),
           ProfileFault(profile) = "none"
    PROVE  /\ SessionAcceptsProfile(profile)
           /\ \A rule \in ToSet(profile.rules) :
                  IsNumeric(rule.property) =>
                      \A d \in RuleValuesOf(rule) :
                          \E n \in Written(rule.property, d) : n > 0 /\ ReadsBackAs(rule.property, n, d)
<1> DEFINE rules == profile.rules
           faults == [i \in DOMAIN rules |-> RuleFault(profile.schema, rules[i])]
           F == {RuleFault(profile.schema, rule) : rule \in ToSet(rules)}
<1>1. FirstFault(faults) = "none" BY DEF ProfileFault
<1>2. DOMAIN rules = 1 .. Len(rules) /\ Len(rules) \in Nat OBVIOUS
<1>3. \A i \in DOMAIN rules : rules[i] \in ToSet(rules) BY DEF ToSet
<1>4. faults \in Seq(F) /\ DOMAIN faults = DOMAIN rules
    <2>1. faults \in [1 .. Len(rules) -> F] BY <1>2, <1>3
    <2> HIDE DEF faults, F
    <2> QED BY <1>2, <2>1, SeqDef
<1>5. \A i \in DOMAIN rules : faults[i] = RuleFault(profile.schema, rules[i]) OBVIOUS
<1> HIDE DEF faults, F
<1>6. \A i \in DOMAIN rules : RuleFault(profile.schema, rules[i]) = "none"
    BY <1>1, <1>4, <1>5, NoFirstFault
<1>7. \A rule \in ToSet(rules) : \E i \in DOMAIN rules : rule = rules[i] BY DEF ToSet
<1> QED BY <1>3, <1>6, <1>7, AcceptedRules DEF SessionAcceptsProfile

(***************************************************************************)
(* A profile goes on to the package when it has no fault.                  *)
(***************************************************************************)
ProfileWasRead ==
    /\ request \in Requests
    /\ stage = "package" => ProfileFault(request.profile) = "none"

LEMMA ReadProfilesHaveNoFault == Spec => []ProfileWasRead
<1>1. Init => ProfileWasRead BY DEF Init, ProfileWasRead
<1>2. ASSUME ProfileWasRead, [Next]_vars PROVE ProfileWasRead'
    <2>1. request' = request
        BY <1>2
        DEF Next, vars, ReceiveUpload, ReadProfile, ParsePackage, ApplyOperation, EndSession,
            BindReport, MarkCandidate, FinishReview, RefuseName, Deliver, Done
    <2>2. ASSUME stage' = "package" PROVE stage = "package" \/ ReadProfile
        <3>1. UNCHANGED vars => stage' = stage BY DEF vars
        <3> QED
            BY <1>2, <2>2, <3>1
            DEF Next, ReceiveUpload, ParsePackage, ApplyOperation, EndSession,
                BindReport, MarkCandidate, FinishReview, RefuseName, Deliver, Done, Answer, Proceed
    <2>3. ASSUME stage' = "package", ReadProfile PROVE ProfileFault(request.profile) = "none"
        BY <2>3 DEF ReadProfile, Answer, Proceed
    <2> QED BY <1>2, <2>1, <2>2, <2>3 DEF ProfileWasRead
<1> QED BY <1>1, <1>2, PTL DEF Spec

(***************************************************************************)
(* Every number of a profile that was read is written exactly, as a        *)
(* positive integer that reads back as it, whatever its digits.            *)
(***************************************************************************)
THEOREM AcceptedValuesAlwaysWritable == Spec => []AcceptedValuesAreWritable
<1>1. ProfileWasRead => AcceptedValuesAreWritable
    <2> SUFFICES ASSUME ProfileWasRead, stage = "package" PROVE AcceptedValuesAreWritable
        BY DEF AcceptedValuesAreWritable
    <2>1. /\ request.profile.rules \in Seq(ToSet(request.profile.rules))
          /\ \A rule \in ToSet(request.profile.rules) : IsParsed(rule)
          /\ ProfileFault(request.profile) = "none"
        BY RequestsAssumption DEF ProfileWasRead
    <2> QED BY <2>1, AcceptedProfiles DEF AcceptedValuesAreWritable
<1> QED BY <1>1, ReadProfilesHaveNoFault, PTL

-------------------------------------------------------------------------------
(***************************************************************************)
(* The sites of a document as a set: a rule of the profile for the class   *)
(* of a classified paragraph, at the paragraph or at a run of it.          *)
(***************************************************************************)
Owns(doc, paragraph, type, node) ==
    \/ type = "paragraph" /\ node = paragraph
    \/ type = "run" /\ node \in RunsOf(doc, paragraph)

IsRuleFor(rule, class, type) ==
    rule.class = class /\ \E i \in 1 .. 2 : rule.property = CanonicalProperties[type][i]

IsSite(doc, profile, site) ==
    \E p \in Classified(doc), node \in DOMAIN doc, type \in {"run", "paragraph"},
       rule \in ToSet(profile.rules) :
        /\ Owns(doc, p, type, node) /\ IsRuleFor(rule, ClassOf(doc, p), type)
        /\ site = [type |-> type, path |-> StructuralPath(doc, node), rule |-> rule]

LEMMA MembersOfLists ==
    ASSUME NEW S, NEW s \in Seq(S), NEW x
    PROVE  x \in ToSet(s) <=> \E i \in 1 .. Len(s) : s[i] = x
<1>1. DOMAIN s = 1 .. Len(s) OBVIOUS
<1> QED BY <1>1 DEF ToSet

LEMMA RulesOfAClass ==
    ASSUME NEW profile, HasRules(profile), NEW class, NEW type \in {"run", "paragraph"}, NEW rule
    PROVE  rule \in ToSet(RulesFor(profile, class, type)) <=>
               rule \in ToSet(profile.rules) /\ IsRuleFor(rule, class, type)
<1> DEFINE rules == profile.rules
           R == ToSet(rules)
           having(i) == {j \in DOMAIN rules :
                            /\ rules[j].class = class
                            /\ rules[j].property = CanonicalProperties[type][i]}
           rulesOf == [i \in DOMAIN CanonicalProperties[type] |-> Selected(rules, having(i))]
<1>1. rules \in Seq(R) BY DEF HasRules
<1>2. DOMAIN CanonicalProperties[type] = 1 .. 2 BY DEF CanonicalProperties
<1>3. ASSUME NEW i \in 1 .. 2
      PROVE  /\ Selected(rules, having(i)) \in Seq(R)
             /\ ToSet(Selected(rules, having(i))) = {rules[j] : j \in having(i)}
    <2>1. having(i) \in SUBSET DOMAIN rules OBVIOUS
    <2> HIDE DEF having, rules, R
    <2> QED BY <1>1, <2>1, SelectedElements
<1>4. RulesFor(profile, class, type) = FlattenSeq(rulesOf) BY DEF RulesFor
<1>5. ASSUME NEW i \in 1 .. 2
      PROVE  rule \in ToSet(Selected(rules, having(i))) <=>
                 rule \in R /\ rule.class = class /\ rule.property = CanonicalProperties[type][i]
    <2>1. rule \in ToSet(Selected(rules, having(i))) <=> \E j \in having(i) : rules[j] = rule BY <1>3
    <2>2. rule \in R <=> \E j \in DOMAIN rules : rules[j] = rule BY DEF ToSet
    <2> HIDE DEF rules, R
    <2> QED BY <2>1, <2>2
<1> HIDE DEF having, R
<1>6. rulesOf \in [1 .. 2 -> Seq(R)] /\ \A i \in 1 .. 2 : rulesOf[i] = Selected(rules, having(i))
    BY <1>2, <1>3
<1> HIDE DEF rulesOf, rules
<1>7. rulesOf \in Seq(Seq(R)) /\ DOMAIN rulesOf = 1 .. 2
    <2>1. \E n \in Nat : rulesOf \in [1 .. n -> Seq(R)] BY <1>6
    <2> DEFINE X == Seq(R)
    <2> HIDE DEF X
    <2>2. \E n \in Nat : rulesOf \in [1 .. n -> X] BY <2>1 DEF X
    <2>3. rulesOf \in Seq(X) BY <2>2, SeqDef
    <2> QED BY <1>6, <2>3 DEF X
<1>8. ToSet(FlattenSeq(rulesOf)) = UNION {ToSet(rulesOf[i]) : i \in 1 .. 2}
    BY <1>7, FlattenedElements
<1>9. rule \in ToSet(FlattenSeq(rulesOf)) <=> \E i \in 1 .. 2 : rule \in ToSet(Selected(rules, having(i)))
    BY <1>6, <1>8
<1> QED BY <1>4, <1>5, <1>9 DEF R, rules, IsRuleFor

LEMMA RulesAtATarget ==
    ASSUME NEW doc, NEW R, NEW type, NEW node, NEW rules \in Seq(R), NEW site
    PROVE  site \in ToSet(SitesAt(doc, node, type, rules)) <=>
               \E rule \in ToSet(rules) :
                   site = [type |-> type, path |-> StructuralPath(doc, node), rule |-> rule]
<1> DEFINE sites == SitesAt(doc, node, type, rules)
<1>1. DOMAIN sites = DOMAIN rules /\ \A i \in DOMAIN rules :
          sites[i] = [type |-> type, path |-> StructuralPath(doc, node), rule |-> rules[i]]
    BY DEF SitesAt
<1> HIDE DEF sites
<1> QED BY <1>1 DEF ToSet, sites

(***************************************************************************)
(* InDocumentOrder lists exactly the nodes of its set.                     *)
(***************************************************************************)
LEMMA AllAreListed ==
    ASSUME NEW nodes \in SUBSET Nodes, IsFiniteSet(nodes)
    PROVE  LET list == InDocumentOrder(nodes)
           IN  /\ list \in Seq(nodes) /\ Len(list) \in Nat /\ DOMAIN list = 1 .. Len(list)
               /\ \A i \in 1 .. Len(list) : list[i] \in nodes
               /\ \A node \in nodes : \E i \in 1 .. Len(list) : list[i] = node
<1> DEFINE list == InDocumentOrder(nodes)
<1>1. /\ list \in Seq(nodes) /\ Len(list) = Cardinality(nodes) /\ Cardinality(nodes) \in Nat
      /\ DOMAIN list = 1 .. Cardinality(nodes)
      /\ \A i \in 1 .. Cardinality(nodes) : list[i] \in nodes
      /\ \A node \in nodes : list[PlaceAmong(nodes, node) + 1] = node
    BY InDocumentOrderLists
<1>2. ASSUME NEW node \in nodes PROVE PlaceAmong(nodes, node) + 1 \in 1 .. Len(list)
    <2> DEFINE place == PlaceAmong(nodes, node)
    <2>1. place \in 0 .. Cardinality(nodes) - 1 BY PlacesOfNodes
    <2> HIDE DEF place, list
    <2>2. place + 1 \in 1 .. Len(list) BY <1>1, <2>1
    <2> QED BY <2>2 DEF place
<1> QED BY <1>1, <1>2

LEMMA SitesInAParagraph ==
    ASSUME NEW doc, IsTree(doc), NEW profile, HasRules(profile), NEW paragraph \in Paragraphs(doc), NEW site
    PROVE  site \in ToSet(SitesOfParagraph(doc, paragraph, profile)) <=>
             \E node \in DOMAIN doc, type \in {"run", "paragraph"}, rule \in ToSet(profile.rules) :
                /\ Owns(doc, paragraph, type, node) /\ IsRuleFor(rule, ClassOf(doc, paragraph), type)
                /\ site = [type |-> type, path |-> StructuralPath(doc, node), rule |-> rule]
<1> DEFINE S == SitesIn(doc, profile.rules)
           class == ClassOf(doc, paragraph)
           found == RunsOf(doc, paragraph)
           runs == InDocumentOrder(found)
           rules(type) == RulesFor(profile, class, type)
           sitesOf == [i \in DOMAIN runs |-> SitesAt(doc, runs[i], "run", rules("run"))]
           own == SitesAt(doc, paragraph, "paragraph", rules("paragraph"))
           at(type, node, rule) == [type |-> type, path |-> StructuralPath(doc, node), rule |-> rule]
<1>1. /\ OfType(Records(doc), {"run_raw"}) \in SUBSET DOMAIN doc
      /\ Paragraphs(doc) \in SUBSET DOMAIN doc
      /\ \A n \in DOMAIN doc : n \in OfType(Records(doc), {"run_raw"}) => TypeAt(doc, n) = "run_raw"
      /\ \A n \in DOMAIN doc : n \in Paragraphs(doc) => TypeAt(doc, n) = "paragraph"
    BY NodesByType DEF Paragraphs
<1>2. found \in SUBSET OfType(Records(doc), {"run_raw"}) BY RunsOfAParagraph
<1>3. found \in SUBSET Nodes /\ IsFiniteSet(found) BY <1>1, <1>2, FS_Subset DEF IsTree
<1>4. /\ Len(runs) \in Nat /\ DOMAIN runs = 1 .. Len(runs) /\ \A i \in 1 .. Len(runs) : runs[i] \in found
      /\ \A run \in found : \E i \in 1 .. Len(runs) : runs[i] = run
    <2> HIDE DEF found
    <2> QED BY <1>3, AllAreListed
<1>5. rules("run") \in Seq(ToSet(profile.rules)) /\ rules("paragraph") \in Seq(ToSet(profile.rules))
    BY RulesAreTheProfiles
<1>6. SitesOfParagraph(doc, paragraph, profile) = own \o FlattenSeq(sitesOf)
    BY DEF SitesOfParagraph, SitesOfRuns
<1>7. own \in Seq(S)
    <2>1. IsTarget(doc, "paragraph", StructuralPath(doc, paragraph), paragraph)
        BY <1>1 DEF IsTarget, TypeOfTarget
    <2> HIDE DEF rules, class
    <2> QED BY <1>1, <1>5, <2>1, SitesAtATarget
<1>8. ASSUME NEW run \in found PROVE SitesAt(doc, run, "run", rules("run")) \in Seq(S)
    <2>1. IsTarget(doc, "run", StructuralPath(doc, run), run)
        BY <1>1, <1>2 DEF IsTarget, TypeOfTarget
    <2> HIDE DEF rules, class, found
    <2> QED BY <1>1, <1>2, <1>5, <2>1, SitesAtATarget
<1>9. \A type \in {"run", "paragraph"} : \A rule :
        rule \in ToSet(rules(type)) <=> rule \in ToSet(profile.rules) /\ IsRuleFor(rule, class, type)
    BY RulesOfAClass
<1> HIDE DEF S, class, rules
<1>10. site \in ToSet(own) <=> \E rule \in ToSet(rules("paragraph")) : site = at("paragraph", paragraph, rule)
    BY <1>5, RulesAtATarget
<1>11. \A run \in found : site \in ToSet(SitesAt(doc, run, "run", rules("run"))) <=>
                             \E rule \in ToSet(rules("run")) : site = at("run", run, rule)
    BY <1>5, RulesAtATarget
<1> HIDE DEF found, own
<1> HIDE DEF runs
<1>12. sitesOf \in [1 .. Len(runs) -> Seq(S)] /\ DOMAIN sitesOf = 1 .. Len(runs)
       /\ \A i \in 1 .. Len(runs) : sitesOf[i] = SitesAt(doc, runs[i], "run", rules("run"))
    BY <1>4, <1>8
<1> HIDE DEF sitesOf
<1>13. sitesOf \in Seq(Seq(S)) BY <1>4, <1>12, SeqDef
<1>14. FlattenSeq(sitesOf) \in Seq(S)
       /\ ToSet(FlattenSeq(sitesOf)) = UNION {ToSet(sitesOf[i]) : i \in DOMAIN sitesOf}
    BY <1>13, FlattenedElements
<1>15. site \in ToSet(FlattenSeq(sitesOf)) <=>
          \E run \in found : \E rule \in ToSet(rules("run")) : site = at("run", run, rule)
    <2>1. site \in ToSet(FlattenSeq(sitesOf)) <=>
            \E i \in 1 .. Len(runs) : site \in ToSet(SitesAt(doc, runs[i], "run", rules("run")))
        BY <1>12, <1>14
    <2> HIDE DEF at
    <2> QED BY <1>4, <1>11, <2>1
<1>16. site \in ToSet(SitesOfParagraph(doc, paragraph, profile)) <=>
          site \in ToSet(own) \/ site \in ToSet(FlattenSeq(sitesOf))
    <2>1. ToSet(own \o FlattenSeq(sitesOf)) = ToSet(own) \cup ToSet(FlattenSeq(sitesOf))
        BY <1>7, <1>14, ElementsOfConcatenation
    <2> QED BY <1>6, <2>1
<1>17. site \in ToSet(SitesOfParagraph(doc, paragraph, profile)) <=>
          \E node \in DOMAIN doc, type \in {"run", "paragraph"}, rule \in ToSet(profile.rules) :
                /\ Owns(doc, paragraph, type, node) /\ IsRuleFor(rule, class, type)
                /\ site = at(type, node, rule)
    <2>1. paragraph \in DOMAIN doc /\ found \in SUBSET DOMAIN doc BY <1>1, <1>2
    <2>2. \A type, node : Owns(doc, paragraph, type, node) <=>
             (type = "paragraph" /\ node = paragraph) \/ (type = "run" /\ node \in found)
        BY DEF Owns, found
    <2> HIDE DEF at
    <2>3. site \in ToSet(own) <=>
            \E rule \in ToSet(profile.rules) : IsRuleFor(rule, class, "paragraph") /\ site = at("paragraph", paragraph, rule)
        BY <1>9, <1>10
    <2>4. site \in ToSet(FlattenSeq(sitesOf)) <=>
            \E run \in found : \E rule \in ToSet(profile.rules) : IsRuleFor(rule, class, "run") /\ site = at("run", run, rule)
        BY <1>9, <1>15
    <2> QED BY <1>16, <2>1, <2>2, <2>3, <2>4
<1> QED BY <1>17 DEF class

LEMMA SitesAreRulesAtTargets ==
    ASSUME NEW doc, IsTree(doc), NEW profile, HasRules(profile), NEW site
    PROVE  site \in ToSet(SitesOf(doc, profile)) <=> IsSite(doc, profile, site)
<1> DEFINE S == SitesIn(doc, profile.rules)
           listed == Classified(doc)
           paragraphs == InDocumentOrder(listed)
           sitesOf == [i \in DOMAIN paragraphs |-> SitesOfParagraph(doc, paragraphs[i], profile)]
<1>1. listed \in SUBSET Paragraphs(doc) BY DEF Classified
<1>2. Paragraphs(doc) \in SUBSET DOMAIN doc BY NodesByType DEF Paragraphs
<1>3. listed \in SUBSET Nodes /\ IsFiniteSet(listed) BY <1>1, <1>2, FS_Subset DEF IsTree
<1>4. SitesOf(doc, profile) = FlattenSeq(sitesOf) BY DEF SitesOf, SitesOfParagraphs
<1>5. \A p \in listed : SitesOfParagraph(doc, p, profile) \in Seq(S)
    BY <1>1, SitesOfAParagraph DEF S
<1>6. (\E p \in listed : site \in ToSet(SitesOfParagraph(doc, p, profile))) <=> IsSite(doc, profile, site)
    <2>1. \A p \in listed : site \in ToSet(SitesOfParagraph(doc, p, profile)) <=>
             \E node \in DOMAIN doc, type \in {"run", "paragraph"}, rule \in ToSet(profile.rules) :
                /\ Owns(doc, p, type, node) /\ IsRuleFor(rule, ClassOf(doc, p), type)
                /\ site = [type |-> type, path |-> StructuralPath(doc, node), rule |-> rule]
        BY <1>1, SitesInAParagraph
    <2> QED BY <2>1, Zenon DEF IsSite
<1> HIDE DEF listed
<1>7. /\ Len(paragraphs) \in Nat /\ DOMAIN paragraphs = 1 .. Len(paragraphs)
      /\ \A i \in 1 .. Len(paragraphs) : paragraphs[i] \in listed
      /\ \A p \in listed : \E i \in 1 .. Len(paragraphs) : paragraphs[i] = p
    BY <1>3, AllAreListed
<1> HIDE DEF S, paragraphs
<1>8. sitesOf \in [1 .. Len(paragraphs) -> Seq(S)] /\ DOMAIN sitesOf = 1 .. Len(paragraphs)
      /\ \A i \in 1 .. Len(paragraphs) : sitesOf[i] = SitesOfParagraph(doc, paragraphs[i], profile)
    BY <1>5, <1>7
<1> HIDE DEF sitesOf
<1>9. sitesOf \in Seq(Seq(S)) BY <1>7, <1>8, SeqDef
<1>10. ToSet(FlattenSeq(sitesOf)) = UNION {ToSet(sitesOf[i]) : i \in 1 .. Len(paragraphs)}
    BY <1>8, <1>9, FlattenedElements
<1>11. site \in ToSet(SitesOf(doc, profile)) <=>
          \E i \in 1 .. Len(paragraphs) : site \in ToSet(SitesOfParagraph(doc, paragraphs[i], profile))
    BY <1>4, <1>8, <1>10
<1>12. site \in ToSet(SitesOf(doc, profile)) <=> \E p \in listed : site \in ToSet(SitesOfParagraph(doc, p, profile))
    BY <1>7, <1>11, Zenon
<1> QED BY <1>6, <1>12

-------------------------------------------------------------------------------
(***************************************************************************)
(* What the property container of a target says, and what an edit of one   *)
(* target leaves said at all the others.                                   *)
(***************************************************************************)
Said(doc, node, type) ==
    {doc[e] : e \in UNION {Children(doc, c) : c \in Properties(doc, node, type)}}

IsTargetNode(doc, node, type) ==
    /\ type \in {"run", "paragraph"} /\ node \in DOMAIN doc /\ TypeAt(doc, node) = TypeOfTarget[type]

LEMMA TargetNodes ==
    ASSUME NEW doc, IsTree(doc), NEW type, NEW node, IsTargetNode(doc, node, type)
    PROVE  /\ node \in DOMAIN doc /\ node \in Nodes /\ node # Body
           /\ TypeAt(doc, node) \in {"paragraph", "run_raw"}
           /\ doc[node] \in {"p", "r"}
           /\ PropertiesTag[type] \in PropertyTags
<1>1. TypeAt(doc, node) \in {"paragraph", "run_raw"} /\ node \in DOMAIN doc
    BY DEF IsTargetNode, TypeOfTarget
<1>2. TypeAt(doc, Body) = "story" BY RecordsOfTree DEF TypeAt, Root
<1>3. node # Body BY <1>1, <1>2
<1>4. TypeAt(doc, node) \in DOMAIN TagsMaking => doc[node] \in TagsMaking[TypeAt(doc, node)]
    BY <1>1, <1>3, TypesBelow
<1>5. doc[node] \in {"p", "r"} BY <1>1, <1>4 DEF TagsMaking
<1> QED BY <1>1, <1>3, <1>5 DEF IsTree, IsTargetNode, PropertiesTag, PropertyTags

LEMMA SaidTags ==
    ASSUME NEW doc, NEW node, NEW type, NEW tag
    PROVE  tag \in Said(doc, node, type) <=>
               \E c \in Properties(doc, node, type) : \E e \in Children(doc, c) : doc[e] = tag
BY DEF Said

LEMMA SaidAtAnUntouchedTarget ==
    ASSUME NEW before, IsTree(before), NEW after, IsTree(after), NEW f, IsEmbedding(before, after, f),
           KeepsTags(before, after, f),
           NEW type, NEW node \in DOMAIN before, KeepsChildren(before, after, f, node),
           \A c \in Peers(before, node, PropertiesTag[type]) : KeepsChildren(before, after, f, c)
    PROVE  Said(after, f[node], type) = Said(before, node, type)
<1> DEFINE kind == PropertiesTag[type]
           P == Properties(before, node, type)
           Q == Properties(after, f[node], type)
<1>1. Children(after, f[node]) = {f[c] : c \in Children(before, node)} BY DEF KeepsChildren
<1>2. \A c \in Children(before, node) :
         /\ c \in DOMAIN before /\ after[f[c]] = before[c] /\ Parent(c) = node /\ Parent(f[c]) = f[node]
    BY DEF Children, KeepsTags, IsEmbedding
<1>3. Peers(after, f[node], kind) = {f[c] : c \in Peers(before, node, kind)}
    BY <1>1, <1>2 DEF Peers
<1>4. Peers(before, node, kind) \in SUBSET Children(before, node) BY DEF Peers
<1>5. ASSUME NEW c \in Children(before, node)
      PROVE  IsFirstOfKind(after, f[c]) <=> IsFirstOfKind(before, c)
    <2>1. IsFirstOfKind(after, f[c]) <=>
             \A d \in Children(before, node) : after[f[d]] = after[f[c]] => ~Precedes(f[d], f[c])
        BY <1>1, <1>2 DEF IsFirstOfKind
    <2>2. IsFirstOfKind(before, c) <=>
             \A d \in Children(before, node) : before[d] = before[c] => ~Precedes(d, c)
        BY <1>2 DEF IsFirstOfKind
    <2>3. \A d \in Children(before, node) : Precedes(f[d], f[c]) <=> Precedes(d, c)
        BY <1>2 DEF IsEmbedding
    <2> QED BY <1>2, <2>1, <2>2, <2>3
<1>6. Q = {f[c] : c \in P}
    <2>1. /\ P = {c \in Peers(before, node, kind) : IsFirstOfKind(before, c)}
          /\ Q = {c \in Peers(after, f[node], kind) : IsFirstOfKind(after, c)}
        BY DEF Properties
    <2> HIDE DEF P, Q
    <2> QED BY <1>3, <1>4, <1>5, <2>1
<1>7. P \in SUBSET Peers(before, node, kind) BY DEF Properties
<1> HIDE DEF P, Q
<1>8. ASSUME NEW c \in P, NEW tag
      PROVE  (\E e \in Children(after, f[c]) : after[e] = tag) <=> (\E e \in Children(before, c) : before[e] = tag)
    <2>1. Children(after, f[c]) = {f[e] : e \in Children(before, c)} BY <1>7 DEF KeepsChildren
    <2>2. \A e \in Children(before, c) : after[f[e]] = before[e] BY DEF Children, KeepsTags
    <2> QED BY <2>1, <2>2
<1>9. ASSUME NEW tag PROVE tag \in Said(after, f[node], type) <=> tag \in Said(before, node, type)
    <2>1. tag \in Said(after, f[node], type) <=> \E c \in Q : \E e \in Children(after, c) : after[e] = tag
        BY SaidTags DEF Q
    <2>2. tag \in Said(before, node, type) <=> \E c \in P : \E e \in Children(before, c) : before[e] = tag
        BY SaidTags DEF P
    <2>3. (\E c \in Q : \E e \in Children(after, c) : after[e] = tag) <=>
          (\E c \in P : \E e \in Children(after, f[c]) : after[e] = tag)
        BY <1>6, Zenon
    <2>4. (\E c \in P : \E e \in Children(after, f[c]) : after[e] = tag) <=>
          (\E c \in P : \E e \in Children(before, c) : before[e] = tag)
        BY <1>8, Zenon
    <2> QED BY <2>1, <2>2, <2>3, <2>4, Zenon
<1> QED BY <1>9

(***************************************************************************)
(* An edit of the target x: what is said at x loses one tag and gains      *)
(* another, and nothing else is said anywhere.                             *)
(***************************************************************************)
Replacing(said, taken, given) == (said \ taken) \cup given

SaysElsewhere(before, after, f, x) ==
    \A node, type : IsTargetNode(before, node, type) /\ node # x =>
        Said(after, f[node], type) = Said(before, node, type)

LEMMA GrownElsewhere ==
    ASSUME NEW before, IsTree(before), NEW after, IsTree(after), NEW f, NEW parent, NEW new, NEW tag,
           GrowsAt(before, after, f, parent, new, tag)
    PROVE  \A node \in DOMAIN before \ {parent} : KeepsChildren(before, after, f, node)
BY ChildrenOfGrown DEF KeepsChildren

LEMMA OtherTargetsUntouched ==
    ASSUME NEW before, IsTree(before), NEW after, IsTree(after), NEW f, NEW parent, NEW new, NEW tag,
           GrowsAt(before, after, f, parent, new, tag),
           NEW x, NEW kind, IsTargetNode(before, x, kind),
           parent = x \/ (parent = Append(x, 1) /\ before[parent] \in PropertyTags)
    PROVE  SaysElsewhere(before, after, f, x)
<1> SUFFICES ASSUME NEW y, NEW type, IsTargetNode(before, y, type), y # x
             PROVE  Said(after, f[y], type) = Said(before, y, type)
    BY DEF SaysElsewhere
<1>1. IsEmbedding(before, after, f) /\ KeepsTags(before, after, f) BY DEF GrowsAt, KeepsTags
<1>2. /\ x \in DOMAIN before /\ x \in Nodes /\ before[x] \in {"p", "r"}
      /\ y \in DOMAIN before /\ TypeAt(before, y) \in {"paragraph", "run_raw"}
      /\ PropertiesTag[type] \in PropertyTags
    BY TargetNodes
<1>3. Parent(Append(x, 1)) = x BY <1>2, NewNode
<1>4. \A node \in DOMAIN before \ {parent} : KeepsChildren(before, after, f, node)
    BY GrownElsewhere
<1>6. y # parent BY <1>2, TargetNodes DEF PropertyTags
<1>7. ASSUME NEW c \in Peers(before, y, PropertiesTag[type]) PROVE KeepsChildren(before, after, f, c)
    <2>1. c \in Children(before, y) /\ before[c] \in PropertyTags BY <1>2 DEF Peers
    <2>2. c \in DOMAIN before /\ Parent(c) = y BY <2>1, ChildrenOfNode
    <2>3. c # x BY <1>2, <2>1 DEF PropertyTags
    <2>4. c # Append(x, 1) BY <1>3, <2>2
    <2> QED BY <1>4, <2>2, <2>3, <2>4
<1>8. KeepsChildren(before, after, f, y) BY <1>2, <1>4, <1>6
<1> QED BY <1>1, <1>2, <1>7, <1>8, SaidAtAnUntouchedTarget

LEMMA SaidInTheContainer ==
    ASSUME NEW doc, IsTree(doc), NEW type, NEW x, Peers(doc, x, PropertiesTag[type]) = {Append(x, 1)}
    PROVE  \A tag : tag \in Said(doc, x, type) <=> \E e \in Children(doc, Append(x, 1)) : doc[e] = tag
<1> DEFINE container == Append(x, 1)
<1>1. container \in Children(doc, x) /\ doc[container] = PropertiesTag[type] BY DEF Peers
<1>2. container \in Nodes /\ Parent(container) = x BY <1>1, ChildrenOfNode
<1>3. \A other \in Children(doc, x) : doc[other] = doc[container] => other = container
    BY <1>1 DEF Peers
<1>4. ~Precedes(container, container) BY <1>2, NothingPrecedesItself
<1>5. IsFirstOfKind(doc, container) BY <1>2, <1>3, <1>4 DEF IsFirstOfKind
<1>6. Properties(doc, x, type) = {container} BY <1>5 DEF Properties
<1> HIDE DEF container
<1>7. ASSUME NEW tag PROVE tag \in Said(doc, x, type) <=> \E e \in Children(doc, container) : doc[e] = tag
    BY <1>6, SaidTags
<1> QED BY <1>7 DEF container

LEMMA NothingIsSaid ==
    ASSUME NEW doc, NEW type, NEW x, Peers(doc, x, PropertiesTag[type]) = {}
    PROVE  Said(doc, x, type) = {}
<1>1. Properties(doc, x, type) = {} BY DEF Properties
<1> QED BY <1>1 DEF Said

(***************************************************************************)
(* The container is there, or is put in first and says nothing.            *)
(***************************************************************************)
LEMMA PreparedTarget ==
    ASSUME NEW doc, IsTree(doc), NEW type, NEW x, IsTargetNode(doc, x, type),
           Peers(doc, x, PropertiesTag[type]) \subseteq {Append(x, 1)}
    PROVE  LET ready == EnsureContainer(doc, x, PropertiesTag[type])
           IN  /\ IsTree(ready) /\ IsTargetNode(ready, x, type)
               /\ Peers(ready, x, PropertiesTag[type]) = {Append(x, 1)}
               /\ Said(ready, x, type) = Said(doc, x, type)
               /\ \E f : Carries(doc, ready, f) /\ f[x] = x /\ SaysElsewhere(doc, ready, f, x)
<1> DEFINE tag == PropertiesTag[type]
           ready == EnsureContainer(doc, x, tag)
           identity == [node \in DOMAIN doc |-> node]
           new == Append(x, 1)
           f == [node \in DOMAIN doc |-> Moved(node, x, 1)]
           Goal == /\ IsTree(ready) /\ IsTargetNode(ready, x, type)
                   /\ Peers(ready, x, tag) = {new}
                   /\ Said(ready, x, type) = Said(doc, x, type)
                   /\ \E g : Carries(doc, ready, g) /\ g[x] = x /\ SaysElsewhere(doc, ready, g, x)
<1>1. x \in DOMAIN doc /\ x \in Nodes /\ tag \in PropertyTags BY TargetNodes
<1>2. ASSUME Peers(doc, x, tag) # {} PROVE Goal
    <2>1. ready = doc /\ Peers(doc, x, tag) = {new} BY <1>2 DEF EnsureContainer
    <2>2. Carries(doc, doc, identity) BY NothingIsEdited
    <2>3. SaysElsewhere(doc, doc, identity, x) BY DEF SaysElsewhere, IsTargetNode
    <2>4. identity[x] = x BY <1>1
    <2> HIDE DEF ready, identity, new, tag
    <2> QED BY <2>1, <2>2, <2>3, <2>4
<1>3. ASSUME Peers(doc, x, tag) = {} PROVE Goal
    <2>1. ready = Inserted(doc, x, 1, tag) BY <1>3 DEF EnsureContainer
    <2>2. IsTree(ready) BY <1>1, <2>1, InsertedTree
    <2>3. GrowsAt(doc, ready, f, x, new, tag) BY <1>1, <2>1, InsertionGrows
    <2>4. Carries(doc, ready, f) BY <1>1, <1>3, <2>1, InsertionsCarry
    <2>5. Said(doc, x, type) = {} BY <1>3, NothingIsSaid
    <2> HIDE DEF ready, f
    <2>6. f[x] = x /\ (\A node \in DOMAIN doc : ready[f[node]] = doc[node]) /\ ready[new] = tag
        BY <2>3 DEF GrowsAt
    <2>7. Children(ready, x) = {f[c] : c \in Children(doc, x)} \cup {new} /\ Children(ready, new) = {}
        <3> HIDE DEF new, tag
        <3> QED BY <2>2, <2>3, ChildrenOfGrown
    <2>8. Peers(ready, x, tag) = {new}
        <3>1. \A c \in Children(doc, x) : ready[f[c]] # tag BY <1>3, <2>6 DEF Peers, Children
        <3> HIDE DEF new, tag
        <3> QED BY <2>6, <2>7, <3>1 DEF Peers
    <2>9. Said(ready, x, type) = {}
        <3>1. \A t : t \in Said(ready, x, type) <=> \E e \in Children(ready, new) : ready[e] = t
            BY <2>2, <2>8, SaidInTheContainer
        <3> QED BY <2>7, <3>1
    <2>10. SaysElsewhere(doc, ready, f, x)
        <3> HIDE DEF new, tag
        <3> QED BY <2>2, <2>3, OtherTargetsUntouched
    <2>11. IsTargetNode(ready, x, type)
        <3>1. TypeAt(doc, x) # "unparsed" BY TargetNodes
        <3>2. f[x] \in DOMAIN ready /\ TypeAt(ready, f[x]) = TypeAt(doc, x)
            BY <1>1, <2>2, <2>4, <3>1, CarriedTarget
        <3> QED BY <2>6, <3>2 DEF IsTargetNode
    <2> QED BY <2>2, <2>4, <2>5, <2>6, <2>8, <2>9, <2>10, <2>11
<1> QED BY <1>2, <1>3

(***************************************************************************)
(* The property is put in, or what disagrees with it is rewritten.         *)
(***************************************************************************)
SaysInstead(before, after, x, type, taken, given) ==
    /\ IsTree(after) /\ Said(after, x, type) = Replacing(Said(before, x, type), {taken}, {given})
    /\ \E f : Carries(before, after, f) /\ f[x] = x /\ SaysElsewhere(before, after, f, x)

Retagged(doc, nodes, tag) == [e \in DOMAIN doc |-> IF e \in nodes THEN tag ELSE doc[e]]

LEMMA PropertyPutIn ==
    ASSUME NEW doc, IsTree(doc), NEW type, NEW x, IsTargetNode(doc, x, type),
           Peers(doc, x, PropertiesTag[type]) = {Append(x, 1)},
           NEW desired, NEW rank, NEW other, Peers(doc, Append(x, 1), other) = {}
    PROVE  SaysInstead(doc, InsertedByRank(doc, Append(x, 1), desired, rank), x, type, other, desired)
<1> DEFINE container == Append(x, 1)
           after == InsertedByRank(doc, container, desired, rank)
           position == RankedPlace(doc, container, desired, rank)
           new == Append(container, position)
           f == [node \in DOMAIN doc |-> Moved(node, container, position)]
<1>1. x \in DOMAIN doc /\ x \in Nodes /\ x # Body /\ PropertiesTag[type] \in PropertyTags BY TargetNodes
<1>2. container \in Children(doc, x) /\ doc[container] \in PropertyTags BY <1>1 DEF Peers
<1>3. container \in DOMAIN doc /\ container \in Nodes /\ container # Body /\ Parent(container) = x
    BY <1>2, ChildrenOfNode
<1>4. ~IsOpen(doc, container) BY <1>2, <1>3, ContainersAreNotOpen
<1>5. after = Inserted(doc, container, position, desired) /\ position \in Nat \ {0} BY <1>3, RankedPlaces
<1> HIDE DEF after, position
<1>6. IsTree(after) BY <1>3, <1>5, InsertedTree
<1>7. GrowsAt(doc, after, f, container, new, desired) BY <1>3, <1>5, InsertionGrows
<1>8. Carries(doc, after, f) BY <1>3, <1>4, <1>5, InsertionsCarry
<1> HIDE DEF f
<1>9. /\ IsEmbedding(doc, after, f) /\ \A node \in DOMAIN doc : after[f[node]] = doc[node]
      /\ f[container] = container /\ after[new] = desired
    BY <1>7 DEF GrowsAt
<1>10. f[x] = x
    <2>1. Parent(f[container]) = f[Parent(container)] BY <1>3, <1>9 DEF IsEmbedding
    <2> QED BY <1>3, <1>9, <2>1
<1>11. SaysElsewhere(doc, after, f, x)
    <2> HIDE DEF new
    <2> QED BY <1>2, <1>6, <1>7, OtherTargetsUntouched
<1>12. /\ \A node \in DOMAIN doc \ {container} : Children(after, f[node]) = {f[c] : c \in Children(doc, node)}
       /\ Children(after, container) = {f[c] : c \in Children(doc, container)} \cup {new}
    <2> HIDE DEF new, container
    <2> QED BY <1>6, <1>7, ChildrenOfGrown
<1>13. Peers(after, x, PropertiesTag[type]) = {container}
    <2>1. x # container BY <1>1, <1>3 DEF Nodes
    <2>2. Children(after, x) = {f[c] : c \in Children(doc, x)} BY <1>1, <1>10, <1>12, <2>1
    <2>3. \A c \in Children(doc, x) : c \in DOMAIN doc BY DEF Children
    <2>4. \A c \in Children(doc, x) : doc[c] = PropertiesTag[type] <=> c = container BY DEF Peers
    <2> HIDE DEF container
    <2> QED BY <1>2, <1>9, <2>2, <2>3, <2>4 DEF Peers
<1>14. ASSUME NEW tag
       PROVE  tag \in Said(after, x, type) <=> tag \in Said(doc, x, type) \/ tag = desired
    <2>1. tag \in Said(after, x, type) <=> \E e \in Children(after, container) : after[e] = tag
        BY <1>6, <1>13, SaidInTheContainer
    <2>2. tag \in Said(doc, x, type) <=> \E e \in Children(doc, container) : doc[e] = tag
        BY SaidInTheContainer
    <2>3. \A e \in Children(doc, container) : e \in DOMAIN doc BY DEF Children
    <2> HIDE DEF container, new
    <2> QED BY <1>9, <1>12, <2>1, <2>2, <2>3
<1>15. other \notin Said(doc, x, type)
    <2>1. other \in Said(doc, x, type) <=> \E e \in Children(doc, container) : doc[e] = other
        BY SaidInTheContainer
    <2> QED BY <2>1 DEF Peers
<1>16. Said(after, x, type) = Replacing(Said(doc, x, type), {other}, {desired})
    BY <1>14, <1>15 DEF Replacing
<1> QED BY <1>6, <1>8, <1>10, <1>11, <1>16 DEF after, SaysInstead

LEMMA PropertyRewritten ==
    ASSUME NEW doc, IsTree(doc), NEW type, NEW x, IsTargetNode(doc, x, type),
           Peers(doc, x, PropertiesTag[type]) = {Append(x, 1)},
           NEW desired, NEW other, Peers(doc, Append(x, 1), other) # {}
    PROVE  SaysInstead(doc, Retagged(doc, Peers(doc, Append(x, 1), other), desired), x, type, other, desired)
<1> DEFINE container == Append(x, 1)
           present == Peers(doc, container, other)
           after == Retagged(doc, present, desired)
           f == [e \in DOMAIN doc |-> e]
<1>1. x \in DOMAIN doc /\ x \in Nodes /\ x # Body /\ PropertiesTag[type] \in PropertyTags
      /\ doc[x] \in {"p", "r"}
    BY TargetNodes
<1>2. container \in Children(doc, x) /\ doc[container] \in PropertyTags /\ doc[container] = PropertiesTag[type]
    BY <1>1 DEF Peers
<1>3. container \in DOMAIN doc /\ container \in Nodes /\ container # Body /\ Parent(container) = x
    BY <1>2, ChildrenOfNode
<1>4. ~IsOpen(doc, container) BY <1>2, <1>3, ContainersAreNotOpen
<1>5. present \in SUBSET Children(doc, container) /\ \A e \in present : e \in DOMAIN doc /\ Parent(e) = container
    BY DEF Peers, Children
<1>6. IsTree(after) /\ Carries(doc, after, f)
    <2> HIDE DEF container, present
    <2>1. LET a == [e \in DOMAIN doc |-> IF e \in present THEN desired ELSE doc[e]]
          IN  IsTree(a) /\ Carries(doc, a, [e \in DOMAIN doc |-> e])
        BY <1>3, <1>4, <1>5, RetaggingCarries
    <2> QED BY <2>1 DEF Retagged
<1>7. DOMAIN after = DOMAIN doc /\ \A e \in DOMAIN doc : after[e] = IF e \in present THEN desired ELSE doc[e]
    BY DEF Retagged
<1>8. \A node : Children(after, node) = Children(doc, node) BY <1>7 DEF Children
<1>9. \A e \in Children(doc, container) : e \in present <=> doc[e] = other BY DEF Peers
<1> HIDE DEF after, present
<1>10. x # container BY <1>1, <1>3 DEF Nodes
<1>11. \A c \in Children(doc, x) : after[c] = doc[c]
    BY <1>5, <1>7, <1>10 DEF Children
<1>12. Peers(after, x, PropertiesTag[type]) = {container} BY <1>8, <1>11 DEF Peers
<1>13. ASSUME NEW tag
       PROVE  tag \in Said(after, x, type) <=> (tag \in Said(doc, x, type) /\ tag # other) \/ tag = desired
    <2>1. tag \in Said(after, x, type) <=> \E e \in Children(after, container) : after[e] = tag
        BY <1>6, <1>12, SaidInTheContainer
    <2>2. tag \in Said(doc, x, type) <=> \E e \in Children(doc, container) : doc[e] = tag
        BY SaidInTheContainer
    <2>3. \A e \in Children(doc, container) : e \in DOMAIN doc BY DEF Children
    <2>4. \E e \in Children(doc, container) : e \in present BY <1>5 DEF present
    <2>5. \A e \in Children(doc, container) : after[e] = IF doc[e] = other THEN desired ELSE doc[e]
        BY <1>7, <1>9, <2>3
    <2>6. \E e \in Children(doc, container) : doc[e] = other BY <1>9, <2>4
    <2> HIDE DEF container
    <2> QED BY <1>8, <2>1, <2>2, <2>5, <2>6
<1>14. Said(after, x, type) = Replacing(Said(doc, x, type), {other}, {desired}) BY <1>13 DEF Replacing
<1>15. f[x] = x BY <1>1
<1>16. ASSUME NEW y, NEW kind, IsTargetNode(doc, y, kind), y # x
       PROVE  Said(after, f[y], kind) = Said(doc, y, kind)
    <2>1. y \in DOMAIN doc /\ doc[y] \in {"p", "r"} BY <1>16, TargetNodes
    <2>2. f[y] = y BY <2>1
    <2>3. y # container BY <1>2, <2>1 DEF PropertyTags
    <2>4. \A c \in Children(doc, y) : after[c] = doc[c] /\ c # container /\ Parent(c) = y
        BY <1>3, <1>5, <1>7, <1>16, <2>3 DEF Children
    <2>5. Properties(after, y, kind) = Properties(doc, y, kind)
        BY <1>8, <2>4 DEF Properties, Peers, IsFirstOfKind
    <2>6. \A c \in Properties(doc, y, kind) : c \in Children(doc, y) BY DEF Properties, Peers
    <2>7. \A c \in Children(doc, y) : \A e \in Children(doc, c) : after[e] = doc[e]
        BY <1>5, <1>7, <2>4 DEF Children
    <2>8. ASSUME NEW tag PROVE tag \in Said(after, y, kind) <=> tag \in Said(doc, y, kind)
        <3>1. /\ tag \in Said(after, y, kind) <=>
                    \E c \in Properties(doc, y, kind) : \E e \in Children(doc, c) : after[e] = tag
              /\ tag \in Said(doc, y, kind) <=>
                    \E c \in Properties(doc, y, kind) : \E e \in Children(doc, c) : doc[e] = tag
            BY <1>8, <2>5, SaidTags
        <3> QED BY <2>6, <2>7, <3>1
    <2> QED BY <2>2, <2>8
<1>17. SaysElsewhere(doc, after, f, x) BY <1>16 DEF SaysElsewhere
<1> HIDE DEF f
<1> QED BY <1>6, <1>14, <1>15, <1>17 DEF after, present, SaysInstead

Formats(before, after, f, x, type, property) ==
    /\ Carries(before, after, f) /\ SaysElsewhere(before, after, f, x)
    /\ Said(after, f[x], type) =
           Replacing(Said(before, x, type), {OtherTag[property]}, {DesiredTag[property]})

LEMMA PatchFormats ==
    ASSUME NEW doc, IsTree(doc), NEW site, NEW x, IsTarget(doc, site.type, site.path, x),
           IsPatchable(doc, site)
    PROVE  /\ IsTree(Patched(doc, site))
           /\ \E f : Formats(doc, Patched(doc, site), f, x, site.type, site.rule.property)
<1> DEFINE type == site.type
           tag == PropertiesTag[type]
           ready == EnsureContainer(doc, x, tag)
           container == Append(x, 1)
           desired == DesiredTag[site.rule.property]
           other == OtherTag[site.rule.property]
           present == Peers(ready, container, other)
           retagged == Retagged(ready, present, desired)
           putIn == InsertedByRank(ready, container, desired, Rank[type])
           after == Patched(doc, site)
<1>1. NodeAt(doc, site.path) = x BY TargetFound
<1>2. IsTargetNode(doc, x, type) BY DEF IsTarget, IsTargetNode
<1>3. Peers(doc, x, tag) \subseteq {container} BY <1>1 DEF IsPatchable
<1>4. after = IF present = {} THEN putIn ELSE retagged BY <1>1 DEF Patched, Retagged
<1> HIDE DEF type, container, after
<1>5. /\ IsTree(ready) /\ IsTargetNode(ready, x, type) /\ Peers(ready, x, tag) = {container}
      /\ Said(ready, x, type) = Said(doc, x, type)
      /\ \E f : Carries(doc, ready, f) /\ f[x] = x /\ SaysElsewhere(doc, ready, f, x)
    BY <1>2, <1>3, PreparedTarget DEF container
<1> HIDE DEF ready, desired, other
<1>6. SaysInstead(ready, after, x, type, other, desired)
    <2>1. Peers(ready, x, PropertiesTag[type]) = {Append(x, 1)} BY <1>5 DEF container
    <2>2. ASSUME present = {} PROVE SaysInstead(ready, putIn, x, type, other, desired)
        <3>1. Peers(ready, Append(x, 1), other) = {} BY <2>2 DEF container
        <3> HIDE DEF tag
        <3> QED BY <1>5, <2>1, <3>1, PropertyPutIn DEF container
    <2>3. ASSUME present # {} PROVE SaysInstead(ready, retagged, x, type, other, desired)
        <3>1. Peers(ready, Append(x, 1), other) # {} BY <2>3 DEF container
        <3> HIDE DEF tag
        <3> QED BY <1>5, <2>1, <3>1, PropertyRewritten DEF container
    <2> HIDE DEF putIn, retagged, present
    <2> QED BY <1>4, <2>2, <2>3
<1>7. PICK f : Carries(doc, ready, f) /\ f[x] = x /\ SaysElsewhere(doc, ready, f, x) BY <1>5
<1>8. PICK g : Carries(ready, after, g) /\ g[x] = x /\ SaysElsewhere(ready, after, g, x)
    BY <1>6 DEF SaysInstead
<1> DEFINE h == [node \in DOMAIN doc |-> g[f[node]]]
<1>9. IsTree(after) /\ Carries(doc, after, h)
    BY <1>5, <1>6, <1>7, <1>8, EditAfterEdit DEF SaysInstead
<1>10. x \in DOMAIN doc BY <1>2 DEF IsTargetNode
<1>11. h[x] = x BY <1>7, <1>8, <1>10
<1>12. ASSUME NEW y, NEW kind, IsTargetNode(doc, y, kind), y # x
       PROVE  Said(after, h[y], kind) = Said(doc, y, kind)
    <2>1. y \in DOMAIN doc /\ TypeAt(doc, y) \in {"paragraph", "run_raw"} BY <1>12, TargetNodes
    <2>2. f[y] \in DOMAIN ready /\ TypeAt(ready, f[y]) = TypeAt(doc, y)
        BY <1>5, <1>7, <2>1, CarriedTarget
    <2>3. IsTargetNode(ready, f[y], kind) BY <1>12, <2>2 DEF IsTargetNode
    <2>4. f[y] # x BY <1>7, <1>10, <1>12, <2>1 DEF Carries, IsEmbedding
    <2>5. Said(ready, f[y], kind) = Said(doc, y, kind) BY <1>7, <1>12 DEF SaysElsewhere
    <2>6. Said(after, g[f[y]], kind) = Said(ready, f[y], kind) BY <1>8, <2>3, <2>4 DEF SaysElsewhere
    <2> QED BY <2>1, <2>5, <2>6
<1>13. SaysElsewhere(doc, after, h, x) BY <1>12 DEF SaysElsewhere
<1> HIDE DEF h
<1>14. Said(after, h[x], type) = Replacing(Said(doc, x, type), {other}, {desired})
    BY <1>5, <1>6, <1>11 DEF SaysInstead
<1>15. Formats(doc, after, h, x, type, site.rule.property)
    BY <1>9, <1>13, <1>14 DEF Formats, other, desired
<1> QED BY <1>9, <1>15 DEF after, type

LEMMA ClassIsSaid ==
    ASSUME NEW doc, NEW p
    PROVE  ClassOf(doc, p) = IF "pStyle" \in Said(doc, p, "paragraph") THEN "heading" ELSE "body"
<1>1. "pStyle" \in Said(doc, p, "paragraph") <=>
        \E c \in Properties(doc, p, "paragraph") : \E e \in Children(doc, c) : doc[e] = "pStyle"
    BY SaidTags
<1>2. \A c : Peers(doc, c, "pStyle") # {} <=> \E e \in Children(doc, c) : doc[e] = "pStyle" BY DEF Peers
<1> QED BY <1>1, <1>2 DEF ClassOf

(***************************************************************************)
(* Formatting a target changes the class of no paragraph.                  *)
(***************************************************************************)
KeepsClasses(before, after, f) == \A p \in Paragraphs(before) : ClassOf(after, f[p]) = ClassOf(before, p)

LEMMA FormattingKeepsClasses ==
    ASSUME NEW before, IsTree(before), NEW after, NEW f, NEW x, NEW type, IsTargetNode(before, x, type),
           NEW property \in DOMAIN OtherTag, Formats(before, after, f, x, type, property)
    PROVE  KeepsClasses(before, after, f)
<1> SUFFICES ASSUME NEW p \in Paragraphs(before) PROVE ClassOf(after, f[p]) = ClassOf(before, p)
    BY DEF KeepsClasses
<1>1. p \in DOMAIN before /\ TypeAt(before, p) = "paragraph" BY NodesByType DEF Paragraphs
<1>2. IsTargetNode(before, p, "paragraph") BY <1>1 DEF IsTargetNode, TypeOfTarget
<1>3. "pStyle" \in Said(after, f[p], "paragraph") <=> "pStyle" \in Said(before, p, "paragraph")
    <2>1. CASE p # x BY <1>2, <2>1 DEF Formats, SaysElsewhere
    <2>2. CASE p = x
        <3>1. type = "paragraph" BY <1>1, <2>2 DEF IsTargetNode, TypeOfTarget
        <3>2. OtherTag[property] # "pStyle" /\ DesiredTag[property] # "pStyle" BY DEF OtherTag, DesiredTag
        <3> QED BY <2>2, <3>1, <3>2 DEF Formats, Replacing
    <2> QED BY <2>1, <2>2
<1> QED BY <1>3, ClassIsSaid

(***************************************************************************)
(* The sites of an edited document are those it had.                       *)
(***************************************************************************)
LEMMA ClassifiedCarried ==
    ASSUME NEW before, IsTree(before), NEW after, IsTree(after), NEW f, Carries(before, after, f)
    PROVE  /\ \A p \in Classified(before) : f[p] \in Classified(after)
           /\ \A q \in Classified(after) : \E p \in Classified(before) : q = f[p]
<1> DEFINE none == {"properties_raw", "opaque", "unparsed"}
           B == OfType(Records(before), ContainerTypes)
           A == OfType(Records(after), ContainerTypes)
<1>1. Paragraphs(after) = {f[p] : p \in Paragraphs(before)}
    <2>1. {"paragraph"} \cap none = {} OBVIOUS
    <2> HIDE DEF none
    <2> QED BY <2>1, CarriedTypes DEF Paragraphs, none
<1>2. A = {f[c] : c \in B}
    <2>1. ContainerTypes \cap none = {} BY DEF ContainerTypes
    <2> HIDE DEF none
    <2> QED BY <2>1, CarriedTypes DEF none
<1>3. Paragraphs(before) \in SUBSET DOMAIN before /\ B \in SUBSET DOMAIN before
    BY NodesByType DEF Paragraphs
<1>4. \A a, b \in DOMAIN before : IsStrictPrefix(f[a], f[b]) <=> IsStrictPrefix(a, b)
    BY DEF Carries, IsEmbedding
<1> HIDE DEF A, B
<1>5. ASSUME NEW p \in Paragraphs(before)
      PROVE  f[p] \in Classified(after) <=> p \in Classified(before)
    <2>1. DefaultText(after, f[p]) = DefaultText(before, p) BY <1>3, CarriedText
    <2>2. ContainersOf(after, f[p]) = {} <=> \A c \in B : ~IsStrictPrefix(f[c], f[p])
        BY <1>2 DEF ContainersOf, A
    <2>3. ContainersOf(before, p) = {} <=> \A c \in B : ~IsStrictPrefix(c, p)
        BY DEF ContainersOf, B
    <2>4. ContainersOf(after, f[p]) = {} <=> ContainersOf(before, p) = {} BY <1>3, <1>4, <2>2, <2>3
    <2>5. f[p] \in Paragraphs(after) BY <1>1
    <2> QED BY <2>1, <2>4, <2>5 DEF Classified
<1>6. Classified(before) \in SUBSET Paragraphs(before) /\ Classified(after) \in SUBSET Paragraphs(after)
    BY DEF Classified
<1> QED BY <1>1, <1>5, <1>6

ComesFrom(before, after, f, p, type) ==
    \A other : Owns(after, f[p], type, other) => \E node : Owns(before, p, type, node) /\ other = f[node]

LEMMA OwnedCarried ==
    ASSUME NEW before, IsTree(before), NEW after, IsTree(after), NEW f, Carries(before, after, f),
           NEW p \in Paragraphs(before), NEW type
    PROVE  /\ \A node : Owns(before, p, type, node) =>
                 node \in DOMAIN before /\ TypeAt(before, node) # "unparsed" /\ Owns(after, f[p], type, f[node])
           /\ ComesFrom(before, after, f, p, type)
<1> DEFINE path == StructuralPath(before, p)
<1>1. p \in DOMAIN before /\ TypeAt(before, p) = "paragraph" BY NodesByType DEF Paragraphs
<1>2. IsTarget(before, "paragraph", path, p) BY <1>1 DEF IsTarget, TypeOfTarget
<1>3. NodeAt(before, path) = p BY <1>2, TargetFound
<1>4. Resolve(after, path) = {f[p]} BY <1>1, CarriedTarget
<1>5. NodeAt(after, path) = f[p] BY <1>4 DEF NodeAt
<1> HIDE DEF path
<1>6. /\ \A run \in TargetRuns(before, "paragraph", path) : f[run] \in TargetRuns(after, "paragraph", path)
      /\ \A other \in TargetRuns(after, "paragraph", path) :
            \E run \in TargetRuns(before, "paragraph", path) : other = f[run]
    BY <1>1, <1>2, TargetRunsOfACopy DEF NamesTarget
<1>7. /\ TargetRuns(before, "paragraph", path) = RunsOf(before, p)
      /\ TargetRuns(after, "paragraph", path) = RunsOf(after, f[p])
    BY <1>3, <1>5 DEF TargetRuns
<1>8. RunsOf(before, p) \in SUBSET OfType(Records(before), {"run_raw"}) BY RunsOfAParagraph
<1>9. \A run \in RunsOf(before, p) : run \in DOMAIN before /\ TypeAt(before, run) # "unparsed"
    BY <1>8, NodesByType
<1> QED BY <1>1, <1>6, <1>7, <1>9 DEF Owns, ComesFrom

LEMMA SitesCarried ==
    ASSUME NEW before, IsTree(before), NEW after, IsTree(after), NEW f, Carries(before, after, f),
           KeepsClasses(before, after, f), NEW profile, NEW site
    PROVE  IsSite(after, profile, site) <=> IsSite(before, profile, site)
<1>1. Classified(before) \in SUBSET Paragraphs(before) /\ Classified(after) \in SUBSET Paragraphs(after)
    BY DEF Classified
<1>2. ASSUME IsSite(before, profile, site) PROVE IsSite(after, profile, site)
    <2>1. PICK p \in Classified(before), node \in DOMAIN before, type \in {"run", "paragraph"},
               rule \in ToSet(profile.rules) :
            /\ Owns(before, p, type, node) /\ IsRuleFor(rule, ClassOf(before, p), type)
            /\ site = [type |-> type, path |-> StructuralPath(before, node), rule |-> rule]
        BY <1>2 DEF IsSite
    <2>2. TypeAt(before, node) # "unparsed" /\ Owns(after, f[p], type, f[node])
        BY <1>1, <2>1, OwnedCarried
    <2>3. f[p] \in Classified(after) BY ClassifiedCarried
    <2>4. f[node] \in DOMAIN after /\ StructuralPath(after, f[node]) = StructuralPath(before, node)
        BY <2>2, CarriedTarget
    <2>5. ClassOf(after, f[p]) = ClassOf(before, p) BY <1>1 DEF KeepsClasses
    <2> QED BY <2>1, <2>2, <2>3, <2>4, <2>5 DEF IsSite
<1>3. ASSUME IsSite(after, profile, site) PROVE IsSite(before, profile, site)
    <2>1. PICK q \in Classified(after), other \in DOMAIN after, type \in {"run", "paragraph"},
               rule \in ToSet(profile.rules) :
            /\ Owns(after, q, type, other) /\ IsRuleFor(rule, ClassOf(after, q), type)
            /\ site = [type |-> type, path |-> StructuralPath(after, other), rule |-> rule]
        BY <1>3 DEF IsSite
    <2>2. PICK p \in Classified(before) : q = f[p] BY ClassifiedCarried
    <2>3. PICK node : Owns(before, p, type, node) /\ other = f[node]
        <3>1. p \in Paragraphs(before) /\ Owns(after, f[p], type, other) BY <1>1, <2>1, <2>2
        <3>2. ComesFrom(before, after, f, p, type) BY <3>1, OwnedCarried
        <3> QED BY <3>1, <3>2 DEF ComesFrom
    <2>4. node \in DOMAIN before /\ TypeAt(before, node) # "unparsed" BY <1>1, <2>3, OwnedCarried
    <2>5. StructuralPath(after, f[node]) = StructuralPath(before, node) BY <2>4, CarriedTarget
    <2>6. ClassOf(after, f[p]) = ClassOf(before, p) BY <1>1 DEF KeepsClasses
    <2> QED BY <2>1, <2>2, <2>3, <2>4, <2>5, <2>6 DEF IsSite
<1> QED BY <1>2, <1>3

-------------------------------------------------------------------------------
(***************************************************************************)
(* What is decided of a site follows from what is said of its property at  *)
(* its target.                                                             *)
(***************************************************************************)
SaidOf(doc, site) == Said(doc, NodeAt(doc, site.path), site.type) \cap TagsOf(site.rule.property)

LEMMA ObservedIsSaid ==
    ASSUME NEW doc, NEW site, NEW inherited
    PROVE  Observed(doc, site, inherited) =
               IF SaidOf(doc, site) = {} THEN inherited
               ELSE IF SaidOf(doc, site) = TagsOf(site.rule.property) THEN "unresolved"
               ELSE IF DesiredTag[site.rule.property] \in SaidOf(doc, site) THEN "desired" ELSE "other"
<1> DEFINE D == Said(doc, NodeAt(doc, site.path), site.type)
           T == TagsOf(site.rule.property)
<1>1. DesiredTag[site.rule.property] \in T BY DEF TagsOf
<1>2. Observed(doc, site, inherited) =
        CASE D \cap T = {} -> inherited
          [] D \cap T = T -> "unresolved"
          [] OTHER -> IF DesiredTag[site.rule.property] \in D THEN "desired" ELSE "other"
    BY DEF Observed, Said
<1>3. SaidOf(doc, site) = D \cap T BY DEF SaidOf
<1> HIDE DEF D, T
<1>4. ~(D \cap T = {} /\ D \cap T = T) BY <1>1
<1>5. DesiredTag[site.rule.property] \in D <=> DesiredTag[site.rule.property] \in D \cap T BY <1>1
<1> QED BY <1>2, <1>3, <1>4, <1>5 DEF T

LEMMA VerdictIsSaid ==
    ASSUME NEW a, NEW b, NEW site, NEW inherited, SaidOf(a, site) = SaidOf(b, site)
    PROVE  Verdict(a, site, inherited) = Verdict(b, site, inherited)
<1>1. Observed(a, site, inherited) = Observed(b, site, inherited) BY ObservedIsSaid
<1> QED BY <1>1 DEF Verdict

LEMMA FormattedVerdict ==
    ASSUME NEW doc, NEW site, NEW inherited, site.rule.mode # "preserve",
           SaidOf(doc, site) = {DesiredTag[site.rule.property]}, site.rule.property \in DOMAIN DesiredTag
    PROVE  Verdict(doc, site, inherited) = "no_action"
<1>1. TagsOf(site.rule.property) # {DesiredTag[site.rule.property]} BY DEF TagsOf, DesiredTag, OtherTag
<1>2. Observed(doc, site, inherited) = "desired" BY <1>1, ObservedIsSaid
<1> QED BY <1>2 DEF Verdict

(***************************************************************************)
(* A site has a target, and there is one site of a property at a target.   *)
(***************************************************************************)
LEMMA OwnersAreAlone ==
    ASSUME NEW doc, IsTree(doc), NEW p \in Paragraphs(doc), NEW q \in Paragraphs(doc), NEW node,
           NEW type, NEW kind, Owns(doc, p, type, node), Owns(doc, q, kind, node)
    PROVE  p = q /\ type = kind /\ IsTargetNode(doc, node, type)
<1>1. /\ \A x \in Paragraphs(doc) : x \in DOMAIN doc /\ TypeAt(doc, x) = "paragraph"
      /\ \A x \in OfType(Records(doc), {"run_raw"}) : x \in DOMAIN doc /\ TypeAt(doc, x) = "run_raw"
    BY NodesByType DEF Paragraphs
<1>2. \A x \in Paragraphs(doc) : \A run \in RunsOf(doc, x) :
         run \in OfType(Records(doc), {"run_raw"}) /\ ParagraphAncestors(doc, run) = {x}
    BY RunsOfAParagraph
<1>3. type = kind BY <1>1, <1>2 DEF Owns
<1>4. p = q BY <1>1, <1>2 DEF Owns
<1>5. IsTargetNode(doc, node, type) BY <1>1, <1>2 DEF Owns, IsTargetNode, TypeOfTarget
<1> QED BY <1>3, <1>4, <1>5

LEMMA SitesHaveTargets ==
    ASSUME NEW doc, IsTree(doc), NEW profile, NEW site, IsSite(doc, profile, site)
    PROVE  /\ \E node \in DOMAIN doc : IsTarget(doc, site.type, site.path, node)
           /\ site.rule.property \in DOMAIN DesiredTag /\ site.rule.property \in DOMAIN OtherTag
<1>1. PICK p \in Classified(doc), node \in DOMAIN doc, type \in {"run", "paragraph"},
           rule \in ToSet(profile.rules) :
        /\ Owns(doc, p, type, node) /\ IsRuleFor(rule, ClassOf(doc, p), type)
        /\ site = [type |-> type, path |-> StructuralPath(doc, node), rule |-> rule]
    BY DEF IsSite
<1>2. p \in Paragraphs(doc) BY DEF Classified
<1>3. IsTargetNode(doc, node, type) BY <1>1, <1>2, OwnersAreAlone
<1>4. IsTarget(doc, site.type, site.path, node) BY <1>1, <1>3 DEF IsTarget, IsTargetNode
<1>5. rule.property \in DOMAIN DesiredTag /\ rule.property \in DOMAIN OtherTag
    BY <1>1 DEF IsRuleFor, CanonicalProperties, DesiredTag, OtherTag
<1> QED BY <1>1, <1>4, <1>5

LEMMA OneSiteOfAProperty ==
    ASSUME NEW doc, IsTree(doc), NEW profile, HasRules(profile), AreNamed(profile.rules),
           NEW s, IsSite(doc, profile, s), NEW t, IsSite(doc, profile, t),
           s.type = t.type, s.path = t.path, s.rule.property = t.rule.property
    PROVE  s = t
<1>1. PICK p \in Classified(doc), m \in DOMAIN doc, type \in {"run", "paragraph"}, a \in ToSet(profile.rules) :
        /\ Owns(doc, p, type, m) /\ IsRuleFor(a, ClassOf(doc, p), type)
        /\ s = [type |-> type, path |-> StructuralPath(doc, m), rule |-> a]
    BY DEF IsSite
<1>2. PICK q \in Classified(doc), n \in DOMAIN doc, kind \in {"run", "paragraph"}, b \in ToSet(profile.rules) :
        /\ Owns(doc, q, kind, n) /\ IsRuleFor(b, ClassOf(doc, q), kind)
        /\ t = [type |-> kind, path |-> StructuralPath(doc, n), rule |-> b]
    BY DEF IsSite
<1>3. StructuralPath(doc, m) = StructuralPath(doc, n) /\ a.property = b.property /\ type = kind
    BY <1>1, <1>2
<1>4. m = n BY <1>3, PathsAreNames
<1>5. p \in Paragraphs(doc) /\ q \in Paragraphs(doc) BY DEF Classified
<1>6. p = q BY <1>1, <1>2, <1>4, <1>5, OwnersAreAlone
<1>7. a.class = b.class BY <1>1, <1>2, <1>6 DEF IsRuleFor
<1>8. PICK i \in DOMAIN profile.rules, j \in DOMAIN profile.rules : a = profile.rules[i] /\ b = profile.rules[j]
    BY DEF ToSet
<1>9. a = b BY <1>3, <1>7, <1>8 DEF AreNamed
<1> QED BY <1>1, <1>2, <1>3, <1>9

(***************************************************************************)
(* A patch formats its site and decides no other one differently.          *)
(***************************************************************************)
LEMMA PatchedSites ==
    ASSUME NEW doc, IsTree(doc), NEW profile, HasRules(profile), AreNamed(profile.rules),
           NEW site, IsSite(doc, profile, site), IsPatchable(doc, site),
           NEW inherited, Verdict(doc, site, inherited) = "deterministic_change"
    PROVE  LET after == Patched(doc, site)
           IN  /\ \A s : IsSite(after, profile, s) <=> IsSite(doc, profile, s)
               /\ Verdict(after, site, inherited) = "no_action"
               /\ \A s : IsSite(doc, profile, s) /\ s # site =>
                     Verdict(after, s, inherited) = Verdict(doc, s, inherited)
<1> DEFINE after == Patched(doc, site)
           property == site.rule.property
<1>1. PICK x \in DOMAIN doc : IsTarget(doc, site.type, site.path, x) BY SitesHaveTargets
<1>2. property \in DOMAIN DesiredTag /\ property \in DOMAIN OtherTag BY SitesHaveTargets
<1>3. IsTargetNode(doc, x, site.type) BY <1>1 DEF IsTarget, IsTargetNode
<1>4. IsTree(after) /\ \E f : Formats(doc, after, f, x, site.type, property) BY <1>1, PatchFormats
<1> HIDE DEF after
<1>5. PICK f : Formats(doc, after, f, x, site.type, property) BY <1>4
<1>6. Carries(doc, after, f) BY <1>5 DEF Formats
<1>7. KeepsClasses(doc, after, f) BY <1>2, <1>3, <1>5, FormattingKeepsClasses
<1>8. \A s : IsSite(after, profile, s) <=> IsSite(doc, profile, s) BY <1>4, <1>6, <1>7, SitesCarried
<1>9. ASSUME NEW s, IsSite(doc, profile, s), NEW y \in DOMAIN doc, IsTarget(doc, s.type, s.path, y)
      PROVE  NodeAt(doc, s.path) = y /\ NodeAt(after, s.path) = f[y] /\ IsTargetNode(doc, y, s.type)
    <2>1. IsTargetNode(doc, y, s.type) /\ s.path = StructuralPath(doc, y)
        BY <1>9 DEF IsTarget, IsTargetNode
    <2>2. TypeAt(doc, y) # "unparsed" BY <2>1, TargetNodes
    <2>3. Resolve(after, s.path) = {f[y]} BY <1>4, <1>6, <2>1, <2>2, CarriedTarget
    <2>4. NodeAt(after, s.path) = f[y] BY <2>3 DEF NodeAt
    <2> QED BY <1>9, <2>1, <2>4, TargetFound
<1>10. Verdict(after, site, inherited) = "no_action"
    <2>1. NodeAt(doc, site.path) = x /\ NodeAt(after, site.path) = f[x] BY <1>1, <1>9
    <2>2. SaidOf(after, site) =
            Replacing(Said(doc, x, site.type), {OtherTag[property]}, {DesiredTag[property]}) \cap TagsOf(property)
        BY <1>5, <2>1 DEF SaidOf, Formats
    <2>3. DesiredTag[property] # OtherTag[property] BY <1>2 DEF DesiredTag, OtherTag
    <2>4. SaidOf(after, site) = {DesiredTag[property]} BY <2>2, <2>3 DEF Replacing, TagsOf
    <2>5. site.rule.mode # "preserve" BY DEF Verdict
    <2> QED BY <1>2, <2>4, <2>5, FormattedVerdict
<1>11. ASSUME NEW s, IsSite(doc, profile, s), s # site
       PROVE  Verdict(after, s, inherited) = Verdict(doc, s, inherited)
    <2>1. PICK y \in DOMAIN doc : IsTarget(doc, s.type, s.path, y) BY <1>11, SitesHaveTargets
    <2>2. NodeAt(doc, s.path) = y /\ NodeAt(after, s.path) = f[y] /\ IsTargetNode(doc, y, s.type)
        BY <1>9, <1>11, <2>1
    <2>3. SaidOf(after, s) = SaidOf(doc, s)
        <3>1. CASE y # x
            <4>1. Said(after, f[y], s.type) = Said(doc, y, s.type)
                BY <1>5, <2>2, <3>1 DEF Formats, SaysElsewhere
            <4> QED BY <2>2, <4>1 DEF SaidOf
        <3>2. CASE y = x
            <4>1. s.type = site.type /\ s.path = site.path
                BY <1>1, <2>1, <3>2 DEF IsTarget, TypeOfTarget
            <4>2. s.rule.property # property BY <1>11, <4>1, OneSiteOfAProperty
            <4>3. s.rule.property \in DOMAIN DesiredTag BY <1>11, SitesHaveTargets
            <4>4. OtherTag[property] \notin TagsOf(s.rule.property) /\ DesiredTag[property] \notin TagsOf(s.rule.property)
                BY <1>2, <4>2, <4>3 DEF TagsOf, DesiredTag, OtherTag
            <4>5. Said(after, f[x], s.type) =
                    Replacing(Said(doc, x, s.type), {OtherTag[property]}, {DesiredTag[property]})
                BY <1>5, <4>1 DEF Formats
            <4> QED BY <2>2, <3>2, <4>4, <4>5 DEF SaidOf, Replacing
        <3> QED BY <3>1, <3>2
    <2> QED BY <2>3, VerdictIsSaid
<1> QED BY <1>8, <1>10, <1>11 DEF after

-------------------------------------------------------------------------------
(***************************************************************************)
(* What the session has done so far, in terms of the sites: those decided  *)
(* otherwise than in the upload are formatted, there is one change applied *)
(* for each, and the report is that of the document as it is.              *)
(***************************************************************************)
SitesOfUpload == ToSet(SitesOf(request.tree, request.profile))

ChangedSites ==
    {site \in SitesOfUpload :
        Verdict(tree, site, request.inherited) # Verdict(request.tree, site, request.inherited)}

SitesAreKept == SitesOfUpload = ToSet(SitesOf(tree, request.profile))

ChangesAreApplied ==
    /\ IsFiniteSet(ChangedSites) /\ Len(transforms) = Cardinality(ChangedSites)
    /\ \A site \in ChangedSites :
          Verdict(tree, site, request.inherited) = "no_action" /\ Named(transforms, site)

ReportIsCurrent == stage \in WithAReview \/ answer = 200 => report = Report(tree)

SitesInv == SitesAreKept /\ ChangesAreApplied /\ ReportIsCurrent

LEMMA InitSites == Init => SitesInv
<1> SUFFICES ASSUME Init PROVE SitesInv OBVIOUS
<1>1. tree = request.tree /\ transforms = <<>> /\ stage = "received" /\ answer = 0 BY DEF Init
<1>2. SitesAreKept BY <1>1 DEF SitesAreKept, SitesOfUpload
<1>3. ChangedSites = {} BY <1>1 DEF ChangedSites
<1>4. ChangesAreApplied BY <1>1, <1>3, FS_EmptySet DEF ChangesAreApplied
<1>5. ReportIsCurrent BY <1>1 DEF ReportIsCurrent, WithAReview
<1> QED BY <1>2, <1>4, <1>5 DEF SitesInv

(***************************************************************************)
(* A change that is applied is one more site changed: the site was decided *)
(* as in the upload until then, as those changed need no action.           *)
(***************************************************************************)
LEMMA NamedStays ==
    ASSUME NEW E, NEW items \in Seq(E), NEW item, NEW site
    PROVE  /\ Named(items, site) => Named(Append(items, item), site)
           /\ Target(item) = [type |-> site.type, path |-> site.path] => Named(Append(items, item), site)
<1>1. /\ Len(items) \in Nat /\ DOMAIN items = 1 .. Len(items)
      /\ DOMAIN Append(items, item) = 1 .. Len(items) + 1
      /\ \A i \in 1 .. Len(items) : Append(items, item)[i] = items[i]
      /\ Append(items, item)[Len(items) + 1] = item
    BY AppendProperties
<1> QED BY <1>1 DEF Named

LEMMA ApplyChangesASite ==
    ASSUME ChainInv, SitesInv, ApplyOperation
    PROVE  SitesInv'
<1> DEFINE profile == request.profile
           inherited == request.inherited
           S == SitesOfUpload
           verdict(doc, s) == Verdict(doc, s, inherited)
<1>1. PICK site \in FirstApplicable :
          /\ tree' = Patched(tree, site)
          /\ transforms' = Append(transforms, Item("applied_change", site, HashNow(tree, site.path)))
    BY DEF ApplyOperation
<1>2. IsTree(tree) /\ IsTree(request.tree) /\ HasRules(profile) /\ AreNamed(profile.rules)
    BY PostedAreTrees, RequestsAssumption DEF ChainInv, TypeOK
<1>3. IsPatchable(tree, site) /\ site \in ToSet(SitesOf(tree, profile))
      /\ verdict(tree, site) = "deterministic_change"
    <2> DEFINE sites == SitesOf(tree, profile)
               indices == {i \in DOMAIN sites : verdict(tree, sites[i]) \in {"deterministic_change"}}
    <2>1. sites \in Seq(SitesIn(tree, profile.rules)) BY <1>2, SitesAreTargets
    <2>2. Unapplied(tree) = Selected(sites, indices) BY DEF Unapplied, SitesDecided, Decided
    <2>3. PICK i \in DOMAIN Unapplied(tree) : site = Unapplied(tree)[i] /\ IsPatchable(tree, Unapplied(tree)[i])
        BY DEF FirstApplicable, FirstPatchable
    <2>4. indices \in SUBSET DOMAIN sites OBVIOUS
    <2>5. ToSet(Selected(sites, indices)) = {sites[j] : j \in indices}
        <3> HIDE DEF sites, indices
        <3> QED BY <2>1, <2>4, SelectedElements
    <2>6. site \in ToSet(Selected(sites, indices)) BY <2>2, <2>3 DEF ToSet
    <2> QED BY <2>3, <2>5, <2>6 DEF ToSet
<1>4. IsSite(tree, profile, site) BY <1>2, <1>3, SitesAreRulesAtTargets
<1>5. /\ \A s : IsSite(tree', profile, s) <=> IsSite(tree, profile, s)
      /\ verdict(tree', site) = "no_action"
      /\ \A s : IsSite(tree, profile, s) /\ s # site => verdict(tree', s) = verdict(tree, s)
    <2> HIDE DEF profile, inherited
    <2> QED BY <1>1, <1>2, <1>3, <1>4, PatchedSites
<1>6. IsTree(tree')
    <2>1. ChainInv' BY ApplyKeepsInv
    <2> QED BY <2>1 DEF ChainInv, TypeOK
<1>7. \A s : /\ s \in ToSet(SitesOf(tree, profile)) <=> IsSite(tree, profile, s)
             /\ s \in ToSet(SitesOf(tree', profile)) <=> IsSite(tree', profile, s)
    <2> HIDE DEF profile
    <2> QED BY <1>2, <1>6, SitesAreRulesAtTargets
<1>8. request' = request /\ stage' = stage /\ answer' = answer /\ stage = "session" BY DEF ApplyOperation
<1>9. SitesOfUpload' = S BY <1>8 DEF SitesOfUpload
<1>10. S = ToSet(SitesOf(tree, profile)) BY DEF SitesInv, SitesAreKept
<1>11. S = ToSet(SitesOf(tree', profile)) BY <1>5, <1>7, <1>10
<1>12. SitesAreKept' BY <1>8, <1>9, <1>11 DEF SitesAreKept
<1>13. /\ ChangedSites = {s \in S : verdict(tree, s) # verdict(request.tree, s)}
       /\ ChangedSites' = {s \in S : verdict(tree', s) # verdict(request.tree, s)}
    BY <1>8, <1>9 DEF ChangedSites
<1>14. \A s \in S : s # site => verdict(tree', s) = verdict(tree, s) BY <1>5, <1>7, <1>10
<1>15. site \in S BY <1>3, <1>10
<1> HIDE DEF S, verdict
<1>16. site \notin ChangedSites
    BY <1>3 DEF SitesInv, ChangesAreApplied, verdict
<1>17. verdict(request.tree, site) = "deterministic_change" BY <1>3, <1>13, <1>15, <1>16
<1>18. ChangedSites' = ChangedSites \cup {site} BY <1>5, <1>13, <1>14, <1>15, <1>17
<1>19. IsFiniteSet(ChangedSites) /\ Len(transforms) = Cardinality(ChangedSites)
    BY DEF SitesInv, ChangesAreApplied
<1>20. IsFiniteSet(ChangedSites') /\ Cardinality(ChangedSites') = Cardinality(ChangedSites) + 1
    BY <1>16, <1>18, <1>19, FS_AddElement
<1>21. PICK E : transforms \in Seq(E) BY DEF ChainInv, IsListing
<1> DEFINE item == Item("applied_change", site, HashNow(tree, site.path))
<1>22. Target(item) = [type |-> site.type, path |-> site.path] BY DEF Target, Item
<1> HIDE DEF item
<1>23. Len(transforms') = Len(transforms) + 1
    <2>1. Len(Append(transforms, item)) = Len(transforms) + 1 BY <1>21
    <2> QED BY <1>1, <2>1 DEF item
<1>24. Named(transforms', site) BY <1>1, <1>21, <1>22, NamedStays DEF item
<1>25. \A s : Named(transforms, s) => Named(transforms', s) BY <1>1, <1>21, NamedStays DEF item
<1>26. \A s \in ChangedSites : verdict(tree, s) = "no_action" /\ Named(transforms, s)
    BY DEF SitesInv, ChangesAreApplied, verdict
<1>27. \A s \in ChangedSites' : verdict(tree', s) = "no_action" /\ Named(transforms', s)
    BY <1>5, <1>13, <1>14, <1>16, <1>18, <1>24, <1>25, <1>26
<1>28. ChangesAreApplied'
    <2>1. \A s \in ChangedSites' : Verdict(tree', s, request'.inherited) = "no_action" /\ Named(transforms', s)
        BY <1>8, <1>27 DEF verdict
    <2> QED BY <1>19, <1>20, <1>23, <2>1 DEF ChangesAreApplied
<1>29. ReportIsCurrent'
    BY <1>8 DEF ReportIsCurrent, WithAReview, ChainInv, TypeOK
<1> QED BY <1>12, <1>28, <1>29 DEF SitesInv

LEMMA QuietKeepsSites ==
    ASSUME SitesInv, UNCHANGED <<request, tree, transforms>>,
           stage' \in WithAReview \/ answer' = 200 =>
               report' = Report(tree) \/ (report' = report /\ (stage \in WithAReview \/ answer = 200))
    PROVE  SitesInv'
<1>1. SitesOfUpload' = SitesOfUpload /\ ChangedSites' = ChangedSites BY DEF SitesOfUpload, ChangedSites
<1>2. Report(tree)' = Report(tree)
    BY DEF Report, SessionStatus, Unapplied, SitesDecided, Decided
<1>3. SitesAreKept' BY <1>1 DEF SitesInv, SitesAreKept
<1>4. ChangesAreApplied' BY <1>1 DEF SitesInv, ChangesAreApplied
<1>5. ReportIsCurrent' BY <1>2 DEF SitesInv, ReportIsCurrent
<1> QED BY <1>3, <1>4, <1>5 DEF SitesInv

LEMMA NextSites ==
    ASSUME ChainInv, SitesInv, [Next]_vars
    PROVE  SitesInv'
<1>1. CASE ApplyOperation BY <1>1, ApplyChangesASite
<1>2. CASE EndSession
    <2>1. UNCHANGED <<request, tree, transforms>> /\ report' = Report(tree) BY <1>2 DEF EndSession
    <2> QED BY <2>1, QuietKeepsSites
<1>3. CASE \/ ReceiveUpload \/ ReadProfile \/ ParsePackage \/ BindReport \/ MarkCandidate
           \/ FinishReview \/ RefuseName \/ Deliver
    <2>1. UNCHANGED <<request, tree, transforms, report>>
        BY <1>3 DEF ReceiveUpload, ReadProfile, ParsePackage, BindReport, MarkCandidate,
                    FinishReview, RefuseName, Deliver
    <2>2. stage' \in WithAReview \/ answer' = 200 => stage \in WithAReview \/ answer = 200
        BY <1>3 DEF ReceiveUpload, ReadProfile, ParsePackage, BindReport, MarkCandidate,
                    FinishReview, RefuseName, Deliver, Answer, Proceed, WithAReview
    <2> QED BY <2>1, <2>2, QuietKeepsSites
<1>4. CASE UNCHANGED vars BY <1>4, QuietKeepsSites DEF vars
<1> QED BY <1>1, <1>2, <1>3, <1>4 DEF Next, Done

(***************************************************************************)
(* What is decided in one of some ways is named by the report's list of    *)
(* the sites decided so.                                                   *)
(***************************************************************************)
LEMMA DecidedAreNamed ==
    ASSUME NEW doc, NEW S, NEW sites \in Seq(S), NEW verdicts, NEW kind,
           NEW site \in ToSet(sites), Verdict(doc, site, request.inherited) \in verdicts
    PROVE  Named(ItemsFor(kind, doc, Decided(doc, sites, verdicts)), site)
<1> DEFINE indices == {i \in DOMAIN sites : Verdict(doc, sites[i], request.inherited) \in verdicts}
           decided == Decided(doc, sites, verdicts)
           items == ItemsFor(kind, doc, decided)
<1>1. decided = Selected(sites, indices) BY DEF Decided
<1>2. indices \in SUBSET DOMAIN sites OBVIOUS
<1>3. site \in {sites[i] : i \in indices} BY DEF ToSet
<1> HIDE DEF indices
<1>4. ToSet(Selected(sites, indices)) = {sites[i] : i \in indices} BY <1>2, SelectedElements
<1>5. PICK n \in DOMAIN decided : decided[n] = site BY <1>1, <1>3, <1>4 DEF ToSet
<1> HIDE DEF decided
<1>6. n \in DOMAIN items /\ items[n] = Item(kind, site, HashNow(doc, site.path)) BY <1>5 DEF ItemsFor
<1>7. Target(items[n]) = [type |-> site.type, path |-> site.path] BY <1>6 DEF Target, Item
<1> HIDE DEF items
<1>8. Named(items, site) BY <1>6, <1>7 DEF Named
<1> QED BY <1>8 DEF items, decided

(***************************************************************************)
(* The report of a delivery accounts for every site a rule decides.        *)
(***************************************************************************)
THEOREM EverySiteIsAlwaysAccountedFor == Spec => []EverySiteIsAccountedFor
<1>1. ChainInv /\ SitesInv => EverySiteIsAccountedFor
    <2> SUFFICES ASSUME ChainInv, SitesInv, answer = 200 PROVE EverySiteIsAccountedFor
        BY DEF EverySiteIsAccountedFor
    <2> DEFINE S == SitesOfUpload
               sites == SitesOf(tree, request.profile)
               before(site) == Verdict(request.tree, site, request.inherited)
               after(site) == Verdict(tree, site, request.inherited)
    <2>1. report = Report(tree) BY DEF SitesInv, ReportIsCurrent
    <2>2. /\ report.applied = transforms
          /\ report.unapplied = ItemsFor("unapplied_change", tree, Decided(tree, sites, {"deterministic_change"}))
          /\ report.review = ItemsFor("review_item", tree, Decided(tree, sites, {"review", "human_choice"}))
        BY <2>1 DEF Report, Unapplied, SitesDecided
    <2>3. S = ToSet(sites) BY DEF SitesInv, SitesAreKept
    <2>4. sites \in Seq(SitesIn(tree, request.profile.rules))
        <3>1. IsTree(tree) /\ HasRules(request.profile) BY PostedAreTrees DEF ChainInv, TypeOK
        <3> QED BY <3>1, SitesAreTargets
    <2>5. ChangedSites = {site \in S : after(site) # before(site)} BY DEF ChangedSites
    <2> HIDE DEF sites
    <2>6. \A site \in S : after(site) # before(site) => after(site) = "no_action" /\ Named(report.applied, site)
        BY <2>2, <2>5 DEF SitesInv, ChangesAreApplied
    <2>7. \A site \in S : after(site) = "deterministic_change" => Named(report.unapplied, site)
        BY <2>2, <2>3, <2>4, DecidedAreNamed
    <2>8. \A site \in S : after(site) \in {"review", "human_choice"} => Named(report.review, site)
        BY <2>2, <2>3, <2>4, DecidedAreNamed
    <2>9. Len(report.applied) = Cardinality({site \in S : after(site) # before(site)})
        BY <2>2, <2>5 DEF SitesInv, ChangesAreApplied
    <2> QED BY <2>3, <2>6, <2>7, <2>8, <2>9 DEF EverySiteIsAccountedFor, SitesOfUpload, sites
<1>2. Spec => []ChainInv BY ChainInvariant
<1> QED BY <1>1, <1>2, InitSites, NextSites, PTL DEF Spec

-------------------------------------------------------------------------------
(***************************************************************************)
(* The delta. What Neutralized does, at the run its path leads to.         *)
(***************************************************************************)
NeutralAt(clean, copy, run) ==
    LET container == CHOOSE c \in Peers(copy, run, "rPr") : TRUE
        bare == Removed(copy, CHOOSE h \in Peers(copy, container, "highlight") : TRUE)
    IN  IF Peers(clean, run, "rPr") = {} /\ Children(bare, container) = {}
        THEN Removed(bare, container) ELSE bare

HoldsMark(copy, run, c, h) == Peers(copy, run, "rPr") = {c} /\ Peers(copy, c, "highlight") = {h}

IsMarkedOnce(copy, run) == \E c, h : HoldsMark(copy, run, c, h)

IsAppended(child, node) == \E i \in Nat \ {0} : child = Append(node, i)

LEMMA MarkedByPeers ==
    ASSUME NEW copy, IsTree(copy), NEW run, NEW c, NEW h, HoldsMark(copy, run, c, h)
    PROVE  /\ run \in DOMAIN copy /\ run \in Nodes /\ c \in DOMAIN copy /\ c \in Nodes
           /\ IsStrictPrefix(run, c) /\ ~IsStrictPrefix(c, run) /\ ~IsStrictPrefix(c, c)
           /\ IsAppended(c, run) /\ IsAppended(h, c)
<1>1. ASSUME NEW node, NEW child, NEW kind, Peers(copy, node, kind) = {child}
      PROVE  /\ node \in DOMAIN copy /\ node \in Nodes /\ child \in DOMAIN copy /\ child \in Nodes
             /\ IsStrictPrefix(node, child) /\ Len(child) = Len(node) + 1 /\ Len(node) \in Nat
             /\ IsAppended(child, node)
    <2>1. child \in Children(copy, node) BY <1>1 DEF Peers
    <2>2. /\ node \in DOMAIN copy /\ node \in Nodes /\ child \in DOMAIN copy /\ child \in Nodes
          /\ Len(child) = Len(node) + 1 /\ Len(node) \in Nat /\ child = Append(node, child[Len(child)])
        BY <2>1, ChildrenOfNode
    <2>3. IsStrictPrefix(node, child) BY <2>1, ChildrenAreBelow
    <2>4. child[Len(child)] \in Nat \ {0} BY <2>2, ElementOfSeq DEF Nodes
    <2>5. IsAppended(child, node) BY <2>2, <2>4 DEF IsAppended
    <2> QED BY <2>2, <2>3, <2>5
<1>2. /\ run \in DOMAIN copy /\ run \in Nodes /\ c \in DOMAIN copy /\ c \in Nodes
      /\ IsStrictPrefix(run, c) /\ Len(c) = Len(run) + 1 /\ Len(run) \in Nat
      /\ IsAppended(c, run)
    BY <1>1 DEF HoldsMark
<1>3. IsAppended(h, c) BY <1>1 DEF HoldsMark
<1>4. ~IsStrictPrefix(c, run)
    <2>1. c \in Seq(Nat \ {0}) /\ run \in Seq(Nat \ {0}) BY <1>2 DEF Nodes
    <2> QED BY <1>2, <2>1, StrictPrefixes
<1>5. ~IsStrictPrefix(c, c) BY DEF IsStrictPrefix
<1> QED BY <1>2, <1>3, <1>4, <1>5

(***************************************************************************)
(* Taking a mark back changes nothing beyond the run, and depends on       *)
(* nothing but the run.                                                    *)
(***************************************************************************)
LEMMA NeutralIsLocal ==
    ASSUME NEW clean, NEW a, IsTree(a), NEW run, IsMarkedOnce(a, run)
    PROVE  /\ IsTree(NeutralAt(clean, a, run)) /\ IsMapping(NeutralAt(clean, a, run))
           /\ SameBeyond(a, NeutralAt(clean, a, run), run)
           /\ \A b : IsTree(b) /\ SameBelow(a, b, run) =>
                 SameBelow(NeutralAt(clean, a, run), NeutralAt(clean, b, run), run)
<1>1. PICK c, h : HoldsMark(a, run, c, h) BY DEF IsMarkedOnce
<1>2. /\ run \in DOMAIN a /\ run \in Nodes /\ c \in DOMAIN a /\ c \in Nodes
      /\ IsStrictPrefix(run, c) /\ ~IsStrictPrefix(c, run) /\ ~IsStrictPrefix(c, c)
      /\ IsAppended(c, run) /\ IsAppended(h, c)
    BY <1>1, MarkedByPeers
<1>3. PICK i \in Nat \ {0} : c = Append(run, i) BY <1>2 DEF IsAppended
<1>4. PICK j \in Nat \ {0} : h = Append(c, j) BY <1>2 DEF IsAppended
<1> DEFINE bare(doc) == Removed(doc, h)
           empty(doc) == Peers(clean, run, "rPr") = {} /\ Children(bare(doc), c) = {}
           less(doc) == IF empty(doc) THEN Removed(bare(doc), c) ELSE bare(doc)
<1>5. ASSUME NEW doc, HoldsMark(doc, run, c, h)
      PROVE  NeutralAt(clean, doc, run) = less(doc)
    <2>1. (CHOOSE x \in {c} : TRUE) = c /\ (CHOOSE x \in {h} : TRUE) = h OBVIOUS
    <2> QED BY <1>5, <2>1 DEF NeutralAt, HoldsMark
<1>6. ASSUME NEW doc, IsTree(doc), run \in DOMAIN doc, c \in DOMAIN doc
      PROVE  /\ IsTree(bare(doc)) /\ IsMapping(bare(doc))
             /\ IsTree(Removed(bare(doc), c)) /\ IsMapping(Removed(bare(doc), c))
    <2>1. IsTree(bare(doc)) /\ IsMapping(bare(doc)) BY <1>2, <1>4, <1>6, RemovedTree
    <2>2. SameBeyond(doc, bare(doc), run) BY <1>2, <1>4, <1>6, RemovalIsLocal
    <2>3. run \in DOMAIN bare(doc)
        <3>1. ~IsStrictPrefix(run, run) BY DEF IsStrictPrefix
        <3> HIDE DEF bare
        <3> QED BY <1>2, <1>6, <2>2, <3>1 DEF SameBeyond, SameAt
    <2> HIDE DEF bare
    <2>4. IsTree(Removed(bare(doc), c)) /\ IsMapping(Removed(bare(doc), c))
        BY <1>2, <1>3, <2>1, <2>3, RemovedTree
    <2> QED BY <2>1, <2>4
<1>7. /\ IsTree(bare(a)) /\ IsMapping(bare(a)) /\ IsTree(Removed(bare(a), c)) /\ IsMapping(Removed(bare(a), c))
    BY <1>2, <1>6
<1>8. SameBeyond(a, bare(a), run) BY <1>2, <1>4, RemovalIsLocal
<1>9. SameBeyond(bare(a), Removed(bare(a), c), run)
    <2> HIDE DEF bare
    <2> QED BY <1>2, <1>3, <1>7, RemovalIsLocal
<1>10. IsTree(less(a)) /\ IsMapping(less(a)) /\ SameBeyond(a, less(a), run)
    <2> HIDE DEF bare
    <2>1. SameBeyond(a, Removed(bare(a), c), run) BY <1>8, <1>9, SameIsTransitive
    <2> QED BY <1>7, <1>8, <2>1
<1>11. ASSUME NEW b, IsTree(b), SameBelow(a, b, run) PROVE SameBelow(less(a), less(b), run)
    <2>1. SameBelow(bare(a), bare(b), run) BY <1>2, <1>4, <1>11, RemovalIsLocal
    <2>2. HoldsMark(b, run, c, h) BY <1>1, <1>2, <1>11, SameChildren DEF HoldsMark
    <2>3. run \in DOMAIN b /\ c \in DOMAIN b BY <1>11, <2>2, MarkedByPeers
    <2>4. IsTree(bare(b)) BY <1>6, <1>11, <2>3
    <2> HIDE DEF bare
    <2>5. Children(bare(a), c) = Children(bare(b), c) BY <1>2, <1>7, <2>1, <2>4, SameChildren
    <2>6. SameBelow(Removed(bare(a), c), Removed(bare(b), c), run)
        BY <1>2, <1>3, <1>7, <2>1, <2>4, RemovalIsLocal
    <2> QED BY <2>1, <2>5, <2>6
<1>12. ASSUME NEW b, IsTree(b), SameBelow(a, b, run)
       PROVE  SameBelow(NeutralAt(clean, a, run), NeutralAt(clean, b, run), run)
    <2>1. HoldsMark(b, run, c, h) BY <1>1, <1>2, <1>12, SameChildren DEF HoldsMark
    <2> HIDE DEF less
    <2>2. NeutralAt(clean, a, run) = less(a) BY <1>1, <1>5
    <2>3. NeutralAt(clean, b, run) = less(b) BY <1>5, <2>1
    <2> QED BY <1>11, <1>12, <2>2, <2>3
<1>13. NeutralAt(clean, a, run) = less(a) BY <1>1, <1>5
<1> HIDE DEF less
<1> QED BY <1>10, <1>12, <1>13

LEMMA SamePlaces ==
    ASSUME NEW a, NEW b, NEW container, NEW tag, NEW rank,
           Children(a, container) = Children(b, container),
           \A child \in Children(a, container) : a[child] = b[child]
    PROVE  RankedPlace(a, container, tag, rank) = RankedPlace(b, container, tag, rank)
<1>1. LaterThan(a, container, tag, rank) = LaterThan(b, container, tag, rank) BY DEF LaterThan
<1>2. EndOf(a, container) = EndOf(b, container) BY DEF EndOf
<1> QED BY <1>1, <1>2 DEF RankedPlace

HighlightIn(doc, run) ==
    Inserted(doc, Append(run, 1), RankedPlace(doc, Append(run, 1), "highlight", RunRank), "highlight")

LEMMA HighlightedInReady ==
    ASSUME NEW doc, IsTree(doc), NEW run, IsTree(EnsureContainer(doc, run, "rPr")),
           Append(run, 1) \in DOMAIN EnsureContainer(doc, run, "rPr")
    PROVE  Highlighted(doc, run) = HighlightIn(EnsureContainer(doc, run, "rPr"), run)
<1> DEFINE ready == EnsureContainer(doc, run, "rPr")
           container == Append(run, 1)
<1> HIDE DEF ready, container
<1>1. IsTree(ready) /\ container \in DOMAIN ready BY DEF ready, container
<1>2. InsertedByRank(ready, container, "highlight", RunRank) =
          Inserted(ready, container, RankedPlace(ready, container, "highlight", RunRank), "highlight")
    BY <1>1, RankedPlaces
<1> QED BY <1>2 DEF ready, container, Highlighted, HighlightIn

(***************************************************************************)
(* A mark changes nothing beyond the run, depends on nothing but the run,  *)
(* and can be taken back.                                                  *)
(***************************************************************************)
LEMMA MarkIsLocal ==
    ASSUME NEW a, IsTree(a), NEW run, IsRun(a, run), Reason(a, run) = "none"
    PROVE  /\ IsTree(Highlighted(a, run)) /\ IsMapping(Highlighted(a, run))
           /\ IsMarkedOnce(Highlighted(a, run), run)
           /\ SameBeyond(a, Highlighted(a, run), run)
           /\ \A b : IsTree(b) /\ run \in DOMAIN b /\ SameBelow(a, b, run) =>
                 SameBelow(Highlighted(a, run), Highlighted(b, run), run)
           /\ IsMapping(a) => NeutralAt(a, Highlighted(a, run), run) = a
<1> DEFINE ready(doc) == EnsureContainer(doc, run, "rPr")
           container == Append(run, 1)
           position(doc) == RankedPlace(ready(doc), container, "highlight", RunRank)
           after(doc) == Inserted(ready(doc), container, position(doc), "highlight")
           new == Append(container, position(a))
           isNew == Peers(a, run, "rPr") = {}
<1>1. run \in DOMAIN a /\ run \in Nodes BY DEF IsRun, IsTree
<1>2. IsTree(ready(a)) /\ IsReady(ready(a), run) BY ReadyForTheMark
<1>3. Peers(ready(a), run, "rPr") = {container} BY <1>2 DEF IsReady
<1>4. /\ container \in Children(ready(a), run) /\ container \in Nodes
      /\ container \in DOMAIN ready(a) /\ run \in DOMAIN ready(a) /\ IsStrictPrefix(run, container)
    <2>1. container \in Children(ready(a), run) BY <1>3 DEF Peers
    <2> HIDE DEF container, ready
    <2> QED BY <1>2, <2>1, ChildrenOfNode, ChildrenAreBelow
<1>5. /\ position(a) \in Nat \ {0}
      /\ Peers(after(a), run, "rPr") = {container} /\ Peers(after(a), container, "highlight") = {new}
    <2> HIDE DEF ready
    <2> QED BY <1>2, <1>4, MarkShows
<1>6. Highlighted(a, run) = after(a) BY <1>2, <1>4, HighlightedInReady DEF HighlightIn
<1>7. IsTree(after(a))
    <2> HIDE DEF ready, container, position
    <2> QED BY <1>2, <1>4, <1>5, InsertedTree
<1>8. IsMapping(after(a)) BY DEF IsMapping, Inserted
<1>9. IsMarkedOnce(after(a), run) BY <1>5 DEF IsMarkedOnce, HoldsMark
<1>10. ready(a) = IF isNew THEN Inserted(a, run, 1, "rPr") ELSE a BY DEF EnsureContainer
<1>11. SameBeyond(a, ready(a), run)
    <2>1. SameBeyond(a, a, run) BY DEF SameBeyond, SameAt
    <2>2. SameBeyond(a, Inserted(a, run, 1, "rPr"), run) BY <1>1, InsertionIsLocal
    <2> HIDE DEF ready
    <2> QED BY <1>10, <2>1, <2>2
<1>12. SameBeyond(ready(a), after(a), run)
    <2> HIDE DEF ready, container, position
    <2> QED BY <1>1, <1>2, <1>4, <1>5, InsertionIsLocal
<1>13. SameBeyond(a, after(a), run)
    <2> HIDE DEF ready, after
    <2> QED BY <1>11, <1>12, SameIsTransitive
<1>14. ASSUME NEW b, IsTree(b), run \in DOMAIN b, SameBelow(a, b, run)
       PROVE  SameBelow(Highlighted(a, run), Highlighted(b, run), run)
    <2>1. Peers(b, run, "rPr") = Peers(a, run, "rPr") BY <1>1, <1>14, SameChildren
    <2>2. ready(b) = IF isNew THEN Inserted(b, run, 1, "rPr") ELSE b BY <2>1 DEF EnsureContainer
    <2>3. SameBelow(Inserted(a, run, 1, "rPr"), Inserted(b, run, 1, "rPr"), run)
        BY <1>1, <1>14, InsertionIsLocal
    <2>4. IsTree(Inserted(b, run, 1, "rPr")) BY <1>14, InsertedTree
    <2> HIDE DEF ready
    <2>5. SameBelow(ready(a), ready(b), run) BY <1>10, <1>14, <2>2, <2>3
    <2>6. IsTree(ready(b)) BY <1>14, <2>2, <2>4
    <2> HIDE DEF container
    <2>7. container \in DOMAIN ready(b) BY <1>4, <2>5 DEF SameBelow, SameAt
    <2>8. /\ Children(ready(a), container) = Children(ready(b), container)
          /\ \A child \in Children(ready(a), container) : ready(a)[child] = ready(b)[child]
        BY <1>1, <1>2, <1>4, <2>5, <2>6, SameChildren
    <2>9. position(a) = position(b)
        <3> DEFINE ra == ready(a)
                   rb == ready(b)
        <3> HIDE DEF ra, rb
        <3>1. RankedPlace(ra, container, "highlight", RunRank) = RankedPlace(rb, container, "highlight", RunRank)
            BY <2>8, SamePlaces DEF ra, rb
        <3> QED BY <3>1 DEF ra, rb
    <2>10. Highlighted(b, run) = after(b)
        BY <1>14, <2>6, <2>7, HighlightedInReady DEF ready, HighlightIn, container
    <2> HIDE DEF position
    <2>11. SameBelow(after(a), after(b), run)
        <3> DEFINE ra == ready(a)
                   rb == ready(b)
                   place == position(a)
        <3>1. /\ IsTree(ra) /\ IsTree(rb) /\ container \in DOMAIN ra /\ container \in DOMAIN rb
              /\ place \in Nat \ {0} /\ SameBelow(ra, rb, run)
            BY <1>2, <1>4, <1>5, <2>5, <2>6, <2>7
        <3> HIDE DEF ra, rb, place
        <3>2. SameBelow(Inserted(ra, container, place, "highlight"), Inserted(rb, container, place, "highlight"), run)
            BY <1>1, <1>4, <3>1, InsertionIsLocal
        <3> QED BY <2>9, <3>2 DEF ra, rb, place
    <2> QED BY <1>6, <2>10, <2>11
<1>15. ASSUME IsMapping(a) PROVE NeutralAt(a, after(a), run) = a
    <2>1. IsMapping(ready(a))
        <3>1. IsMapping(Inserted(a, run, 1, "rPr")) BY DEF IsMapping, Inserted
        <3> HIDE DEF ready
        <3> QED BY <1>10, <1>15, <3>1
    <2>2. Removed(after(a), new) = ready(a)
        <3> HIDE DEF ready, container, position
        <3> QED BY <1>2, <1>4, <1>5, <2>1, RemovedIsAsBefore
    <2>3. (CHOOSE x \in {container} : TRUE) = container /\ (CHOOSE x \in {new} : TRUE) = new OBVIOUS
    <2> HIDE DEF after, ready, container, new
    <2>4. NeutralAt(a, after(a), run) =
              IF isNew /\ Children(ready(a), container) = {} THEN Removed(ready(a), container) ELSE ready(a)
        BY <1>5, <2>2, <2>3 DEF NeutralAt
    <2>5. CASE isNew
        <3>1. ready(a) = Inserted(a, run, 1, "rPr") BY <1>10, <2>5
        <3>2. Removed(ready(a), container) = a
            <4>1. Removed(Inserted(a, run, 1, "rPr"), Append(run, 1)) = a BY <1>1, <1>15, RemovedIsAsBefore
            <4> QED BY <3>1, <4>1 DEF container
        <3>3. Children(ready(a), container) = {}
            <4> DEFINE f == [node \in DOMAIN a |-> Moved(node, run, 1)]
            <4>1. GrowsAt(a, ready(a), f, run, container, "rPr") BY <1>1, <3>1, InsertionGrows DEF container
            <4> HIDE DEF f
            <4> QED BY <1>2, <4>1, ChildrenOfGrown
        <3> QED BY <2>4, <2>5, <3>2, <3>3
    <2>6. CASE ~isNew BY <1>10, <2>4, <2>6
    <2> QED BY <2>5, <2>6
<1> HIDE DEF after
<1> QED BY <1>6, <1>7, <1>8, <1>9, <1>13, <1>14, <1>15

(***************************************************************************)
(* The review copy as a patchwork: the clean document but for what is      *)
(* below the marked runs, and there what each mark alone makes of it.      *)
(***************************************************************************)
AreMarkable(clean, marked) == \A run \in marked : IsRun(clean, run) /\ Reason(clean, run) = "none"

IsPatchwork(clean, copy, marked) ==
    /\ IsTree(copy) /\ IsMapping(copy)
    /\ \A node \in Nodes : (\A run \in marked : ~IsStrictPrefix(run, node)) => SameAt(clean, copy, node)
    /\ \A run \in marked : SameBelow(Highlighted(clean, run), copy, run)

LEMMA RunsApart ==
    ASSUME NEW doc, IsTree(doc), NEW a, IsRun(doc, a), NEW b, IsRun(doc, b)
    PROVE  /\ a \in Nodes /\ ~IsStrictPrefix(a, b)
           /\ \A node \in Nodes : IsStrictPrefix(a, node) /\ IsStrictPrefix(b, node) => a = b
<1>1. /\ a \in DOMAIN doc /\ b \in DOMAIN doc /\ a \in Nodes /\ b \in Nodes
      /\ TypeAt(doc, a) = "run_raw" /\ TypeAt(doc, b) = "run_raw"
    BY DEF IsRun, IsTree
<1>2. ~IsStrictPrefix(a, b) /\ ~IsStrictPrefix(b, a) BY <1>1, NoRunAboveARun
<1> QED BY <1>1, <1>2, PrefixesCompare

LEMMA PatchworkOfNothing ==
    ASSUME NEW clean, IsTree(clean), IsMapping(clean)
    PROVE  /\ IsPatchwork(clean, clean, {})
           /\ \A copy : IsPatchwork(clean, copy, {}) => copy = clean
<1>1. IsPatchwork(clean, clean, {}) BY DEF IsPatchwork, SameAt
<1>2. ASSUME NEW copy, IsPatchwork(clean, copy, {}) PROVE copy = clean
    <2>1. IsTree(copy) /\ IsMapping(copy) /\ \A node \in Nodes : SameAt(clean, copy, node)
        BY <1>2 DEF IsPatchwork
    <2>2. DOMAIN clean \in SUBSET Nodes /\ DOMAIN copy \in SUBSET Nodes BY <2>1 DEF IsTree
    <2>3. DOMAIN copy = DOMAIN clean /\ \A node \in DOMAIN clean : copy[node] = clean[node]
        BY <2>1, <2>2 DEF SameAt
    <2> QED BY <2>1, <2>3 DEF IsMapping
<1> QED BY <1>1, <1>2

LEMMA TargetOfPatchwork ==
    ASSUME NEW clean, IsTree(clean), NEW copy, NEW marked, IsPatchwork(clean, copy, marked),
           AreMarkable(clean, marked), NEW run, IsRun(clean, run)
    PROVE  /\ run \in DOMAIN copy /\ copy[run] = clean[run]
           /\ StructuralPath(copy, run) = StructuralPath(clean, run)
<1>1. run \in DOMAIN clean /\ IsTree(copy) BY DEF IsRun, IsPatchwork
<1>2. marked \in SUBSET Nodes BY RunsApart DEF AreMarkable
<1>3. \A top \in marked : ~IsStrictPrefix(top, run) BY RunsApart DEF AreMarkable
<1>4. \A node \in Nodes : (\A top \in marked : ~IsStrictPrefix(top, node)) => SameAt(clean, copy, node)
    BY DEF IsPatchwork
<1> QED BY <1>1, <1>2, <1>3, <1>4, SamePath

(***************************************************************************)
(* A mark on a run that had none adds a patch.                             *)
(***************************************************************************)
LEMMA PatchAdded ==
    ASSUME NEW clean, IsTree(clean), NEW copy, NEW marked, IsPatchwork(clean, copy, marked),
           AreMarkable(clean, marked),
           NEW run, IsRun(clean, run), Reason(clean, run) = "none", run \notin marked,
           IsRun(copy, run), Reason(copy, run) = "none"
    PROVE  IsPatchwork(clean, Highlighted(copy, run), marked \cup {run})
<1> DEFINE after == Highlighted(copy, run)
<1>1. /\ IsTree(copy)
      /\ \A node \in Nodes : (\A top \in marked : ~IsStrictPrefix(top, node)) => SameAt(clean, copy, node)
      /\ \A top \in marked : SameBelow(Highlighted(clean, top), copy, top)
    BY DEF IsPatchwork
<1>2. \A top \in marked : IsRun(clean, top) BY DEF AreMarkable
<1>3. IsTree(after) /\ IsMapping(after) /\ SameBeyond(copy, after, run) BY <1>1, MarkIsLocal
<1>4. \A top \in marked : \A node \in Nodes : IsStrictPrefix(run, node) => ~IsStrictPrefix(top, node)
    BY <1>2, RunsApart
<1>5. SameBelow(clean, copy, run) BY <1>1, <1>4 DEF SameBelow
<1>6. run \in DOMAIN copy BY DEF IsRun
<1>7. SameBelow(Highlighted(clean, run), after, run) BY <1>1, <1>5, <1>6, MarkIsLocal
<1> HIDE DEF after
<1>8. ASSUME NEW top \in marked PROVE SameBelow(Highlighted(clean, top), after, top)
    <2>1. SameBelow(Highlighted(clean, top), copy, top) BY <1>1
    <2>2. SameBelow(copy, after, top) BY <1>3, <1>4 DEF SameBelow, SameBeyond
    <2> QED BY <2>1, <2>2, SameIsTransitive
<1>9. ASSUME NEW node \in Nodes, \A top \in marked \cup {run} : ~IsStrictPrefix(top, node)
      PROVE  SameAt(clean, after, node)
    <2>1. SameAt(clean, copy, node) BY <1>1, <1>9
    <2>2. SameAt(copy, after, node) BY <1>3, <1>9 DEF SameBeyond
    <2> QED BY <2>1, <2>2 DEF SameAt
<1>10. IsPatchwork(clean, after, marked \cup {run}) BY <1>3, <1>7, <1>8, <1>9 DEF IsPatchwork
<1> QED BY <1>10 DEF after

(***************************************************************************)
(* Taking the mark of a run back takes its patch away.                     *)
(***************************************************************************)
LEMMA PatchTakenBack ==
    ASSUME NEW clean, IsTree(clean), IsMapping(clean), NEW copy, NEW marked,
           IsPatchwork(clean, copy, marked), AreMarkable(clean, marked), NEW run \in marked
    PROVE  /\ IsMarkedOnce(copy, run)
           /\ IsPatchwork(clean, NeutralAt(clean, copy, run), marked \ {run})
<1> DEFINE high == Highlighted(clean, run)
           after == NeutralAt(clean, copy, run)
<1>1. /\ IsTree(copy)
      /\ \A node \in Nodes : (\A top \in marked : ~IsStrictPrefix(top, node)) => SameAt(clean, copy, node)
      /\ \A top \in marked : SameBelow(Highlighted(clean, top), copy, top)
    BY DEF IsPatchwork
<1>2. \A top \in marked : IsRun(clean, top) BY DEF AreMarkable
<1>3. IsRun(clean, run) /\ Reason(clean, run) = "none" /\ run \in Nodes BY RunsApart DEF AreMarkable
<1>4. IsTree(high) /\ IsMarkedOnce(high, run) /\ NeutralAt(clean, high, run) = clean BY <1>3, MarkIsLocal
<1>5. SameBelow(high, copy, run) BY <1>1
<1> HIDE DEF high
<1>6. IsMarkedOnce(copy, run)
    <2>1. PICK c, h : HoldsMark(high, run, c, h) BY <1>4 DEF IsMarkedOnce
    <2>2. c \in Nodes /\ IsStrictPrefix(run, c) BY <1>4, <2>1, MarkedByPeers
    <2>3. HoldsMark(copy, run, c, h) BY <1>1, <1>3, <1>4, <1>5, <2>1, <2>2, SameChildren DEF HoldsMark
    <2> QED BY <2>3 DEF IsMarkedOnce
<1>7. IsTree(after) /\ IsMapping(after) /\ SameBeyond(copy, after, run) BY <1>1, <1>6, NeutralIsLocal
<1>8. SameBelow(clean, after, run)
    <2>1. SameBelow(NeutralAt(clean, high, run), after, run) BY <1>1, <1>4, <1>5, NeutralIsLocal
    <2> QED BY <1>4, <2>1
<1> HIDE DEF after
<1>9. \A top \in marked \ {run} : \A node \in Nodes : IsStrictPrefix(top, node) => ~IsStrictPrefix(run, node)
    BY <1>2, <1>3, RunsApart
<1>10. ASSUME NEW top \in marked \ {run} PROVE SameBelow(Highlighted(clean, top), after, top)
    <2>1. SameBelow(Highlighted(clean, top), copy, top) BY <1>1
    <2>2. SameBelow(copy, after, top) BY <1>7, <1>9 DEF SameBelow, SameBeyond
    <2> QED BY <2>1, <2>2, SameIsTransitive
<1>11. ASSUME NEW node \in Nodes, \A top \in marked \ {run} : ~IsStrictPrefix(top, node)
       PROVE  SameAt(clean, after, node)
    <2>1. CASE IsStrictPrefix(run, node) BY <1>8, <2>1 DEF SameBelow
    <2>2. CASE ~IsStrictPrefix(run, node)
        <3>1. SameAt(clean, copy, node) BY <1>1, <1>11, <2>2
        <3>2. SameAt(copy, after, node) BY <1>7, <2>2 DEF SameBeyond
        <3> QED BY <3>1, <3>2 DEF SameAt
    <2> QED BY <2>1, <2>2
<1>12. IsPatchwork(clean, after, marked \ {run}) BY <1>7, <1>10, <1>11 DEF IsPatchwork
<1> QED BY <1>6, <1>12 DEF after

(***************************************************************************)
(* The runs of a patchwork are those of the clean document, in the same    *)
(* places; one that can still be marked is one that could be and was not.  *)
(***************************************************************************)
LEMMA RunsOfPatchwork ==
    ASSUME NEW clean, IsTree(clean), IsMapping(clean), NEW copy, NEW marked,
           IsPatchwork(clean, copy, marked), AreMarkable(clean, marked),
           NEW f, IsCopy(clean, copy, f), NEW run, IsRun(copy, run), Reason(copy, run) = "none"
    PROVE  /\ IsRun(clean, run) /\ Reason(clean, run) = "none" /\ run \notin marked
           /\ StructuralPath(copy, run) = StructuralPath(clean, run)
<1>1. IsTree(copy) /\ Carries(clean, copy, f) BY DEF IsPatchwork, IsCopy
<1>2. PICK x \in DOMAIN clean : IsRun(clean, x) /\ run = f[x]
    <2>1. OfType(Records(copy), {"run_raw"}) = {f[node] : node \in OfType(Records(clean), {"run_raw"})}
        BY <1>1, CarriedTypes
    <2>2. run \in OfType(Records(copy), {"run_raw"}) BY <1>1, NodesByType DEF IsRun
    <2>3. PICK x \in OfType(Records(clean), {"run_raw"}) : run = f[x] BY <2>1, <2>2
    <2>4. IsRun(clean, x) /\ x \in DOMAIN clean BY NodesByType DEF IsRun
    <2> QED BY <2>3, <2>4
<1>3. StructuralPath(copy, run) = StructuralPath(clean, x)
    <2>1. x \in DOMAIN clean /\ TypeAt(clean, x) # "unparsed" BY <1>2 DEF IsRun
    <2> QED BY <1>1, <1>2, <2>1, CarriedTarget
<1>4. x \in DOMAIN copy /\ StructuralPath(copy, x) = StructuralPath(clean, x) BY <1>2, TargetOfPatchwork
<1>5. run \in DOMAIN copy BY DEF IsRun
<1>6. run = x BY <1>1, <1>3, <1>4, <1>5, PathsAreNames
<1>7. ~IsHighlighted(copy, run) BY DEF Reason
<1>8. Reason(clean, run) = "none" BY <1>2, <1>6, <1>7 DEF IsCopy, RunKept
<1>9. run \notin marked
    <2> SUFFICES ASSUME run \in marked PROVE IsHighlighted(copy, run) BY <1>7
    <2>1. IsMarkedOnce(copy, run) BY PatchTakenBack
    <2>2. PICK c, h : HoldsMark(copy, run, c, h) BY <2>1 DEF IsMarkedOnce
    <2>3. Peers(copy, run, "rPr") = {c} /\ Peers(copy, c, "highlight") = {h} BY <2>2 DEF HoldsMark
    <2>4. Cardinality({c}) = 1 BY FS_Singleton
    <2> QED BY <2>3, <2>4 DEF IsHighlighted
<1> QED BY <1>2, <1>4, <1>6, <1>8, <1>9

(***************************************************************************)
(* The paths of the marked runs, one for each and each once.               *)
(***************************************************************************)
IsMarkList(clean, marked, paths) ==
    /\ Len(paths) \in Nat /\ DOMAIN paths = 1 .. Len(paths)
    /\ \A i \in 1 .. Len(paths) : \E run \in marked : paths[i] = StructuralPath(clean, run)
    /\ \A i, j \in 1 .. Len(paths) : paths[i] = paths[j] => i = j
    /\ \A run \in marked : \E i \in 1 .. Len(paths) : paths[i] = StructuralPath(clean, run)

LeftAfter(clean, marked, paths, n) ==
    {run \in marked : \A j \in 1 .. n : paths[j] # StructuralPath(clean, run)}

(***************************************************************************)
(* One step of the validation: the path leads to the run in both trees,    *)
(* where the mark stands, and what taking it back leaves.                  *)
(***************************************************************************)
LEMMA MarkTakenBack ==
    ASSUME NEW clean, IsTree(clean), IsMapping(clean), NEW marked, AreMarkable(clean, marked),
           NEW paths, IsMarkList(clean, marked, paths), NEW n \in Nat, n + 1 <= Len(paths),
           NEW copy, IsPatchwork(clean, copy, LeftAfter(clean, marked, paths, n))
    PROVE  /\ MarkStands(clean, copy, paths[n + 1])
           /\ IsPatchwork(clean, Neutralized(clean, copy, paths[n + 1]),
                          LeftAfter(clean, marked, paths, n + 1))
<1> DEFINE left(i) == LeftAfter(clean, marked, paths, i)
           path == paths[n + 1]
<1>1. n + 1 \in 1 .. Len(paths) /\ \A j \in 1 .. n : j \in 1 .. Len(paths) /\ j # n + 1
    BY DEF IsMarkList
<1>2. PICK run \in marked : path = StructuralPath(clean, run) BY <1>1 DEF IsMarkList
<1>3. IsRun(clean, run) /\ run \in DOMAIN clean BY DEF AreMarkable, IsRun
<1>4. run \in left(n)
    <2>1. \A j \in 1 .. n : paths[j] # path BY <1>1 DEF IsMarkList
    <2> QED BY <1>2, <2>1 DEF LeftAfter
<1>5. AreMarkable(clean, left(n)) BY DEF AreMarkable, LeftAfter
<1>6. left(n + 1) = left(n) \ {run}
    <2>1. \A other \in marked : other \in DOMAIN clean BY DEF AreMarkable, IsRun
    <2>2. \A other \in marked : path = StructuralPath(clean, other) => other = run
        BY <1>2, <1>3, <2>1, PathsAreNames
    <2>3. \A j : j \in 1 .. n + 1 <=> j \in 1 .. n \/ j = n + 1 OBVIOUS
    <2>4. ASSUME NEW other
          PROVE  other \in left(n + 1) <=> other \in left(n) /\ path # StructuralPath(clean, other)
        BY <2>3 DEF LeftAfter
    <2>5. \A other \in left(n) : other \in marked BY DEF LeftAfter
    <2> HIDE DEF left, path
    <2>6. ASSUME NEW other PROVE other \in left(n + 1) <=> other \in left(n) /\ other # run
        BY <1>2, <2>2, <2>4, <2>5
    <2> QED BY <2>6
<1>7. IsTree(copy) BY DEF IsPatchwork
<1> HIDE DEF left
<1>8. IsPatchwork(clean, copy, left(n)) BY DEF left
<1>9. run \in DOMAIN copy /\ copy[run] = clean[run] /\ StructuralPath(copy, run) = path
    BY <1>2, <1>3, <1>5, <1>8, TargetOfPatchwork
<1>10. Resolve(clean, path) = {run} BY <1>2, <1>3, PathLeadsToNode
<1>11. Resolve(copy, path) = {run}
    <2> HIDE DEF path
    <2>1. Resolve(copy, StructuralPath(copy, run)) = {run} BY <1>7, <1>9, PathLeadsToNode
    <2> QED BY <1>9, <2>1
<1>12. IsMarkedOnce(copy, run) /\ IsPatchwork(clean, NeutralAt(clean, copy, run), left(n) \ {run})
    BY <1>4, <1>5, <1>8, PatchTakenBack
<1>13. clean[run] = "r"
    <2>1. TypeAt(clean, run) = "run_raw" BY <1>3 DEF IsRun
    <2>2. run # Body
        <3>1. TypeAt(clean, Body) = "story" BY RecordsOfTree DEF TypeAt, Root
        <3> QED BY <2>1, <3>1
    <2>3. clean[run] \in TagsMaking["run_raw"] BY <1>3, <2>1, <2>2, TypesBelow DEF TagsMaking
    <2> QED BY <2>3 DEF TagsMaking
<1>14. MarkStands(clean, copy, path)
    <2>1. PICK c, h : Peers(copy, run, "rPr") = {c} /\ Peers(copy, c, "highlight") = {h}
        BY <1>12 DEF IsMarkedOnce, HoldsMark
    <2>2. Cardinality({h}) = 1 BY FS_Singleton
    <2>3. copy[run] = "r" BY <1>9, <1>13
    <2>4. \E container \in Peers(copy, run, "rPr") :
             /\ Peers(copy, run, "rPr") = {container}
             /\ Cardinality(Peers(copy, container, "highlight")) = 1
        BY <2>1, <2>2
    <2> QED BY <1>10, <1>11, <1>13, <2>3, <2>4 DEF MarkStands
<1>15. Neutralized(clean, copy, path) = NeutralAt(clean, copy, run)
    <2>1. NodeAt(clean, path) = run BY <1>10 DEF NodeAt
    <2>2. NodeAt(copy, path) = run BY <1>11 DEF NodeAt
    <2> QED BY <2>1, <2>2 DEF Neutralized, NeutralAt
<1> HIDE DEF path
<1>16. IsPatchwork(clean, Neutralized(clean, copy, path), left(n + 1)) BY <1>6, <1>12, <1>15
<1> QED BY <1>14, <1>16 DEF left, path

IsRestoration(clean, copy, paths, n, f) ==
    f = [i \in 0 .. n |-> IF i = 0 THEN copy ELSE Neutralized(clean, f[i - 1], paths[i])]

(***************************************************************************)
(* The validation of a patchwork succeeds: mark by mark, it is one of      *)
(* fewer runs, and in the end of none.                                     *)
(***************************************************************************)
LEMMA RestorationExists ==
    ASSUME NEW clean, NEW copy, NEW paths, NEW N \in Nat
    PROVE  \E f : IsRestoration(clean, copy, paths, N, f)
<1> DEFINE S == {n \in 0 .. N : \E f : IsRestoration(clean, copy, paths, n, f)}
<1>1. 0 \in S
    <2> DEFINE f == [i \in 0 .. 0 |-> copy]
    <2>1. \A i \in 0 .. 0 : i = 0 OBVIOUS
    <2>2. f = [i \in 0 .. 0 |-> IF i = 0 THEN copy ELSE Neutralized(clean, f[i - 1], paths[i])] BY <2>1
    <2> HIDE DEF f
    <2>3. IsRestoration(clean, copy, paths, 0, f) BY <2>2 DEF IsRestoration
    <2> QED BY <2>3
<1>2. ASSUME NEW n \in 0 .. N - 1, n \in S PROVE n + 1 \in S
    <2>1. PICK f : IsRestoration(clean, copy, paths, n, f) BY <1>2
    <2> DEFINE g == [i \in 0 .. n + 1 |-> IF i = n + 1 THEN Neutralized(clean, f[n], paths[n + 1]) ELSE f[i]]
               h == [i \in 0 .. n + 1 |-> IF i = 0 THEN copy ELSE Neutralized(clean, g[i - 1], paths[i])]
    <2>2. \A i \in 0 .. n : f[i] = IF i = 0 THEN copy ELSE Neutralized(clean, f[i - 1], paths[i])
        BY <2>1 DEF IsRestoration
    <2>3. \A i \in 0 .. n + 1 : g[i] = IF i = n + 1 THEN Neutralized(clean, f[n], paths[n + 1]) ELSE f[i]
        OBVIOUS
    <2>4. ASSUME NEW i \in 0 .. n + 1
          PROVE  g[i] = IF i = 0 THEN copy ELSE Neutralized(clean, g[i - 1], paths[i])
        <3> HIDE DEF g
        <3>1. CASE i = n + 1
            <4>1. i # 0 /\ i - 1 = n /\ n \in 0 .. n + 1 /\ n # n + 1 BY <3>1
            <4>2. g[n] = f[n] BY <2>3, <4>1
            <4> QED BY <2>3, <3>1, <4>1, <4>2
        <3>2. CASE i # n + 1 /\ i # 0
            <4>1. i \in 0 .. n /\ i - 1 \in 0 .. n + 1 /\ i - 1 # n + 1 BY <3>2
            <4>2. g[i] = f[i] /\ g[i - 1] = f[i - 1] BY <2>3, <3>2, <4>1
            <4> QED BY <2>2, <3>2, <4>1, <4>2
        <3>3. CASE i = 0
            <4>1. i # n + 1 /\ i \in 0 .. n BY <3>3
            <4> QED BY <2>2, <2>3, <3>3, <4>1
        <3> QED BY <3>1, <3>2, <3>3
    <2>5. g = h BY <2>4
    <2> HIDE DEF g
    <2>6. IsRestoration(clean, copy, paths, n + 1, g) BY <2>5 DEF IsRestoration
    <2> QED BY <2>6
<1> HIDE DEF S
<1>3. \A n \in 0 .. N : n \in S BY <1>1, <1>2, NatInductionUpTo
<1> QED BY <1>3 DEF S

LEMMA DeltaOfPatchwork ==
    ASSUME NEW clean, IsTree(clean), IsMapping(clean), NEW copy, NEW marked,
           IsPatchwork(clean, copy, marked), AreMarkable(clean, marked),
           NEW paths, IsMarkList(clean, marked, paths)
    PROVE  DeltaAllowed(clean, copy, paths)
<1> DEFINE N == Len(paths)
           left(n) == LeftAfter(clean, marked, paths, n)
           restored == CHOOSE f : IsRestoration(clean, copy, paths, N, f)
           S == {n \in 0 .. N : IsPatchwork(clean, restored[n], left(n))}
<1>1. N \in Nat /\ DOMAIN paths = 1 .. N BY DEF IsMarkList
<1>2. IsRestoration(clean, copy, paths, N, restored) BY <1>1, RestorationExists
<1> HIDE DEF restored, N
<1>3. \A i \in 0 .. N : restored[i] = IF i = 0 THEN copy ELSE Neutralized(clean, restored[i - 1], paths[i])
    BY <1>2 DEF IsRestoration
<1>4. ASSUME NEW n \in 0 .. N - 1, IsPatchwork(clean, restored[n], left(n))
      PROVE  /\ MarkStands(clean, restored[n], paths[n + 1])
             /\ IsPatchwork(clean, restored[n + 1], left(n + 1))
    <2>1. n + 1 \in 0 .. N /\ n + 1 # 0 /\ (n + 1) - 1 = n /\ n \in Nat /\ n + 1 <= Len(paths)
        BY <1>1 DEF N
    <2>2. restored[n + 1] = Neutralized(clean, restored[n], paths[n + 1]) BY <1>3, <2>1
    <2>3. /\ MarkStands(clean, restored[n], paths[n + 1])
          /\ IsPatchwork(clean, Neutralized(clean, restored[n], paths[n + 1]), left(n + 1))
        BY <1>4, <2>1, MarkTakenBack
    <2> QED BY <2>2, <2>3
<1>5. 0 \in S
    <2>1. left(0) = marked BY DEF LeftAfter
    <2>2. 0 \in 0 .. N /\ restored[0] = copy BY <1>1, <1>3
    <2> HIDE DEF left
    <2> QED BY <2>1, <2>2
<1>6. ASSUME NEW n \in 0 .. N - 1, n \in S PROVE n + 1 \in S
    <2>1. n + 1 \in 0 .. N BY <1>1
    <2> HIDE DEF left
    <2> QED BY <1>4, <1>6, <2>1
<1>7. \A n \in 0 .. N : n \in S
    <2> HIDE DEF S
    <2> QED BY <1>1, <1>5, <1>6, NatInductionUpTo
<1>8. ASSUME NEW i \in DOMAIN paths PROVE MarkStands(clean, restored[i - 1], paths[i])
    <2>1. i - 1 \in 0 .. N - 1 /\ i - 1 \in 0 .. N /\ (i - 1) + 1 = i BY <1>1
    <2> HIDE DEF left
    <2>2. IsPatchwork(clean, restored[i - 1], left(i - 1)) BY <1>7, <2>1
    <2>3. MarkStands(clean, restored[i - 1], paths[(i - 1) + 1]) BY <1>4, <2>1, <2>2
    <2> QED BY <2>1, <2>3
<1>9. restored[N] = clean
    <2>1. left(N) = {} BY DEF LeftAfter, IsMarkList, N
    <2> HIDE DEF left
    <2>2. N \in 0 .. N BY <1>1
    <2>3. N \in S BY <1>7, <2>2
    <2>4. IsPatchwork(clean, restored[N], left(N)) BY <2>3
    <2>5. IsPatchwork(clean, restored[N], {}) BY <2>1, <2>4
    <2> QED BY <2>5, PatchworkOfNothing
<1>10. DeltaAllowed(clean, copy, paths) <=>
          /\ \A i \in DOMAIN paths : MarkStands(clean, restored[i - 1], paths[i])
          /\ restored[N] = clean
    BY DEF DeltaAllowed, restored, N, IsRestoration
<1> QED BY <1>8, <1>9, <1>10

(***************************************************************************)
(* The marks made so far: each is on no run or on one, which is no other's *)
(* mark; together they are the patches of the review copy.                 *)
(***************************************************************************)
MarkedRuns(doc, results) ==
    {run \in DOMAIN doc : \E i \in 1 .. Len(results) : StructuralPath(doc, run) \in results[i].runs}

MarksFit(doc, copy, results) ==
    LET marked == MarkedRuns(doc, results)
    IN  /\ AreMarkable(doc, marked) /\ IsPatchwork(doc, copy, marked)
        /\ \A i \in 1 .. Len(results) : \A path \in results[i].runs :
              /\ results[i].runs = {path}
              /\ \E run \in marked : path = StructuralPath(doc, run)
        /\ \A i, j \in 1 .. Len(results) : results[i].runs \cap results[j].runs # {} => i = j

LEMMA NoMarksFit ==
    ASSUME NEW doc, IsTree(doc), IsMapping(doc)
    PROVE  MarksFit(doc, doc, <<>>)
<1>1. \A i \in 1 .. Len(<<>>) : FALSE OBVIOUS
<1>2. MarkedRuns(doc, <<>>) = {} BY <1>1 DEF MarkedRuns
<1>3. IsPatchwork(doc, doc, {}) BY PatchworkOfNothing
<1>4. AreMarkable(doc, {}) BY DEF AreMarkable
<1> QED BY <1>1, <1>2, <1>3, <1>4 DEF MarksFit

LEMMA MarksGrow ==
    ASSUME NEW M, NEW results \in Seq(M), NEW result \in M
    PROVE  LET more == Append(results, result)
           IN  /\ Len(results) \in Nat /\ Len(more) = Len(results) + 1
               /\ \A i \in 1 .. Len(results) : i \in 1 .. Len(more) /\ more[i] = results[i]
               /\ Len(more) \in 1 .. Len(more) /\ more[Len(more)] = result
               /\ \A i \in 1 .. Len(more) : i \in 1 .. Len(results) \/ i = Len(more)
OBVIOUS

LEMMA UnmarkedFits ==
    ASSUME NEW doc, IsTree(doc), NEW copy, NEW M, NEW results \in Seq(M), MarksFit(doc, copy, results),
           NEW result \in M, result.runs = {}
    PROVE  MarksFit(doc, copy, Append(results, result))
<1> DEFINE more == Append(results, result)
<1>1. /\ \A i \in 1 .. Len(results) : i \in 1 .. Len(more) /\ more[i] = results[i]
      /\ more[Len(more)] = result
      /\ \A i \in 1 .. Len(more) : i \in 1 .. Len(results) \/ i = Len(more)
    BY MarksGrow
<1> HIDE DEF more
<1>2. MarkedRuns(doc, more) = MarkedRuns(doc, results) BY <1>1 DEF MarkedRuns
<1>3. MarksFit(doc, copy, more)
    <2> DEFINE marked == MarkedRuns(doc, results)
    <2>1. /\ AreMarkable(doc, marked) /\ IsPatchwork(doc, copy, marked)
          /\ \A i \in 1 .. Len(results) : \A path \in results[i].runs :
                /\ results[i].runs = {path}
                /\ \E run \in marked : path = StructuralPath(doc, run)
          /\ \A i, j \in 1 .. Len(results) : results[i].runs \cap results[j].runs # {} => i = j
        BY DEF MarksFit
    <2> HIDE DEF marked
    <2>2. \A i \in 1 .. Len(more) : \A path \in more[i].runs :
             more[i].runs = {path} /\ \E run \in marked : path = StructuralPath(doc, run)
        BY <1>1, <2>1
    <2>3. \A i, j \in 1 .. Len(more) : more[i].runs \cap more[j].runs # {} => i = j BY <1>1, <2>1
    <2> QED BY <1>2, <2>1, <2>2, <2>3 DEF MarksFit, marked
<1> QED BY <1>3 DEF more

LEMMA MarkFits ==
    ASSUME NEW doc, IsTree(doc), IsMapping(doc), NEW copy, NEW M, NEW results \in Seq(M),
           MarksFit(doc, copy, results), NEW f, IsCopy(doc, copy, f),
           NEW run, IsRun(copy, run), Reason(copy, run) = "none",
           NEW result \in M, result.runs = {StructuralPath(copy, run)}
    PROVE  MarksFit(doc, Highlighted(copy, run), Append(results, result))
<1> DEFINE more == Append(results, result)
           marked == MarkedRuns(doc, results)
           path == StructuralPath(doc, run)
           after == Highlighted(copy, run)
<1>1. /\ \A i \in 1 .. Len(results) : i \in 1 .. Len(more) /\ more[i] = results[i]
      /\ more[Len(more)] = result /\ Len(more) \in 1 .. Len(more)
      /\ \A i \in 1 .. Len(more) : i \in 1 .. Len(results) \/ i = Len(more)
    BY MarksGrow
<1>2. /\ AreMarkable(doc, marked) /\ IsPatchwork(doc, copy, marked)
      /\ \A i \in 1 .. Len(results) : \A p \in results[i].runs :
            /\ results[i].runs = {p}
            /\ \E r \in marked : p = StructuralPath(doc, r)
      /\ \A i, j \in 1 .. Len(results) : results[i].runs \cap results[j].runs # {} => i = j
    BY DEF MarksFit
<1>3. /\ IsRun(doc, run) /\ Reason(doc, run) = "none" /\ run \notin marked
      /\ StructuralPath(copy, run) = path
    BY <1>2, RunsOfPatchwork
<1>4. run \in DOMAIN doc BY <1>3 DEF IsRun
<1>5. IsPatchwork(doc, after, marked \cup {run}) BY <1>2, <1>3, PatchAdded
<1>6. AreMarkable(doc, marked \cup {run}) BY <1>2, <1>3 DEF AreMarkable
<1> HIDE DEF more, after
<1>7. \A r \in DOMAIN doc : StructuralPath(doc, r) = path => r = run BY <1>4, PathsAreNames
<1>8. result.runs = {path} BY <1>3
<1>9. \A i \in 1 .. Len(results) : path \notin results[i].runs BY <1>3, <1>4 DEF MarkedRuns
<1> HIDE DEF path
<1>10. MarkedRuns(doc, more) = marked \cup {run}
    <2>1. ASSUME NEW r \in DOMAIN doc
          PROVE  (\E i \in 1 .. Len(more) : StructuralPath(doc, r) \in more[i].runs) <=>
                     r = run \/ \E i \in 1 .. Len(results) : StructuralPath(doc, r) \in results[i].runs
        BY <1>1, <1>7, <1>8 DEF path
    <2> QED BY <1>4, <2>1 DEF MarkedRuns
<1> HIDE DEF marked
<1>11. ASSUME NEW i \in 1 .. Len(more), NEW p \in more[i].runs
       PROVE  more[i].runs = {p} /\ \E r \in marked \cup {run} : p = StructuralPath(doc, r)
    <2>1. CASE i \in 1 .. Len(results) BY <1>1, <1>2, <1>11, <2>1
    <2>2. CASE i = Len(more) BY <1>1, <1>8, <1>11, <2>2 DEF path
    <2> QED BY <1>1, <2>1, <2>2
<1>12. ASSUME NEW i \in 1 .. Len(more), NEW j \in 1 .. Len(more), more[i].runs \cap more[j].runs # {}
       PROVE  i = j
    <2>1. CASE i \in 1 .. Len(results) /\ j \in 1 .. Len(results) BY <1>1, <1>2, <1>12, <2>1
    <2>2. CASE i \in 1 .. Len(results) /\ j = Len(more) BY <1>1, <1>8, <1>9, <1>12, <2>2
    <2>3. CASE i = Len(more) /\ j \in 1 .. Len(results) BY <1>1, <1>8, <1>9, <1>12, <2>3
    <2> QED BY <1>1, <2>1, <2>2, <2>3
<1>13. MarksFit(doc, after, more) BY <1>5, <1>6, <1>10, <1>11, <1>12 DEF MarksFit
<1> QED BY <1>13 DEF more, after

PathsOf(results) ==
    LET marked == Selected(results, {i \in DOMAIN results : results[i].runs # {}})
    IN  [n \in DOMAIN marked |-> CHOOSE path \in marked[n].runs : TRUE]

LEMMA PathsOfMarks ==
    ASSUME NEW doc, NEW copy, NEW M, NEW results \in Seq(M), MarksFit(doc, copy, results)
    PROVE  IsMarkList(doc, MarkedRuns(doc, results), PathsOf(results))
<1> DEFINE indices == {i \in DOMAIN results : results[i].runs # {}}
           chosen == Selected(results, indices)
           paths == PathsOf(results)
           marked == MarkedRuns(doc, results)
           N == Cardinality(indices)
<1>1. DOMAIN results = 1 .. Len(results) /\ Len(results) \in Nat OBVIOUS
<1>2. indices \in SUBSET DOMAIN results /\ indices \in SUBSET Nat /\ IsFiniteSet(indices)
    <2>1. IsFiniteSet(1 .. Len(results)) BY <1>1, FS_Interval
    <2> QED BY <1>1, <2>1, FS_Subset
<1>3. \A i \in indices : i \in 1 .. Len(results) /\ results[i].runs # {} BY <1>1
<1>4. \A i \in 1 .. Len(results) : results[i].runs # {} => i \in indices BY <1>1
<1>5. paths = [n \in DOMAIN chosen |-> CHOOSE path \in chosen[n].runs : TRUE] BY DEF PathsOf
<1> HIDE DEF indices, paths
<1>6. /\ N \in Nat /\ chosen \in Seq(M) /\ Len(chosen) = N
      /\ \A n \in 1 .. N : chosen[n] = results[Nth(indices, n)] /\ Nth(indices, n) \in indices
    BY <1>2, SelectedElements
<1>7. /\ \A i \in indices : \E n \in 1 .. N : Nth(indices, n) = i
      /\ \A m, n \in 1 .. N : m < n <=> Nth(indices, m) < Nth(indices, n)
    BY <1>2, IndicesInOrder
<1> HIDE DEF chosen, N, marked
<1>8. DOMAIN paths = 1 .. N /\ Len(paths) = N
    <2>1. DOMAIN chosen = 1 .. N BY <1>6
    <2>2. DOMAIN paths = 1 .. N BY <1>5, <2>1
    <2> QED BY <1>5, <1>6, <2>1, <2>2
<1>9. ASSUME NEW n \in 1 .. N PROVE paths[n] \in results[Nth(indices, n)].runs
    <2>1. paths[n] = CHOOSE path \in chosen[n].runs : TRUE BY <1>5, <1>8
    <2>2. chosen[n].runs = results[Nth(indices, n)].runs /\ results[Nth(indices, n)].runs # {}
        BY <1>3, <1>6
    <2> QED BY <2>1, <2>2
<1>10. /\ \A i \in 1 .. Len(results) : \A path \in results[i].runs :
            /\ results[i].runs = {path}
            /\ \E run \in marked : path = StructuralPath(doc, run)
       /\ \A i, j \in 1 .. Len(results) : results[i].runs \cap results[j].runs # {} => i = j
    BY DEF MarksFit, marked
<1>11. ASSUME NEW n \in 1 .. N PROVE \E run \in marked : paths[n] = StructuralPath(doc, run)
    BY <1>3, <1>6, <1>9, <1>10
<1>12. ASSUME NEW m \in 1 .. N, NEW n \in 1 .. N, paths[m] = paths[n] PROVE m = n
    <2>1. Nth(indices, m) = Nth(indices, n) BY <1>3, <1>6, <1>9, <1>10, <1>12
    <2>2. Nth(indices, m) \in Nat /\ Nth(indices, n) \in Nat BY <1>2, <1>6
    <2>3. ~(m < n) /\ ~(n < m) BY <1>7, <2>1, <2>2
    <2> QED BY <1>6, <2>3
<1>13. ASSUME NEW run \in marked PROVE \E n \in 1 .. N : paths[n] = StructuralPath(doc, run)
    <2>1. PICK i \in 1 .. Len(results) : StructuralPath(doc, run) \in results[i].runs
        BY DEF marked, MarkedRuns
    <2>2. i \in indices BY <1>4, <2>1
    <2>3. PICK n \in 1 .. N : Nth(indices, n) = i BY <1>7, <2>2
    <2>4. paths[n] \in results[i].runs BY <1>9, <2>3
    <2>5. results[i].runs = {StructuralPath(doc, run)} BY <1>10, <2>1
    <2> QED BY <2>4, <2>5
<1>14. IsMarkList(doc, marked, paths) BY <1>6, <1>8, <1>11, <1>12, <1>13 DEF IsMarkList
<1> QED BY <1>14 DEF marked, paths

(***************************************************************************)
(* What is inserted into or formatted is the table of the tags of a tree.  *)
(***************************************************************************)
LEMMA InsertedIsAMapping ==
    ASSUME NEW doc, NEW parent, NEW position, NEW tag
    PROVE  IsMapping(Inserted(doc, parent, position, tag))
<1> DEFINE f == Inserted(doc, parent, position, tag)
           new == Append(parent, position)
           S == {Moved(node, parent, position) : node \in DOMAIN doc} \cup {new}
           value(node) == IF node = new THEN tag
                          ELSE doc[CHOOSE old \in DOMAIN doc : Moved(old, parent, position) = node]
<1>1. f = [node \in S |-> value(node)] BY DEF Inserted
<1> HIDE DEF f, S, value
<1>2. DOMAIN f = S BY <1>1
<1>3. f = [node \in DOMAIN f |-> f[node]] BY <1>1, <1>2
<1> QED BY <1>3 DEF IsMapping, f

LEMMA PatchedIsAMapping ==
    ASSUME NEW doc, NEW site
    PROVE  IsMapping(Patched(doc, site))
<1> DEFINE property == site.rule.property
           ready == EnsureContainer(doc, NodeAt(doc, site.path), PropertiesTag[site.type])
           container == Append(NodeAt(doc, site.path), 1)
           present == Peers(ready, container, OtherTag[property])
           f == Patched(doc, site)
<1>1. f = IF present = {} THEN InsertedByRank(ready, container, DesiredTag[property], Rank[site.type])
          ELSE [e \in DOMAIN ready |-> IF e \in present THEN DesiredTag[property] ELSE ready[e]]
    BY DEF Patched
<1> HIDE DEF ready, container, present, property, f
<1>2. CASE present = {}
    <2>1. IsMapping(InsertedByRank(ready, container, DesiredTag[property], Rank[site.type]))
        BY InsertedIsAMapping DEF InsertedByRank
    <2> QED BY <1>1, <1>2, <2>1 DEF f
<1>3. CASE present # {}
    <2> DEFINE value(e) == IF e \in present THEN DesiredTag[property] ELSE ready[e]
    <2>1. f = [e \in DOMAIN ready |-> value(e)] BY <1>1, <1>3
    <2> HIDE DEF value
    <2>2. DOMAIN f = DOMAIN ready BY <2>1
    <2>3. f = [e \in DOMAIN f |-> f[e]] BY <2>1, <2>2
    <2> QED BY <2>3 DEF IsMapping, f
<1> QED BY <1>2, <1>3

(***************************************************************************)
(* A candidate is marked on one run at most.                               *)
(***************************************************************************)
LEMMA OneRunOfACandidate ==
    ASSUME NEW doc, NEW target, NEW node, NEW hash, NEW kinds
    PROVE  \A a, b \in MarkOf(doc, target, node, hash, kinds).runs : a = b
<1> DEFINE result == MarkOf(doc, target, node, hash, kinds)
           runs == InDocumentOrder(RunsOf(doc, node))
           first == SelectInSeq(runs, LAMBDA run : Reason(doc, run) = "none")
<1>1. MarkedRun(doc, node) = {runs[i] : i \in {first} \ {0}} BY DEF MarkedRun
<1> HIDE DEF runs, first
<1>2. \A a, b \in MarkedRun(doc, node) : a = b BY <1>1
<1>3. result.runs = IF target.type = "run" THEN {run \in {node} : Reason(doc, run) = "none"}
                    ELSE MarkedRun(doc, node)
    BY DEF MarkOf
<1> HIDE DEF result
<1>4. \A a, b \in result.runs : a = b BY <1>2, <1>3
<1> QED BY <1>4 DEF result

(***************************************************************************)
(* What the checks of a request's last stages rest on: the review copy is  *)
(* the clean document with the marks made so far; what was applied is told *)
(* apart from what is of the final document.                               *)
(***************************************************************************)
AppliedAreTold == \A i \in 1 .. Len(transforms) : transforms[i].kind = "applied_change"

MarksInv ==
    /\ IsMapping(tree)
    /\ AppliedAreTold
    /\ stage = "bind" => review = tree /\ marks = <<>>
    /\ stage = "mark" => MarksFit(tree, review, marks)

LEMMA InitMarks == Init => MarksInv
<1> SUFFICES ASSUME Init PROVE MarksInv OBVIOUS
<1>1. tree = request.tree /\ transforms = <<>> /\ stage = "received" /\ request \in Requests BY DEF Init
<1>2. tree \in [DOMAIN tree -> STRING] BY <1>1, RequestsAssumption
<1>3. IsMapping(tree) BY <1>2 DEF IsMapping
<1>4. AppliedAreTold BY <1>1 DEF AppliedAreTold
<1> QED BY <1>1, <1>3, <1>4 DEF MarksInv

LEMMA ApplyKeepsMarks ==
    ASSUME ChainInv, MarksInv, ApplyOperation
    PROVE  MarksInv'
<1>1. PICK site \in FirstApplicable :
          /\ tree' = Patched(tree, site)
          /\ transforms' = Append(transforms, Item("applied_change", site, HashNow(tree, site.path)))
    BY DEF ApplyOperation
<1>2. stage' = "session" BY DEF ApplyOperation
<1>3. IsMapping(tree') BY <1>1, PatchedIsAMapping
<1>4. AppliedAreTold'
    <2> DEFINE item == Item("applied_change", site, HashNow(tree, site.path))
    <2>1. item.kind = "applied_change" BY DEF Item
    <2> HIDE DEF item
    <2>2. PICK E : transforms \in Seq(E) BY DEF ChainInv, IsListing
    <2>3. /\ Len(Append(transforms, item)) = Len(transforms) + 1 /\ Len(transforms) \in Nat
          /\ \A i \in 1 .. Len(transforms) : Append(transforms, item)[i] = transforms[i]
          /\ Append(transforms, item)[Len(transforms) + 1] = item
        BY <2>2, AppendProperties
    <2>4. transforms' = Append(transforms, item) BY <1>1 DEF item
    <2> QED BY <2>1, <2>3, <2>4 DEF AppliedAreTold, MarksInv
<1> QED BY <1>2, <1>3, <1>4 DEF MarksInv

LEMMA MarkKeepsMarks ==
    ASSUME ChainInv, MarksInv, MarkCandidate
    PROVE  MarksInv'
<1> DEFINE target == Candidates(report)[Len(marks) + 1]
           node == NodeAt(review, target.path)
<1>1. PICK hash, mark :
          /\ mark = MarkOf(review, target, node, hash, SourceKinds(report, target))
          /\ marks' = Append(marks, [mark EXCEPT !.runs = {StructuralPath(review, r) : r \in @}])
          /\ review' = IF mark.runs = {} THEN review
                       ELSE Highlighted(review, CHOOSE run \in mark.runs : TRUE)
    BY DEF MarkCandidate
<1>2. /\ stage = "mark" /\ Len(marks) < Len(Candidates(report))
      /\ UNCHANGED <<request, stage, tree, transforms, report, delivery, answer>>
    BY DEF MarkCandidate
<1>3. IsTree(tree) /\ IsTree(review) /\ ReviewIsSound BY <1>2 DEF ChainInv, TypeOK, WithAReview
<1>4. PICK M : marks \in Seq(M) BY DEF ChainInv
<1>5. NamesTarget(review, target.type, target.path)
    <2>1. /\ Len(Candidates(report)) \in Nat /\ Len(marks) \in Nat
          /\ \A n \in 1 .. Len(Candidates(report)) :
                NamesTarget(review, Candidates(report)[n].type, Candidates(report)[n].path)
        BY <1>3, <1>4, CandidatesAreTargets DEF ReviewIsSound
    <2>2. Len(marks) + 1 \in 1 .. Len(Candidates(report)) BY <1>2, <2>1
    <2> QED BY <2>1, <2>2
<1>6. PICK f : IsCopy(tree, review, f) BY <1>3 DEF ReviewIsSound
<1>7. IsMapping(tree) /\ MarksFit(tree, review, marks) /\ AppliedAreTold BY <1>2 DEF MarksInv
<1>8. mark.runs = MarkOf(review, target, node, hash, SourceKinds(report, target)).runs BY <1>1
<1> HIDE DEF target
<1>9. \A run \in mark.runs : IsRun(review, run) /\ Reason(review, run) = "none"
    BY <1>3, <1>5, <1>8, MarkableRuns
<1>10. \A a, b \in mark.runs : a = b BY <1>8, OneRunOfACandidate
<1> DEFINE result == [mark EXCEPT !.runs = {StructuralPath(review, r) : r \in @}]
<1>11. result.runs = {StructuralPath(review, r) : r \in mark.runs} BY <1>1 DEF MarkOf
<1>12. marks' = Append(marks, result) BY <1>1
<1> HIDE DEF result
<1>13. marks \in Seq(M \cup {result}) /\ result \in M \cup {result}
    <2>1. M \subseteq M \cup {result} OBVIOUS
    <2> QED BY <1>4, <2>1, WiderSequence
<1>14. MarksFit(tree, review', marks')
    <2>1. CASE mark.runs = {}
        <3>1. result.runs = {} BY <1>11, <2>1
        <3>2. review' = review BY <1>1, <2>1
        <3> QED BY <1>3, <1>7, <1>12, <1>13, <3>1, <3>2, UnmarkedFits
    <2>2. CASE mark.runs # {}
        <3> DEFINE run == CHOOSE r \in mark.runs : TRUE
        <3>1. run \in mark.runs BY <2>2
        <3>2. review' = Highlighted(review, run) BY <1>1, <2>2
        <3> HIDE DEF run
        <3>3. mark.runs = {run} BY <1>10, <3>1
        <3>4. result.runs = {StructuralPath(review, run)} BY <1>11, <3>3
        <3>5. IsRun(review, run) /\ Reason(review, run) = "none" BY <1>9, <3>1
        <3> QED BY <1>3, <1>6, <1>7, <1>12, <1>13, <3>2, <3>4, <3>5, MarkFits
    <2> QED BY <2>1, <2>2
<1> QED BY <1>2, <1>7, <1>14 DEF MarksInv, AppliedAreTold

LEMMA NextMarks ==
    ASSUME ChainInv, MarksInv, [Next]_vars
    PROVE  MarksInv'
<1>1. CASE EndSession
    <2>1. /\ UNCHANGED <<tree, transforms, marks>> /\ review' = tree /\ stage' = "bind"
          /\ stage = "session"
        BY <1>1 DEF EndSession, Proceed
    <2>2. marks = <<>> BY <2>1 DEF ChainInv, BeforeTheReport
    <2> QED BY <2>1, <2>2 DEF MarksInv, AppliedAreTold
<1>2. CASE BindReport
    <2>1. UNCHANGED <<tree, transforms, marks, review>> /\ stage = "bind" /\ stage' \in {"mark", "answered"}
        BY <1>2 DEF BindReport, Proceed, Answer
    <2>2. IsTree(tree) /\ IsMapping(tree) BY DEF ChainInv, TypeOK, MarksInv
    <2>3. MarksFit(tree, review, marks) BY <2>1, <2>2, NoMarksFit DEF MarksInv
    <2> QED BY <2>1, <2>3 DEF MarksInv, AppliedAreTold
<1>3. CASE \/ ReceiveUpload \/ ReadProfile \/ ParsePackage \/ FinishReview \/ RefuseName \/ Deliver
    <2>1. UNCHANGED <<tree, transforms>> /\ stage' \notin {"bind", "mark"}
        BY <1>3 DEF ReceiveUpload, ReadProfile, ParsePackage, FinishReview, RefuseName, Deliver,
                    Answer, Proceed
    <2> QED BY <2>1 DEF MarksInv, AppliedAreTold
<1>4. CASE UNCHANGED vars BY <1>4 DEF vars, MarksInv, AppliedAreTold
<1> QED BY <1>1, <1>2, <1>3, <1>4, ApplyKeepsMarks, MarkKeepsMarks DEF Next, Done

(***************************************************************************)
(* Every item of the report binds: its path leads to its target alone, and *)
(* what was not applied has the hash of the document the session ended on. *)
(***************************************************************************)
IsBound(doc, item) ==
    /\ NamesTarget(doc, item.type, item.path)
    /\ item.kind # "applied_change" => item.hash = HashNow(doc, item.path)

LEMMA BoundItem ==
    ASSUME NEW doc, IsTree(doc), NEW item, IsBound(doc, item)
    PROVE  BindingHolds(doc, item)
<1>1. PICK node \in DOMAIN doc : IsTarget(doc, item.type, item.path, node) BY DEF IsBound, NamesTarget
<1>2. Resolve(doc, item.path) = {node} BY <1>1, PathLeadsToNode DEF IsTarget
<1>3. NodeAt(doc, item.path) = node BY <1>2 DEF NodeAt
<1>4. IsTargetNode(doc, node, item.type) BY <1>1 DEF IsTarget, IsTargetNode
<1>5. doc[node] \in {"p", "r"} /\ TypeAt(doc, node) \in {"paragraph", "run_raw"} BY <1>4, TargetNodes
<1>6. Cardinality(TargetRecords(doc, item.path)) = 1
    <2>1. node \in OfType(Records(doc), {"paragraph", "run_raw"}) BY <1>5, NodesByType
    <2>2. TargetRecords(doc, StructuralPath(doc, node)) = {node} BY <2>1, OneRecordOfPath
    <2>3. item.path = StructuralPath(doc, node) BY <1>1 DEF IsTarget
    <2> QED BY <2>2, <2>3, FS_Singleton
<1>7. item.kind # "applied_change" => item.hash = Subtree(doc, node) BY <1>3 DEF IsBound, HashNow
<1> QED BY <1>2, <1>5, <1>6, <1>7 DEF BindingHolds

LEMMA DecidedAreBound ==
    ASSUME NEW doc, NEW rules, NEW sites \in Seq(SitesIn(doc, rules)), NEW kind
    PROVE  \A item \in ToSet(ItemsFor(kind, doc, sites)) : IsBound(doc, item)
<1> DEFINE items == ItemsFor(kind, doc, sites)
<1>1. DOMAIN sites = 1 .. Len(sites) /\ \A i \in 1 .. Len(sites) : sites[i] \in SitesIn(doc, rules)
    BY ElementOfSeq
<1>2. items = [i \in DOMAIN sites |-> Item(kind, sites[i], HashNow(doc, sites[i].path))] BY DEF ItemsFor
<1>3. ASSUME NEW i \in DOMAIN sites PROVE IsBound(doc, items[i])
    <2>1. NamesTarget(doc, sites[i].type, sites[i].path) BY <1>1 DEF SitesIn
    <2>2. items[i] = Item(kind, sites[i], HashNow(doc, sites[i].path)) BY <1>2
    <2> HIDE DEF items
    <2>3. /\ items[i].type = sites[i].type /\ items[i].path = sites[i].path
          /\ items[i].hash = HashNow(doc, sites[i].path)
        BY <2>2 DEF Item
    <2> QED BY <2>1, <2>3 DEF IsBound
<1>4. DOMAIN items = DOMAIN sites BY <1>2
<1> HIDE DEF items
<1>5. \A item \in ToSet(items) : \E i \in DOMAIN sites : item = items[i] BY <1>4 DEF ToSet
<1> QED BY <1>3, <1>5 DEF items

LEMMA MembersOfJoined ==
    ASSUME NEW S, NEW s \in Seq(S), NEW T, NEW t \in Seq(T), NEW x \in ToSet(s \o t)
    PROVE  x \in ToSet(s) \/ x \in ToSet(t)
<1>1. s \in Seq(S \cup T) /\ t \in Seq(S \cup T)
    <2>1. S \subseteq S \cup T /\ T \subseteq S \cup T OBVIOUS
    <2> QED BY <2>1, WiderSequence
<1>2. /\ Len(s) \in Nat /\ Len(t) \in Nat /\ Len(s \o t) = Len(s) + Len(t) /\ s \o t \in Seq(S \cup T)
      /\ \A i \in 1 .. Len(s) + Len(t) : (s \o t)[i] = IF i <= Len(s) THEN s[i] ELSE t[i - Len(s)]
    BY <1>1, ConcatProperties
<1>3. PICK i \in 1 .. Len(s \o t) : (s \o t)[i] = x BY <1>2, MembersOfLists
<1>4. CASE i <= Len(s)
    <2>1. i \in 1 .. Len(s) /\ s[i] = x BY <1>2, <1>3, <1>4
    <2> QED BY <2>1, MembersOfLists
<1>5. CASE ~(i <= Len(s))
    <2>1. i - Len(s) \in 1 .. Len(t) /\ t[i - Len(s)] = x BY <1>2, <1>3, <1>5
    <2> QED BY <2>1, MembersOfLists
<1> QED BY <1>4, <1>5

LEMMA BindingsAlwaysHold ==
    ASSUME ChainInv, MarksInv
    PROVE  BindingsHold(tree, Report(tree))
<1> DEFINE unapplied == ItemsFor("unapplied_change", tree, Unapplied(tree))
           reviewed == ItemsFor("review_item", tree, SitesDecided(tree, {"review", "human_choice"}))
<1>1. IsTree(tree) BY DEF ChainInv, TypeOK
<1>2. /\ Unapplied(tree) \in Seq(SitesIn(tree, request.profile.rules))
      /\ SitesDecided(tree, {"review", "human_choice"}) \in Seq(SitesIn(tree, request.profile.rules))
    BY DecidedSites DEF Unapplied
<1>3. IsListing(tree, unapplied) /\ IsListing(tree, reviewed) BY <1>2, ItemsAreListed
<1>4. \A item \in ToSet(unapplied) : IsBound(tree, item) BY <1>2, DecidedAreBound
<1>5. \A item \in ToSet(reviewed) : IsBound(tree, item) BY <1>2, DecidedAreBound
<1>6. PICK E : transforms \in Seq(E) /\ \A item \in E : NamesTarget(tree, item.type, item.path)
    BY DEF ChainInv, IsListing
<1>7. ASSUME NEW item \in ToSet(transforms) PROVE IsBound(tree, item)
    <2>1. PICK i \in 1 .. Len(transforms) : transforms[i] = item BY <1>6, MembersOfLists
    <2>2. item \in E BY <1>6, <2>1, ElementOfSeq
    <2>3. item.kind = "applied_change" BY <2>1 DEF MarksInv, AppliedAreTold
    <2> QED BY <1>6, <2>2, <2>3 DEF IsBound
<1>8. ItemsOf(Report(tree)) = transforms \o unapplied \o reviewed BY DEF ItemsOf, Report
<1> HIDE DEF unapplied, reviewed
<1>9. IsListing(tree, transforms \o unapplied) BY <1>3, ListingsJoin DEF ChainInv
<1>10. PICK F, G, H : unapplied \in Seq(F) /\ reviewed \in Seq(G) /\ transforms \o unapplied \in Seq(H)
    BY <1>3, <1>9 DEF IsListing
<1>11. ASSUME NEW item \in ToSet(transforms \o unapplied \o reviewed) PROVE IsBound(tree, item)
    <2>1. item \in ToSet(transforms \o unapplied) \/ item \in ToSet(reviewed)
        BY <1>10, MembersOfJoined
    <2>2. item \in ToSet(transforms \o unapplied) => item \in ToSet(transforms) \/ item \in ToSet(unapplied)
        BY <1>6, <1>10, MembersOfJoined
    <2> QED BY <1>4, <1>5, <1>7, <2>1, <2>2
<1> QED BY <1>1, <1>8, <1>11, BoundItem DEF BindingsHold

(***************************************************************************)
(* A name made safe is what a delivery asks of one.                        *)
(***************************************************************************)
LEMMA CanonicalIsSafe ==
    ASSUME NEW base, IsCanonicalBase(base), IsTidy(base), Len(base) <= MaxName
    PROVE  NameIsSafe(base)
BY DEF IsCanonicalBase, IsTidy, IsPlain, NameIsSafe, Forbidden

(***************************************************************************)
(* What a request that went on from a stage did not raise there.           *)
(***************************************************************************)
NothingRaised ==
    /\ stage \in {"package", "session"} \cup WithAReview \/ answer = 200 =>
           ~RaisesWhenRead(request.profile)
    /\ stage \in {"session"} \cup WithAReview \/ answer = 200 =>
           ~RaisesWhenParsed(request.package) /\ ~RaisesWhenGated(request.package)

LEMMA InitRaised == Init => NothingRaised
BY DEF Init, NothingRaised, WithAReview

LEMMA NextRaised ==
    ASSUME NothingRaised, [Next]_vars
    PROVE  NothingRaised'
<1> USE DEF NothingRaised, WithAReview, Answer, Proceed
<1>1. CASE ReadProfile BY <1>1 DEF ReadProfile
<1>2. CASE ParsePackage BY <1>2 DEF ParsePackage
<1>3. CASE ReceiveUpload \/ BindReport \/ FinishReview \/ RefuseName \/ Deliver
    BY <1>3 DEF ReceiveUpload, BindReport, FinishReview, RefuseName, Deliver
<1>4. CASE ApplyOperation \/ EndSession \/ MarkCandidate \/ UNCHANGED vars
    BY <1>4 DEF ApplyOperation, EndSession, MarkCandidate, vars
<1> QED BY <1>1, <1>2, <1>3, <1>4 DEF Next, Done

(***************************************************************************)
(* No step answers 500 but those that read what was posted.                *)
(***************************************************************************)
LEMMA NoStepFails ==
    ASSUME ChainInv, SitesInv, MarksInv, NothingRaised, OnlyRequestsRaise, [Next]_vars
    PROVE  OnlyRequestsRaise'
<1>1. ASSUME ReadProfile PROVE OnlyRequestsRaise'
    <2>1. /\ request.profile.rules \in Seq(ToSet(request.profile.rules))
          /\ \A rule \in ToSet(request.profile.rules) : IsParsed(rule)
        BY RequestsAssumption DEF ChainInv
    <2>2. ProfileFault(request.profile) = "none" => SessionAcceptsProfile(request.profile)
        BY <2>1, AcceptedProfiles
    <2> QED BY <1>1, <2>2 DEF ReadProfile, Answer, Proceed, OnlyRequestsRaise, RequestRaises
<1>2. ASSUME BindReport PROVE OnlyRequestsRaise'
    <2>1. report = Report(tree) BY <1>2 DEF BindReport, SitesInv, ReportIsCurrent, WithAReview
    <2>2. BindingsHold(tree, report) BY <2>1, BindingsAlwaysHold
    <2> QED BY <1>2, <2>2 DEF BindReport, Answer, Proceed, OnlyRequestsRaise
<1>3. ASSUME FinishReview PROVE OnlyRequestsRaise'
    <2>1. stage = "mark" BY <1>3 DEF FinishReview
    <2>2. IsTree(tree) /\ IsMapping(tree) /\ MarksFit(tree, review, marks)
        BY <2>1 DEF ChainInv, TypeOK, MarksInv
    <2>3. PICK M : marks \in Seq(M) BY DEF ChainInv
    <2>4. IsMarkList(tree, MarkedRuns(tree, marks), PathsOf(marks)) BY <2>2, <2>3, PathsOfMarks
    <2>5. /\ AreMarkable(tree, MarkedRuns(tree, marks))
          /\ IsPatchwork(tree, review, MarkedRuns(tree, marks))
        BY <2>2 DEF MarksFit
    <2>6. DeltaAllowed(tree, review, PathsOf(marks)) BY <2>2, <2>4, <2>5, DeltaOfPatchwork
    <2>7. MarkedPaths = PathsOf(marks) BY DEF MarkedPaths, PathsOf
    <2>8. LineageHolds BY <2>1 DEF SitesInv, ReportIsCurrent, WithAReview, Report, LineageHolds
    <2> QED BY <1>3, <2>6, <2>7, <2>8 DEF FinishReview, Answer, Proceed, OnlyRequestsRaise
<1>4. ASSUME Deliver PROVE OnlyRequestsRaise'
    <2>1. request.name \in Seq(ToSet(request.name)) BY RequestsAssumption DEF ChainInv
    <2>2. \A base \in CanonicalBaseName(request.name) : NameIsSafe(base)
        BY <2>1, CanonicalNames, CanonicalIsSafe
    <2>3. ~RequestRaises(request) BY <1>4 DEF Deliver, NothingRaised, WithAReview, RequestRaises
    <2> QED BY <1>4, <2>2, <2>3 DEF Deliver, Answer, OnlyRequestsRaise
<1>5. ASSUME ParsePackage PROVE OnlyRequestsRaise'
    BY <1>5 DEF ParsePackage, Answer, Proceed, OnlyRequestsRaise, RequestRaises
<1>6. ASSUME \/ ReceiveUpload \/ ApplyOperation \/ EndSession \/ MarkCandidate
             \/ RefuseName \/ UNCHANGED vars
      PROVE  OnlyRequestsRaise'
    BY <1>6 DEF ReceiveUpload, ApplyOperation, EndSession, MarkCandidate, RefuseName,
                vars, Answer, Proceed, OnlyRequestsRaise
<1> QED BY <1>1, <1>2, <1>3, <1>4, <1>5, <1>6 DEF Next, Done

(***************************************************************************)
(* Whatever is posted, each check that one component makes on what another *)
(* has made holds: a profile that was read is one the session accepts,     *)
(* every item of a report binds, the marks taken back leave the clean      *)
(* document, and a name that was made safe is safe. An answer is a 500     *)
(* only where reading the request raises (do_POST).                        *)
(***************************************************************************)
THEOREM ChecksNeverFail == Spec => []OnlyRequestsRaise
<1>1. Init => OnlyRequestsRaise BY DEF Init, OnlyRequestsRaise
<1>2. Spec => []ChainInv BY ChainInvariant
<1>3. Spec => [][Next]_vars BY DEF Spec
<1> QED
    BY <1>1, <1>2, InitSites, NextSites, InitMarks, NextMarks, InitRaised, NextRaised, NoStepFails,
       PTL DEF Spec
===============================================================================
