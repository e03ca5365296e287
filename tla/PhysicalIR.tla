------------------------------ MODULE PhysicalIR ------------------------------
(***************************************************************************)
(* The records the parser makes of the tree of word/document.xml, the      *)
(* structural paths that name them, and the walks by which the other       *)
(* components find paragraphs and runs again.                              *)
(***************************************************************************)
EXTENDS Trees

CONSTANT MaxDepth  \* the structural depth from which nothing is decomposed

-------------------------------------------------------------------------------
(***************************************************************************)
(* The dispatch of the parser: the record a child becomes by the type of   *)
(* its parent's record; one property element is taken, once, per parent.   *)
(* What is in neither table is preserved whole, as an opaque record.       *)
(***************************************************************************)
BlockContainers == {"sdt", "sdtContent", "customXml"}

RunContainers == BlockContainers \cup {"hyperlink", "ins", "del", "fldSimple", "smartTag", "bdo", "dir"}

TextFragments == {"t", "emptyT", "tab", "br", "pageBr", "cr", "sym", "instrText", "delText"}

Blocks == [paragraph |-> {"p"}, table |-> {"tbl"}, block_container |-> BlockContainers]

Inline == [run_raw |-> {"r"}, run_container |-> RunContainers]

Decomposed ==
    [story |-> [paragraph |-> {"p"}, table |-> {"tbl"}, block_container |-> BlockContainers,
                section_properties |-> {"sectPr"}],
     block_container |-> Blocks,
     table |-> [table_row |-> {"tr"}],
     table_row |-> [table_cell |-> {"tc"}],
     table_cell |-> Blocks,
     table_grid |-> [table_grid_col |-> {"gridCol"}],
     paragraph |-> Inline,
     run_container |-> Inline,
     run_raw |-> [text_fragment |-> TextFragments]]

TakenOnce ==
    [table |-> [properties_raw |-> {"tblPr"}, table_grid |-> {"tblGrid"}],
     table_row |-> [properties_raw |-> {"trPr"}],
     table_cell |-> [properties_raw |-> {"tcPr"}],
     paragraph |-> [properties_raw |-> {"pPr"}],
     run_raw |-> [properties_raw |-> {"rPr"}]]

Entry(table, type, tag) ==
    IF type \in DOMAIN table THEN {t \in DOMAIN table[type] : tag \in table[type][t]} ELSE {}

IsFirstOfKind(tree, node) ==
    \A other \in Children(tree, Parent(node)) : tree[other] = tree[node] => ~Precedes(other, node)

(***************************************************************************)
(* Tables and block containers nest; from MaxDepth on they keep no         *)
(* children. Rows and cells stay at the depth of their table.              *)
(***************************************************************************)
Nests(type) == type \in {"table", "block_container"}

Unparsed == [type |-> "unparsed", depth |-> 0, limited |-> FALSE]

RecordBelow(tree, node, parent) ==
    LET once == Entry(TakenOnce, parent.type, tree[node])
        many == Entry(Decomposed, parent.type, tree[node])
        type == IF once # {} /\ ~IsFirstOfKind(tree, node) THEN "opaque"
                ELSE IF once \cup many # {} THEN CHOOSE t \in once \cup many : TRUE
                ELSE "opaque"
        depth == IF Nests(type) THEN parent.depth + 1 ELSE parent.depth
    IN  IF parent.type \notin DOMAIN Decomposed \/ parent.limited THEN Unparsed
        ELSE [type |-> type, depth |-> depth, limited |-> Nests(type) /\ depth >= MaxDepth]

Records(tree) ==
    LET record[node \in DOMAIN tree] ==
            IF node = Body THEN [type |-> "story", depth |-> 0, limited |-> FALSE]
            ELSE RecordBelow(tree, node, record[Parent(node)])
    IN  [node \in DOMAIN tree |-> record[node]]

OfType(records, types) == {node \in DOMAIN records : records[node].type \in types}

-------------------------------------------------------------------------------
(***************************************************************************)
(* Structural paths: the kind of every node on the way down, with its      *)
(* place among its siblings of that kind.                                  *)
(***************************************************************************)
PlaceOfKind(tree, node) ==
    1 + Cardinality({other \in Children(tree, Parent(node)) :
                        tree[other] = tree[node] /\ Precedes(other, node)})

StructuralPath(tree, node) ==
    [i \in DOMAIN node |->
        <<tree[SubSeq(node, 1, i)], PlaceOfKind(tree, SubSeq(node, 1, i))>>]

(***************************************************************************)
(* resolve_structural_path: the node a path leads to, as a set that is     *)
(* empty when a step does not resolve.                                     *)
(***************************************************************************)
Step(tree, nodes, segment) ==
    UNION {LET peers == InDocumentOrder(Peers(tree, node, segment[1]))
           IN  {peers[i] : i \in {segment[2]} \cap DOMAIN peers} : node \in nodes}

Resolve(tree, path) ==
    LET reached[i \in 0 .. Len(path)] ==
            IF i = 0 THEN {Body} ELSE Step(tree, reached[i - 1], path[i])
    IN  reached[Len(path)]

-------------------------------------------------------------------------------
(***************************************************************************)
(* The walks. The session and the classifier descend from the blocks to    *)
(* paragraphs and from a paragraph to its runs; the gate indexes every     *)
(* record with its ancestors.                                              *)
(***************************************************************************)
Paragraphs(tree) == OfType(Records(tree), {"paragraph"})

(***************************************************************************)
(* Faulty: the runs that are children of the paragraph itself.             *)
(***************************************************************************)
DirectRunsOf(tree, paragraph) ==
    OfType(Records(tree), {"run_raw"}) \cap Children(tree, paragraph)

RunsOf(tree, paragraph) ==
    LET records == Records(tree)
        found[node \in Below(tree, paragraph) \cup {paragraph}] ==
            IF records[node].type = "run_raw" THEN {node}
            ELSE UNION {found[child] : child \in Children(tree, node)}
    IN  found[paragraph]

TargetRecords(tree, path) ==
    LET records == Records(tree)
    IN  {node \in DOMAIN tree \ {Body} :
            /\ records[node].type # "unparsed"
            /\ Len(node) = Len(path) /\ StructuralPath(tree, node) = path}

ParagraphAncestors(tree, node) ==
    {other \in Paragraphs(tree) : IsStrictPrefix(other, node)}

ContainerTypes == {"table", "table_row", "table_cell", "block_container"}

ContainersOf(tree, node) ==
    {other \in OfType(Records(tree), ContainerTypes) : IsStrictPrefix(other, node)}

(***************************************************************************)
(* normalize_paragraph: what a paragraph reads as. Field codes, deleted    *)
(* text, symbols, page breaks and whatever is opaque do not contribute.    *)
(***************************************************************************)
ContributingTags == {"t", "tab", "br", "cr"}

DefaultText(tree, paragraph) ==
    LET records == Records(tree)
        shown == {node \in Below(tree, paragraph) :
                     records[node].type = "text_fragment" /\ tree[node] \in ContributingTags}
        order == InDocumentOrder(shown)
    IN  [i \in DOMAIN order |-> tree[order[i]]]

-------------------------------------------------------------------------------
(***************************************************************************)
(* A container of properties is made, as the first child, if there is none.*)
(***************************************************************************)
EnsureContainer(tree, target, container) ==
    IF Peers(tree, target, container) # {} THEN tree ELSE Inserted(tree, target, 1, container)
===============================================================================
