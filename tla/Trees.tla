-------------------------------- MODULE Trees --------------------------------
(***************************************************************************)
(* The elements of an XML document below w:body as an ordered tree, and    *)
(* its edits. A node is the sequence of child positions that leads to it;  *)
(* a tree maps its nodes to their tags.                                    *)
(***************************************************************************)
EXTENDS Selection, TLC, SequencesExt

Body == <<>>

Parent(node) == Front(node)

(***************************************************************************)
(* A tree has finitely many nodes, and with a node the ones above it.      *)
(***************************************************************************)
Nodes == Seq(Nat \ {0})

IsTree(tree) ==
    /\ DOMAIN tree \in SUBSET Nodes /\ IsFiniteSet(DOMAIN tree)
    /\ Body \in DOMAIN tree
    /\ \A node \in DOMAIN tree \ {Body} : Parent(node) \in DOMAIN tree

Children(tree, node) == {child \in DOMAIN tree : child # Body /\ Parent(child) = node}

Peers(tree, node, kind) == {child \in Children(tree, node) : tree[child] = kind}

Below(tree, node) == {other \in DOMAIN tree : IsStrictPrefix(node, other)}

Subtree(tree, node) ==
    [rest \in {SubSeq(other, Len(node) + 1, Len(other)) : other \in Below(tree, node) \cup {node}}
        |-> tree[node \o rest]]

Precedes(a, b) ==
    \/ IsStrictPrefix(a, b)
    \/ \E i \in 1 .. Len(a) : i <= Len(b) /\ a[i] < b[i] /\ SubSeq(a, 1, i - 1) = SubSeq(b, 1, i - 1)

InDocumentOrder(nodes) ==
    [i \in 1 .. Cardinality(nodes) |->
        CHOOSE node \in nodes : Cardinality({other \in nodes : Precedes(other, node)}) = i - 1]

-------------------------------------------------------------------------------
(***************************************************************************)
(* Edits. A new element takes a position among its parent's children and   *)
(* moves the later ones up. Faulty: it takes the place of the one there.   *)
(***************************************************************************)
PutInPlace(tree, parent, position, tag) == (Append(parent, position) :> tag) @@ tree

Moved(node, parent, position) ==
    IF IsStrictPrefix(parent, node) /\ node[Len(parent) + 1] >= position
    THEN [node EXCEPT ![Len(parent) + 1] = @ + 1] ELSE node

Inserted(tree, parent, position, tag) ==
    LET new == Append(parent, position)
        moved == {Moved(node, parent, position) : node \in DOMAIN tree}
    IN  [node \in moved \cup {new} |->
            IF node = new THEN tag
            ELSE tree[CHOOSE old \in DOMAIN tree : Moved(old, parent, position) = node]]

(***************************************************************************)
(* An element taken out with all it holds.                                 *)
(***************************************************************************)
Removed(tree, removed) ==
    LET parent == Parent(removed)
        position == removed[Len(removed)]
        kept == DOMAIN tree \ (Below(tree, removed) \cup {removed})
    IN  [node \in {IF IsStrictPrefix(parent, old) /\ old[Len(removed)] > position
                   THEN [old EXCEPT ![Len(removed)] = @ - 1] ELSE old : old \in kept}
            |-> tree[IF IsStrictPrefix(parent, node) /\ node[Len(removed)] >= position
                     THEN [node EXCEPT ![Len(removed)] = @ + 1] ELSE node]]

(***************************************************************************)
(* A property is put before the first child of a later canonical rank, or  *)
(* after all children.                                                     *)
(***************************************************************************)
Places(nodes, parent) == {node[Len(parent) + 1] : node \in nodes}

EndOf(tree, parent) == 1 + Max({0} \cup Places(Children(tree, parent), parent))

InsertedByRank(tree, container, tag, rank) ==
    LET later == {child \in Children(tree, container) :
                      tree[child] \in DOMAIN rank /\ rank[tree[child]] > rank[tag]}
        position == IF later = {} THEN EndOf(tree, container) ELSE Min(Places(later, container))
    IN  Inserted(tree, container, position, tag)
===============================================================================
