------------------------------ MODULE ReviewDocx ------------------------------
(***************************************************************************)
(* The report of a session and the review copy made from it: the targets   *)
(* the report names, one highlight at most for each of them, and the proof *)
(* that nothing else changed.                                              *)
(***************************************************************************)
EXTENDS PhysicalIR

(***************************************************************************)
(* A report item names its target by type and path, with the hash it had   *)
(* when the item's decision was taken.                                     *)
(***************************************************************************)
Item(kind, site, hash) == [kind |-> kind, type |-> site.type, path |-> site.path, hash |-> hash]

ItemsOf(report) == report.applied \o report.unapplied \o report.review

Target(item) == [type |-> item.type, path |-> item.path]

(***************************************************************************)
(* _collect_candidates: one candidate per target, in the order the report  *)
(* first names them.                                                       *)
(***************************************************************************)
Distinct(targets) ==
    Selected(targets, {i \in DOMAIN targets : \A j \in 1 .. i - 1 : targets[j] # targets[i]})

Candidates(report) == Distinct([i \in DOMAIN ItemsOf(report) |-> Target(ItemsOf(report)[i])])

SourceKinds(report, target) == {item.kind : item \in {i \in ToSet(ItemsOf(report)) : Target(i) = target}}

NodeAt(tree, path) == CHOOSE node \in Resolve(tree, path) : TRUE

(***************************************************************************)
(* Every target resolves to a run, or to the paragraph of one record, and  *)
(* items of the final snapshot still have the hash it has there.           *)
(***************************************************************************)
BindingHolds(tree, item) ==
    \E node \in Resolve(tree, item.path) :
        /\ tree[node] \in {"p", "r"}
        /\ tree[node] = "p" => Cardinality(TargetRecords(tree, item.path)) = 1
        /\ item.kind # "applied_change" => item.hash = Subtree(tree, node)

BindingsHold(tree, report) == \A item \in ToSet(ItemsOf(report)) : BindingHolds(tree, item)

-------------------------------------------------------------------------------
Surface == {"t", "sym", "tab", "br", "pageBr"}

(***************************************************************************)
(* The canonical order of run properties. Each of bold and size is written *)
(* "b", "sz" with the value a rule desires and "b0", "sz0" with another;   *)
(* "w14" stands for an element of another namespace, which has no rank and *)
(* may stand anywhere; any other tag without a rank is refused.            *)
(***************************************************************************)
RunRank == [b |-> 1, b0 |-> 1, sz |-> 2, sz0 |-> 2, highlight |-> 3, u |-> 4]

IsDeleted(tree, run) ==
    \/ \E i \in 1 .. Len(run) - 1 : tree[SubSeq(run, 1, i)] = "del"
    \/ Peers(tree, run, "delText") # {}

Sorted(tree, nodes, rank) ==
    \A a, b \in nodes : Precedes(a, b) => rank[tree[a]] <= rank[tree[b]]

PropertiesInOrder(tree, container) ==
    LET ranked == {child \in Children(tree, container) : tree[child] # "w14"}
    IN  /\ \A child \in ranked : tree[child] \in DOMAIN RunRank
        /\ Sorted(tree, ranked, RunRank)

RunPropertiesCanonical(tree, run) ==
    LET containers == Peers(tree, run, "rPr")
    IN  /\ Cardinality(containers) <= 1
        /\ \A container \in containers :
              container = Append(run, 1) /\ PropertiesInOrder(tree, container)

(***************************************************************************)
(* _ordinary_reason: why a run is left as it is, if it is.                 *)
(***************************************************************************)
IsHighlighted(tree, run) ==
    LET containers == Peers(tree, run, "rPr")
    IN  /\ Cardinality(containers) = 1
        /\ \E container \in containers : Peers(tree, container, "highlight") # {}

Reason(tree, run) ==
    IF IsDeleted(tree, run) THEN "protected_revision_run"
    ELSE IF IsHighlighted(tree, run) THEN "existing_highlight"
    ELSE IF ~RunPropertiesCanonical(tree, run) THEN "noncanonical_run_properties"
    ELSE IF \A child \in Children(tree, run) : tree[child] \notin Surface THEN "no_visual_surface"
    ELSE "none"

(***************************************************************************)
(* The run a candidate is marked on: itself, or the first markable run of  *)
(* the paragraph. Faulty: only the first run of a paragraph is tried.      *)
(***************************************************************************)
FirstRunIfMarkable(tree, node) ==
    LET runs == InDocumentOrder(RunsOf(tree, node))
    IN  {runs[i] : i \in {j \in DOMAIN runs : j = 1 /\ Reason(tree, runs[j]) = "none"}}

MarkedRun(tree, node) ==
    LET runs == InDocumentOrder(RunsOf(tree, node))
        first == SelectInSeq(runs, LAMBDA run : Reason(tree, run) = "none")
    IN  {runs[i] : i \in {first} \ {0}}

UnmarkedReason(tree, type, node) ==
    IF type = "run" THEN Reason(tree, node) ELSE "no_markable_run"

(***************************************************************************)
(* The highlight goes into the run's own properties, which are created in  *)
(* first place, at its canonical rank. Faulty: it is put last.             *)
(***************************************************************************)
HighlightedLast(tree, run) ==
    LET ready == EnsureContainer(tree, run, "rPr")
        container == Append(run, 1)
    IN  Inserted(ready, container, EndOf(ready, container), "highlight")

Highlighted(tree, run) ==
    InsertedByRank(EnsureContainer(tree, run, "rPr"), Append(run, 1), "highlight", RunRank)

(***************************************************************************)
(* The mark of a candidate: on one run, or on none and why.                *)
(***************************************************************************)
MarkOf(tree, target, node, hash, kinds) ==
    LET runs == IF target.type = "run" THEN {run \in {node} : Reason(tree, run) = "none"}
                                       ELSE MarkedRun(tree, node)
    IN  [type |-> target.type, path |-> target.path, hash |-> hash, kinds |-> kinds, runs |-> runs,
         reason |-> IF runs = {} THEN UnmarkedReason(tree, target.type, node) ELSE "none"]

-------------------------------------------------------------------------------
(***************************************************************************)
(* validate_allowed_delta: the marks are taken back one by one, each with  *)
(* the container made for it; what is left is the clean tree.              *)
(***************************************************************************)
MarkStands(before, after, path) ==
    \E clean \in Resolve(before, path), run \in Resolve(after, path) :
        /\ before[clean] = "r" /\ after[run] = "r"
        /\ \E container \in Peers(after, run, "rPr") :
              /\ Peers(after, run, "rPr") = {container}
              /\ Cardinality(Peers(after, container, "highlight")) = 1

Neutralized(before, after, path) ==
    LET container == CHOOSE c \in Peers(after, NodeAt(after, path), "rPr") : TRUE
        bare == Removed(after, CHOOSE h \in Peers(after, container, "highlight") : TRUE)
    IN  IF Peers(before, NodeAt(before, path), "rPr") = {} /\ Children(bare, container) = {}
        THEN Removed(bare, container) ELSE bare

DeltaAllowed(before, after, paths) ==
    LET restored[i \in 0 .. Len(paths)] ==
            IF i = 0 THEN after ELSE Neutralized(before, restored[i - 1], paths[i])
    IN  /\ \A i \in DOMAIN paths : MarkStands(before, restored[i - 1], paths[i])
        /\ restored[Len(paths)] = before
===============================================================================
