------------------------------- MODULE Document -------------------------------
(***************************************************************************)
(* A DOCX package as the formatting pipeline sees it: the formatting SITES *)
(* (one property slot of one paragraph or run), what the analysis layer    *)
(* resolves at each of them, and whether the XML around the property has a *)
(* shape the patcher is willing to edit.                                   *)
(*                                                                         *)
(* A SHA-256 is modelled by the very content it fingerprints, so that two  *)
(* hashes are equal exactly when the contents are.                         *)
(***************************************************************************)
EXTENDS Naturals, FiniteSets

CONSTANTS
    Sites,           \* positions in decision order: the sites of a document
    Targets,         \* its paragraphs and runs
    TargetOf,        \* the paragraph or run a site belongs to
    SlotOf,          \* the property slot of a site
    ClassOf,         \* the class of a target, as the classifier found it
    Within,          \* the sites physically inside a target's XML element
    ValuesOf,        \* the values a property slot can have
    AutoValues,      \* the line spacings that are multiples ("auto" rule)
    Unrepresentable  \* values the OOXML attribute cannot hold

Slots == {"bold", "font_size", "spacing.line", "alignment"}

ResolutionStatus == {"resolved", "absent", "unresolved", "invalid", "ambiguous"}

Classes == {"body", "heading"}

Unclassified == "abstained"

Shapes == {"canonical", "noncanonical", "duplicate", "irregular"}

None == "None"

(***************************************************************************)
(* What is at one site: what the cascade (the element itself, the styles,  *)
(* the document defaults) resolves the property to, whether the element    *)
(* itself declares it, and the shape of the XML around it.                 *)
(***************************************************************************)
SlotState(slot) ==
    [status : {"resolved"}, value : ValuesOf[slot], declared : BOOLEAN, shape : Shapes]
        \cup [status : ResolutionStatus \ {"resolved"}, value : {None},
              declared : BOOLEAN, shape : Shapes]

(***************************************************************************)
(* Sites of one target share the target's property container (w:rPr or     *)
(* w:pPr): a container the patcher refuses for one of them it refuses for  *)
(* all, except that a duplicated property is reported as such when the     *)
(* order of the children is the only other fault.                          *)
(***************************************************************************)
SharesContainer(pkg) ==
    \A s, t \in Sites :
        TargetOf[s] = TargetOf[t] /\ pkg[s].shape = "noncanonical" =>
            pkg[t].shape \in {"noncanonical", "duplicate"}

Package ==
    {pkg \in [Sites -> UNION {SlotState(slot) : slot \in Slots}] :
        /\ \A s \in Sites : pkg[s] \in SlotState(SlotOf[s])
        /\ SharesContainer(pkg)}

(***************************************************************************)
(* The fingerprint of a paragraph or run: the canonical XML of its element *)
(* alone, which for a paragraph includes its runs. What a property that is *)
(* not declared there resolves to is not part of it.                       *)
(***************************************************************************)
Physical(state) ==
    IF state.declared THEN state ELSE [state EXCEPT !.status = "absent", !.value = None]

PhysicalHash(pkg, target) == [s \in Within[target] |-> Physical(pkg[s])]

ASSUME DocumentAssumption ==
    /\ Sites \subseteq Nat
    /\ IsFiniteSet(Sites)
    /\ TargetOf \in [Sites -> Targets]
    /\ SlotOf \in [Sites -> Slots]
    /\ ClassOf \in [Targets -> Classes \cup {Unclassified}]
    /\ Within \in [Targets -> SUBSET Sites]
    /\ \A s \in Sites : s \in Within[TargetOf[s]]
    /\ \A s, t \in Sites : TargetOf[s] = TargetOf[t] /\ SlotOf[s] = SlotOf[t] => s = t
    /\ DOMAIN ValuesOf = Slots
    /\ \A slot \in Slots : None \notin ValuesOf[slot]
    /\ AutoValues \subseteq ValuesOf["spacing.line"]
    /\ Unrepresentable \subseteq ValuesOf["font_size"] \cup AutoValues
===============================================================================
