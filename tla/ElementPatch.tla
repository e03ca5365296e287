---------------------------- MODULE ElementPatch ----------------------------
(***************************************************************************)
(* A paragraph and a run in it, patched one operation after another, down  *)
(* at the level of their XML. An operation is only ever planned and        *)
(* cleared for a property that resolves to something else than it should.  *)
(* Abstracted to formatting sites, these elements are what GateAndPatch    *)
(* calls a package.                                                        *)
(***************************************************************************)
EXTENDS XmlPatch

CONSTANTS
    Documents,    \* the paragraphs with a run, and what they inherit, to start from
    DesiredOf,    \* the values the norms may ask for, for each slot
    Observable    \* the values each slot may have in a document

VARIABLES
    elements,     \* the content of the paragraph and of the run
    inherited,    \* the levels above each of them: styles and document defaults
    outcome       \* the last operation, and what became of it

vars == <<elements, inherited, outcome>>

Kinds == {"paragraph", "run"}

(***************************************************************************)
(* Documents are well-formed XML: sequences of nodes, of which those that  *)
(* contain properties contain sequences of them.                           *)
(***************************************************************************)
IsSequence(s) == s \in Seq(ToSet(s))

IsProperty(p) == p \in [tag : {p.tag}, attrs : {p.attrs}, nested : BOOLEAN]

IsNode(node) ==
    /\ node \in [tag : {"properties", "content"}, marked : BOOLEAN, children : {node.children}]
    /\ IsSequence(node.children)
    /\ \A i \in DOMAIN node.children : IsProperty(node.children[i])

IsBody(body) == IsSequence(body) /\ \A i \in DOMAIN body : IsNode(body[i])

IsDocument(document) ==
    /\ DOMAIN document.elements = Kinds
    /\ \A kind \in Kinds :
          IsBody(document.elements[kind]) /\ IsSequence(document.inherited[kind])

(***************************************************************************)
(* The norms ask for values a document may have, and what the patcher      *)
(* writes for one of them the analysis reads back as it.                   *)
(***************************************************************************)
ValuesAreReadBack ==
    /\ \A token \in DOMAIN Sizes : Sizes[token] \in Observable["font_size"]
    /\ \A token \in DOMAIN Multiples : Multiples[token] \in Observable["spacing.line"]
    /\ Fixed \in Observable["spacing.line"]
    /\ {"on", "off"} \subseteq Observable["bold"] /\ DesiredOf["bold"] \subseteq {"on", "off"}
    /\ Alignments \subseteq Observable["alignment"] /\ DesiredOf["alignment"] \subseteq Alignments
    /\ DesiredOf["font_size"] \subseteq Observable["font_size"] \ {Fixed}
    /\ DesiredOf["spacing.line"] \subseteq Observable["spacing.line"] \ {Fixed}
    /\ \A size \in DesiredOf["font_size"] \cap DOMAIN Lexical :
          Lexical[size] \in DOMAIN Sizes /\ Sizes[Lexical[size]] = size
    /\ \A multiple \in DesiredOf["spacing.line"] \cap DOMAIN Lexical :
          Lexical[multiple] \in DOMAIN Multiples /\ Multiples[Lexical[multiple]] = multiple

ASSUME DocumentsAssumption == \A document \in Documents : IsDocument(document)

ASSUME ValuesAssumption == ValuesAreReadBack

SiteSlots == <<"alignment", "spacing.line", "bold", "font_size">>

Sites == DOMAIN SiteSlots

KindOf(site) == IF SiteSlots[site] \in SlotsOfKind["run"] THEN "run" ELSE "paragraph"

Results ==
    {"applied", "integrity_error", Noncanonical, Duplicate, UnrepresentableValue}

NoOperation == [site |-> 0, desired |-> "None", result |-> "none"]

Host(site) == elements[KindOf(site)]

CurrentAt(site) == Current(Host(site), inherited[KindOf(site)], SiteSlots[site])

(***************************************************************************)
(* Norms ask for values; a line spacing that is not a multiple is left to  *)
(* a human.                                                                *)
(***************************************************************************)
MayBePlanned(site, desired) ==
    LET current == CurrentAt(site)
    IN  /\ desired \in DesiredOf[SiteSlots[site]]
        /\ current.status = "resolved"
        /\ current.value \notin {desired, Fixed}

Init ==
    \E document \in Documents :
        /\ elements = document.elements
        /\ inherited = document.inherited
        /\ outcome = NoOperation

Patch(site, desired) ==
    LET kind == KindOf(site)
        slot == SiteSlots[site]
        result == Outcome(kind, Host(site), inherited[kind], slot, desired)
    IN  /\ MayBePlanned(site, desired)
        /\ outcome.result # "integrity_error"
        /\ outcome' = [site |-> site, desired |-> desired, result |-> result]
        /\ elements' = IF result = "applied"
                       THEN [elements EXCEPT ![kind] = Mutated(kind, @, slot, desired)]
                       ELSE elements
        /\ UNCHANGED inherited

Next == \E site \in Sites : \E desired \in DesiredOf[SiteSlots[site]] : Patch(site, desired)

Spec == Init /\ [][Next]_vars

-------------------------------------------------------------------------------
(***************************************************************************)
(* The package of formatting sites these elements are.                     *)
(***************************************************************************)
SiteShape(site) ==
    LET fault == ShapeFault(KindOf(site), Host(site), SiteSlots[site])
        children == PropertiesOf(Host(site))
    IN  CASE fault = Noncanonical -> "noncanonical"
          [] fault = Duplicate -> "duplicate"
          [] fault = Accepted /\ (\E i \in TargetsIn(children, SiteSlots[site]) :
                                     PropertyRefused(SiteSlots[site], children[i])) -> "irregular"
          [] OTHER -> "canonical"

DeclaredAt(site) ==
    LET direct == Direct(Host(site))
    IN  IF SiteSlots[site] = "spacing.line" THEN LineProps(direct) # {}
        ELSE Declares(direct, Tag(SiteSlots[site]))

SiteState(site) ==
    [status |-> CurrentAt(site).status, value |-> CurrentAt(site).value,
     declared |-> DeclaredAt(site), shape |-> SiteShape(site)]

package == [site \in Sites |-> SiteState(site)]

Pipeline == INSTANCE GateAndPatch WITH
    Targets <- Kinds,
    TargetOf <- [site \in Sites |-> KindOf(site)],
    SlotOf <- SiteSlots,
    ClassOf <- [kind \in Kinds |-> "body"],
    Within <- [paragraph |-> Sites, run |-> {s \in Sites : KindOf(s) = "run"}],
    ValuesOf <- Observable,
    AutoValues <- Observable["spacing.line"] \ {Fixed},
    Unrepresentable <- (Observable["font_size"] \cup Observable["spacing.line"])
                            \ (DOMAIN Lexical \cup {Fixed}),
    ProfileRefs <- {}

-------------------------------------------------------------------------------
(***************************************************************************)
(* The elements abstract to a package the pipeline's modules talk about.   *)
(***************************************************************************)
TypeOK ==
    /\ \A site \in Sites : package[site] \in Pipeline!SlotState(SiteSlots[site])
    /\ Pipeline!SharesContainer(package)
    /\ outcome = NoOperation
           \/ /\ outcome.site \in Sites
              /\ outcome.desired \in DesiredOf[SiteSlots[outcome.site]]
              /\ outcome.result \in Results

(***************************************************************************)
(* The patcher never trips over its own checks: whatever the element looks *)
(* like, what it does not refuse it changes within the allowed delta, to a *)
(* document that resolves to the desired value (apply_cleared_operation    *)
(* raises no PatcherIntegrityError).                                       *)
(***************************************************************************)
NoIntegrityError == outcome.result # "integrity_error"

(***************************************************************************)
(* The session's model of a patch is right: the operation ends as the      *)
(* abstract shape of its site says, an applied one changes that site as    *)
(* Patched does, and no patch changes what is observed, or what may be     *)
(* patched, at any other site (mutate_paragraph, mutate_run).              *)
(***************************************************************************)
PatchIsThePipelines ==
    [][/\ outcome'.result =
              Pipeline!ShapeOutcome(package[outcome'.site], SiteSlots[outcome'.site],
                                    outcome'.desired)
       /\ package' = IF outcome'.result = "applied"
                     THEN Pipeline!Patched(package, outcome') ELSE package]_vars

(***************************************************************************)
(* Decision 0051, section 9: a lineRule without a line does not mask the   *)
(* value the paragraph inherits.                                           *)
(***************************************************************************)
RuleAloneDoesNotMask ==
    LET direct == Direct(elements["paragraph"])
        above == inherited["paragraph"]
    IN  /\ LineProps(direct) # {}
        /\ \A p \in LineProps(direct) : RuleAlone(p)
        /\ ~Numbered(<<direct>>) /\ ~Bidirectional(<<direct>>)
        /\ LineSpacing(above).status = "resolved"
        => LineSpacing(<<direct>> \o above) = LineSpacing(above)
===============================================================================
