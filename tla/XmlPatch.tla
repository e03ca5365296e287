------------------------------- MODULE XmlPatch -------------------------------
(***************************************************************************)
(* The patcher's surgery on one run or paragraph, and the checks it makes  *)
(* on its own output. The element's content is a sequence of nodes; a      *)
(* "properties" node (w:rPr, w:pPr) contains property elements, any other  *)
(* node is content. Text, comments and whitespace between them are left    *)
(* out.                                                                    *)
(***************************************************************************)
EXTENDS FormattingAnalysis, Selection

CONSTANT Lexical    \* the sizes and multiples OOXML can hold, with their tokens

RunOrder ==
    <<"rStyle", "rFonts", "b", "bCs", "i", "iCs", "caps", "smallCaps", "strike",
      "dstrike", "outline", "shadow", "emboss", "imprint", "noProof", "snapToGrid",
      "vanish", "webHidden", "color", "spacing", "w", "kern", "position", "sz", "szCs",
      "highlight", "u", "effect", "bdr", "shd", "fitText", "vertAlign", "rtl", "cs", "em",
      "lang", "eastAsianLayout", "specVanish", "oMath", "rPrChange">>

ParagraphOrder ==
    <<"pStyle", "keepNext", "keepLines", "pageBreakBefore", "framePr", "widowControl",
      "numPr", "suppressLineNumbers", "pBdr", "shd", "tabs", "suppressAutoHyphens",
      "kinsoku", "wordWrap", "overflowPunct", "topLinePunct", "autoSpaceDE", "autoSpaceDN",
      "bidi", "adjustRightInd", "snapToGrid", "spacing", "ind", "contextualSpacing",
      "mirrorIndents", "suppressOverlap", "jc", "textDirection", "textAlignment",
      "textboxTightWrap", "outlineLvl", "divId", "cnfStyle", "rPr", "sectPr", "pPrChange">>

CanonicalOrder == [run |-> RunOrder, paragraph |-> ParagraphOrder]

(***************************************************************************)
(* The place of a tag in the schema's order, 0 for a tag that is not in it.*)
(***************************************************************************)
CanonicalRank ==
    [kind \in DOMAIN CanonicalOrder |->
        [tag \in Range(CanonicalOrder[kind]) |->
            SelectInSeq(CanonicalOrder[kind], LAMBDA t : t = tag)]]

Rank(kind, tag) ==
    IF tag \in DOMAIN CanonicalRank[kind] THEN CanonicalRank[kind][tag] ELSE 0

SlotsOfKind == [run |-> {"bold", "font_size"}, paragraph |-> {"alignment", "spacing.line"}]

Tag(slot) ==
    CASE slot = "bold" -> "b"
      [] slot = "font_size" -> "sz"
      [] slot = "alignment" -> "jc"
      [] slot = "spacing.line" -> "spacing"

SpacingAttrs ==
    {"before", "beforeLines", "beforeAutospacing", "after", "afterLines", "afterAutospacing",
     "line", "lineRule"}

NoAttrs == [a \in {} |-> NoAttr]

Container(children) == [tag |-> "properties", marked |-> FALSE, children |-> children]

Content == [tag |-> "content", marked |-> FALSE, children |-> <<>>]

(***************************************************************************)
(* Where the containers of an element are; the properties in its first one.*)
(***************************************************************************)
Containers(body) == {i \in DOMAIN body : body[i].tag = "properties"}

PropertiesOf(body) ==
    IF Containers(body) = {} THEN <<>> ELSE body[Min(Containers(body))].children

InOrder(kind, children) ==
    /\ \A i \in DOMAIN children : Rank(kind, children[i].tag) # 0
    /\ \A i, j \in DOMAIN children :
          i < j => Rank(kind, children[i].tag) <= Rank(kind, children[j].tag)

TargetsIn(children, slot) == {i \in DOMAIN children : children[i].tag = Tag(slot)}

Accepted == "accepted"
Noncanonical == "noncanonical_run_properties"
Duplicate == "duplicate_target_property"
UnrepresentableValue == "unrepresentable_value"

(***************************************************************************)
(* validate_rpr_shape and validate_ppr_shape, in the order of their checks.*)
(***************************************************************************)
ShapeFault(kind, body, slot) ==
    LET children == PropertiesOf(body)
    IN  IF Containers(body) = {} THEN Accepted
        ELSE IF Containers(body) # {1} \/ \E i \in DOMAIN children : children[i].tag = "AlternateContent"
             THEN Noncanonical
        ELSE IF Cardinality(TargetsIn(children, slot)) > 1 THEN Duplicate
        ELSE IF ~InOrder(kind, children) THEN Noncanonical
        ELSE Accepted

(***************************************************************************)
(* What each apply_* function refuses in the property element it finds.    *)
(***************************************************************************)
AttrsAllowed(slot) ==
    IF slot = "spacing.line" THEN SpacingAttrs ELSE {"val"}

PropertyRefused(slot, prop) ==
    \/ prop.nested
    \/ slot # "bold" /\ ~(DOMAIN prop.attrs \subseteq AttrsAllowed(slot))
    \/ slot = "alignment" /\ ~Has(prop, "val")

IsWritable(slot, desired) ==
    slot \in {"font_size", "spacing.line"} => desired \in DOMAIN Lexical

(***************************************************************************)
(* Why a mutation is rejected: the container's shape, then the value's     *)
(* lexical form, then the property's own attributes and children.          *)
(***************************************************************************)
Refusal(kind, body, slot, desired) ==
    LET fault == ShapeFault(kind, body, slot)
        children == PropertiesOf(body)
    IN  IF fault # Accepted THEN fault
        ELSE IF ~IsWritable(slot, desired) THEN UnrepresentableValue
        ELSE IF \E i \in TargetsIn(children, slot) : PropertyRefused(slot, children[i]) THEN Noncanonical
        ELSE Accepted

-------------------------------------------------------------------------------
(***************************************************************************)
(* The attributes a property has after it was set: bold is normalized, the *)
(* others change their own attributes and keep the rest.                   *)
(***************************************************************************)
Overriding(new, attrs) ==
    [a \in DOMAIN attrs \cup DOMAIN new |-> IF a \in DOMAIN new THEN new[a] ELSE attrs[a]]

ValAttr(token) == [a \in {"val"} |-> token]

LineAttrs(token) == [a \in {"line", "lineRule"} |-> IF a = "line" THEN token ELSE "auto"]

Written(slot, desired, attrs) ==
    CASE slot = "bold" /\ desired = "on" -> NoAttrs
      [] slot = "bold" /\ desired = "off" -> ValAttr("0")
      [] slot = "font_size" -> Overriding(ValAttr(Lexical[desired]), attrs)
      [] slot = "alignment" -> Overriding(ValAttr(desired), attrs)
      [] slot = "spacing.line" -> Overriding(LineAttrs(Lexical[desired]), attrs)

Fresh(slot, desired) ==
    [tag |-> Tag(slot), attrs |-> Written(slot, desired, NoAttrs), nested |-> FALSE]

(***************************************************************************)
(* Faulty: the new property goes to the end of the container.              *)
(***************************************************************************)
InsertAtEnd(kind, children, prop) == Append(children, prop)

(***************************************************************************)
(* _insert_canonical, _insert_ppr_canonical: before the first child of a   *)
(* greater rank, else at the end; no sibling moves.                        *)
(***************************************************************************)
InsertCanonical(kind, children, prop) ==
    LET later == {i \in DOMAIN children : Rank(kind, children[i].tag) > Rank(kind, prop.tag)}
    IN  InsertAt(children, IF later = {} THEN Len(children) + 1 ELSE Min(later), prop)

SetProperty(kind, children, slot, desired) ==
    LET targets == TargetsIn(children, slot)
    IN  IF targets = {} THEN InsertCanonical(kind, children, Fresh(slot, desired))
        ELSE [children EXCEPT ![Min(targets)].attrs = Written(slot, desired, @)]

(***************************************************************************)
(* ensure_rpr, ensure_ppr: the container is made, as the first child, when *)
(* there is none. Faulty: it is made as the last one.                      *)
(***************************************************************************)
EnsureLast(body) ==
    IF Containers(body) = {} THEN Append(body, Container(<<>>)) ELSE body

EnsureContainer(body) ==
    IF Containers(body) = {} THEN <<Container(<<>>)>> \o body ELSE body

Mutated(kind, body, slot, desired) ==
    LET ready == EnsureContainer(body)
    IN  [ready EXCEPT ![Min(Containers(ready))].children = SetProperty(kind, @, slot, desired)]

-------------------------------------------------------------------------------
(***************************************************************************)
(* The allowed-delta check: the output's property has its canonical form   *)
(* and place, and once the property, and the container it leaves empty,    *)
(* are taken out of both elements nothing differs.                         *)
(***************************************************************************)
OutputAttrs(slot, desired, attrs) ==
    IF slot = "spacing.line"
    THEN /\ DOMAIN attrs \subseteq SpacingAttrs
         /\ Overriding(LineAttrs(Lexical[desired]), attrs) = attrs
    ELSE attrs = Written(slot, desired, NoAttrs)

OutputIsCanonical(kind, body, slot, desired) ==
    LET children == PropertiesOf(body)
    IN  /\ Cardinality(Containers(body)) = 1
        /\ InOrder(kind, children)
        /\ \E i \in DOMAIN children :
              /\ TargetsIn(children, slot) = {i}
              /\ ~children[i].nested
              /\ OutputAttrs(slot, desired, children[i].attrs)

WithoutAttrs(prop, names) ==
    [prop EXCEPT !.attrs = [a \in DOMAIN @ \ names |-> @[a]]]

(***************************************************************************)
(* _strip_target_for_comparison and its paragraph counterparts: of         *)
(* w:spacing only the line's attributes are taken out.                     *)
(***************************************************************************)
StrippedProperty(prop, slot) ==
    IF slot = "spacing.line" /\ prop.tag = "spacing"
    THEN WithoutAttrs(prop, {"line", "lineRule"}) ELSE prop

Vanishes(prop, slot) ==
    /\ prop.tag = Tag(slot)
    /\ slot = "spacing.line" =>
           DOMAIN StrippedProperty(prop, slot).attrs = {} /\ ~prop.nested

StrippedNode(node, slot) ==
    LET stripped == [i \in DOMAIN node.children |-> StrippedProperty(node.children[i], slot)]
    IN  [node EXCEPT !.children =
            Selected(stripped, {i \in DOMAIN stripped : ~Vanishes(node.children[i], slot)})]

Stripped(body, slot) ==
    LET stripped == [i \in DOMAIN body |-> StrippedNode(body[i], slot)]
    IN  Selected(stripped, {i \in DOMAIN stripped :
                               stripped[i].tag = "properties" =>
                                   stripped[i].children # <<>> \/ stripped[i].marked})

AllowedDelta(kind, before, after, slot, desired) ==
    /\ OutputIsCanonical(kind, after, slot, desired)
    /\ Stripped(before, slot) = Stripped(after, slot)

-------------------------------------------------------------------------------
(***************************************************************************)
(* What the analysis reads as the element's own properties: its first      *)
(* container.                                                              *)
(***************************************************************************)
Direct(body) == Level(PropertiesOf(body))

(***************************************************************************)
(* The choice is of one value: it has TLC read the element only once.      *)
(***************************************************************************)
Current(body, inherited, slot) ==
    CHOOSE value \in {Resolve(slot, levels) : levels \in {<<Direct(body)>> \o inherited}} : TRUE

(***************************************************************************)
(* The checks on the output, of which the last one re-reads it.            *)
(***************************************************************************)
IsSound(kind, before, after, inherited, slot, desired) ==
    /\ AllowedDelta(kind, before, after, slot, desired)
    /\ Current(after, inherited, slot) = Resolved(desired)

Outcome(kind, body, inherited, slot, desired) ==
    LET refusal == Refusal(kind, body, slot, desired)
    IN  IF refusal # Accepted THEN refusal
        ELSE IF IsSound(kind, body, Mutated(kind, body, slot, desired), inherited, slot, desired)
             THEN "applied" ELSE "integrity_error"
===============================================================================
