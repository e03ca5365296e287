-------------------------- MODULE FormattingAnalysis --------------------------
(***************************************************************************)
(* How the analysis layer resolves one property of a run or a paragraph    *)
(* from its levels: the element's own properties, its styles and the       *)
(* document defaults, most specific first. A level has a bag of property   *)
(* elements in document order, or is blocked (a cycle of styles, or styles *)
(* that cannot be read).                                                   *)
(*                                                                         *)
(* A property element has a tag, attributes and possibly child elements.   *)
(* An attribute's value is a token; Sizes and Multiples say which tokens   *)
(* are numbers, and which.                                                 *)
(***************************************************************************)
EXTENDS Naturals, SequencesExt

CONSTANTS
    Sizes,       \* the w:sz tokens that are integers, with their size
    Multiples,   \* the w:line tokens that are integers, with their multiple
    Fixed        \* the line spacing of an exact or at-least rule

Has(prop, attr) == attr \in DOMAIN prop.attrs

(***************************************************************************)
(* The raw value of an attribute, None when it is absent.                  *)
(***************************************************************************)
NoAttr == "no attribute"

Attr(prop, attr) == IF Has(prop, attr) THEN prop.attrs[attr] ELSE NoAttr

Level(bag) == [bag |-> bag, blocked |-> FALSE]

Blocked == [bag |-> <<>>, blocked |-> TRUE]

(***************************************************************************)
(* The elements of a level that declare a property: alike ones count once. *)
(***************************************************************************)
Declared(level, tag) ==
    {level.bag[i] : i \in {j \in DOMAIN level.bag : level.bag[j].tag = tag}}

Declares(level, tag) == \E i \in DOMAIN level.bag : level.bag[i].tag = tag

Resolved(v) == [status |-> "resolved", value |-> v]

Failed(status) == [status |-> status, value |-> "None"]

TrueTokens == {"1", "true", "on"}

FalseTokens == {"0", "false", "off"}

-------------------------------------------------------------------------------
(***************************************************************************)
(* Faulty: a size is read in the unit it is written in.                    *)
(***************************************************************************)
SizeAsWritten(prop) == Resolved(Attr(prop, "val"))

SizeOf(prop) ==
    IF Attr(prop, "val") \in DOMAIN Sizes THEN Resolved(Sizes[Attr(prop, "val")])
    ELSE Failed("invalid")

Alignments == {"left", "center", "right", "both"}

(***************************************************************************)
(* Logical tokens are read as physical ones; any other token is observed   *)
(* but unsupported.                                                        *)
(***************************************************************************)
AlignmentOf(prop) ==
    LET raw == Attr(prop, "val")
        token == IF raw = "start" THEN "left" ELSE IF raw = "end" THEN "right" ELSE raw
    IN  IF raw = NoAttr THEN Failed("invalid")
        ELSE IF token \in Alignments THEN Resolved(token)
        ELSE Failed("unresolved")

(***************************************************************************)
(* _cascade: the first level that is blocked or declares the property      *)
(* decides. Duplicates with one raw value count once, others conflict.     *)
(***************************************************************************)
Converted(prop) == IF prop.tag = "sz" THEN SizeOf(prop) ELSE AlignmentOf(prop)

Cascade(levels, tag) ==
    LET i == SelectInSeq(levels, LAMBDA l : l.blocked \/ Declares(l, tag))
        props == Declared(levels[i], tag)
    IN  IF i = 0 THEN Failed("absent")
        ELSE IF levels[i].blocked THEN Failed("unresolved")
        ELSE IF \E p, q \in props : Attr(p, "val") # Attr(q, "val") THEN Failed("ambiguous")
        ELSE Converted(CHOOSE p \in props : TRUE)

FontSize(levels) == Cascade(levels, "sz")

(***************************************************************************)
(* Numbering and right-to-left paragraphs are outside of what is resolved. *)
(***************************************************************************)
Numbered(levels) == \E i \in DOMAIN levels : Declares(levels[i], "numPr")

Bidirectional(levels) ==
    \E i \in DOMAIN levels :
        \E p \in Declared(levels[i], "bidi") :
            Attr(p, "val") \in TrueTokens \cup {NoAttr}

Alignment(levels) ==
    IF Numbered(levels) \/ Bidirectional(levels) THEN Failed("unresolved")
    ELSE Cascade(levels, "jc")

-------------------------------------------------------------------------------
(***************************************************************************)
(* _resolve_spacing_slot for spacing.line: the pair w:line and w:lineRule. *)
(***************************************************************************)
LineProps(level) ==
    {p \in Declared(level, "spacing") : Has(p, "line") \/ Has(p, "lineRule")}

LinePair(prop) == <<Attr(prop, "line"), Attr(prop, "lineRule")>>

RuleAlone(prop) == Has(prop, "lineRule") /\ ~Has(prop, "line")

LineOf(prop) ==
    IF Attr(prop, "line") \notin DOMAIN Multiples THEN Failed("unresolved")
    ELSE IF Attr(prop, "lineRule") \in {NoAttr, "auto"}
         THEN Resolved(Multiples[Attr(prop, "line")])
    ELSE IF Attr(prop, "lineRule") \in {"exact", "atLeast"} THEN Resolved(Fixed)
    ELSE Failed("unresolved")

(***************************************************************************)
(* A rule without a line stops the search.                                 *)
(***************************************************************************)
LineAt(level) ==
    LET props == LineProps(level)
    IN  IF level.blocked THEN Failed("unresolved")
        ELSE IF \E p, q \in props : LinePair(p) # LinePair(q) THEN Failed("ambiguous")
        ELSE IF \E p \in props : RuleAlone(p) THEN Failed("unresolved")
        ELSE LineOf(CHOOSE p \in props : TRUE)

LineSpacing(levels) ==
    LET i == SelectInSeq(levels, LAMBDA l : l.blocked \/ LineProps(l) # {})
    IN  IF Numbered(levels) \/ Bidirectional(levels) THEN Failed("unresolved")
        ELSE IF i = 0 THEN Failed("absent")
        ELSE LineAt(levels[i])

-------------------------------------------------------------------------------
(***************************************************************************)
(* _resolve_toggle: bold. The element's own declaration is absolute; those *)
(* of the styles and the defaults add up, each "true" inverting the state, *)
(* from the least to the most specific. A value that cannot be read, a     *)
(* conflict or a blocked level anywhere in them decides, the least         *)
(* specific one first.                                                     *)
(***************************************************************************)
OnOff(prop) ==
    IF Attr(prop, "val") \in TrueTokens \cup {NoAttr} THEN "on"
    ELSE IF Attr(prop, "val") \in FalseTokens THEN "off" ELSE "invalid"

ToggleAt(level, tag) ==
    LET meanings == {OnOff(p) : p \in Declared(level, tag)}
    IN  IF level.blocked THEN "unresolved"
        ELSE IF meanings = {} THEN "absent"
        ELSE IF "invalid" \in meanings THEN "invalid"
        ELSE IF meanings = {"on", "off"} THEN "ambiguous"
        ELSE CHOOSE m \in meanings : TRUE

(***************************************************************************)
(* Faulty: a declaration turns the state on whatever it was.               *)
(***************************************************************************)
TurnOn(state) == "on"

Flip(state) == IF state = "on" THEN "off" ELSE "on"

(***************************************************************************)
(* The state after the n least specific of the inherited levels.           *)
(***************************************************************************)
Toggled(inherited, tag) ==
    LET depth == Len(inherited)
        state[n \in 0 .. depth] ==
            IF n = 0 THEN "absent"
            ELSE LET before == state[n - 1]
                     here == ToggleAt(inherited[depth + 1 - n], tag)
                 IN  IF before \notin {"absent", "on", "off"} THEN before
                     ELSE IF here = "absent" THEN before
                     ELSE IF here = "on" THEN Flip(before)
                     ELSE IF here = "off" THEN (IF before = "absent" THEN "off" ELSE before)
                     ELSE here
    IN  state[depth]

Toggle(levels, tag) ==
    LET direct == ToggleAt(Head(levels), tag)
        state == IF direct = "absent" THEN Toggled(Tail(levels), tag) ELSE direct
    IN  IF state \in {"on", "off"} THEN Resolved(state) ELSE Failed(state)

Resolve(slot, levels) ==
    CASE slot = "bold" -> Toggle(levels, "b")
      [] slot = "font_size" -> FontSize(levels)
      [] slot = "alignment" -> Alignment(levels)
      [] slot = "spacing.line" -> LineSpacing(levels)
===============================================================================
