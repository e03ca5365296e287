---------------------------- MODULE MCElementPatch ----------------------------
(***************************************************************************)
(* Every run whose container has at most two of a dozen properties, or     *)
(* three of the ordinary ones, and every such paragraph.                   *)
(***************************************************************************)
EXTENDS ElementPatch

MCSizes == ("20" :> "10pt") @@ ("24" :> "12pt") @@ ("9999" :> "huge")
MCMultiples == ("240" :> "1.0") @@ ("360" :> "1.5")
MCFixed == "18pt exactly"
MCLexical == ("10pt" :> "20") @@ ("12pt" :> "24") @@ ("1.0" :> "240") @@ ("1.5" :> "360")

MCObservable ==
    ("bold" :> {"on", "off"}) @@ ("font_size" :> {"10pt", "12pt", "huge"})
        @@ ("alignment" :> {"left", "center", "right", "both"})
        @@ ("spacing.line" :> {"1.0", "1.5", MCFixed})

MCDesiredOf ==
    ("bold" :> {"on", "off"}) @@ ("font_size" :> {"12pt", "huge"})
        @@ ("alignment" :> {"left", "both"}) @@ ("spacing.line" :> {"1.5"})

Property(tag, attrs) == [tag |-> tag, attrs |-> attrs, nested |-> FALSE]
Nesting(prop) == [prop EXCEPT !.nested = TRUE]
Val(v) == [val |-> v]
Line(line, rule) == [line |-> line, lineRule |-> rule]

UpTo(n, S) == UNION {[1 .. k -> S] : k \in 0 .. n}

RunProperties ==
    {Property("rStyle", Val("s")), Property("b", NoAttrs), Property("b", Val("0")),
     Nesting(Property("b", NoAttrs)), Property("sz", Val("20")), Property("sz", Val("24")),
     Property("sz", [val |-> "20", lang |-> "x"]), Property("szCs", Val("20")),
     Property("vendor", NoAttrs), Nesting(Property("rPrChange", NoAttrs))}

ParagraphProperties ==
    {Property("numPr", NoAttrs), Property("bidi", NoAttrs), Property("bidi", Val("0")),
     Property("spacing", [before |-> "120"]), Property("spacing", [line |-> "360"]),
     Property("spacing", Line("240", "auto") @@ [after |-> "0"]),
     Property("spacing", Line("360", "exact")), Property("spacing", [lineRule |-> "auto"]),
     Property("jc", Val("left")), Property("jc", Val("start")), Property("jc", NoAttrs),
     Nesting(Property("pPrChange", NoAttrs))}

Ordinary(kind) ==
    IF kind = "run"
    THEN {Property("rStyle", Val("s")), Property("b", Val("0")), Property("sz", Val("20")),
          Property("szCs", Val("20")), Nesting(Property("rPrChange", NoAttrs))}
    ELSE {Property("pStyle", Val("s")), Property("spacing", [before |-> "120"]),
          Property("spacing", [line |-> "240"]), Property("jc", Val("left")),
          Nesting(Property("pPrChange", NoAttrs))}

Odd == {Property("AlternateContent", NoAttrs), Property("ind", Val("0")),
        Property("spacing", [line |-> "240", style |-> "x"]),
        Property("spacing", [line |-> "18pt"]), Property("b", Val("maybe"))}

(***************************************************************************)
(* The containers where they should be, and where they should not.         *)
(***************************************************************************)
Bodies(properties) ==
    {<<Container(c), Content>> : c \in UpTo(2, properties) \cup UpTo(2, Odd)}
        \cup {<<Content, Container(c)>> : c \in UpTo(1, properties)}
        \cup {<<Container(c), Container(d), Content>> : c, d \in UpTo(1, properties)}
        \cup {<<[Container(c) EXCEPT !.marked = TRUE], Content>> : c \in UpTo(1, properties)}
        \cup {<<Content>>}

Properties(kind) == IF kind = "run" THEN RunProperties ELSE ParagraphProperties

Bare(kind) == <<>>

Styled(kind) ==
    IF kind = "run" THEN <<Level(<<Property("b", NoAttrs), Property("sz", Val("20"))>>)>>
    ELSE <<Level(<<Property("spacing", [line |-> "240"]), Property("jc", Val("right"))>>)>>

Levels(kind) == {Bare(kind), Styled(kind), <<Blocked>>, Styled(kind) \o Styled(kind)}

Document(kind, body, levels, others(_)) ==
    [elements |-> (kind :> body) @@ [k \in Kinds |-> <<Content>>],
     inherited |-> (kind :> levels) @@ [k \in Kinds |-> others(k)]]

MCDocuments ==
    UNION {{Document(kind, body, levels, Bare) :
                body \in Bodies(Properties(kind)), levels \in Levels(kind)}
           \cup {Document(kind, <<Container(c), Content>>, Styled(kind), Bare) :
                     c \in [1 .. 3 -> Ordinary(kind)]}
           \cup {Document(kind, <<Container(c), Content>>, Styled(kind), Styled) :
                     c \in UpTo(1, Properties(kind))} : kind \in Kinds}
===============================================================================
