---------------------------- MODULE MCProductChain ----------------------------
(***************************************************************************)
(* Requests that differ from a plain one in one respect: the name, the     *)
(* number or shape of a rule, the parts and relationships of the package,  *)
(* or the document with its profile, limit and inherited values.           *)
(***************************************************************************)
EXTENDS ProductChain

MCMaxDepth == 3
MCMaxOperations == 9
MCMaxRawName == 4
MCMaxName == 3
MCMaxDigits == 4
MCMaxExponent == 5
MCMaxHalfPoints == 3276
MCMaxLineTwips == 1000000

(***************************************************************************)
(* Documents are written as elements with their contents.                  *)
(***************************************************************************)
E(tag, kids) == [tag |-> tag, kids |-> kids]

RECURSIVE NodesOf(_, _)
NodesOf(element, node) ==
    (node :> element.tag)
        @@ [below \in UNION {DOMAIN NodesOf(element.kids[i], Append(node, i)) : i \in DOMAIN element.kids}
                |-> NodesOf(element.kids[below[Len(node) + 1]], SubSeq(below, 1, Len(node) + 1))[below]]

Doc(blocks) == NodesOf(E("body", blocks), Body)

Tags(tags) == [i \in DOMAIN tags |-> E(tags[i], <<>>)]
R(properties, content) == E("r", <<E("rPr", Tags(properties))>> \o Tags(content))
Bare(content) == E("r", Tags(content))
P(kids) == E("p", kids)
Text == <<"t">>

Runs ==
    {Bare(Text), Bare(<<"delText">>), Bare(<<"instrText">>),
     R(<<"b0">>, Text), R(<<"b">>, Text), R(<<"u">>, Text), R(<<"highlight">>, Text),
     R(<<"sz0", "b0">>, Text), R(<<"w14">>, Text),
     E("r", <<E("t", <<>>), E("rPr", Tags(<<"b0">>))>>),
     R(<<"b", "b0">>, Text), R(<<"b0", "b0">>, Text), R(<<"unranked">>, Text)}

PlainRuns == {Bare(Text), R(<<"b0", "u">>, Text),
              E("r", <<E("rPr", Tags(<<"b">>)), E("rPr", Tags(<<"b0">>)), E("t", <<>>)>>)}

Marked == E("pPr", Tags(<<"jc0">>))
Heading == E("pPr", Tags(<<"pStyle">>))
Cell(block) == E("tbl", <<E("tblPr", <<>>), E("tr", <<E("tc", <<block>>)>>)>>)
Wrapped(block) == E("sdt", <<E("sdtContent", <<block>>)>>)

SimpleDocs == {Doc(<<P(<<x, y>>)>>) : x \in Runs, y \in PlainRuns}

NestedDocs ==
    {Doc(<<P(<<Bare(Text), E("ins", <<Bare(Text)>>)>>)>>),
     Doc(<<P(<<E("del", <<Bare(Text)>>), E("hyperlink", <<R(<<"b0">>, Text)>>)>>)>>),
     Doc(<<P(<<Marked, E("sdt", <<E("sdtContent", <<Bare(Text)>>)>>), Bare(<<"tab">>)>>)>>),
     Doc(<<P(<<Marked, Bare(<<"delText">>), Bare(Text)>>)>>),
     Doc(<<P(<<Heading, Bare(Text)>>), P(<<Bare(Text)>>), E("sectPr", <<>>)>>),
     Doc(<<Cell(P(<<Bare(Text)>>)), P(<<Bare(<<"br">>)>>), P(<<Marked, Bare(Text)>>)>>),
     Doc(<<Wrapped(P(<<Bare(Text)>>)), P(<<Bare(Text), E("pPr", <<>>)>>)>>),
     Doc(<<E("sdt", <<Wrapped(P(<<Bare(Text)>>))>>), P(<<E("unknown", <<Bare(Text)>>), Bare(Text)>>)>>)}

Plain == Doc(<<P(<<Bare(Text)>>)>>)

-------------------------------------------------------------------------------
Rule(class, property, mode, value, allowed, preferred) ==
    [class |-> class, property |-> property, mode |-> mode,
     value |-> value, allowed |-> allowed, preferred |-> preferred]

Exact(class, property, value) == Rule(class, property, "exact", value, <<>>, NoValue)
OneOf(class, property, allowed, preferred) == Rule(class, property, "set", NoValue, allowed, preferred)

ProfileOf(schema, rules) ==
    [json |-> "readable", schema |-> schema, unknownFields |-> FALSE, rules |-> rules]

Twelve == Decimal(FALSE, 12, 0)
Plainly == ProfileOf("0.1", <<Exact("body", "bold", "true")>>)

DocProfiles ==
    {ProfileOf("0.2", <<Exact("body", "alignment", "justify"), Exact("body", "bold", "true"),
                        Exact("heading", "bold", "true")>>),
     ProfileOf("0.3", <<OneOf("body", "bold", <<"true", "false">>, NoValue),
                        Exact("body", "line_spacing", Decimal(FALSE, 15, -1)),
                        Rule("heading", "bold", "preserve", NoValue, <<>>, NoValue)>>),
     ProfileOf("0.3", <<OneOf("body", "bold", <<"true", "false">>, "true"),
                        OneOf("body", "font_size", <<Twelve, Decimal(FALSE, 10, 0)>>, Twelve)>>)}

Numbers ==
    {d \in {Decimal(negative, c, e) : negative \in BOOLEAN,
                c \in {0, 1, 5, 15, 25, 125, 1638, 1639, 12345}, e \in -6 .. 6} :
        d.negative => d.coefficient = 1 /\ d.exponent = 0}

NumericProfiles ==
    {ProfileOf("0.3", <<Exact("body", "font_size", d)>>) : d \in Numbers}
    \cup {ProfileOf("0.3", <<OneOf("body", "line_spacing", <<Decimal(FALSE, 1, 0), d>>, NoValue)>>) :
             d \in {n \in Numbers : n.exponent < 4}}

Odd(rule) == ProfileOf("0.2", <<rule>>)

OddProfiles ==
    {[Plainly EXCEPT !.json = "malformed"], [Plainly EXCEPT !.json = "overflow"],
     [Plainly EXCEPT !.schema = "9"],
     [Plainly EXCEPT !.unknownFields = TRUE], [Plainly EXCEPT !.rules = <<>>]}
    \cup {Odd(Rule("body", "alignment", mode, value, allowed, preferred)) :
             mode \in {"exact", "set", "preserve", "missing", "fuzzy"},
             value \in {"left", "middle", NoValue},
             allowed \in {<<>>, <<"left">>, <<"left", "left">>, <<"left", "justify">>},
             preferred \in {"justify", NoValue}}
    \cup {Odd(Exact("quote", "bold", "true")), Odd(Exact("body", "line_spacing", Twelve)),
          Odd(OneOf("body", "font_size", <<Decimal(FALSE, 120, -1), Twelve>>, Twelve)),
          Odd(OneOf("body", "font_size", <<Decimal(FALSE, 120, -1)>>, Twelve))}

-------------------------------------------------------------------------------
Part(content, root) == [content |-> content, root |-> root]
Rel(type, target, external) == [type |-> type, target |-> target, external |-> external]

H == "word/header1.xml"
F == "word/footnotes.xml"

Package(parts, relationships) ==
    [container |-> "zip", document |-> "body", contentTypes |-> TRUE, styles |-> "ok",
     parts |-> parts, relationships |-> relationships]

HParts == {Part(content, root) : content \in {"header", "other"}, root \in {"header", "footnotes"}}
FParts == {Part(content, root) : content \in {"footnotes", "header"}, root \in {"footnotes", "unpackable"}}

SomeParts ==
    {<<>>} \cup [{H} -> HParts] \cup [{F} -> FParts] \cup
    {(H :> h) @@ (F :> f) : h \in HParts, f \in FParts}

SomeRelationships ==
    {Rel("header", H, FALSE), Rel("footnotes", H, FALSE), Rel("footnotes", F, FALSE),
     Rel("header", F, TRUE), Rel("header", MainDocument, FALSE), Rel("header", Outside, FALSE)}

NoParts == Package(<<>>, <<>>)

Packages ==
    {Package(parts, rels) : parts \in SomeParts, rels \in SeqOf(SomeRelationships, 2)}
    \cup {[NoParts EXCEPT !.container = "truncated"], [NoParts EXCEPT !.document = "no body"],
          [NoParts EXCEPT !.contentTypes = FALSE], [NoParts EXCEPT !.container = "raising"]}
    \cup {[pkg EXCEPT !.styles = found] : found \in {"missing", "unreadable"},
             pkg \in {NoParts, Package(<<>>, <<Rel("header", H, FALSE)>>)}}

-------------------------------------------------------------------------------
Names ==
    SeqOf({"a", Space, Dot, Underscore, "/", "control", Reserved, Nul}, 2)
    \cup {s \o t : s \in SeqOf({"a", Space, Dot, Reserved, "/"}, 2), t \in SeqOf({"a", Space, Dot}, 2)}
    \cup {<<"a", "a", Space, Dot, "a">>}

PlainRequest ==
    [name |-> <<"a">>, docx |-> TRUE, limit |-> 9, profile |-> Plainly, package |-> NoParts,
     tree |-> Plain, inherited |-> "desired"]

MCRequests ==
    {[PlainRequest EXCEPT !.name = name] : name \in Names}
    \cup {[PlainRequest EXCEPT !.docx = FALSE], [PlainRequest EXCEPT !.limit = 0]}
    \cup {[PlainRequest EXCEPT !.profile = profile] : profile \in NumericProfiles \cup OddProfiles}
    \cup {[PlainRequest EXCEPT !.package = package] : package \in Packages}
    \cup {[PlainRequest EXCEPT !.tree = doc, !.profile = profile, !.inherited = inherited] :
             doc \in SimpleDocs \cup NestedDocs, profile \in DocProfiles,
             inherited \in {"desired", "other", "unresolved"}}
    \cup {[PlainRequest EXCEPT !.tree = doc, !.profile = profile, !.limit = 1, !.inherited = "other"] :
             doc \in SimpleDocs \cup NestedDocs, profile \in DocProfiles}
===============================================================================
