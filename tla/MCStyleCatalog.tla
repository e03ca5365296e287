---------------------------- MODULE MCStyleCatalog ----------------------------
(***************************************************************************)
(* Style sheets of three styles over two identifiers and the empty one:    *)
(* paragraph styles, default or not, and character styles, turning bold    *)
(* on, off or neither. "a" is the identifier of a built-in heading; a      *)
(* style that says nothing of bold is a custom one. Any identifier may be  *)
(* what a style is based on. The walks may look at all three styles.       *)
(***************************************************************************)
EXTENDS Classification, TLC

MCStyleIds == {"a", "b", EmptyId}
Named == MCStyleIds \ {EmptyId}
MCMaxStyles == 3

Bold(attrs) == <<[tag |-> "b", attrs |-> attrs, nested |-> FALSE]>>
On == Bold(<<>>)
Off == Bold([val |-> "0"])

MCDocDefaults == On

MCBuiltinClass == "a" :> "heading"
MCMaxChainDepth == 2

Style(id, type, default, basedOn, bag) ==
    [id |-> id, type |-> type, default |-> default, basedOn |-> basedOn, bag |-> bag,
     custom |-> bag = <<>>]

MCEntries ==
    {Style(id, "paragraph", default, basedOn, bag) : id \in Named, default \in BOOLEAN,
        basedOn \in Named \cup {NoId}, bag \in {On, Off, <<>>}}
    \cup {Style(NoId, "paragraph", TRUE, basedOn, On) : basedOn \in Named}
    \cup {Style(id, "character", FALSE, basedOn, On) : id \in Named,
             basedOn \in Named \cup {NoId}}
    \cup {Style("b", "paragraph", default, EmptyId, Off) : default \in BOOLEAN}
    \cup {Style(EmptyId, "paragraph", default, basedOn, On) : default \in BOOLEAN,
             basedOn \in Named}

MCSizes == <<>>
MCMultiples == <<>>
MCFixed == "fixed"
===============================================================================
