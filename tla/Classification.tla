---------------------------- MODULE Classification ----------------------------
(***************************************************************************)
(* The class of a paragraph: what its style is, found by a walk along      *)
(* basedOn of its own, beside the one that resolves its formatting.        *)
(***************************************************************************)
EXTENDS StyleCatalog

CONSTANTS
    BuiltinClass,   \* the class of each built-in paragraph style
    MaxChainDepth   \* _MAX_CHAIN_DEPTH: how often the walk goes on

(***************************************************************************)
(* A reference to a style that is there and cannot be used: written twice, *)
(* with two values, or without one.                                        *)
(***************************************************************************)
Ambiguous == "ambiguous reference"

ASSUME DepthAssumption == MaxChainDepth \in Nat

ASSUME StyleIdsAssumption == NoId \notin StyleIds /\ Ambiguous \notin StyleIds

Paragraph == [story : {"body", "other"}, text : BOOLEAN, contained : BOOLEAN,
              ref : StyleIds \cup {NoId, Ambiguous}]

(***************************************************************************)
(* _builtin_identity: a paragraph style that is not marked as custom and   *)
(* has the identifier of a built-in one. Its name plays no part.           *)
(***************************************************************************)
IsBuiltin(entry) ==
    entry.type = "paragraph" /\ ~entry.custom /\ entry.id \in DOMAIN BuiltinClass

(***************************************************************************)
(* resolve_style_identity, one identifier at a time: the walk ends in a    *)
(* built-in style, in a style based on nothing, or broken. The empty       *)
(* identifier is one like any other here.                                  *)
(***************************************************************************)
At(id, visited) == [id |-> id, visited |-> visited, outcome |-> "walking"]

Hop(sheet, walk) ==
    LET entry == sheet[Referent(sheet, walk.id)]
        ends(outcome) == [walk EXCEPT !.outcome = outcome]
    IN  IF walk.outcome # "walking" THEN walk
        ELSE IF ~IsDefined(sheet, walk.id) \/ entry.type # "paragraph" THEN ends("broken_chain")
        ELSE IF IsBuiltin(entry) THEN ends("identified")
        ELSE IF entry.basedOn = NoId THEN ends("unrecognized")
        ELSE IF entry.basedOn \in walk.visited THEN ends("broken_chain")
        ELSE At(entry.basedOn, walk.visited \cup {entry.basedOn})

StyleIdentity(sheet, id) ==
    LET walk[n \in 0 .. MaxChainDepth + 1] ==
            IF n = 0 THEN At(id, {id}) ELSE Hop(sheet, walk[n - 1])
        last == walk[MaxChainDepth + 1]
    IN  IF last.outcome = "walking" THEN [last EXCEPT !.outcome = "broken_chain"] ELSE last

(***************************************************************************)
(* The identifier a paragraph is judged by: its own, and without one that  *)
(* of the last default paragraph style. Faulty: of the first.              *)
(***************************************************************************)
IdentifierOf(ref, default) ==
    IF ref \in StyleIds THEN {ref} ELSE IF ref = NoId THEN default ELSE {}

IdentityByFirstDefault(sheet, ref) ==
    IdentifierOf(ref, {sheet[i].id : i \in {j \in Defaults(sheet, "paragraph") :
                          \A k \in Defaults(sheet, "paragraph") : j <= k}} \ {NoId})

IdentityRef(sheet, ref) ==
    IdentifierOf(ref, {sheet[i].id : i \in {j \in Defaults(sheet, "paragraph") :
                          \A k \in Defaults(sheet, "paragraph") : k <= j}} \ {NoId})

Outcome(status, class, reason, warns) ==
    [status |-> status, class |-> class, reason |-> reason, warns |-> warns]

Abstained(reason, warns) == Outcome("abstained", "none", reason, warns)

(***************************************************************************)
(* Whether the analysis of a paragraph says that a style is missing: the   *)
(* one it refers to, or the parent its chain of styles ends at, unless the *)
(* identifier of that parent is empty.                                     *)
(***************************************************************************)
StyleRef(ref) == IF ref = Ambiguous THEN NoId ELSE ref

ReportsMissing(sheet, ref) ==
    LET chain == ChainOf(sheet, StyleRef(ref), "paragraph")
        last == sheet[chain.members[Len(chain.members)]]
        missing(id) == id # NoId /\ ~IsDefined(sheet, id)
    IN  /\ partStatus # "unreadable"
        /\ \/ missing(StyleRef(ref))
           \/ /\ ~chain.blocked /\ chain.members # <<>>
              /\ last.basedOn # EmptyId /\ missing(last.basedOn)

(***************************************************************************)
(* _classify_paragraph: the story, the text, what the paragraph is in and  *)
(* then its style, in this order. A broken chain is warned about unless    *)
(* the analysis has done so.                                               *)
(***************************************************************************)
ByIdentity(sheet, ref, id) ==
    LET walk == StyleIdentity(sheet, id)
    IN  IF walk.outcome = "identified"
        THEN Outcome("classified", BuiltinClass[walk.id], "explicit_style_signal", FALSE)
        ELSE Abstained("insufficient_evidence",
                       walk.outcome = "broken_chain" /\ ~ReportsMissing(sheet, ref))

Classify(sheet, p) ==
    LET identity == IdentityRef(sheet, p.ref)
    IN  IF p.story # "body" THEN Outcome("not_applicable", "none", "unsupported_story", FALSE)
        ELSE IF ~p.text THEN Abstained("empty_content", FALSE)
        ELSE IF p.contained THEN Abstained("unsupported_context", FALSE)
        ELSE IF identity = {} THEN Abstained("insufficient_evidence", FALSE)
        ELSE ByIdentity(sheet, p.ref, CHOOSE id \in identity : TRUE)

-------------------------------------------------------------------------------
(***************************************************************************)
(* The first built-in style among those a paragraph's formatting comes     *)
(* from, as far as the classifier looks; the style that a paragraph        *)
(* without a reference takes is the default itself, which only is what its *)
(* identifier refers to when no style before it has the same one.          *)
(***************************************************************************)
BuiltinsOn(members) ==
    {n \in DOMAIN members : n <= MaxChainDepth + 1 /\ IsBuiltin(styles[members[n]])}

StartsAtReferent(members) ==
    members # <<>> => styles[members[1]].id # NoId /\ members[1] = Referent(styles, styles[members[1]].id)

EndsAtEmptyId(members) ==
    members # <<>> /\ styles[members[Len(members)]].basedOn = EmptyId

(***************************************************************************)
(* A paragraph is never left without the class its formatting comes from,  *)
(* nor given another: two walks along basedOn in two modules, with other   *)
(* orders of their tests, find the same first built-in style wherever they *)
(* see the same chain (identity.py and formatting.py, decisions 0016 and   *)
(* 0022). They do not when a cycle blocks the chain, when a default is not *)
(* what its identifier refers to, or when the last style is based on the   *)
(* empty identifier: the formatting ends there, and a class may come from  *)
(* further on. A paragraph with an ambiguous reference has no class.       *)
(***************************************************************************)
ClassFollowsFormatting ==
    \A p \in Paragraph :
        LET chain == ChainOf(styles, StyleRef(p.ref), "paragraph")
            builtins == BuiltinsOn(chain.members)
            result == Classify(styles, p)
            judged == p.story = "body" /\ p.text /\ ~p.contained /\ p.ref # Ambiguous
        IN  /\ ~judged => result.status # "classified"
            /\ (~chain.blocked /\ StartsAtReferent(chain.members) /\ judged) =>
                   /\ builtins # {} => result.status = "classified"
                   /\ result.status = "classified" =>
                          builtins # {} \/ EndsAtEmptyId(chain.members)
                   /\ \A n \in builtins : (\A k \in builtins : n <= k) =>
                          result.class = BuiltinClass[styles[chain.members[n]].id]
===============================================================================
