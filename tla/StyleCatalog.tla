----------------------------- MODULE StyleCatalog -----------------------------
(***************************************************************************)
(* The catalog of word/styles.xml, read one style at a time, and the       *)
(* levels a paragraph or a run inherits through it. A style is identified  *)
(* by its position; its styleId may be missing or be another style's too.  *)
(***************************************************************************)
EXTENDS FormattingAnalysis, FiniteSets

CONSTANTS
    Entries,     \* the styles a file may define
    MaxStyles,   \* a bound on how many it does
    StyleIds,    \* the identifiers documents refer to
    DocDefaults  \* the bag of the document defaults

VARIABLES
    partStatus,  \* what became of reading the part
    styles       \* its styles so far, in document order

vars == <<partStatus, styles>>

NoId == "no id"

EmptyId == ""

StyleTypes == {"paragraph", "character"}

(***************************************************************************)
(* find_styles: the definitions of an identifier, of which the first is    *)
(* what the identifier refers to. Faulty: the last one is.                 *)
(***************************************************************************)
Definitions(sheet, id) == {i \in DOMAIN sheet : sheet[i].id = id}

IsDefined(sheet, id) == id # NoId /\ Definitions(sheet, id) # {}

LatestReferent(sheet, id) == Max(Definitions(sheet, id))

Referent(sheet, id) == Min(Definitions(sheet, id))

Defaults(sheet, type) == {i \in DOMAIN sheet : sheet[i].default /\ sheet[i].type = type}

-------------------------------------------------------------------------------
(***************************************************************************)
(* Whether a style has a parent the chain goes on with: one that is        *)
(* defined and of the type expected. A chain ends at the empty identifier, *)
(* although a style may have it and be referred to by it.                  *)
(***************************************************************************)
HasParent(sheet, i, type) ==
    /\ sheet[i].basedOn # EmptyId
    /\ IsDefined(sheet, sheet[i].basedOn)
    /\ sheet[Referent(sheet, sheet[i].basedOn)].type = type

ParentStyle(sheet, i) == Referent(sheet, sheet[i].basedOn)

Chain(members, blocked) == [members |-> members, blocked |-> blocked]

(***************************************************************************)
(* Faulty: a cycle only loses the style that closes it.                    *)
(***************************************************************************)
ClosedKeepingMembers(members, first) == Chain(members, TRUE)

(***************************************************************************)
(* A chain that comes back to an identifier it has visited keeps what was  *)
(* before it, and ends in a blocked level.                                 *)
(***************************************************************************)
Closed(members, first) == Chain(SubSeq(members, 1, first - 1), TRUE)

Extended(sheet, chain, type) ==
    LET members == chain.members
        parent == ParentStyle(sheet, members[Len(members)])
        visited == {n \in DOMAIN members : sheet[members[n]].id = sheet[parent].id}
    IN  IF chain.blocked \/ ~HasParent(sheet, members[Len(members)], type) THEN chain
        ELSE IF visited # {} THEN Closed(members, Min(visited))
        ELSE Chain(Append(members, parent), FALSE)

(***************************************************************************)
(* _style_chain_levels: the styles from one on along basedOn. Every style  *)
(* but the first is the referent of its identifier, so that the walk ends  *)
(* within as many steps as there are styles.                               *)
(***************************************************************************)
ChainFrom(sheet, start, type) ==
    LET walk[n \in 0 .. Len(sheet)] ==
            IF n = 0 THEN Chain(<<start>>, FALSE) ELSE Extended(sheet, walk[n - 1], type)
    IN  walk[Len(sheet)]

(***************************************************************************)
(* _resolve_start_style: an explicit reference that is not defined, or not *)
(* of the type, is ignored; without a reference a paragraph has the last   *)
(* default style.                                                          *)
(***************************************************************************)
Start(sheet, ref, type) ==
    IF ref # NoId
    THEN {i \in Definitions(sheet, ref) : i = Referent(sheet, ref) /\ sheet[i].type = type}
    ELSE IF type = "paragraph" /\ Defaults(sheet, type) # {} THEN {Max(Defaults(sheet, type))}
    ELSE {}

ChainOf(sheet, ref, type) ==
    IF partStatus = "unreadable" THEN Chain(<<>>, TRUE)
    ELSE IF Start(sheet, ref, type) = {} THEN Chain(<<>>, FALSE)
    ELSE ChainFrom(sheet, CHOOSE i \in Start(sheet, ref, type) : TRUE, type)

LevelsOf(sheet, chain) ==
    [i \in DOMAIN chain.members |-> Level(sheet[chain.members[i]].bag)]
        \o (IF chain.blocked THEN <<Blocked>> ELSE <<>>)

DefaultsLevel ==
    IF partStatus = "unreadable" THEN Blocked
    ELSE Level(IF partStatus = "missing" THEN <<>> ELSE DocDefaults)

(***************************************************************************)
(* resolve_run_formatting: what a run inherits from its character style,   *)
(* its paragraph's style and the defaults.                                 *)
(***************************************************************************)
RunLevels(runStyle, paragraphStyle) ==
    LevelsOf(styles, ChainOf(styles, runStyle, "character"))
        \o LevelsOf(styles, ChainOf(styles, paragraphStyle, "paragraph")) \o <<DefaultsLevel>>

-------------------------------------------------------------------------------
Init ==
    /\ partStatus \in {"ok", "missing", "unreadable"}
    /\ styles = <<>>

ReadStyle ==
    /\ partStatus = "ok"
    /\ Len(styles) < MaxStyles
    /\ \E entry \in Entries : styles' = Append(styles, entry)
    /\ UNCHANGED partStatus

Next == ReadStyle

Spec == Init /\ [][Next]_vars

-------------------------------------------------------------------------------
References == StyleIds \cup {NoId}

Typed == {<<ref, type>> : ref \in References, type \in StyleTypes}

(***************************************************************************)
(* A style is in a cycle when it is its own ancestor.                      *)
(***************************************************************************)
InCycle(sheet, i, type) ==
    LET up[n \in 0 .. Len(sheet)] ==
            IF n = 0 THEN {i}
            ELSE {ParentStyle(sheet, j) : j \in {k \in up[n - 1] : HasParent(sheet, k, type)}}
    IN  \E n \in 1 .. Len(sheet) : up[n] = {i}

(***************************************************************************)
(* No style that is its own ancestor contributes to any resolution, and a  *)
(* chain that runs into such a style is blocked there, never cut short as  *)
(* if it had ended (_style_chain_levels).                                  *)
(***************************************************************************)
CyclesDoNotContribute ==
    \A t \in Typed :
        LET chain == ChainOf(styles, t[1], t[2])
            members == chain.members
        IN  /\ \A i \in Range(members) : ~InCycle(styles, i, t[2])
            /\ (~chain.blocked /\ members # <<>>) => ~HasParent(styles, members[Len(members)], t[2])

(***************************************************************************)
(* A style read later takes nothing over: unless it is a default or the    *)
(* first of its identifier, every reference keeps its levels (find_styles, *)
(* decision 0016).                                                         *)
(***************************************************************************)
ReferencesAreNotTakenOver ==
    [][LET entry == styles'[Len(styles')]
       IN  ~entry.default /\ (entry.id = NoId \/ IsDefined(styles, entry.id)) =>
               \A t \in Typed : ChainOf(styles', t[1], t[2]) = ChainOf(styles, t[1], t[2])]_vars

(***************************************************************************)
(* Bold, as a toggle property, is on exactly when an odd number of the     *)
(* inherited levels turn it on, whatever turns it off between them, and is *)
(* never resolved through a blocked level (_resolve_toggle).               *)
(***************************************************************************)
BoldIsParity ==
    \A runStyle, paragraphStyle \in References :
        LET levels == RunLevels(runStyle, paragraphStyle)
            bold == Toggle(<<Level(<<>>)>> \o levels, "b")
            on == {i \in DOMAIN levels : ToggleAt(levels[i], "b") = "on"}
        IN  bold.status = "resolved" =>
                /\ \A i \in DOMAIN levels : ~levels[i].blocked
                /\ bold.value = IF Cardinality(on) % 2 = 1 THEN "on" ELSE "off"

(***************************************************************************)
(* Decision 0018: the chain does not lose levels that are in no cycle. In  *)
(* a style sheet without cycles it keeps them all.                         *)
(***************************************************************************)
OnlyCyclesAreDropped ==
    \A t \in Typed :
        (partStatus = "ok" /\ \A i \in DOMAIN styles : ~InCycle(styles, i, t[2])) =>
            Start(styles, t[1], t[2]) \subseteq Range(ChainOf(styles, t[1], t[2]).members)
===============================================================================
