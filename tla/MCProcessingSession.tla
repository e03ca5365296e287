-------------------------- MODULE MCProcessingSession --------------------------
(***************************************************************************)
(* Two paragraphs: a body paragraph p1 with a run r1, of which all four    *)
(* slots are in play, and a heading p2 whose alignment is. Every site of   *)
(* p1 and r1 takes every state of a small set on its own, so that changes, *)
(* rejections of each kind and undecided values occur in every order.      *)
(***************************************************************************)
EXTENDS ProcessingSession

MCSites == 1 .. 5
MCTargets == {"p1", "r1", "p2"}
MCTargetOf == <<"p1", "p1", "r1", "r1", "p2">>
MCSlotOf == <<"spacing.line", "alignment", "bold", "font_size", "alignment">>
MCClassOf == [t \in MCTargets |-> IF t = "p2" THEN "heading" ELSE "body"]
MCWithin == [t \in MCTargets |-> CASE t = "p1" -> {1, 2, 3, 4}
                                   [] t = "r1" -> {3, 4}
                                   [] t = "p2" -> {5}]
MCAutoValues == {"single", "double"}
MCUnrepresentable == {"huge"}
MCValuesOf ==
    [slot \in Slots |->
        CASE slot = "bold" -> {"on", "off"}
          [] slot = "font_size" -> {"10pt", "12pt", "huge"}
          [] slot = "spacing.line" -> MCAutoValues \cup {"exact 18pt"}
          [] slot = "alignment" -> {"left", "both", "center"}]

At(v, shape) == [status |-> "resolved", value |-> v, declared |-> TRUE, shape |-> shape]
Inherited(v) == [status |-> "resolved", value |-> v, declared |-> FALSE, shape |-> "canonical"]
Absent == [status |-> "absent", value |-> None, declared |-> FALSE, shape |-> "canonical"]
Ambiguous == [status |-> "ambiguous", value |-> None, declared |-> TRUE, shape |-> "duplicate"]

(***************************************************************************)
(* The states a site of the input may be in.                               *)
(***************************************************************************)
InputStates ==
    << {At("single", "canonical"), Inherited("double"), At("double", "duplicate"),
        At("double", "noncanonical"), At("exact 18pt", "canonical")},
       {At("left", "canonical"), At("left", "irregular"), At("left", "noncanonical"),
        Absent},
       {Inherited("on"), At("on", "duplicate"), At("on", "noncanonical"),
        At("off", "canonical")},
       {At("10pt", "canonical"), At("10pt", "irregular"), At("10pt", "noncanonical"),
        At("12pt", "canonical"), Ambiguous},
       {At("left", "canonical"), At("both", "canonical")} >>

MCPackages ==
    {pkg \in {<<a, b, c, d, e>> :
                 a \in InputStates[1], b \in InputStates[2], c \in InputStates[3],
                 d \in InputStates[4], e \in InputStates[5]} : SharesContainer(pkg)}

(***************************************************************************)
(* Profiles: every exact rule; sets with and without a preferred value and *)
(* a size no attribute can hold; a containment and sets that agree with    *)
(* some inputs; and one that binds only the heading.                       *)
(***************************************************************************)
Exact(v) == [mode |-> "exact", expected |-> v]
OneOf(V, v) == [mode |-> "set", allowed |-> V, preferred |-> v]
Containment == [mode |-> "containment"]

Rules(line, alignment, bold, size) ==
    [slot \in Slots |-> CASE slot = "spacing.line" -> line
                          [] slot = "alignment" -> alignment
                          [] slot = "bold" -> bold
                          [] slot = "font_size" -> size]

NoRules == Rules(NoRule, NoRule, NoRule, NoRule)

MCProfileRefs == {"norms 1"}

MCProfiles ==
    [ref : MCProfileRefs,
     rules :
        {[body |-> Rules(Exact("single"), Exact("both"), Exact("off"), Exact("12pt")),
          heading |-> Rules(NoRule, Exact("both"), NoRule, NoRule)],
         [body |-> Rules(OneOf({"single"}, "single"), OneOf({"both", "center"}, None),
                         Exact("off"), Exact("huge")),
          heading |-> Rules(NoRule, OneOf({"left", "both"}, "both"), NoRule, NoRule)],
         [body |-> Rules(Containment, OneOf({"center", "left"}, "center"), NoRule,
                         OneOf({"12pt"}, "12pt")),
          heading |-> NoRules],
         [body |-> NoRules,
          heading |-> Rules(Exact("double"), Exact("both"), NoRule, NoRule)]}]

MCLimits == {1, 2, 9}
===============================================================================
