---------------------------- MODULE MCPlanGatePatch ----------------------------
(***************************************************************************)
(* One body paragraph with its alignment and a run with bold and size.     *)
(* The packages differ in what the paragraph and the run declare and in    *)
(* what they inherit from the styles; two versions of the norms.           *)
(***************************************************************************)
EXTENDS PlanGatePatch

MCSites == 1 .. 3
MCTargets == {"p1", "r1"}
MCTargetOf == <<"p1", "r1", "r1">>
MCSlotOf == <<"alignment", "bold", "font_size">>
MCClassOf == [t \in MCTargets |-> "body"]
MCWithin == [p1 |-> {1, 2, 3}, r1 |-> {2, 3}]
MCAutoValues == {}
MCUnrepresentable == {"huge"}
MCValuesOf ==
    [slot \in Slots |->
        CASE slot = "bold" -> {"on", "off"}
          [] slot = "font_size" -> {"10pt", "12pt", "huge"}
          [] slot = "spacing.line" -> {}
          [] slot = "alignment" -> {"left", "both"}]
MCProfileRefs == {"norms 1", "norms 2"}

At(v, declared) ==
    [status |-> "resolved", value |-> v, declared |-> declared, shape |-> "canonical"]

MCPackages ==
    {<<At("left", TRUE), At("on", b), size>> : b \in BOOLEAN,
        size \in {At("10pt", FALSE), At("12pt", FALSE), At("10pt", TRUE),
                  [At("10pt", TRUE) EXCEPT !.shape = "duplicate"]}}
    \cup {<<At("left", FALSE), At("off", FALSE), At("10pt", FALSE)>>,
          <<At("both", FALSE), At("off", FALSE), At("10pt", FALSE)>>}

Exact(v) == [mode |-> "exact", expected |-> v]

Rules(alignment, bold, size) ==
    [body |-> [slot \in Slots |-> CASE slot = "spacing.line" -> NoRule
                                    [] slot = "alignment" -> alignment
                                    [] slot = "bold" -> bold
                                    [] slot = "font_size" -> size],
     heading |-> [slot \in Slots |-> NoRule]]

MCProfiles ==
    {[ref |-> "norms 1", rules |-> Rules(Exact("both"), Exact("off"), Exact("12pt"))],
     [ref |-> "norms 2", rules |-> Rules(NoRule, Exact("off"),
                                         [mode |-> "set", allowed |-> {"10pt", "huge"},
                                          preferred |-> "huge"])]}
===============================================================================
