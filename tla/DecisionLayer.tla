---------------------------- MODULE DecisionLayer ----------------------------
(***************************************************************************)
(* The Decision Layer and the OperationPlan: what the active profile says  *)
(* of each eligible site, and which of those decisions become operations.  *)
(* A Decision or operation reference is a hash of the whole record; it is  *)
(* modelled by the record itself.                                          *)
(***************************************************************************)
EXTENDS Document

CONSTANT ProfileRefs    \* profile identifiers with their versions

RuleModes == {"exact", "set", "containment"}

NoRule == [mode |-> "none"]

(***************************************************************************)
(* The rules FormattingRule and RuleBinding accept for a slot: an exact    *)
(* rule carries its value, a set rule a non-empty set and possibly a       *)
(* preferred member of it; a line spacing is always an auto multiple that  *)
(* the OOXML attribute can hold.                                           *)
(***************************************************************************)
RuleValues(slot) ==
    IF slot = "spacing.line" THEN AutoValues \ Unrepresentable ELSE ValuesOf[slot]

Rule(slot) ==
    LET V == RuleValues(slot)
    IN  [mode : {"exact"}, expected : V]
            \cup {r \in [mode : {"set"}, allowed : SUBSET V, preferred : V \cup {None}] :
                     /\ r.allowed # {}
                     /\ r.preferred = None \/ r.preferred \in r.allowed}
            \cup [mode : {"containment"}]

(***************************************************************************)
(* A profile binds at most one rule to a class and a slot, and at least    *)
(* one rule in all. Everything made under it carries its reference only.   *)
(***************************************************************************)
RuleTable ==
    {rules \in [Classes -> [Slots -> UNION {Rule(slot) : slot \in Slots} \cup {NoRule}]] :
        /\ \A c \in Classes, slot \in Slots : rules[c][slot] \in Rule(slot) \cup {NoRule}
        /\ \E c \in Classes, slot \in Slots : rules[c][slot] # NoRule}

Profile == [ref : ProfileRefs, rules : RuleTable]

Actionability ==
    {"no_action", "deterministic_change", "human_choice", "review", "preserve"}

(***************************************************************************)
(* decide_property for a bound rule: [action, observed, desired].          *)
(***************************************************************************)
Verdict(action, observed, desired) ==
    [actionability |-> action, observed |-> observed, desired |-> desired]

DecideExact(rule, observed) ==
    IF observed = rule.expected
    THEN Verdict("no_action", observed, None)
    ELSE Verdict("deterministic_change", observed, rule.expected)

(***************************************************************************)
(* Faulty: without a preferred value, an allowed one is picked anyway.     *)
(***************************************************************************)
DecideSetPickingOne(rule, observed) ==
    CASE observed \in rule.allowed -> Verdict("no_action", observed, None)
      [] OTHER -> Verdict("deterministic_change", observed, CHOOSE v \in rule.allowed : TRUE)

DecideSet(rule, observed) ==
    CASE observed \in rule.allowed /\ rule.preferred \in {None, observed} ->
             Verdict("no_action", observed, None)
      [] rule.preferred # None /\ rule.preferred # observed ->
             Verdict("deterministic_change", observed, rule.preferred)
      [] OTHER -> Verdict("human_choice", observed, None)

DecideProperty(slot, rule, resolved) ==
    CASE rule.mode = "containment" -> Verdict("preserve", None, None)
      [] rule.mode # "containment" /\ resolved.status # "resolved" ->
             Verdict("review", None, None)
      [] /\ rule.mode # "containment" /\ resolved.status = "resolved"
         /\ slot = "spacing.line" /\ resolved.value \notin AutoValues ->
             Verdict("human_choice", resolved.value, None)
      [] OTHER -> IF rule.mode = "exact" THEN DecideExact(rule, resolved.value)
                                         ELSE DecideSet(rule, resolved.value)

RuleFor(profile, s) ==
    IF ClassOf[TargetOf[s]] = Unclassified THEN NoRule
    ELSE profile.rules[ClassOf[TargetOf[s]]][SlotOf[s]]

(***************************************************************************)
(* _build_decisions: one Decision per classified target and bound rule, in *)
(* document order (the order of the sites). It names its target by path,   *)
(* physical hash and class, so it is tied to what the target contained.    *)
(***************************************************************************)
DecidedSites(profile) == {s \in Sites : RuleFor(profile, s) # NoRule}

Decision(pkg, profile, s) ==
    [site    |-> s,
     hash    |-> PhysicalHash(pkg, TargetOf[s]),
     profile |-> profile.ref,
     verdict |-> DecideProperty(SlotOf[s], RuleFor(profile, s), pkg[s])]

Decisions(pkg, profile) == {Decision(pkg, profile, s) : s \in DecidedSites(profile)}

IsDeterministic(d) == d.verdict.actionability = "deterministic_change"

(***************************************************************************)
(* The planner refuses (raises on) a contradictory deterministic Decision  *)
(* and plans every other one; it never looks at the reason.                *)
(***************************************************************************)
ContradictsContract(d) ==
    /\ IsDeterministic(d)
    /\ \/ d.verdict.observed = None
       \/ d.verdict.desired = None
       \/ d.verdict.observed = d.verdict.desired
       \/ SlotOf[d.site] = "spacing.line" /\ d.verdict.observed \notin AutoValues

PlannedOperation(d) ==
    [site         |-> d.site,
     hash         |-> d.hash,
     precondition |-> d.verdict.observed,
     desired      |-> d.verdict.desired,
     decision     |-> d]

Operations(decisions) == {PlannedOperation(d) : d \in {e \in decisions : IsDeterministic(e)}}

(***************************************************************************)
(* The plan is anchored to the package whose PhysicalIR produced it and,   *)
(* by source_decisions_hash, to all the decisions it was built from.       *)
(***************************************************************************)
OperationPlan(pkg, decisions) ==
    [source |-> pkg, decisions |-> decisions, operations |-> Operations(decisions)]
===============================================================================
