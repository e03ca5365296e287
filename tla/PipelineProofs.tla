---------------------------- MODULE PipelineProofs ----------------------------
(***************************************************************************)
(* What the Decision Layer, the plan, the gate and the patcher guarantee   *)
(* as functions, for every document and every profile: the facts the       *)
(* theorems about the session and about the protocol rest on.              *)
(***************************************************************************)
EXTENDS GateAndPatch, TLAPS

(***************************************************************************)
(* A site is decided by a rule its slot admits.                            *)
(***************************************************************************)
LEMMA RuleForType ==
    ASSUME NEW profile \in Profile, NEW s \in DecidedSites(profile)
    PROVE  s \in Sites /\ RuleFor(profile, s) \in Rule(SlotOf[s])
<1>1. s \in Sites /\ RuleFor(profile, s) # NoRule
  BY DEF DecidedSites
<1>2. ClassOf[TargetOf[s]] \in Classes
  <2>1. TargetOf[s] \in Targets
    BY <1>1, DocumentAssumption
  <2>2. ClassOf[TargetOf[s]] \in Classes \cup {Unclassified}
    BY <2>1, DocumentAssumption
  <2>3. ClassOf[TargetOf[s]] # Unclassified
    BY <1>1 DEF RuleFor
  <2> QED BY <2>2, <2>3
<1>3. RuleFor(profile, s) = profile.rules[ClassOf[TargetOf[s]]][SlotOf[s]]
  BY <1>2 DEF RuleFor, Classes, Unclassified
<1>4. SlotOf[s] \in Slots
  BY <1>1, DocumentAssumption
<1>5. profile.rules[ClassOf[TargetOf[s]]][SlotOf[s]] \in Rule(SlotOf[s]) \cup {NoRule}
  BY <1>2, <1>4 DEF Profile, RuleTable
<1> QED BY <1>1, <1>3, <1>5

(***************************************************************************)
(* The two ways a rule can name a value to write.                          *)
(***************************************************************************)
LEMMA DesiredValue ==
    ASSUME NEW profile \in Profile, NEW s \in DecidedSites(profile),
           NEW resolved \in SlotState(SlotOf[s]),
           DecideProperty(SlotOf[s], RuleFor(profile, s), resolved).actionability
               = "deterministic_change"
    PROVE  LET verdict == DecideProperty(SlotOf[s], RuleFor(profile, s), resolved)
               rule == RuleFor(profile, s)
           IN  /\ resolved.status = "resolved"
               /\ verdict.observed = resolved.value
               /\ verdict.desired # resolved.value
               /\ verdict.desired \in RuleValues(SlotOf[s])
               /\ \/ rule.mode = "exact" /\ verdict.desired = rule.expected
                  \/ /\ rule.mode = "set" /\ verdict.desired = rule.preferred
                     /\ rule.preferred # None
               /\ SlotOf[s] = "spacing.line" => resolved.value \in AutoValues
<1> DEFINE rule == RuleFor(profile, s)
           verdict == DecideProperty(SlotOf[s], rule, resolved)
<1>1. rule \in Rule(SlotOf[s]) /\ s \in Sites
  BY RuleForType
<1>2. rule.mode # "containment" /\ resolved.status = "resolved"
      /\ ~(SlotOf[s] = "spacing.line" /\ resolved.value \notin AutoValues)
  BY DEF DecideProperty, Verdict
<1>3. CASE rule.mode = "exact"
  <2>1. rule.expected \in RuleValues(SlotOf[s])
    BY <1>1, <1>3 DEF Rule
  <2>2. verdict = DecideExact(rule, resolved.value)
    BY <1>2, <1>3 DEF DecideProperty
  <2> QED BY <1>2, <1>3, <2>1, <2>2 DEF DecideExact, Verdict
<1>4. CASE rule.mode = "set"
  <2>1. /\ rule.allowed \subseteq RuleValues(SlotOf[s])
        /\ rule.preferred = None \/ rule.preferred \in rule.allowed
    BY <1>1, <1>4 DEF Rule
  <2>2. verdict = DecideSet(rule, resolved.value)
    BY <1>2, <1>4 DEF DecideProperty
  <2>3. /\ rule.preferred # None /\ rule.preferred # resolved.value
        /\ verdict = Verdict("deterministic_change", resolved.value, rule.preferred)
    BY <2>2 DEF DecideSet, Verdict
  <2> QED BY <1>2, <1>4, <2>1, <2>3 DEF Verdict
<1>5. rule.mode \in {"exact", "set"}
  BY <1>1, <1>2 DEF Rule
<1> QED BY <1>3, <1>4, <1>5

(***************************************************************************)
(* A value once written satisfies the rule that asked for it.              *)
(***************************************************************************)
LEMMA DesiredSettles ==
    ASSUME NEW profile \in Profile, NEW s \in DecidedSites(profile),
           NEW resolved \in SlotState(SlotOf[s]), NEW after,
           after.status = "resolved",
           LET verdict == DecideProperty(SlotOf[s], RuleFor(profile, s), resolved)
           IN  /\ verdict.actionability = "deterministic_change"
               /\ after.value = verdict.desired
    PROVE  DecideProperty(SlotOf[s], RuleFor(profile, s), after).actionability = "no_action"
<1> DEFINE rule == RuleFor(profile, s)
           verdict == DecideProperty(SlotOf[s], rule, resolved)
<1>1. rule \in Rule(SlotOf[s])
  BY RuleForType
<1>2. /\ after.value \in RuleValues(SlotOf[s])
      /\ \/ rule.mode = "exact" /\ after.value = rule.expected
         \/ rule.mode = "set" /\ after.value = rule.preferred /\ rule.preferred # None
  BY DesiredValue
<1>3. SlotOf[s] = "spacing.line" => after.value \in AutoValues
  BY <1>2 DEF RuleValues
<1>4. CASE rule.mode = "exact"
  BY <1>2, <1>3, <1>4 DEF DecideProperty, DecideExact, Verdict
<1>5. CASE rule.mode = "set"
  <2>1. rule.preferred \in rule.allowed
    BY <1>1, <1>2, <1>5 DEF Rule
  <2>2. DecideSet(rule, after.value) = Verdict("no_action", after.value, None)
    BY <1>2, <1>5, <2>1 DEF DecideSet
  <2> QED BY <1>3, <1>5, <2>2 DEF DecideProperty, Verdict
<1> QED BY <1>2, <1>4, <1>5

(***************************************************************************)
(* The operations planned from a package: one per deterministic decision,  *)
(* each from the value the package has to the one its rule names.          *)
(***************************************************************************)
LEMMA PlannedOperations ==
    ASSUME NEW profile \in Profile, NEW pkg \in Package,
           NEW op \in Operations(Decisions(pkg, profile))
    PROVE  /\ op.site \in DecidedSites(profile)
           /\ op.decision = Decision(pkg, profile, op.site)
           /\ op = PlannedOperation(Decision(pkg, profile, op.site))
           /\ op.hash = PhysicalHash(pkg, TargetOf[op.site])
           /\ op.precondition = pkg[op.site].value
           /\ pkg[op.site].status = "resolved"
           /\ op.desired # pkg[op.site].value
           /\ op.desired \in RuleValues(SlotOf[op.site])
           /\ LET verdict == DecideProperty(SlotOf[op.site], RuleFor(profile, op.site),
                                            pkg[op.site])
              IN  /\ verdict.actionability = "deterministic_change"
                  /\ verdict.desired = op.desired
<1>1. PICK d \in Decisions(pkg, profile) : IsDeterministic(d) /\ op = PlannedOperation(d)
  BY DEF Operations
<1>2. PICK s \in DecidedSites(profile) : d = Decision(pkg, profile, s)
  BY <1>1 DEF Decisions
<1> DEFINE verdict == DecideProperty(SlotOf[s], RuleFor(profile, s), pkg[s])
<1>3. /\ op.site = s
      /\ op.decision = d
      /\ op.hash = PhysicalHash(pkg, TargetOf[s])
      /\ op.precondition = verdict.observed
      /\ op.desired = verdict.desired
      /\ verdict.actionability = "deterministic_change"
  BY <1>1, <1>2 DEF PlannedOperation, Decision, IsDeterministic
<1>4. s \in Sites /\ pkg[s] \in SlotState(SlotOf[s])
  BY <1>2, RuleForType DEF Package
<1>5. /\ pkg[s].status = "resolved"
      /\ verdict.observed = pkg[s].value
      /\ verdict.desired # pkg[s].value
      /\ verdict.desired \in RuleValues(SlotOf[s])
  BY <1>2, <1>3, <1>4, DesiredValue
<1> QED BY <1>1, <1>2, <1>3, <1>5

(***************************************************************************)
(* What a decision says depends on the state of its own site only.         *)
(***************************************************************************)
LEMMA OperationIsPlanned ==
    ASSUME NEW profile, NEW pkg, NEW s \in DecidedSites(profile),
           DecideProperty(SlotOf[s], RuleFor(profile, s), pkg[s]).actionability
               = "deterministic_change"
    PROVE  PlannedOperation(Decision(pkg, profile, s)) \in Operations(Decisions(pkg, profile))
<1>1. Decision(pkg, profile, s) \in Decisions(pkg, profile)
  BY DEF Decisions
<1>2. IsDeterministic(Decision(pkg, profile, s))
  BY DEF IsDeterministic, Decision
<1> QED BY <1>1, <1>2 DEF Operations

(***************************************************************************)
(* The decisions of a package never contradict the planner's contract.     *)
(***************************************************************************)
LEMMA DecisionsHonourContract ==
    ASSUME NEW profile \in Profile, NEW pkg \in Package,
           NEW d \in Decisions(pkg, profile)
    PROVE  ~ContradictsContract(d)
<1>1. PICK s \in DecidedSites(profile) : d = Decision(pkg, profile, s)
  BY DEF Decisions
<1>2. s \in Sites /\ pkg[s] \in SlotState(SlotOf[s]) /\ SlotOf[s] \in Slots
  BY RuleForType, DocumentAssumption DEF Package
<1> DEFINE verdict == DecideProperty(SlotOf[s], RuleFor(profile, s), pkg[s])
<1>3. d.site = s /\ d.verdict = verdict
  BY <1>1 DEF Decision
<1>4. SUFFICES ASSUME IsDeterministic(d)
               PROVE  ~ContradictsContract(d)
  BY DEF ContradictsContract
<1>5. /\ pkg[s].status = "resolved"
      /\ verdict.observed = pkg[s].value
      /\ verdict.desired # pkg[s].value
      /\ verdict.desired \in RuleValues(SlotOf[s])
      /\ SlotOf[s] = "spacing.line" => pkg[s].value \in AutoValues
  BY <1>2, <1>3, <1>4, DesiredValue DEF IsDeterministic
<1>6. pkg[s].value \in ValuesOf[SlotOf[s]]
  BY <1>2, <1>5 DEF SlotState
<1>7. RuleValues(SlotOf[s]) \subseteq ValuesOf[SlotOf[s]]
  BY DocumentAssumption DEF RuleValues
<1>8. verdict.observed # None /\ verdict.desired # None
  BY <1>2, <1>5, <1>6, <1>7, DocumentAssumption
<1> QED BY <1>3, <1>5, <1>8 DEF ContradictsContract

(***************************************************************************)
(* The gate vetoes nothing on the package and the profile it was planned   *)
(* from, and the patcher does not find that package drifted.               *)
(***************************************************************************)
LEMMA OwnPackageIsCleared ==
    ASSUME NEW profile \in Profile, NEW pkg \in Package,
           NEW op \in Operations(Decisions(pkg, profile))
    PROVE  LET decisions == Decisions(pkg, profile)
               plan == OperationPlan(pkg, decisions)
           IN  GateResult(op, plan, decisions, pkg, profile) = Cleared
<1> DEFINE decisions == Decisions(pkg, profile)
           plan == OperationPlan(pkg, decisions)
<1>1. plan.source = pkg
  BY DEF OperationPlan
<1>2. \A d \in decisions : d.profile = profile.ref
  BY DEF Decisions, Decision
<1>3. GlobalVeto(plan, decisions, pkg, profile) = Cleared
  <2> HIDE DEF plan, decisions
  <2> QED BY <1>1, <1>2 DEF GlobalVeto
<1>4. LocalVeto(op, pkg) = Cleared
  <2>1. /\ op.hash = PhysicalHash(pkg, TargetOf[op.site])
        /\ op.precondition = pkg[op.site].value
        /\ pkg[op.site].status = "resolved"
    BY PlannedOperations
  <2> QED BY <2>1 DEF LocalVeto
<1> QED BY <1>3, <1>4 DEF GateResult

(***************************************************************************)
(* mutate_run and mutate_paragraph either apply or give a rejection that   *)
(* is about the physical shape.                                            *)
(***************************************************************************)
LEMMA ShapeOutcomes ==
    ASSUME NEW state, NEW slot, NEW desired
    PROVE  ShapeOutcome(state, slot, desired) \in PhysicalRejections \cup {Applied}
BY DEF ShapeOutcome, PhysicalRejections

(***************************************************************************)
(* A package stays a package under a patch to a value of the slot.         *)
(***************************************************************************)
LEMMA PatchedIsPackage ==
    ASSUME NEW pkg \in Package, NEW op, op.site \in Sites,
           op.desired \in ValuesOf[SlotOf[op.site]]
    PROVE  /\ Patched(pkg, op) \in Package
           /\ \A t \in Sites : t # op.site => Patched(pkg, op)[t] = pkg[t]
           /\ Patched(pkg, op)[op.site].status = "resolved"
           /\ Patched(pkg, op)[op.site].value = op.desired
           /\ Patched(pkg, op)[op.site].declared = TRUE
           /\ Patched(pkg, op)[op.site].shape = pkg[op.site].shape
<1> DEFINE s == op.site
           state == [pkg[s] EXCEPT !.status = "resolved", !.value = op.desired,
                                   !.declared = TRUE]
           after == Patched(pkg, op)
<1>1. SlotOf[s] \in Slots /\ pkg[s] \in SlotState(SlotOf[s]) /\ s \in DOMAIN pkg
  BY DocumentAssumption DEF Package
<1>2. /\ state \in SlotState(SlotOf[s])
      /\ state.status = "resolved"
      /\ state.value = op.desired
      /\ state.declared = TRUE
      /\ state.shape = pkg[s].shape
  BY <1>1 DEF SlotState
<1>3. after = [pkg EXCEPT ![s] = state]
  BY DEF Patched
<1>4. after[s] = state /\ (\A t \in Sites : t # s => after[t] = pkg[t])
      /\ after \in [Sites -> UNION {SlotState(slot) : slot \in Slots}]
  <2> HIDE DEF state, after
  <2> QED BY <1>1, <1>2, <1>3 DEF Package
<1>5. \A t \in Sites : after[t] \in SlotState(SlotOf[t]) /\ after[t].shape = pkg[t].shape
  <2> HIDE DEF state, after
  <2> QED BY <1>2, <1>4 DEF Package
<1>6. SharesContainer(after)
  <2> HIDE DEF state, after
  <2> QED BY <1>5 DEF Package, SharesContainer
<1>7. after \in Package
  <2> HIDE DEF state, after
  <2> QED BY <1>4, <1>5, <1>6 DEF Package
<1> QED BY <1>2, <1>4, <1>7

(***************************************************************************)
(* The reports of the gate: a token is for the package it was cleared on,  *)
(* which is the one the plan was made from.                                *)
(***************************************************************************)
LEMMA TokensOfAReport ==
    ASSUME NEW plan, NEW decisions, NEW pkg, NEW activeProfile,
           NEW token \in ClearedOperations(plan, decisions, pkg, activeProfile)
    PROVE  /\ token.snapshot = pkg
           /\ token.operation \in plan.operations
           /\ pkg = plan.source
           /\ \A d \in decisions : d.profile = activeProfile.ref
<1>1. PICK op \in plan.operations :
          /\ token = Token(op, pkg)
          /\ GateResult(op, plan, decisions, pkg, activeProfile) = Cleared
  BY DEF ClearedOperations
<1>2. GlobalVeto(plan, decisions, pkg, activeProfile) = Cleared
  BY <1>1 DEF GateResult
<1>3. pkg = plan.source /\ (\A d \in decisions : d.profile = activeProfile.ref)
  BY <1>2 DEF GlobalVeto, Cleared
<1> QED BY <1>1, <1>3 DEF Token

(***************************************************************************)
(* On the snapshot of its token a planned operation meets no drift: only   *)
(* the shape of the XML decides.                                           *)
(***************************************************************************)
LEMMA OutcomeOnOwnSnapshot ==
    ASSUME NEW profile \in Profile, NEW pkg \in Package, NEW token,
           token.snapshot = pkg,
           token.operation \in Operations(Decisions(pkg, profile))
    PROVE  PatchOutcome(pkg, token)
               = ShapeOutcome(pkg[token.operation.site], SlotOf[token.operation.site],
                              token.operation.desired)
<1>1. token.operation.hash = PhysicalHash(pkg, TargetOf[token.operation.site])
  BY PlannedOperations
<1> QED BY <1>1 DEF PatchOutcome

(***************************************************************************)
(* Applying a planned operation gives another package.                     *)
(***************************************************************************)
LEMMA PatchedDiffers ==
    ASSUME NEW profile \in Profile, NEW pkg \in Package,
           NEW op \in Operations(Decisions(pkg, profile))
    PROVE  Patched(pkg, op) \in Package /\ Patched(pkg, op) # pkg
<1>1. /\ op.site \in DecidedSites(profile)
      /\ op.desired # pkg[op.site].value
      /\ op.desired \in RuleValues(SlotOf[op.site])
  BY PlannedOperations
<1>2. op.site \in Sites /\ SlotOf[op.site] \in Slots
  BY <1>1, RuleForType, DocumentAssumption
<1>3. RuleValues(SlotOf[op.site]) \subseteq ValuesOf[SlotOf[op.site]]
  BY DocumentAssumption DEF RuleValues
<1>4. Patched(pkg, op) \in Package /\ Patched(pkg, op)[op.site].value = op.desired
  BY <1>1, <1>2, <1>3, PatchedIsPackage
<1> QED BY <1>1, <1>4

(***************************************************************************)
(* Every other site is as before.                                          *)
(***************************************************************************)
LEMMA PatchedElsewhere ==
    ASSUME NEW profile \in Profile, NEW pkg \in Package,
           NEW op \in Operations(Decisions(pkg, profile)),
           NEW t \in Sites, t # op.site
    PROVE  Patched(pkg, op)[t] = pkg[t]
<1>1. op.site \in Sites
  BY PlannedOperations, RuleForType
<1> QED BY <1>1 DEF Patched, Package

(***************************************************************************)
(* The site itself now declares the desired value, and its rule is         *)
(* satisfied with it.                                                      *)
(***************************************************************************)
Declaring(state, v) == [state EXCEPT !.value = v, !.declared = TRUE]

LEMMA PatchedSite ==
    ASSUME NEW profile \in Profile, NEW pkg \in Package,
           NEW op \in Operations(Decisions(pkg, profile))
    PROVE  Patched(pkg, op)[op.site] = Declaring(pkg[op.site], op.desired)
<1>1. op.site \in Sites /\ pkg[op.site].status = "resolved"
  BY PlannedOperations, RuleForType
<1>2. op.site \in DOMAIN pkg /\ pkg[op.site] \in SlotState(SlotOf[op.site])
  BY <1>1 DEF Package
<1>3. Patched(pkg, op)[op.site]
          = [pkg[op.site] EXCEPT !.status = "resolved", !.value = op.desired,
                                 !.declared = TRUE]
  BY <1>2 DEF Patched
<1> QED BY <1>1, <1>2, <1>3 DEF SlotState, Declaring

LEMMA PatchedSettles ==
    ASSUME NEW profile \in Profile, NEW pkg \in Package,
           NEW op \in Operations(Decisions(pkg, profile))
    PROVE  DecideProperty(SlotOf[op.site], RuleFor(profile, op.site),
                          Patched(pkg, op)[op.site]).actionability = "no_action"
<1>1. op.site \in DecidedSites(profile) /\ op.site \in Sites
      /\ pkg[op.site].status = "resolved"
      /\ pkg[op.site] \in SlotState(SlotOf[op.site])
  BY PlannedOperations, RuleForType DEF Package
<1>2. LET verdict == DecideProperty(SlotOf[op.site], RuleFor(profile, op.site),
                                    pkg[op.site])
      IN  /\ verdict.actionability = "deterministic_change"
          /\ verdict.desired = op.desired
  BY PlannedOperations
<1>3. Patched(pkg, op)[op.site].status = "resolved"
      /\ Patched(pkg, op)[op.site].value = op.desired
  BY <1>1 DEF Patched, Package, SlotState
<1> QED BY <1>1, <1>2, <1>3, DesiredSettles
===============================================================================
