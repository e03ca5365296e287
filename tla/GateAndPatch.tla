---------------------------- MODULE GateAndPatch -----------------------------
(***************************************************************************)
(* The SafetyGate and the Patcher as functions of what they are given. The *)
(* gate is a veto: it compares a plan with a current snapshot and an       *)
(* active profile and issues one token per operation it clears. The        *)
(* patcher applies one token to one snapshot, atomically or not at all.    *)
(***************************************************************************)
EXTENDS DecisionLayer

Cleared == "cleared"

(***************************************************************************)
(* The global vetoes, in their order. The parser, analysis and             *)
(* classification versions are those of the running process on both sides, *)
(* so their vetoes cannot fire. `decisions' carry the profile they were    *)
(* made under; an empty tuple carries none.                                *)
(***************************************************************************)
GlobalVetoOnProfileOnly(plan, decisions, pkg, activeProfile) ==  \* faulty
    IF \E d \in decisions : d.profile # activeProfile.ref
    THEN "profile_context_changed" ELSE Cleared

GlobalVetoOnPackageOnly(plan, decisions, pkg, activeProfile) ==  \* faulty
    IF pkg # plan.source THEN "source_document_changed" ELSE Cleared

GlobalVeto(plan, decisions, pkg, activeProfile) ==
    CASE pkg # plan.source -> "source_document_changed"
      [] pkg = plan.source /\ (\E d \in decisions : d.profile # activeProfile.ref) ->
             "profile_context_changed"
      [] OTHER -> Cleared

(***************************************************************************)
(* The local vetoes, in their order. The records of a document are         *)
(* distinct XML nodes and no patch adds or removes a paragraph or a run,   *)
(* so a path always resolves to one record of the right type.              *)
(***************************************************************************)
LocalVeto(op, pkg) ==
    CASE PhysicalHash(pkg, TargetOf[op.site]) # op.hash -> "physical_hash_mismatch"
      [] /\ PhysicalHash(pkg, TargetOf[op.site]) = op.hash
         /\ pkg[op.site].status # "resolved" -> "current_value_unavailable"
      [] /\ PhysicalHash(pkg, TargetOf[op.site]) = op.hash
         /\ pkg[op.site].status = "resolved"
         /\ pkg[op.site].value # op.precondition -> "precondition_mismatch"
      [] OTHER -> Cleared

(***************************************************************************)
(* evaluate_operation_plan raises when the decisions are not those the     *)
(* plan was built from; otherwise it reports one result per operation. A   *)
(* global veto blocks them all and no local check is made.                 *)
(***************************************************************************)
BindsDecisions(plan, decisions) == plan.decisions = decisions

GateResult(op, plan, decisions, pkg, activeProfile) ==
    LET global == GlobalVeto(plan, decisions, pkg, activeProfile)
    IN  IF global # Cleared THEN global ELSE LocalVeto(op, pkg)

Token(op, pkg) == [operation |-> op, snapshot |-> pkg]

ClearedOperations(plan, decisions, pkg, activeProfile) ==
    {Token(op, pkg) : op \in {o \in plan.operations :
        GateResult(o, plan, decisions, pkg, activeProfile) = Cleared}}

-------------------------------------------------------------------------------
Applied == "applied"

Impossible == {"snapshot_hash_mismatch", "unsupported_operation"}

PhysicalRejections ==
    {"noncanonical_run_properties", "duplicate_target_property", "unrepresentable_value"}

(***************************************************************************)
(* mutate_run and mutate_paragraph: the container's shape, then a          *)
(* duplicated property, then the value's lexical form, then the property's *)
(* own attributes and children.                                            *)
(***************************************************************************)
ShapeOutcome(state, slot, desired) ==
    CASE state.shape = "noncanonical" -> "noncanonical_run_properties"
      [] state.shape = "duplicate" -> "duplicate_target_property"
      [] /\ state.shape \in {"canonical", "irregular"}
         /\ slot \in {"font_size", "spacing.line"} /\ desired \in Unrepresentable ->
             "unrepresentable_value"
      [] /\ state.shape = "irregular"
         /\ ~(slot \in {"font_size", "spacing.line"} /\ desired \in Unrepresentable) ->
             "noncanonical_run_properties"
      [] OTHER -> Applied

(***************************************************************************)
(* Faulty: the bytes are not compared with the gated ones; or the target's *)
(* identity alone is.                                                      *)
(***************************************************************************)
PatchOutcomeUncompared(pkg, token) ==
    LET op == token.operation
    IN  IF PhysicalHash(pkg, TargetOf[op.site]) # op.hash THEN "integrity_error"
        ELSE ShapeOutcome(pkg[op.site], SlotOf[op.site], op.desired)

PatchOutcomeByTarget(pkg, token) ==
    LET op == token.operation
    IN  IF PhysicalHash(pkg, TargetOf[op.site]) # op.hash THEN "snapshot_hash_mismatch"
        ELSE ShapeOutcome(pkg[op.site], SlotOf[op.site], op.desired)

(***************************************************************************)
(* apply_cleared_operation: the snapshot first, then the target's identity *)
(* (a drift after a matching snapshot is an integrity error), then the     *)
(* mutation. Every key the planner emits is in the executable slice.       *)
(***************************************************************************)
PatchOutcome(pkg, token) ==
    LET op == token.operation
    IN  CASE pkg # token.snapshot -> "snapshot_hash_mismatch"
          [] pkg = token.snapshot /\ PhysicalHash(pkg, TargetOf[op.site]) # op.hash ->
                 "integrity_error"
          [] OTHER -> ShapeOutcome(pkg[op.site], SlotOf[op.site], op.desired)

(***************************************************************************)
(* Faulty: the value is written without the conversion to its unit; and    *)
(* the property is found along the descendant axis, in other targets too.  *)
(***************************************************************************)
PatchedInWrongUnit(pkg, op) ==
    [pkg EXCEPT ![op.site] = [@ EXCEPT !.value = <<op.desired, "half-points">>]]

PatchedEverywhere(pkg, op) ==
    [s \in Sites |-> IF SlotOf[s] = SlotOf[op.site]
                     THEN [pkg[s] EXCEPT !.value = op.desired, !.declared = TRUE]
                     ELSE pkg[s]]

(***************************************************************************)
(* The package an applied operation produces: the element now declares the *)
(* one property, which resolves to the desired value (the postcondition    *)
(* re-reads it), and the allowed-delta check leaves nothing else changed.  *)
(***************************************************************************)
Patched(pkg, op) ==
    [pkg EXCEPT ![op.site] = [@ EXCEPT !.status = "resolved", !.value = op.desired,
                                          !.declared = TRUE]]
===============================================================================
