-------------------------- MODULE PlanGatePatchProofs --------------------------
(***************************************************************************)
(* Whatever happens to the document and the profile between planning,      *)
(* gating and patching, a token changes the document only as the decision  *)
(* behind it would: the proofs, for every document and every profile.      *)
(***************************************************************************)
EXTENDS PlanGatePatch, PipelineProofs

(***************************************************************************)
(* What old plans and old tokens still are: plans made on some package     *)
(* under some profile, and tokens, all of one report, for operations of    *)
(* such a plan on the very package it was made from.                       *)
(***************************************************************************)
PlansAreDecided ==
    \A plan \in plans :
        /\ plan.source \in Package
        /\ \E p \in Profiles :
               plan = OperationPlan(plan.source, Decisions(plan.source, p))

TokensAreDecided ==
    \A token \in tokens :
        /\ token.snapshot \in Package
        /\ \E p \in Profiles :
               /\ token.operation \in Operations(Decisions(token.snapshot, p))
               /\ token.operation.decision.profile = p.ref

OneSnapshot == \A t, u \in tokens : t.snapshot = u.snapshot

Inv ==
    /\ document \in Package
    /\ profile \in Profiles
    /\ PlansAreDecided
    /\ TokensAreDecided
    /\ OneSnapshot

LEMMA ReportTokens ==
    ASSUME Inv, Gate
    PROVE  \A token \in tokens' :
               /\ token.snapshot = document
               /\ token.operation \in Operations(Decisions(document, profile))
               /\ token.operation.decision.profile = profile.ref
<1>. PICK plan \in plans :
         \E decisions :
             /\ BindsDecisions(plan, decisions)
             /\ tokens' = ClearedOperations(plan, decisions, document, profile)
  BY DEF Gate
<1>1. PICK decisions :
          /\ BindsDecisions(plan, decisions)
          /\ tokens' = ClearedOperations(plan, decisions, document, profile)
  OBVIOUS
<1>2. PICK p \in Profiles : plan = OperationPlan(plan.source, Decisions(plan.source, p))
  BY DEF Inv, PlansAreDecided
<1>3. /\ plan.source \in Package
      /\ plan.decisions = Decisions(plan.source, p)
      /\ plan.operations = Operations(Decisions(plan.source, p))
  BY <1>2 DEF OperationPlan, Inv, PlansAreDecided
<1>4. decisions = Decisions(plan.source, p)
  BY <1>1, <1>3 DEF BindsDecisions
<1>5. SUFFICES ASSUME NEW token \in tokens'
               PROVE  /\ token.snapshot = document
                      /\ token.operation \in Operations(Decisions(document, profile))
                      /\ token.operation.decision.profile = profile.ref
  OBVIOUS
<1>6. /\ token.snapshot = document
      /\ token.operation \in plan.operations
      /\ document = plan.source
      /\ \A d \in decisions : d.profile = profile.ref
  BY <1>1, TokensOfAReport
<1>7. p \in Profile /\ document \in Package
  BY ProtocolAssumption DEF Inv
<1>8. token.operation.decision = Decision(document, p, token.operation.site)
      /\ token.operation.site \in DecidedSites(p)
  BY <1>3, <1>6, <1>7, PlannedOperations
<1>9. token.operation.decision \in decisions
  BY <1>4, <1>6, <1>8 DEF Decisions
<1>10. p.ref = profile.ref
  BY <1>6, <1>8, <1>9 DEF Decision
<1>11. p = profile
  BY <1>10, ProtocolAssumption DEF Inv
<1> QED BY <1>3, <1>6, <1>9, <1>11

LEMMA TokenOnItsDocument ==
    ASSUME Inv, NEW token \in tokens, document = token.snapshot
    PROVE  \E p \in Profiles :
               /\ p \in Profile
               /\ p.ref = token.operation.decision.profile
               /\ token.operation \in Operations(Decisions(document, p))
BY ProtocolAssumption DEF Inv, TokensAreDecided

LEMMA PatchedToken ==
    ASSUME Inv, NEW token \in tokens, Patch(token)
    PROVE  document = token.snapshot
<1>1. PatchOutcome(document, token) = "applied"
  BY DEF Patch, Applied
<1> QED BY <1>1 DEF PatchOutcome

LEMMA InvInit == Init => Inv
BY ProtocolAssumption DEF Init, Inv, PlansAreDecided, TokensAreDecided, OneSnapshot

LEMMA InvNext == Inv /\ [Next]_vars => Inv'
<1> SUFFICES ASSUME Inv, [Next]_vars
             PROVE  Inv'
  OBVIOUS
<1>1. CASE Edit
  BY <1>1, ProtocolAssumption
     DEF Edit, Inv, PlansAreDecided, TokensAreDecided, OneSnapshot
<1>2. CASE ChangeProfile
  BY <1>2 DEF ChangeProfile, Inv, PlansAreDecided, TokensAreDecided, OneSnapshot
<1>3. CASE Plan
  <2>1. PlansAreDecided'
    <3>1. plans' = {OperationPlan(document, Decisions(document, profile))}
      BY <1>3 DEF Plan
    <3>2. OperationPlan(document, Decisions(document, profile)).source = document
      BY DEF OperationPlan
    <3> QED BY <3>1, <3>2 DEF PlansAreDecided, Inv
  <2> QED BY <1>3, <2>1 DEF Plan, Inv, TokensAreDecided, OneSnapshot
<1>4. CASE Gate
  <2>1. TokensAreDecided' /\ OneSnapshot'
    BY <1>4, ReportTokens DEF Inv, TokensAreDecided, OneSnapshot
  <2> QED BY <1>4, <2>1 DEF Gate, Inv, PlansAreDecided
<1>5. ASSUME NEW token \in tokens, Patch(token)
      PROVE  Inv'
  <2>1. document = token.snapshot
    BY <1>5, PatchedToken
  <2>2. PICK p \in Profile : token.operation \in Operations(Decisions(document, p))
    BY <2>1, TokenOnItsDocument
  <2>3. document' \in Package
    BY <1>5, <2>2, PatchedDiffers DEF Patch, Inv
  <2> QED BY <1>5, <2>3
       DEF Patch, Inv, PlansAreDecided, TokensAreDecided, OneSnapshot
<1>6. CASE UNCHANGED vars
  BY <1>6 DEF vars, Inv, PlansAreDecided, TokensAreDecided, OneSnapshot
<1> QED BY <1>1, <1>2, <1>3, <1>4, <1>5, <1>6 DEF Next

LEMMA Invariance == Spec => []Inv
BY InvInit, InvNext, PTL DEF Spec

-------------------------------------------------------------------------------
(***************************************************************************)
(* The state always has its type; a plan and a token always name a         *)
(* package and a profile of this document's.                               *)
(***************************************************************************)
THEOREM TypeCorrectness == Spec => []TypeOK
<1>1. Inv => TypeOK
  <2> SUFFICES ASSUME Inv
               PROVE  TypeOK
    OBVIOUS
  <2>1. ASSUME NEW token \in tokens
        PROVE  token.operation.site \in Sites
               /\ token.operation.decision.profile \in {p.ref : p \in Profiles}
    <3>1. PICK p \in Profiles :
              /\ token.operation \in Operations(Decisions(token.snapshot, p))
              /\ token.operation.decision.profile = p.ref
      BY DEF Inv, TokensAreDecided
    <3>2. token.operation.site \in DecidedSites(p) /\ p \in Profile
      BY <3>1, ProtocolAssumption, PlannedOperations DEF Inv, TokensAreDecided
    <3> QED BY <3>1, <3>2, RuleForType
  <2> QED BY <2>1 DEF Inv, TypeOK, PlansAreDecided, TokensAreDecided
<1> QED BY <1>1, Invariance, PTL

(***************************************************************************)
(* The integrity error of the patcher, a target that drifted behind a      *)
(* matching snapshot, never happens.                                       *)
(***************************************************************************)
THEOREM NoDrift == Spec => []NoDriftBehindSnapshot
<1>1. Inv => NoDriftBehindSnapshot
  <2> SUFFICES ASSUME Inv, NEW token \in tokens
               PROVE  PatchOutcome(document, token) # "integrity_error"
    BY DEF NoDriftBehindSnapshot
  <2>1. CASE document # token.snapshot
    BY <2>1 DEF PatchOutcome
  <2>2. CASE document = token.snapshot
    <3>1. PICK p \in Profile : token.operation \in Operations(Decisions(document, p))
      BY <2>2, TokenOnItsDocument
    <3>2. PatchOutcome(document, token)
              = ShapeOutcome(document[token.operation.site],
                             SlotOf[token.operation.site], token.operation.desired)
      BY <2>2, <3>1, OutcomeOnOwnSnapshot DEF Inv
    <3>3. PatchOutcome(document, token) \in PhysicalRejections \cup {Applied}
      BY <3>2, ShapeOutcomes
    <3> QED BY <3>3 DEF PhysicalRejections, Applied
  <2> QED BY <2>1, <2>2
<1> QED BY <1>1, Invariance, PTL

(***************************************************************************)
(* On the package a plan was made from, the local vetoes never fire.       *)
(***************************************************************************)
THEOREM LocalVetoesAreRedundant == Spec => []CompatibleContextClearsAll
<1>1. Inv => CompatibleContextClearsAll
  <2> SUFFICES ASSUME Inv, NEW plan \in plans,
                      GlobalVeto(plan, plan.decisions, document, profile) = Cleared,
                      NEW op \in plan.operations
               PROVE  LocalVeto(op, document) = Cleared
    BY DEF CompatibleContextClearsAll
  <2>1. document = plan.source
    BY DEF GlobalVeto, Cleared
  <2>2. PICK p \in Profiles : plan = OperationPlan(plan.source, Decisions(plan.source, p))
    BY DEF Inv, PlansAreDecided
  <2>3. op \in Operations(Decisions(document, p)) /\ p \in Profile
    BY <2>1, <2>2, ProtocolAssumption DEF OperationPlan
  <2>4. /\ op.hash = PhysicalHash(document, TargetOf[op.site])
        /\ op.precondition = document[op.site].value
        /\ document[op.site].status = "resolved"
    BY <2>3, PlannedOperations DEF Inv
  <2> QED BY <2>4 DEF LocalVeto
<1> QED BY <1>1, Invariance, PTL

(***************************************************************************)
(* However old the token, executing it makes the change that would be      *)
(* decided now on the document about to be changed.                        *)
(***************************************************************************)
THEOREM PatchesAreStillDecided == Spec => PatchIsStillDecided
<1>1. ASSUME Inv, NEW token \in tokens, Patch(token)
      PROVE  \E p \in Profiles :
                 /\ p.ref = token.operation.decision.profile
                 /\ Decision(document, p, token.operation.site) = token.operation.decision
  <2>1. document = token.snapshot
    BY <1>1, PatchedToken
  <2>2. PICK p \in Profiles :
            /\ p \in Profile
            /\ p.ref = token.operation.decision.profile
            /\ token.operation \in Operations(Decisions(document, p))
    BY <1>1, <2>1, TokenOnItsDocument
  <2>3. token.operation.decision = Decision(document, p, token.operation.site)
    BY <1>1, <2>2, PlannedOperations DEF Inv
  <2> QED BY <2>2, <2>3
<1>2. Inv => \A token \in tokens : Patch(token) =>
                 \E p \in Profiles :
                     /\ p.ref = token.operation.decision.profile
                     /\ Decision(document, p, token.operation.site)
                            = token.operation.decision
  BY <1>1
<1> QED BY <1>2, Invariance, PTL DEF PatchIsStillDecided

(***************************************************************************)
(* Executing one token of a report makes all of them stale.                *)
(***************************************************************************)
THEOREM OnePatchPerReport == Spec => FirstPatchSpendsTheReport
<1>1. ASSUME Inv, NEW token \in tokens, Patch(token), NEW other \in tokens'
      PROVE  PatchOutcome(document', other) = "snapshot_hash_mismatch"
  <2>1. document = token.snapshot
    BY <1>1, PatchedToken
  <2>2. PICK p \in Profile : token.operation \in Operations(Decisions(document, p))
    BY <1>1, <2>1, TokenOnItsDocument
  <2>3. document' # document
    <3>1. document' = Patched(document, token.operation)
      BY <1>1 DEF Patch
    <3>2. document \in Package
      BY <1>1 DEF Inv
    <3>3. Patched(document, token.operation) # document
      BY <2>2, <3>2, PatchedDiffers
    <3> QED BY <3>1, <3>3
  <2>4. other.snapshot = token.snapshot
    BY <1>1 DEF Patch, Inv, OneSnapshot
  <2> QED BY <2>1, <2>3, <2>4 DEF PatchOutcome
<1>2. Inv => \A token \in tokens : Patch(token) =>
                 \A other \in tokens' :
                     PatchOutcome(document', other) = "snapshot_hash_mismatch"
  BY <1>1
<1> QED BY <1>2, Invariance, PTL DEF FirstPatchSpendsTheReport

(***************************************************************************)
(* A report clears only what the profile active at the time decides on the *)
(* document as it is at the time.                                          *)
(***************************************************************************)
THEOREM ReportsFollowProfile == Spec => ReportFollowsActiveProfile
<1>1. Inv /\ Gate => \A token \in tokens' :
                         /\ token.snapshot = document
                         /\ token.operation \in Operations(Decisions(document, profile))
  BY ReportTokens
<1> QED BY <1>1, Invariance, PTL DEF ReportFollowsActiveProfile
===============================================================================
