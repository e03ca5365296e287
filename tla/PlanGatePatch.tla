----------------------------- MODULE PlanGatePatch -----------------------------
(***************************************************************************)
(* The plan, the gate report and the patch as three separate calls of one  *)
(* caller, the way their public interfaces allow: between any two of them  *)
(* the document may be edited (its paragraphs, its styles, back and forth) *)
(* and the profile replaced. What keeps an old plan or an old token from   *)
(* changing a document it was not made for is only what the gate and the   *)
(* patcher compare.                                                        *)
(***************************************************************************)
EXTENDS GateAndPatch

CONSTANTS
    Packages,   \* what an edit may leave in the document
    Profiles    \* the profiles that may be active

(***************************************************************************)
(* A profile whose content changes changes its version.                    *)
(***************************************************************************)
ASSUME ProtocolAssumption ==
    /\ Packages \subseteq Package
    /\ Profiles \subseteq Profile
    /\ \A p, q \in Profiles : p.ref = q.ref => p = q

VARIABLES
    document,   \* the package as it is now
    profile,    \* the active profile
    plans,      \* the last plan made, if any
    tokens      \* the cleared operations of the last report

vars == <<document, profile, plans, tokens>>

Init ==
    /\ document \in Packages
    /\ profile \in Profiles
    /\ plans = {}
    /\ tokens = {}

Edit ==
    /\ document' \in Packages
    /\ UNCHANGED <<profile, plans, tokens>>

ChangeProfile ==
    /\ profile' \in Profiles
    /\ UNCHANGED <<document, plans, tokens>>

Plan ==
    /\ plans' = {OperationPlan(document, Decisions(document, profile))}
    /\ UNCHANGED <<document, profile, tokens>>

(***************************************************************************)
(* The decisions handed to the gate are those kept from planning or ones   *)
(* made since; the gate raises unless the plan was built from them.        *)
(***************************************************************************)
Gate ==
    /\ \E plan \in plans, decisions \in {p.decisions : p \in plans}
                                           \cup {Decisions(document, profile)} :
           /\ BindsDecisions(plan, decisions)
           /\ tokens' = ClearedOperations(plan, decisions, document, profile)
    /\ UNCHANGED <<document, profile, plans>>

(***************************************************************************)
(* The caller replaces the document by what the patcher returns; after a   *)
(* rejection or an integrity error there is nothing to replace it by.      *)
(***************************************************************************)
Patch(token) ==
    /\ PatchOutcome(document, token) = Applied
    /\ document' = Patched(document, token.operation)
    /\ UNCHANGED <<profile, plans, tokens>>

Next ==
    \/ Edit
    \/ ChangeProfile
    \/ Plan
    \/ Gate
    \/ \E token \in tokens : Patch(token)

Spec == Init /\ [][Next]_vars

-------------------------------------------------------------------------------
(***************************************************************************)
(* Plans and tokens are made of operations decided on a package of this    *)
(* document under a profile.                                               *)
(***************************************************************************)
TypeOK ==
    /\ document \in Package
    /\ profile \in Profiles
    /\ \A plan \in plans : plan.source \in Package
    /\ \A token \in tokens :
           /\ token.snapshot \in Package
           /\ token.operation.site \in Sites
           /\ token.operation.decision.profile \in {p.ref : p \in Profiles}

(***************************************************************************)
(* However old a token is, the patcher executes it only where it is still  *)
(* right: deciding anew on the document about to be changed, under the     *)
(* profile the token was decided under, gives the very same decision. A    *)
(* change of the styles alone makes the difference here, as it alters no   *)
(* fingerprint of a paragraph or a run.                                    *)
(***************************************************************************)
PatchIsStillDecided ==
    [][\A token \in tokens : Patch(token) =>
           \E p \in Profiles :
               /\ p.ref = token.operation.decision.profile
               /\ Decision(document, p, token.operation.site) = token.operation.decision]_vars

(***************************************************************************)
(* Tokens of one report are worth one change: the first patch makes every  *)
(* token stale, its own included.                                          *)
(***************************************************************************)
FirstPatchSpendsTheReport ==
    [][\A token \in tokens : Patch(token) =>
           \A other \in tokens' :
               PatchOutcome(document', other) = "snapshot_hash_mismatch"]_vars

(***************************************************************************)
(* A drifted target behind a matching snapshot, which the patcher treats   *)
(* as an integrity error, does not happen, and neither does an operation   *)
(* whose target has drifted and which is executed all the same.            *)
(***************************************************************************)
NoDriftBehindSnapshot ==
    \A token \in tokens : PatchOutcome(document, token) # "integrity_error"

(***************************************************************************)
(* Once the context of a plan is compatible, every one of its operations   *)
(* is cleared: the local vetoes are defence in depth.                      *)
(***************************************************************************)
CompatibleContextClearsAll ==
    \A plan \in plans :
        GlobalVeto(plan, plan.decisions, document, profile) = Cleared =>
            \A op \in plan.operations : LocalVeto(op, document) = Cleared

(***************************************************************************)
(* A report clears nothing the profile active when it is made would not    *)
(* itself decide on the document as it is then.                            *)
(***************************************************************************)
ReportFollowsActiveProfile ==
    [][Gate => \A token \in tokens' :
           /\ token.snapshot = document
           /\ token.operation \in Operations(Decisions(document, profile))]_vars
===============================================================================
