--------------------------- MODULE ProcessingSession ---------------------------
(***************************************************************************)
(* process_document: the loop that formats one document. Each round        *)
(* evaluates the current package from nothing (parse, analysis,            *)
(* classification, decisions, plan, gate), selects the first cleared       *)
(* operation that the patcher has not rejected on this very package, and   *)
(* hands it to the patcher. An applied operation starts over on the new    *)
(* package; a rejected one is put aside. The loop ends when nothing is     *)
(* left to try, at the operation limit, or with an exception.              *)
(***************************************************************************)
EXTENDS GateAndPatch, Sequences

CONSTANTS
    Packages,   \* the packages a session may be given
    Profiles,   \* the profiles it may be given
    Limits      \* the values of max_applied_operations

ASSUME SessionAssumption ==
    /\ Packages \subseteq Package
    /\ Profiles \subseteq Profile
    /\ Limits \subseteq Nat \ {0}

VARIABLES
    pc,          \* where the loop is
    intake,      \* what the parser and the style catalog make of the bytes
    input,       \* the package given
    profile,     \* the profile given
    limit,       \* max_applied_operations
    current,     \* the current package
    transforms,  \* the transform records, in order
    seen,        \* the packages the session went through
    rejected,    \* the operations rejected on the current package
    evaluation,  \* the latest evaluation snapshot
    outcome      \* the result returned or the error raised

given == <<intake, input, profile, limit>>
vars == <<pc, given, current, transforms, seen, rejected, evaluation, outcome>>

Intakes == {"ok", "unreadable", "no_styles"}

(***************************************************************************)
(* Faulty: decisions are kept from the package first given; or all of the  *)
(* evaluation is.                                                          *)
(***************************************************************************)
EvaluateWithFirstPlan(pkg) ==
    LET decisions == Decisions(input, profile)
        plan == OperationPlan(input, decisions)
    IN  [package   |-> pkg,
         decisions |-> decisions,
         plan      |-> plan,
         gate      |-> [op \in plan.operations |->
                           GateResult(op, plan, decisions, pkg, profile)],
         tokens    |-> ClearedOperations(plan, decisions, pkg, profile)]

EvaluateFirst(pkg) == EvaluateWithFirstPlan(input)

(***************************************************************************)
(* _evaluate: every stage of the pipeline on one package.                  *)
(***************************************************************************)
Evaluate(pkg) ==
    LET decisions == Decisions(pkg, profile)
        plan == OperationPlan(pkg, decisions)
    IN  [package   |-> pkg,
         decisions |-> decisions,
         plan      |-> plan,
         gate      |-> [op \in plan.operations |->
                           GateResult(op, plan, decisions, pkg, profile)],
         tokens    |-> ClearedOperations(plan, decisions, pkg, profile)]

(***************************************************************************)
(* Faulty: a rejection puts its whole target aside, or is forgotten.       *)
(***************************************************************************)
RejectedTargets ==
    {op \in evaluation.plan.operations :
        \E r \in rejected : TargetOf[r.operation.site] = TargetOf[op.site]}

NoneRejected == {}

RejectedOperations == {r.operation : r \in rejected}

LimitExceeded == Len(transforms) > limit  \* faulty

LimitReached == Len(transforms) >= limit

Selectable == {token \in evaluation.tokens : token.operation \notin RejectedOperations}

AnyToken(token) == token \in Selectable  \* faulty

(***************************************************************************)
(* _select_next follows the order of the decisions.                        *)
(***************************************************************************)
IsNextToken(token) ==
    /\ token \in Selectable
    /\ \A other \in Selectable : token.operation.site <= other.operation.site

(***************************************************************************)
(* _final_findings and _build_result.                                      *)
(***************************************************************************)
Finding(kind, op, reason) == [kind |-> kind, operation |-> op, reason |-> reason]

(***************************************************************************)
(* Faulty: a rejected operation is passed over; or at the limit only the   *)
(* next operation is reported.                                             *)
(***************************************************************************)
FindingsOfUntried(op, limitReached) ==
    IF op \notin RejectedOperations /\ limitReached
    THEN {Finding("operation_limit", op, "operation_limit_reached")} ELSE {}

FindingsOfTheNext(op, limitReached) ==
    IF op \in RejectedOperations
    THEN {Finding("patch_rejected", op, r.reason) : r \in {q \in rejected : q.operation = op}}
    ELSE IF limitReached /\ (\A other \in Selectable : op.site <= other.operation.site)
         THEN {Finding("operation_limit", op, "operation_limit_reached")} ELSE {}

FindingsOf(op, limitReached) ==
    IF op \in RejectedOperations
    THEN {Finding("patch_rejected", op, r.reason) : r \in {q \in rejected : q.operation = op}}
    ELSE IF evaluation.gate[op] # Cleared
         THEN {Finding("gate_blocked", op, evaluation.gate[op])}
         ELSE IF limitReached THEN {Finding("operation_limit", op, "operation_limit_reached")}
                              ELSE {}

Result(status, limitReached) ==
    [status     |-> status,
     input      |-> input,
     output     |-> current,
     transforms |-> transforms,
     decisions  |-> evaluation.decisions,
     findings   |-> UNION {FindingsOf(op, limitReached) : op \in evaluation.plan.operations}]

Error(kind) == [status |-> kind]

NotEvaluated == [decisions |-> {}]

Pending == [status |-> "pending"]

-------------------------------------------------------------------------------
Init ==
    /\ pc = "evaluate"
    /\ intake \in Intakes
    /\ input \in Packages
    /\ profile \in Profiles
    /\ limit \in Limits
    /\ current = input
    /\ transforms = <<>>
    /\ seen = {input}
    /\ rejected = {}
    /\ evaluation = NotEvaluated
    /\ outcome = Pending

Raise(kind) ==
    /\ pc' = "raised"
    /\ outcome' = Error(kind)

Return(result) ==
    /\ pc' = "returned"
    /\ outcome' = result

(***************************************************************************)
(* Bytes the parser refuses, and a package whose style catalog is missing  *)
(* or unreadable, which the gate refuses.                                  *)
(***************************************************************************)
EvaluateRaises ==
    /\ pc = "evaluate"
    /\ \/ intake = "unreadable" /\ Raise("contract_error")
       \/ intake = "no_styles" /\ Raise("integrity_error")
       \/ /\ intake = "ok"
          /\ \E d \in Decisions(current, profile) : ContradictsContract(d)
          /\ Raise("integrity_error")
    /\ UNCHANGED <<given, current, transforms, seen, rejected, evaluation>>

EvaluateCurrent ==
    /\ pc = "evaluate"
    /\ intake = "ok"
    /\ ~ \E d \in Decisions(current, profile) : ContradictsContract(d)
    /\ pc' = "select"
    /\ evaluation' = Evaluate(current)
    /\ UNCHANGED <<given, current, transforms, seen, rejected, outcome>>

FinishQuiescent ==
    /\ pc = "select"
    /\ Selectable = {}
    /\ Return(Result(IF \E d \in evaluation.decisions : IsDeterministic(d)
                     THEN "quiescent_with_unapplied" ELSE "quiescent", FALSE))
    /\ UNCHANGED <<given, current, transforms, seen, rejected, evaluation>>

FinishAtLimit ==
    /\ pc = "select"
    /\ Selectable # {}
    /\ LimitReached
    /\ Return(Result("operation_limit_reached", TRUE))
    /\ UNCHANGED <<given, current, transforms, seen, rejected, evaluation>>

(***************************************************************************)
(* A rejection the session considers impossible ends it; any other one is  *)
(* remembered for the current package, which is evaluated again.           *)
(***************************************************************************)
RejectPatch(token) ==
    /\ pc = "select"
    /\ IsNextToken(token)
    /\ ~LimitReached
    /\ LET reason == PatchOutcome(current, token)
       IN  /\ reason # Applied
           /\ IF reason \in Impossible \cup {"integrity_error"}
              THEN Raise("integrity_error") /\ UNCHANGED rejected
              ELSE /\ rejected' = rejected \cup
                                     {[operation |-> token.operation, reason |-> reason]}
                   /\ pc' = "evaluate"
                   /\ UNCHANGED outcome
    /\ UNCHANGED <<given, current, transforms, seen, evaluation>>

(***************************************************************************)
(* The transform record binds the operation, its decision and both         *)
(* packages.                                                               *)
(***************************************************************************)
Transform(op, before, after) ==
    [operation |-> op, input |-> before, output |-> after]

(***************************************************************************)
(* Faulty: rejections of the package before survive the change.            *)
(***************************************************************************)
ApplyPatchKeepingRejections(token) ==
    /\ pc = "select"
    /\ IsNextToken(token)
    /\ ~LimitReached
    /\ PatchOutcome(current, token) = Applied
    /\ current' = Patched(current, token.operation)
    /\ transforms' = Append(transforms, Transform(token.operation, current, current'))
    /\ seen' = seen \cup {current'}
    /\ pc' = "evaluate"
    /\ UNCHANGED <<given, rejected, evaluation, outcome>>

ApplyPatch(token) ==
    /\ pc = "select"
    /\ IsNextToken(token)
    /\ ~LimitReached
    /\ PatchOutcome(current, token) = Applied
    /\ LET next == Patched(current, token.operation)
       IN  IF next \in seen
           THEN Raise("integrity_error") /\ UNCHANGED <<current, transforms, seen, rejected>>
           ELSE /\ transforms' = Append(transforms, Transform(token.operation, current, next))
                /\ seen' = seen \cup {next}
                /\ current' = next
                /\ rejected' = {}
                /\ pc' = "evaluate"
                /\ UNCHANGED outcome
    /\ UNCHANGED <<given, evaluation>>

Finished == pc \in {"returned", "raised"}

Terminated == Finished /\ UNCHANGED vars

Next ==
    \/ EvaluateRaises
    \/ EvaluateCurrent
    \/ FinishQuiescent
    \/ FinishAtLimit
    \/ pc = "select" /\ \E token \in evaluation.tokens : RejectPatch(token) \/ ApplyPatch(token)
    \/ Terminated

Spec == Init /\ [][Next]_vars

(***************************************************************************)
(* The session is one synchronous call with nothing to wait for: while it  *)
(* can take a step it takes one.                                           *)
(***************************************************************************)
FairSpec == Spec /\ WF_vars(Next)

-------------------------------------------------------------------------------
(***************************************************************************)
(* Type correctness: the session's bookkeeping stays within the data the   *)
(* engine's dataclasses admit.                                             *)
(***************************************************************************)
TypeOK ==
    /\ pc \in {"evaluate", "select", "returned", "raised"}
    /\ intake \in Intakes
    /\ input \in Package
    /\ profile \in Profiles
    /\ limit \in Limits
    /\ current \in Package
    /\ seen \subseteq Package
    /\ DOMAIN transforms = 1 .. Len(transforms)
    /\ \A i \in DOMAIN transforms :
           /\ transforms[i].operation.site \in DecidedSites(profile)
           /\ {transforms[i].input, transforms[i].output} \subseteq seen
    /\ \A r \in rejected :
           r.operation.site \in DecidedSites(profile) /\ r.reason \in PhysicalRejections

TouchedSites == {transforms[i].operation.site : i \in DOMAIN transforms}

(***************************************************************************)
(* The values the profile by itself lets a site be changed to.             *)
(***************************************************************************)
AuthorizedValues(p, s) ==
    LET rule == RuleFor(p, s)
    IN  CASE rule.mode = "exact" -> {rule.expected}
          [] rule.mode = "set" -> {rule.preferred} \ {None}
          [] OTHER -> {}

(***************************************************************************)
(* Nothing else in the document changes: against the input, the current    *)
(* package differs exactly at the sites a transform records, in the value  *)
(* only, from a known value to one the profile authorizes.                 *)
(***************************************************************************)
OnlyAuthorizedChanges ==
    \A s \in Sites :
        IF s \in TouchedSites
        THEN /\ input[s].status = "resolved"
             /\ current[s].value # input[s].value
             /\ \E v \in AuthorizedValues(profile, s) :
                    current[s] = [input[s] EXCEPT !.value = v, !.declared = TRUE]
        ELSE current[s] = input[s]

(***************************************************************************)
(* Changes are made in document order and no site is changed twice,        *)
(* although every round decides everything anew and forgets the rejections.*)
(***************************************************************************)
InDocumentOrder ==
    \A i, j \in DOMAIN transforms :
        i < j => transforms[i].operation.site < transforms[j].operation.site

(***************************************************************************)
(* rejected_on_snapshot speaks of the current snapshot: trying a rejected  *)
(* operation again now would give the same rejection.                      *)
(***************************************************************************)
RejectionsHoldNow ==
    \A r \in rejected :
        /\ r.operation.hash = PhysicalHash(current, TargetOf[r.operation.site])
        /\ PatchOutcome(current, Token(r.operation, current)) = r.reason

(***************************************************************************)
(* The gate is defence in depth here: on the snapshot it was planned from, *)
(* no operation of a session is ever blocked.                              *)
(***************************************************************************)
GateNeverBlocks ==
    pc = "select" => \A op \in evaluation.plan.operations : evaluation.gate[op] = Cleared

(***************************************************************************)
(* The integrity errors of the loop (a cycle of package hashes, a token    *)
(* for another snapshot, a drifted target) cannot happen: a session on an  *)
(* admissible document never raises.                                       *)
(***************************************************************************)
NoImpossibleError == pc = "raised" => intake # "ok"

(***************************************************************************)
(* The checks ProcessingSessionResult makes on what it is built from, any  *)
(* of which would turn a finished session into a ValueError.               *)
(***************************************************************************)
ChainIsContiguous(result) ==
    LET records == result.transforms
        n == Len(records)
    IN  IF n = 0 THEN result.input = result.output
        ELSE /\ records[1].input = result.input
             /\ records[n].output = result.output
             /\ \A i \in 1 .. n - 1 : records[i].output = records[i + 1].input

FindingsBind(result) ==
    \A f \in result.findings :
        /\ f.operation.decision \in result.decisions
        /\ IsDeterministic(f.operation.decision)

StatusAgrees(result) ==
    LET unapplied == {d \in result.decisions : IsDeterministic(d)}
        kinds == {f.kind : f \in result.findings}
    IN  CASE result.status = "quiescent" -> result.findings = {} /\ unapplied = {}
          [] result.status = "quiescent_with_unapplied" ->
                 unapplied # {} /\ kinds \cap {"gate_blocked", "patch_rejected"} # {}
          [] result.status = "operation_limit_reached" ->
                 unapplied # {} /\ "operation_limit" \in kinds

ResultHonoursContract ==
    pc = "returned" =>
        /\ ChainIsContiguous(outcome)
        /\ FindingsBind(outcome)
        /\ StatusAgrees(outcome)

(***************************************************************************)
(* Nothing is dropped in silence: every change the final decisions ask for *)
(* and the output does not have is explained by exactly one finding.       *)
(***************************************************************************)
EveryChangeAccounted ==
    pc = "returned" =>
        \A d \in outcome.decisions :
            Cardinality({f \in outcome.findings : f.operation.decision = d})
                = IF IsDeterministic(d) THEN 1 ELSE 0

(***************************************************************************)
(* The limit counts applied operations and stops the session at exactly    *)
(* that many; what it reports then is the package as it is, with no        *)
(* rejection remembered from the packages before.                          *)
(***************************************************************************)
LimitIsExact ==
    /\ Len(transforms) <= limit
    /\ pc = "returned" /\ outcome.status = "operation_limit_reached" =>
           /\ Len(outcome.transforms) = limit
           /\ outcome.decisions = Decisions(outcome.output, profile)
           /\ {f.kind : f \in outcome.findings} = {"operation_limit"}

(***************************************************************************)
(* Decision 0032 on operation_limit_reached: "The next safely applicable   *)
(* operation exists, but executing it would exceed the explicit            *)
(* applied-operation budget". The code asks the patcher only below the     *)
(* limit, so the operation left may be one it refuses.                     *)
(***************************************************************************)
LimitLeavesApplicableWork ==
    pc = "returned" /\ outcome.status = "operation_limit_reached" =>
        \E token \in Selectable : PatchOutcome(current, token) = Applied

(***************************************************************************)
(* What a quiescent session returns, in one step and without an order: at  *)
(* every site the value the profile asks for where the input resolves to   *)
(* another one and its XML admits the edit, and the input everywhere else. *)
(* A rejection or a change at one site never keeps another from its own.   *)
(***************************************************************************)
Formatted(s) ==
    LET verdict == DecideProperty(SlotOf[s], RuleFor(profile, s), input[s])
    IN  IF /\ s \in DecidedSites(profile)
           /\ verdict.actionability = "deterministic_change"
           /\ ShapeOutcome(input[s], SlotOf[s], verdict.desired) = Applied
        THEN [input[s] EXCEPT !.value = verdict.desired, !.declared = TRUE]
        ELSE input[s]

QuiescentIsFormatted ==
    pc = "returned" /\ outcome.status # "operation_limit_reached" =>
        \A s \in Sites : outcome.output[s] = Formatted(s)

(***************************************************************************)
(* The session implements its abstract promise.                            *)
(***************************************************************************)
Conservative ==
    INSTANCE ConservativeFormatting WITH
        Authorized <- AuthorizedValues,
        Unknown <- None,
        document <- [s \in Sites |-> current[s].value],
        touched <- TouchedSites,
        finished <- Finished

ImplementsConservativeFormatting == Conservative!Spec

(***************************************************************************)
(* Every session ends: rejections on one package and packages in one       *)
(* session run out.                                                        *)
(***************************************************************************)
Termination == <>Finished
===============================================================================
