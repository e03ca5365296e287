------------------------ MODULE ProcessingSessionProofs ------------------------
(***************************************************************************)
(* The safety of process_document, for every document, every profile and   *)
(* every limit.                                                            *)
(*                                                                         *)
(* The engine's own bookkeeping does not say why a change is never undone  *)
(* or why the loop cannot come back to a package it has seen; the          *)
(* invariant does. A site that was changed now has the value its rule      *)
(* wants (TouchedAreSettled), so it is never selected again; a package     *)
(* seen earlier differs from the current one at a changed site             *)
(* (SeenAreLeftBehind), so the next one is new; and an operation before a  *)
(* changed site was refused by the patcher and would be again              *)
(* (PassedOverAreRejected), so the next change comes later in the document.*)
(***************************************************************************)
EXTENDS ProcessingSession, PipelineProofs, SequenceTheorems, FiniteSetTheorems

PlannedNow == Operations(Decisions(current, profile))

OutcomeNow(op) == ShapeOutcome(current[op.site], SlotOf[op.site], op.desired)

TransformRecords ==
    [operation : UNION {Operations(Decisions(pkg, p)) : pkg \in Package, p \in Profiles},
     input : Package, output : Package]

Types ==
    /\ intake \in Intakes
    /\ input \in Package
    /\ profile \in Profiles
    /\ limit \in Limits
    /\ current \in Package
    /\ current \in seen
    /\ seen \subseteq Package
    /\ transforms \in Seq(TransformRecords)
    /\ \A i \in DOMAIN transforms :
           /\ transforms[i].operation.site \in DecidedSites(profile)
           /\ transforms[i].input \in seen
           /\ transforms[i].output \in seen

TouchedAreSettled ==
    \A i \in DOMAIN transforms :
        LET s == transforms[i].operation.site
        IN  DecideProperty(SlotOf[s], RuleFor(profile, s), current[s]).actionability
                = "no_action"

SeenAreLeftBehind ==
    \A pkg \in seen :
        \/ pkg = current
        \/ \E i \in DOMAIN transforms :
               LET s == transforms[i].operation.site IN pkg[s] # current[s]

RejectedArePlanned ==
    \A r \in rejected :
        /\ r.operation \in PlannedNow
        /\ r.reason = OutcomeNow(r.operation)
        /\ r.reason \in PhysicalRejections

PassedOverAreRejected ==
    \A i \in DOMAIN transforms, op \in PlannedNow :
        op.site < transforms[i].operation.site => OutcomeNow(op) # Applied

(***************************************************************************)
(* OnlyAuthorizedChanges, site by site.                                    *)
(***************************************************************************)
ChangedAsAuthorized(p, before, after, s) ==
    /\ before.status = "resolved"
    /\ after.value # before.value
    /\ \E v \in AuthorizedValues(p, s) :
           after = Declaring(before, v)

ChangesAreAuthorized ==
    \A s \in Sites :
        /\ s \in TouchedSites => ChangedAsAuthorized(profile, input[s], current[s], s)
        /\ s \notin TouchedSites => current[s] = input[s]

(***************************************************************************)
(* What holds of the document and the transform log, and what holds of     *)
(* the control state.                                                      *)
(***************************************************************************)
DocumentInv ==
    /\ Types
    /\ TouchedAreSettled
    /\ SeenAreLeftBehind
    /\ RejectedArePlanned
    /\ PassedOverAreRejected
    /\ InDocumentOrder
    /\ ChangesAreAuthorized

ControlInv ==
    /\ pc \in {"evaluate", "select", "returned", "raised"}
    /\ pc = "select" => evaluation = Evaluate(current)
    /\ NoImpossibleError

Inv == DocumentInv /\ ControlInv

book == <<given, current, transforms, seen, rejected>>

-------------------------------------------------------------------------------
(***************************************************************************)
(* The tokens of a round are exactly those of the operations planned now.  *)
(***************************************************************************)
LEMMA ProfileType == ASSUME Types PROVE profile \in Profile /\ current \in Package
BY SessionAssumption DEF Types

LEMMA TokenOfRound ==
    ASSUME Inv, pc = "select", NEW token \in evaluation.tokens
    PROVE  /\ token.snapshot = current
           /\ token.operation \in PlannedNow
           /\ PatchOutcome(current, token) = OutcomeNow(token.operation)
           /\ PatchOutcome(current, token) \in PhysicalRejections \cup {Applied}
<1> DEFINE decisions == Decisions(current, profile)
           plan == OperationPlan(current, decisions)
<1>1. evaluation.tokens = ClearedOperations(plan, decisions, current, profile)
  BY DEF Inv, ControlInv, Evaluate
<1>2. token.snapshot = current /\ token.operation \in plan.operations
  <2> HIDE DEF plan, decisions
  <2> QED BY <1>1, TokensOfAReport
<1>3. token.operation \in PlannedNow
  BY <1>2 DEF OperationPlan, PlannedNow
<1>4. profile \in Profile /\ current \in Package
  BY ProfileType DEF Inv, DocumentInv
<1>5. PatchOutcome(current, token) = OutcomeNow(token.operation)
  BY <1>2, <1>3, <1>4, OutcomeOnOwnSnapshot DEF PlannedNow, OutcomeNow
<1> QED BY <1>2, <1>3, <1>5, ShapeOutcomes DEF OutcomeNow

LEMMA EveryOperationHasToken ==
    ASSUME DocumentInv, evaluation = Evaluate(current), NEW op \in PlannedNow
    PROVE  \E token \in evaluation.tokens : token.operation = op
<1> DEFINE decisions == Decisions(current, profile)
           plan == OperationPlan(current, decisions)
<1>1. evaluation.tokens = ClearedOperations(plan, decisions, current, profile)
  BY DEF Evaluate
<1>2. profile \in Profile /\ current \in Package
  BY ProfileType DEF DocumentInv
<1>3. op \in plan.operations
  BY DEF OperationPlan, PlannedNow
<1>4. GateResult(op, plan, decisions, current, profile) = Cleared
  BY <1>2, OwnPackageIsCleared DEF PlannedNow
<1>5. Token(op, current) \in evaluation.tokens
  <2> HIDE DEF plan, decisions
  <2> QED BY <1>1, <1>3, <1>4 DEF ClearedOperations
<1> QED BY <1>5 DEF Token

(***************************************************************************)
(* Everything before the selected operation has been rejected on this      *)
(* package, so its patch would be refused.                                 *)
(***************************************************************************)
LEMMA EarlierIsRejected ==
    ASSUME Inv, pc = "select", NEW token \in evaluation.tokens, IsNextToken(token),
           NEW op \in PlannedNow, op.site < token.operation.site
    PROVE  OutcomeNow(op) # Applied
<1>1. PICK other \in evaluation.tokens : other.operation = op
  BY EveryOperationHasToken DEF Inv, ControlInv
<1>2. op.site \in Nat /\ token.operation.site \in Nat
  <2>1. profile \in Profile /\ current \in Package /\ token.operation \in PlannedNow
    BY TokenOfRound, ProfileType DEF Inv, DocumentInv
  <2>2. op.site \in DecidedSites(profile) /\ token.operation.site \in DecidedSites(profile)
    BY <2>1, PlannedOperations DEF PlannedNow
  <2> QED BY <2>2, DocumentAssumption DEF DecidedSites
<1>3. other \notin Selectable
  BY <1>1, <1>2 DEF IsNextToken
<1>4. PICK r \in rejected : r.operation = op
  BY <1>1, <1>3 DEF Selectable, RejectedOperations
<1>5. OutcomeNow(op) \in PhysicalRejections
  BY <1>4 DEF Inv, DocumentInv, RejectedArePlanned
<1> QED BY <1>5 DEF PhysicalRejections, Applied

(***************************************************************************)
(* The operation applied is at a site after every site changed before.     *)
(***************************************************************************)
LEMMA AppliedComesLater ==
    ASSUME Inv, pc = "select", NEW token \in evaluation.tokens,
           PatchOutcome(current, token) = Applied, NEW i \in DOMAIN transforms
    PROVE  transforms[i].operation.site < token.operation.site
<1> DEFINE t == transforms[i].operation.site
           s == token.operation.site
<1>1. profile \in Profile /\ current \in Package /\ token.operation \in PlannedNow
      /\ OutcomeNow(token.operation) = Applied
  BY TokenOfRound, ProfileType DEF Inv, DocumentInv
<1>2. s \in DecidedSites(profile) /\ t \in DecidedSites(profile)
  BY <1>1, PlannedOperations DEF PlannedNow, Inv, DocumentInv, Types
<1>3. s \in Nat /\ t \in Nat
  BY <1>2, DocumentAssumption DEF DecidedSites
<1>4. DecideProperty(SlotOf[t], RuleFor(profile, t), current[t]).actionability
          = "no_action"
  BY DEF Inv, DocumentInv, TouchedAreSettled
<1>5. DecideProperty(SlotOf[s], RuleFor(profile, s), current[s]).actionability
          = "deterministic_change"
  BY <1>1, PlannedOperations DEF PlannedNow
<1>6. s # t
  BY <1>4, <1>5
<1>7. ~(s < t)
  BY <1>1 DEF Inv, DocumentInv, PassedOverAreRejected
<1> QED BY <1>3, <1>6, <1>7

(***************************************************************************)
(* The patched package is one the session has not been through.            *)
(***************************************************************************)
LEMMA PatchedIsNew ==
    ASSUME Inv, pc = "select", NEW token \in evaluation.tokens,
           PatchOutcome(current, token) = Applied
    PROVE  Patched(current, token.operation) \notin seen
<1> DEFINE op == token.operation
           next == Patched(current, op)
<1>1. profile \in Profile /\ current \in Package /\ op \in PlannedNow
  BY TokenOfRound, ProfileType DEF Inv, DocumentInv
<1>2. next # current
  BY <1>1, PatchedDiffers DEF PlannedNow
<1>3. \A t \in Sites : t # op.site => next[t] = current[t]
  BY <1>1, PatchedElsewhere DEF PlannedNow
<1>4. ASSUME NEW i \in DOMAIN transforms
      PROVE  LET s == transforms[i].operation.site IN next[s] = current[s]
  <2> DEFINE s == transforms[i].operation.site
  <2>1. s \in DecidedSites(profile) /\ op.site \in DecidedSites(profile)
    BY <1>1, PlannedOperations DEF PlannedNow, Inv, DocumentInv, Types
  <2>2. s \in Sites /\ s \in Nat /\ op.site \in Nat
    BY <2>1, DocumentAssumption DEF DecidedSites
  <2>3. s < op.site
    BY AppliedComesLater
  <2>4. s # op.site
    BY <2>2, <2>3
  <2> QED BY <1>3, <2>2, <2>4
<1>5. \A pkg \in seen :
          \/ pkg = current
          \/ \E i \in DOMAIN transforms :
                 LET s == transforms[i].operation.site IN pkg[s] # current[s]
  BY DEF Inv, DocumentInv, SeenAreLeftBehind
<1> HIDE DEF next
<1>6. next \notin seen
  BY <1>2, <1>4, <1>5
<1> QED BY <1>6 DEF next

(***************************************************************************)
(* What the two outcomes of a patch do: neither of them raises.            *)
(***************************************************************************)
LEMMA RejectStep ==
    ASSUME Inv, pc = "select", NEW token \in evaluation.tokens, RejectPatch(token)
    PROVE  /\ pc' = "evaluate"
           /\ UNCHANGED <<given, current, transforms, seen>>
           /\ rejected' = rejected \cup {[operation |-> token.operation,
                                         reason |-> OutcomeNow(token.operation)]}
           /\ token.operation \in PlannedNow
           /\ OutcomeNow(token.operation) \in PhysicalRejections
<1>1. /\ PatchOutcome(current, token) = OutcomeNow(token.operation)
      /\ PatchOutcome(current, token) \in PhysicalRejections \cup {Applied}
      /\ token.operation \in PlannedNow
  BY TokenOfRound
<1>2. PatchOutcome(current, token) # Applied
  BY DEF RejectPatch
<1>3. PatchOutcome(current, token) \notin Impossible \cup {"integrity_error"}
  BY <1>1, <1>2 DEF Impossible, PhysicalRejections, Applied
<1> QED BY <1>1, <1>2, <1>3 DEF RejectPatch

LEMMA ApplyStep ==
    ASSUME Inv, pc = "select", NEW token \in evaluation.tokens, ApplyPatch(token)
    PROVE  LET op == token.operation
               next == Patched(current, op)
           IN  /\ pc' = "evaluate"
               /\ UNCHANGED given
               /\ current' = next
               /\ transforms' = Append(transforms, Transform(op, current, next))
               /\ seen' = seen \cup {next}
               /\ rejected' = {}
               /\ op \in PlannedNow
               /\ PatchOutcome(current, token) = Applied
               /\ IsNextToken(token)
<1>1. PatchOutcome(current, token) = Applied /\ IsNextToken(token)
  BY DEF ApplyPatch
<1>2. Patched(current, token.operation) \notin seen
  BY <1>1, PatchedIsNew
<1>3. token.operation \in PlannedNow
  BY TokenOfRound
<1> QED BY <1>1, <1>2, <1>3 DEF ApplyPatch

-------------------------------------------------------------------------------
(***************************************************************************)
(* DocumentInv is kept by the steps that leave the books alone, by a       *)
(* rejection, and by an applied patch.                                     *)
(***************************************************************************)
LEMMA UnchangedLog ==
    ASSUME DocumentInv, UNCHANGED <<given, current, transforms, seen>>
    PROVE  /\ Types' /\ TouchedAreSettled' /\ SeenAreLeftBehind'
           /\ PassedOverAreRejected' /\ InDocumentOrder' /\ ChangesAreAuthorized'
           /\ PlannedNow' = PlannedNow
           /\ \A op : OutcomeNow(op)' = OutcomeNow(op)
<1>1. UNCHANGED <<intake, input, profile, limit, current, transforms, seen>>
  BY DEF given
<1>2. Types' /\ InDocumentOrder'
  BY <1>1 DEF DocumentInv, Types, InDocumentOrder
<1>3. TouchedAreSettled'
  BY <1>1 DEF DocumentInv, TouchedAreSettled
<1>4. SeenAreLeftBehind'
  BY <1>1 DEF DocumentInv, SeenAreLeftBehind
<1>5. PlannedNow' = PlannedNow /\ \A op : OutcomeNow(op)' = OutcomeNow(op)
  BY <1>1 DEF PlannedNow, OutcomeNow
<1>6. PassedOverAreRejected'
  BY <1>1, <1>5 DEF DocumentInv, PassedOverAreRejected
<1>7. ChangesAreAuthorized'
  BY <1>1 DEF DocumentInv, ChangesAreAuthorized, TouchedSites
<1> QED BY <1>2, <1>3, <1>4, <1>5, <1>6, <1>7

LEMMA UnchangedBook ==
    ASSUME DocumentInv, UNCHANGED book
    PROVE  DocumentInv'
<1>1. UNCHANGED <<given, current, transforms, seen>> /\ UNCHANGED rejected
  BY DEF book
<1>2. RejectedArePlanned'
  BY <1>1, UnchangedLog DEF DocumentInv, RejectedArePlanned
<1> QED BY <1>1, <1>2, UnchangedLog DEF DocumentInv

LEMMA RejectKeepsDocumentInv ==
    ASSUME Inv, pc = "select", NEW token \in evaluation.tokens, RejectPatch(token)
    PROVE  DocumentInv'
<1>1. /\ UNCHANGED <<given, current, transforms, seen>>
      /\ rejected' = rejected \cup {[operation |-> token.operation,
                                    reason |-> OutcomeNow(token.operation)]}
      /\ token.operation \in PlannedNow
      /\ OutcomeNow(token.operation) \in PhysicalRejections
  BY RejectStep
<1>2. DocumentInv
  BY DEF Inv
<1>3. PlannedNow' = PlannedNow /\ \A op : OutcomeNow(op)' = OutcomeNow(op)
  BY <1>1, <1>2, UnchangedLog
<1>4. RejectedArePlanned'
  BY <1>1, <1>2, <1>3 DEF DocumentInv, RejectedArePlanned
<1> QED BY <1>1, <1>2, <1>4, UnchangedLog DEF DocumentInv

(***************************************************************************)
(* The log after an applied patch: one record more, of the patched site.   *)
(***************************************************************************)
LEMMA AppendedLog ==
    ASSUME Inv, pc = "select", NEW token \in evaluation.tokens, ApplyPatch(token)
    PROVE  LET op == token.operation
               n == Len(transforms)
           IN  /\ transforms' \in Seq(TransformRecords)
               /\ n \in Nat
               /\ DOMAIN transforms = 1 .. n
               /\ DOMAIN transforms' = 1 .. n + 1
               /\ \A i \in 1 .. n : transforms'[i] = transforms[i]
               /\ transforms'[n + 1] = Transform(op, current, current')
               /\ TouchedSites' = TouchedSites \cup {op.site}
<1> DEFINE op == token.operation
           record == Transform(op, current, current')
           n == Len(transforms)
<1>1. transforms \in Seq(TransformRecords) /\ profile \in Profiles
      /\ current \in Package /\ profile \in Profile
  BY ProfileType DEF Inv, DocumentInv, Types
<1>2. /\ transforms' = Append(transforms, record)
      /\ current' = Patched(current, op)
      /\ op \in PlannedNow
  BY ApplyStep
<1>3. record \in TransformRecords
  <2>1. current' \in Package
    BY <1>1, <1>2, PatchedDiffers DEF PlannedNow
  <2>2. op \in UNION {Operations(Decisions(pkg, p)) : pkg \in Package, p \in Profiles}
    BY <1>1, <1>2 DEF PlannedNow
  <2> QED BY <1>1, <2>1, <2>2 DEF Transform, TransformRecords
<1>4. n \in Nat /\ DOMAIN transforms = 1 .. n
  BY <1>1
<1> HIDE DEF record
<1>5. /\ transforms' \in Seq(TransformRecords)
      /\ DOMAIN transforms' = 1 .. n + 1
      /\ \A i \in 1 .. n : transforms'[i] = transforms[i]
      /\ transforms'[n + 1] = record
  BY <1>1, <1>2, <1>3, <1>4
<1>6. record.operation = op
  BY DEF record, Transform
<1>7. TouchedSites' = TouchedSites \cup {op.site}
  <2>1. TouchedSites' = {transforms'[i].operation.site : i \in 1 .. n + 1}
    BY <1>5 DEF TouchedSites
  <2>2. TouchedSites = {transforms[i].operation.site : i \in 1 .. n}
    BY <1>4 DEF TouchedSites
  <2>3. 1 .. n + 1 = 1 .. n \cup {n + 1}
    BY <1>4
  <2> HIDE DEF op
  <2> QED BY <1>5, <1>6, <2>1, <2>2, <2>3
<1> QED BY <1>4, <1>5, <1>7 DEF record

LEMMA AuthorizedEquivalence == ChangesAreAuthorized <=> OnlyAuthorizedChanges
BY DEF ChangesAreAuthorized, ChangedAsAuthorized, Declaring, OnlyAuthorizedChanges

LEMMA DesiredIsAuthorized ==
    ASSUME NEW p \in Profile, NEW pkg \in Package, NEW op \in Operations(Decisions(pkg, p))
    PROVE  op.desired \in AuthorizedValues(p, op.site)
<1> DEFINE s == op.site
           rule == RuleFor(p, s)
<1>1. s \in DecidedSites(p) /\ s \in Sites /\ pkg[s] \in SlotState(SlotOf[s])
  BY PlannedOperations, RuleForType DEF Package
<1>2. LET verdict == DecideProperty(SlotOf[s], rule, pkg[s])
      IN  /\ verdict.actionability = "deterministic_change"
          /\ verdict.desired = op.desired
  BY PlannedOperations
<1>3. \/ rule.mode = "exact" /\ op.desired = rule.expected
      \/ rule.mode = "set" /\ op.desired = rule.preferred /\ rule.preferred # None
  BY <1>1, <1>2, DesiredValue
<1> QED BY <1>3 DEF AuthorizedValues

(***************************************************************************)
(* What an applied patch does to the package, seen from the log.           *)
(***************************************************************************)
LEMMA AppliedPackage ==
    ASSUME Inv, pc = "select", NEW token \in evaluation.tokens, ApplyPatch(token)
    PROVE  LET op == token.operation
               s == op.site
           IN  /\ s \in DecidedSites(profile) /\ s \in Sites /\ s \in Nat
               /\ current' \in Package /\ current' # current
               /\ \A t \in Sites : t # s => current'[t] = current[t]
               /\ current[s].status = "resolved"
               /\ current'[s] = Declaring(current[s], op.desired)
               /\ op.desired # current[s].value
               /\ op.desired \in AuthorizedValues(profile, s)
               /\ DecideProperty(SlotOf[s], RuleFor(profile, s),
                                 current'[s]).actionability = "no_action"
               /\ \A i \in DOMAIN transforms :
                      /\ transforms[i].operation.site \in Sites
                      /\ transforms[i].operation.site \in Nat
                      /\ transforms[i].operation.site < s
                      /\ transforms[i].operation.site # s
<1> DEFINE op == token.operation
           s == op.site
<1>1. current' = Patched(current, op) /\ op \in Operations(Decisions(current, profile))
      /\ PatchOutcome(current, token) = Applied
  BY ApplyStep DEF PlannedNow
<1>2. profile \in Profile /\ current \in Package
  BY ProfileType DEF Inv, DocumentInv
<1>3. s \in DecidedSites(profile) /\ op.desired # current[s].value
      /\ current[s].status = "resolved"
  BY <1>1, <1>2, PlannedOperations
<1>4. s \in Sites /\ s \in Nat
  BY <1>3, DocumentAssumption DEF DecidedSites
<1>5. current' \in Package /\ current' # current
  BY <1>1, <1>2, PatchedDiffers
<1>6. \A t \in Sites : t # s => current'[t] = current[t]
  BY <1>1, <1>2, PatchedElsewhere
<1>7. current'[s] = Declaring(current[s], op.desired)
  BY <1>1, <1>2, PatchedSite
<1>8. DecideProperty(SlotOf[s], RuleFor(profile, s), current'[s]).actionability
          = "no_action"
  BY <1>1, <1>2, PatchedSettles
<1>9. op.desired \in AuthorizedValues(profile, s)
  BY <1>1, <1>2, DesiredIsAuthorized
<1>10. ASSUME NEW i \in DOMAIN transforms
       PROVE  /\ transforms[i].operation.site \in Sites
              /\ transforms[i].operation.site \in Nat
              /\ transforms[i].operation.site < s
              /\ transforms[i].operation.site # s
  <2>1. transforms[i].operation.site \in Sites /\ transforms[i].operation.site \in Nat
    BY DocumentAssumption DEF Inv, DocumentInv, Types, DecidedSites
  <2>2. transforms[i].operation.site < s
    BY <1>1, AppliedComesLater
  <2> QED BY <1>4, <2>1, <2>2
<1> QED BY <1>3, <1>4, <1>5, <1>6, <1>7, <1>8, <1>9, <1>10

LEMMA ApplyKeepsDocumentInv ==
    ASSUME Inv, pc = "select", NEW token \in evaluation.tokens, ApplyPatch(token)
    PROVE  DocumentInv'
<1> DEFINE op == token.operation
           s == op.site
           n == Len(transforms)
<1>1. /\ UNCHANGED <<intake, input, profile, limit>>
      /\ seen' = seen \cup {current'}
      /\ rejected' = {}
      /\ op \in PlannedNow
      /\ IsNextToken(token)
  BY ApplyStep DEF given
<1>2. /\ transforms' \in Seq(TransformRecords)
      /\ n \in Nat
      /\ DOMAIN transforms = 1 .. n
      /\ DOMAIN transforms' = 1 .. n + 1
      /\ \A i \in 1 .. n : transforms'[i] = transforms[i]
      /\ transforms'[n + 1] = Transform(op, current, current')
      /\ TouchedSites' = TouchedSites \cup {s}
  BY AppendedLog
<1>3. /\ transforms'[n + 1].operation = op
      /\ transforms'[n + 1].input = current
      /\ transforms'[n + 1].output = current'
  BY <1>2 DEF Transform
<1>4. \A i \in DOMAIN transforms' : i \in DOMAIN transforms \/ i = n + 1
  BY <1>2
<1>5. /\ s \in DecidedSites(profile) /\ s \in Sites /\ s \in Nat
      /\ current' \in Package /\ current' # current
      /\ \A t \in Sites : t # s => current'[t] = current[t]
      /\ \A i \in DOMAIN transforms :
             /\ transforms[i].operation.site \in Sites
             /\ transforms[i].operation.site \in Nat
             /\ transforms[i].operation.site < s
             /\ transforms[i].operation.site # s
  BY AppliedPackage
<1>6. DocumentInv /\ Types
  BY DEF Inv, DocumentInv
<1>7. Types'
  <2>1. current \in seen' /\ current' \in seen' /\ seen' \subseteq Package
        /\ seen \subseteq seen'
    BY <1>1, <1>5, <1>6 DEF Types
  <2>2. ASSUME NEW i \in DOMAIN transforms'
        PROVE  /\ transforms'[i].operation.site \in DecidedSites(profile)
               /\ transforms'[i].input \in seen'
               /\ transforms'[i].output \in seen'
    <3>1. CASE i \in DOMAIN transforms
      BY <1>2, <1>6, <2>1, <3>1 DEF Types
    <3>2. CASE i = n + 1
      BY <1>3, <1>5, <2>1, <3>2
    <3> QED BY <1>4, <3>1, <3>2
  <2> QED BY <1>1, <1>2, <1>5, <1>6, <2>1, <2>2 DEF Types
<1>8. TouchedAreSettled'
  <2>1. ASSUME NEW i \in DOMAIN transforms'
        PROVE  LET t == transforms'[i].operation.site
               IN  DecideProperty(SlotOf[t], RuleFor(profile, t), current'[t]).actionability
                       = "no_action"
    <3>1. CASE i \in DOMAIN transforms
      <4> DEFINE t == transforms[i].operation.site
      <4>1. transforms'[i].operation.site = t /\ current'[t] = current[t]
        BY <1>2, <1>5, <3>1
      <4>2. DecideProperty(SlotOf[t], RuleFor(profile, t), current[t]).actionability
                = "no_action"
        BY <1>6, <3>1 DEF DocumentInv, TouchedAreSettled
      <4> QED BY <4>1, <4>2
    <3>2. CASE i = n + 1
      <4>1. DecideProperty(SlotOf[s], RuleFor(profile, s), current'[s]).actionability
                = "no_action"
        BY AppliedPackage
      <4> QED BY <1>3, <3>2, <4>1
    <3> QED BY <1>4, <3>1, <3>2
  <2> QED BY <1>1, <2>1 DEF TouchedAreSettled
<1>9. SeenAreLeftBehind'
  <2>1. ASSUME NEW pkg \in seen, pkg # current'
        PROVE  \E i \in DOMAIN transforms' :
                   LET t == transforms'[i].operation.site IN pkg[t] # current'[t]
    <3>1. CASE pkg = current
      <4>1. current[s] # current'[s]
        <5>1. \A t \in Sites : t # s => current'[t] = current[t]
          BY <1>5
        <5>2. current \in [Sites -> UNION {SlotState(slot) : slot \in Slots}]
              /\ current' \in [Sites -> UNION {SlotState(slot) : slot \in Slots}]
          BY <1>5, <1>6 DEF Types, Package
        <5> QED BY <1>5, <5>1, <5>2
      <4> QED BY <1>2, <1>3, <3>1, <4>1
    <3>2. CASE pkg # current
      <4>1. PICK i \in DOMAIN transforms :
                pkg[transforms[i].operation.site] # current[transforms[i].operation.site]
        BY <1>6, <3>2 DEF DocumentInv, SeenAreLeftBehind
      <4>2. current'[transforms[i].operation.site] = current[transforms[i].operation.site]
        BY <1>5, <4>1
      <4> QED BY <1>2, <4>1, <4>2
    <3> QED BY <3>1, <3>2
  <2> QED BY <1>1, <2>1 DEF SeenAreLeftBehind
<1>10. RejectedArePlanned'
  BY <1>1 DEF RejectedArePlanned
<1>11. PassedOverAreRejected'
  <2>1. SUFFICES ASSUME NEW i \in DOMAIN transforms', NEW later \in PlannedNow',
                        later.site < transforms'[i].operation.site
                 PROVE  OutcomeNow(later)' # Applied
    BY DEF PassedOverAreRejected
  <2> DEFINE t == later.site
             earlier == PlannedOperation(Decision(current, profile, t))
  <2>2. profile \in Profile /\ later \in Operations(Decisions(current', profile))
    BY <1>1, <1>6, ProfileType DEF PlannedNow
  <2>3. t \in DecidedSites(profile)
        /\ LET verdict == DecideProperty(SlotOf[t], RuleFor(profile, t), current'[t])
           IN  /\ verdict.actionability = "deterministic_change"
               /\ verdict.desired = later.desired
    BY <1>5, <2>2, PlannedOperations
  <2>4. t \in Sites /\ t \in Nat
    BY <2>3, DocumentAssumption DEF DecidedSites
  <2>5. t < s
    <3>1. CASE i \in DOMAIN transforms
      <4>1. transforms'[i].operation.site = transforms[i].operation.site
        BY <1>2, <3>1
      <4> QED BY <1>5, <2>1, <2>4, <3>1, <4>1
    <3>2. CASE i = n + 1
      BY <1>3, <2>1, <3>2
    <3> QED BY <1>4, <3>1, <3>2
  <2>6. current'[t] = current[t]
    BY <1>5, <2>4, <2>5
  <2>7. earlier \in PlannedNow
    BY <2>3, <2>6, OperationIsPlanned DEF PlannedNow
  <2>8. earlier.site = t /\ earlier.desired = later.desired
    BY <2>3, <2>6 DEF PlannedOperation, Decision
  <2>9. OutcomeNow(earlier) # Applied
    <3> HIDE DEF earlier
    <3> QED BY <1>1, <2>5, <2>7, <2>8, EarlierIsRejected
  <2> HIDE DEF earlier
  <2> QED BY <2>6, <2>8, <2>9 DEF OutcomeNow
<1>12. InDocumentOrder'
  <2>1. SUFFICES ASSUME NEW i \in DOMAIN transforms', NEW j \in DOMAIN transforms', i < j
                 PROVE  transforms'[i].operation.site < transforms'[j].operation.site
    BY DEF InDocumentOrder
  <2>2. i \in DOMAIN transforms
    BY <1>2, <2>1
  <2>3. CASE j \in DOMAIN transforms
    BY <1>2, <1>6, <2>1, <2>2, <2>3 DEF DocumentInv, InDocumentOrder
  <2>4. CASE j = n + 1
    BY <1>2, <1>3, <1>5, <2>2, <2>4
  <2> QED BY <1>4, <2>3, <2>4
<1>13. ChangesAreAuthorized'
  <2>1. s \notin TouchedSites
    BY <1>5 DEF TouchedSites
  <2>2. current[s] = input[s]
    BY <1>5, <1>6, <2>1 DEF DocumentInv, ChangesAreAuthorized
  <2>3. ChangedAsAuthorized(profile, current[s], current'[s], s)
    <3>1. /\ current[s].status = "resolved"
          /\ current'[s] = Declaring(current[s], op.desired)
          /\ op.desired # current[s].value
          /\ op.desired \in AuthorizedValues(profile, s)
      BY AppliedPackage
    <3>2. current[s] \in SlotState(SlotOf[s])
      BY <1>5, <1>6 DEF Types, Package
    <3>3. current'[s].value # current[s].value
      BY <3>1, <3>2 DEF SlotState, Declaring
    <3> QED BY <3>1, <3>3 DEF ChangedAsAuthorized
  <2>4. ASSUME NEW t \in Sites, t # s
        PROVE  /\ t \in TouchedSites' => ChangedAsAuthorized(profile, input[t], current'[t], t)
               /\ t \notin TouchedSites' => current'[t] = input[t]
    <3>1. current'[t] = current[t] /\ (t \in TouchedSites' <=> t \in TouchedSites)
      BY <1>2, <1>5, <2>4
    <3> QED BY <1>6, <3>1 DEF DocumentInv, ChangesAreAuthorized
  <2>5. s \in TouchedSites'
    BY <1>2
  <2>6. \A t \in Sites :
            /\ t \in TouchedSites' => ChangedAsAuthorized(profile, input[t], current'[t], t)
            /\ t \notin TouchedSites' => current'[t] = input[t]
    BY <2>2, <2>3, <2>4, <2>5
  <2> QED BY <1>1, <2>6 DEF ChangesAreAuthorized
<1> QED BY <1>7, <1>8, <1>9, <1>10, <1>11, <1>12, <1>13 DEF DocumentInv

-------------------------------------------------------------------------------
LEMMA InvInit == Init => Inv
<1> SUFFICES ASSUME Init
             PROVE  Inv
  OBVIOUS
<1>1. /\ input \in Package /\ current = input /\ seen = {input}
      /\ transforms = <<>> /\ rejected = {} /\ pc = "evaluate"
      /\ intake \in Intakes /\ profile \in Profiles /\ limit \in Limits
  BY SessionAssumption DEF Init
<1>2. DOMAIN transforms = {} /\ TouchedSites = {}
  BY <1>1 DEF TouchedSites
<1>3. Types
  BY <1>1, <1>2 DEF Types
<1>4. TouchedAreSettled /\ SeenAreLeftBehind /\ RejectedArePlanned
      /\ PassedOverAreRejected /\ InDocumentOrder
  BY <1>1, <1>2
     DEF TouchedAreSettled, SeenAreLeftBehind, RejectedArePlanned,
         PassedOverAreRejected, InDocumentOrder
<1>5. ChangesAreAuthorized
  BY <1>1, <1>2 DEF ChangesAreAuthorized
<1>6. ControlInv
  BY <1>1 DEF ControlInv, NoImpossibleError
<1> QED BY <1>3, <1>4, <1>5, <1>6 DEF Inv, DocumentInv

LEMMA InvNext == Inv /\ [Next]_vars => Inv'
<1> SUFFICES ASSUME Inv, [Next]_vars
             PROVE  Inv'
  OBVIOUS
<1>1. DocumentInv /\ ControlInv
  BY DEF Inv
<1>2. CASE EvaluateRaises
  <2>1. UNCHANGED book /\ UNCHANGED intake
    BY <1>2 DEF EvaluateRaises, book, given
  <2>2. ~ \E d \in Decisions(current, profile) : ContradictsContract(d)
    BY <1>1, ProfileType, DecisionsHonourContract DEF DocumentInv
  <2>3. pc' = "raised" /\ intake # "ok"
    BY <1>2, <2>2 DEF EvaluateRaises, Raise
  <2>4. ControlInv'
    BY <2>1, <2>3 DEF ControlInv, NoImpossibleError
  <2> QED BY <1>1, <2>1, <2>4, UnchangedBook DEF Inv
<1>3. CASE EvaluateCurrent
  <2>1. UNCHANGED book /\ UNCHANGED <<current, profile>>
    BY <1>3 DEF EvaluateCurrent, book, given
  <2>2. pc' = "select" /\ evaluation' = Evaluate(current)
    BY <1>3 DEF EvaluateCurrent
  <2>3. Evaluate(current)' = Evaluate(current)
    BY <2>1 DEF Evaluate
  <2>4. ControlInv'
    BY <2>2, <2>3 DEF ControlInv, NoImpossibleError
  <2> QED BY <1>1, <2>1, <2>4, UnchangedBook DEF Inv
<1>4. CASE FinishQuiescent \/ FinishAtLimit
  <2>1. UNCHANGED book
    BY <1>4 DEF FinishQuiescent, FinishAtLimit, book
  <2>2. pc' = "returned"
    BY <1>4 DEF FinishQuiescent, FinishAtLimit, Return
  <2>3. ControlInv'
    BY <2>2 DEF ControlInv, NoImpossibleError
  <2> QED BY <1>1, <2>1, <2>3, UnchangedBook DEF Inv
<1>5. ASSUME pc = "select", NEW token \in evaluation.tokens,
             RejectPatch(token) \/ ApplyPatch(token)
      PROVE  Inv'
  <2>1. DocumentInv'
    BY <1>5, RejectKeepsDocumentInv, ApplyKeepsDocumentInv
  <2>2. pc' = "evaluate"
    BY <1>5, RejectStep, ApplyStep
  <2>3. ControlInv'
    BY <2>2 DEF ControlInv, NoImpossibleError
  <2> QED BY <2>1, <2>3 DEF Inv
<1>6. CASE UNCHANGED vars
  <2>1. UNCHANGED book /\ UNCHANGED <<pc, intake, current, profile, evaluation>>
    BY <1>6 DEF vars, book, given
  <2>2. Evaluate(current)' = Evaluate(current)
    BY <2>1 DEF Evaluate
  <2>3. ControlInv'
    BY <1>1, <2>1, <2>2 DEF ControlInv, NoImpossibleError
  <2> QED BY <1>1, <2>1, <2>3, UnchangedBook DEF Inv
<1>7. CASE Terminated
  BY <1>6, <1>7 DEF Terminated
<1> QED BY <1>2, <1>3, <1>4, <1>5, <1>6, <1>7 DEF Next

LEMMA Invariance == Spec => []Inv
BY InvInit, InvNext, PTL DEF Spec

-------------------------------------------------------------------------------
(***************************************************************************)
(* The state of a session always has its type.                             *)
(***************************************************************************)
THEOREM TypeCorrectness == Spec => []TypeOK
<1>1. Inv => TypeOK
  <2> SUFFICES ASSUME Inv
               PROVE  TypeOK
    OBVIOUS
  <2>1. Types /\ profile \in Profile /\ current \in Package
    BY ProfileType DEF Inv, DocumentInv
  <2>2. DOMAIN transforms = 1 .. Len(transforms)
    BY <2>1 DEF Types
  <2>3. \A r \in rejected : r.operation.site \in DecidedSites(profile)
                            /\ r.reason \in PhysicalRejections
    BY <2>1, PlannedOperations DEF Inv, DocumentInv, RejectedArePlanned, PlannedNow
  <2> QED BY <2>1, <2>2, <2>3 DEF TypeOK, Types, Inv, ControlInv
<1> QED BY <1>1, Invariance, PTL

(***************************************************************************)
(* No integrity error of the loop is reachable on a document that parses   *)
(* and has a style catalog: the cycle check, the patcher's snapshot and    *)
(* target checks and the planner's contract check never fail.              *)
(***************************************************************************)
THEOREM NoImpossibleErrors == Spec => []NoImpossibleError
<1>1. Inv => NoImpossibleError
  BY DEF Inv, ControlInv
<1> QED BY <1>1, Invariance, PTL

(***************************************************************************)
(* The sites a session changes are changed in document order, each once.   *)
(***************************************************************************)
THEOREM DocumentOrder == Spec => []InDocumentOrder
<1>1. Inv => InDocumentOrder
  BY DEF Inv, DocumentInv
<1> QED BY <1>1, Invariance, PTL

(***************************************************************************)
(* The document differs from the input at the logged sites only, by a      *)
(* change the profile authorizes.                                          *)
(***************************************************************************)
THEOREM AuthorizedChanges == Spec => []OnlyAuthorizedChanges
<1>1. Inv => OnlyAuthorizedChanges
  BY AuthorizedEquivalence DEF Inv, DocumentInv
<1> QED BY <1>1, Invariance, PTL

(***************************************************************************)
(* Every remembered rejection is one the patcher would give again now.     *)
(***************************************************************************)
THEOREM RejectionsAreCurrent == Spec => []RejectionsHoldNow
<1>1. Inv => RejectionsHoldNow
  <2> SUFFICES ASSUME Inv, NEW r \in rejected
               PROVE  /\ r.operation.hash = PhysicalHash(current, TargetOf[r.operation.site])
                      /\ PatchOutcome(current, Token(r.operation, current)) = r.reason
    BY DEF RejectionsHoldNow
  <2> DEFINE token == Token(r.operation, current)
  <2>1. profile \in Profile /\ current \in Package
        /\ r.operation \in Operations(Decisions(current, profile))
        /\ r.reason = OutcomeNow(r.operation)
    BY ProfileType DEF Inv, DocumentInv, RejectedArePlanned, PlannedNow
  <2>2. r.operation.hash = PhysicalHash(current, TargetOf[r.operation.site])
    BY <2>1, PlannedOperations
  <2>3. token.snapshot = current /\ token.operation = r.operation
    BY DEF Token
  <2>4. PatchOutcome(current, token) = OutcomeNow(r.operation)
    <3> HIDE DEF token
    <3> QED BY <2>1, <2>3, OutcomeOnOwnSnapshot DEF OutcomeNow
  <2> QED BY <2>1, <2>2, <2>4
<1> QED BY <1>1, Invariance, PTL

(***************************************************************************)
(* The gate never blocks an operation of the package it was planned from.  *)
(***************************************************************************)
THEOREM GateIsTransparent == Spec => []GateNeverBlocks
<1>1. Inv => GateNeverBlocks
  <2> SUFFICES ASSUME Inv, pc = "select", NEW op \in evaluation.plan.operations
               PROVE  evaluation.gate[op] = Cleared
    BY DEF GateNeverBlocks
  <2> DEFINE decisions == Decisions(current, profile)
             plan == OperationPlan(current, decisions)
  <2>1. profile \in Profile /\ current \in Package
    BY ProfileType DEF Inv, DocumentInv
  <2>2. /\ evaluation.plan = plan
        /\ evaluation.gate = [o \in plan.operations |->
                                 GateResult(o, plan, decisions, current, profile)]
    BY DEF Inv, ControlInv, Evaluate
  <2>3. plan.operations = Operations(decisions)
    BY DEF OperationPlan
  <2>4. GateResult(op, plan, decisions, current, profile) = Cleared
    BY <2>1, <2>2, <2>3, OwnPackageIsCleared
  <2> HIDE DEF plan, decisions
  <2> QED BY <2>2, <2>4
<1> QED BY <1>1, Invariance, PTL

-------------------------------------------------------------------------------
(***************************************************************************)
(* Refinement: an applied patch is one ChangeProperty, the end of the      *)
(* session is Stop, and every other step is a stutter.                     *)
(***************************************************************************)
Values == [s \in Sites |-> current[s].value]

LEMMA AppliedChangesProperty ==
    ASSUME Inv, pc = "select", NEW token \in evaluation.tokens, ApplyPatch(token)
    PROVE  Conservative!ChangeProperty(token.operation.site)
<1> DEFINE op == token.operation
           s == op.site
<1>1. /\ s \in Sites /\ s \notin TouchedSites
      /\ current \in Package /\ current' \in Package
      /\ \A t \in Sites : t # s => current'[t] = current[t]
      /\ current[s].status = "resolved"
      /\ current'[s] = Declaring(current[s], op.desired)
      /\ op.desired # current[s].value
      /\ op.desired \in AuthorizedValues(profile, s)
  BY AppliedPackage DEF TouchedSites, Inv, DocumentInv, Types
<1>2. TouchedSites' = TouchedSites \cup {s}
  BY AppendedLog
<1>3. current[s] \in SlotState(SlotOf[s]) /\ SlotOf[s] \in Slots
  BY <1>1, DocumentAssumption DEF Package
<1>4. current[s].value # None
  BY <1>1, <1>3, DocumentAssumption DEF SlotState
<1>5. current'[s].value = op.desired
  BY <1>1, <1>3 DEF SlotState, Declaring
<1>6. Values' = [Values EXCEPT ![s] = op.desired]
  BY <1>1, <1>5 DEF Values
<1>7. pc' = "evaluate" /\ profile' = profile
  BY ApplyStep DEF given
<1>8. ~Finished /\ Finished' = Finished
  BY <1>7 DEF Finished
<1>9. Values[s] = current[s].value
  BY <1>1 DEF Values
<1>10. \E v \in AuthorizedValues(profile, s) :
           v # Values[s] /\ Values' = [Values EXCEPT ![s] = v]
  BY <1>1, <1>6, <1>9
<1>11. Values[s] # None
  BY <1>4, <1>9
<1> QED BY <1>1, <1>2, <1>7, <1>8, <1>10, <1>11
    DEF Conservative!ChangeProperty, Values

LEMMA StutterOrStop ==
    ASSUME UNCHANGED <<given, current, transforms>>, pc \notin {"returned", "raised"}
    PROVE  Conservative!Next \/ UNCHANGED Conservative!vars
<1>1. profile' = profile /\ Values' = Values /\ TouchedSites' = TouchedSites
  BY DEF given, Values, TouchedSites
<1>2. CASE Finished'
  <2>1. ~Finished
    BY DEF Finished
  <2>2. Finished' = TRUE
    BY <1>2
  <2> QED BY <1>1, <2>1, <2>2 DEF Conservative!Next, Conservative!Stop, Values
<1>3. CASE ~Finished'
  <2>1. Finished' = Finished
    BY <1>3 DEF Finished
  <2> QED BY <1>1, <2>1 DEF Conservative!vars, Values
<1> QED BY <1>2, <1>3

LEMMA RefinementStep == Inv /\ [Next]_vars => [Conservative!Next]_Conservative!vars
<1> SUFFICES ASSUME Inv, [Next]_vars
             PROVE  Conservative!Next \/ UNCHANGED Conservative!vars
  OBVIOUS
<1>1. CASE EvaluateRaises \/ EvaluateCurrent
  BY <1>1, StutterOrStop DEF EvaluateRaises, EvaluateCurrent
<1>2. CASE FinishQuiescent \/ FinishAtLimit
  BY <1>2, StutterOrStop DEF FinishQuiescent, FinishAtLimit
<1>3. ASSUME pc = "select", NEW token \in evaluation.tokens, RejectPatch(token)
      PROVE  Conservative!Next \/ UNCHANGED Conservative!vars
  BY <1>3, StutterOrStop DEF RejectPatch
<1>4. ASSUME pc = "select", NEW token \in evaluation.tokens, ApplyPatch(token)
      PROVE  Conservative!Next \/ UNCHANGED Conservative!vars
  <2>1. token.operation.site \in Sites
    BY <1>4, AppliedPackage
  <2> QED BY <1>4, <2>1, AppliedChangesProperty DEF Conservative!Next
<1>5. CASE UNCHANGED vars
  <2>1. UNCHANGED <<pc, profile, current, transforms>>
    BY <1>5 DEF vars, given
  <2> QED BY <2>1 DEF Conservative!vars, TouchedSites, Finished
<1>6. CASE Terminated
  BY <1>5, <1>6 DEF Terminated
<1> QED BY <1>1, <1>2, <1>3, <1>4, <1>5, <1>6 DEF Next

(***************************************************************************)
(* The session implements the abstract specification of conservative       *)
(* formatting.                                                             *)
(***************************************************************************)
THEOREM Refinement == Spec => ImplementsConservativeFormatting
<1>1. Init => Conservative!Init
  <2> SUFFICES ASSUME Init
               PROVE  Conservative!Init
    OBVIOUS
  <2>1. transforms = <<>> /\ pc = "evaluate"
    BY DEF Init
  <2>2. TouchedSites = {}
    BY <2>1 DEF TouchedSites
  <2>3. Finished = FALSE
    BY <2>1 DEF Finished
  <2> QED BY <2>2, <2>3 DEF Conservative!Init
<1> QED BY <1>1, RefinementStep, Invariance, PTL
        DEF Spec, ImplementsConservativeFormatting, Conservative!Spec
-------------------------------------------------------------------------------
(***************************************************************************)
(* What a finished session returns, for every document, every profile and  *)
(* every limit.                                                            *)
(*                                                                         *)
(* The invariant of the loop speaks of the round under way. To it come the *)
(* log as the result will give it (LogInv): contiguous, within the limit,  *)
(* with no rejection remembered once the limit is reached, and with every  *)
(* changed site as the input and the profile alone make it; and that a     *)
(* result is built from the evaluation of the package it returns           *)
(* (ReturnInv).                                                            *)
(***************************************************************************)
LogIsContiguous ==
    LET n == Len(transforms)
    IN  IF n = 0 THEN input = current
        ELSE /\ transforms[1].input = input
             /\ transforms[n].output = current
             /\ \A i \in 1 .. n - 1 : transforms[i].output = transforms[i + 1].input

TouchedAreFormatted ==
    \A i \in DOMAIN transforms :
        LET s == transforms[i].operation.site IN current[s] = Formatted(s)

LogInv ==
    /\ Len(transforms) <= limit
    /\ rejected # {} => Len(transforms) < limit
    /\ LogIsContiguous
    /\ TouchedAreFormatted

Quiesced ==
    /\ Selectable = {}
    /\ outcome = Result(IF \E d \in evaluation.decisions : IsDeterministic(d)
                        THEN "quiescent_with_unapplied" ELSE "quiescent", FALSE)

Exhausted ==
    /\ Selectable # {}
    /\ LimitReached
    /\ outcome = Result("operation_limit_reached", TRUE)

ReturnInv ==
    pc = "returned" => evaluation = Evaluate(current) /\ (Quiesced \/ Exhausted)

ResultInv == Inv /\ LogInv /\ ReturnInv

-------------------------------------------------------------------------------
LEMMA Lengths ==
    ASSUME Inv
    PROVE  Len(transforms) \in Nat /\ limit \in Nat \ {0} /\ DOMAIN transforms = 1 .. Len(transforms)
BY SessionAssumption DEF Inv, DocumentInv, Types

(***************************************************************************)
(* A rejection leaves the log as it is, and happens below the limit.       *)
(***************************************************************************)
LEMMA RejectKeepsLog ==
    ASSUME Inv, LogInv, pc = "select", NEW token \in evaluation.tokens, RejectPatch(token)
    PROVE  LogInv'
<1>1. UNCHANGED <<input, profile, limit, current, transforms>>
  BY RejectStep DEF given
<1>2. Len(transforms) < limit
  BY Lengths DEF RejectPatch, LimitReached
<1>3. LogIsContiguous'
  BY <1>1 DEF LogInv, LogIsContiguous
<1>4. TouchedAreFormatted'
  BY <1>1 DEF LogInv, TouchedAreFormatted, Formatted
<1> QED BY <1>1, <1>2, <1>3, <1>4 DEF LogInv

(***************************************************************************)
(* The site of an applied patch was as in the input, so that what is made  *)
(* of it now is what the input and the profile alone ask for.              *)
(***************************************************************************)
LEMMA AppliedAsFormatted ==
    ASSUME Inv, pc = "select", NEW token \in evaluation.tokens, ApplyPatch(token)
    PROVE  current'[token.operation.site] = Formatted(token.operation.site)
<1> DEFINE op == token.operation
           s == op.site
           verdict == DecideProperty(SlotOf[s], RuleFor(profile, s), current[s])
<1>1. /\ s \in Sites /\ s \in DecidedSites(profile) /\ s \notin TouchedSites
      /\ current'[s] = Declaring(current[s], op.desired)
  BY AppliedPackage DEF TouchedSites
<1>2. current[s] = input[s]
  BY <1>1 DEF Inv, DocumentInv, ChangesAreAuthorized
<1>3. profile \in Profile /\ current \in Package /\ op \in PlannedNow
      /\ OutcomeNow(op) = Applied
  BY ApplyStep, ProfileType, TokenOfRound DEF Inv, DocumentInv
<1>4. verdict.actionability = "deterministic_change" /\ verdict.desired = op.desired
  BY <1>3, PlannedOperations DEF PlannedNow
<1>5. ShapeOutcome(current[s], SlotOf[s], verdict.desired) = Applied
  BY <1>3, <1>4 DEF OutcomeNow
<1>6. Formatted(s) = Declaring(input[s], verdict.desired)
  BY <1>1, <1>2, <1>4, <1>5 DEF Formatted, Declaring
<1> QED BY <1>1, <1>2, <1>4, <1>6

LEMMA ApplyKeepsLog ==
    ASSUME Inv, LogInv, pc = "select", NEW token \in evaluation.tokens, ApplyPatch(token)
    PROVE  LogInv'
<1> DEFINE op == token.operation
           n == Len(transforms)
<1>1. /\ n \in Nat /\ DOMAIN transforms = 1 .. n /\ DOMAIN transforms' = 1 .. n + 1
      /\ \A i \in 1 .. n : transforms'[i] = transforms[i]
      /\ transforms'[n + 1] = Transform(op, current, current')
  BY AppendedLog
<1>2. Len(transforms') = n + 1
  BY <1>1, AppendedLog
<1>3. UNCHANGED <<input, profile, limit>> /\ rejected' = {}
  BY ApplyStep DEF given
<1>4. n < limit /\ limit \in Nat
  BY Lengths DEF ApplyPatch, LimitReached
<1>5. LogIsContiguous'
  <2>1. Transform(op, current, current').input = current
        /\ Transform(op, current, current').output = current'
    BY DEF Transform
  <2>2. CASE n = 0
    BY <1>1, <1>2, <1>3, <2>1, <2>2 DEF LogInv, LogIsContiguous
  <2>3. CASE n # 0
    <3>1. 1 \in 1 .. n /\ n \in 1 .. n
      BY <1>1, <2>3
    <3>2. /\ transforms'[1].input = input'
          /\ transforms'[n + 1].output = current'
          /\ transforms'[n].output = transforms'[n + 1].input
      BY <1>1, <1>3, <2>1, <2>3, <3>1 DEF LogInv, LogIsContiguous
    <3>3. ASSUME NEW i \in 1 .. n, i # n
          PROVE  transforms'[i].output = transforms'[i + 1].input
      <4>1. i \in 1 .. n - 1 /\ i + 1 \in 1 .. n
        <5>1. n \in Nat
          BY <1>1
        <5> HIDE DEF n
        <5> QED BY <3>3, <5>1
      <4>2. transforms[i].output = transforms[i + 1].input
        BY <2>3, <4>1 DEF LogInv, LogIsContiguous
      <4> QED BY <1>1, <4>1, <4>2
    <3>4. Len(transforms') # 0 /\ Len(transforms') - 1 = n
      BY <1>1, <1>2
    <3>5. \A i \in 1 .. n : transforms'[i].output = transforms'[i + 1].input
      BY <3>2, <3>3
    <3> HIDE DEF n
    <3> QED BY <1>2, <3>2, <3>4, <3>5 DEF LogIsContiguous
  <2> QED BY <2>2, <2>3
<1>6. TouchedAreFormatted'
  <2>1. SUFFICES ASSUME NEW i \in DOMAIN transforms'
                 PROVE  current'[transforms'[i].operation.site]
                            = Formatted(transforms'[i].operation.site)
    BY <1>3 DEF TouchedAreFormatted, Formatted
  <2>2. CASE i \in DOMAIN transforms
    <3>1. /\ transforms'[i] = transforms[i]
          /\ transforms[i].operation.site \in Sites
          /\ transforms[i].operation.site # op.site
      BY <1>1, <2>2, AppliedPackage
    <3>2. current'[transforms[i].operation.site] = current[transforms[i].operation.site]
      BY <3>1, AppliedPackage
    <3> QED BY <2>2, <3>1, <3>2 DEF LogInv, TouchedAreFormatted
  <2>3. CASE i = n + 1
    BY <1>1, <2>3, AppliedAsFormatted DEF Transform
  <2>4. i \in 1 .. n \/ i = n + 1
    <3>1. n \in Nat /\ i \in 1 .. n + 1
      BY <1>1
    <3> HIDE DEF n
    <3> QED BY <3>1
  <2> QED BY <1>1, <2>2, <2>3, <2>4
<1> QED BY <1>2, <1>3, <1>4, <1>5, <1>6 DEF LogInv

LEMMA SameLog ==
    ASSUME LogInv, UNCHANGED <<input, profile, limit, current, transforms, rejected>>
    PROVE  LogInv'
BY DEF LogInv, LogIsContiguous, TouchedAreFormatted, Formatted

-------------------------------------------------------------------------------
LEMMA ResultInvInit == Init => ResultInv
<1> SUFFICES ASSUME Init
             PROVE  LogInv /\ ReturnInv
  BY InvInit DEF ResultInv
<1>1. transforms = <<>> /\ rejected = {} /\ input = current /\ limit \in Nat
  BY SessionAssumption DEF Init
<1>2. LogInv
  BY <1>1 DEF LogInv, LogIsContiguous, TouchedAreFormatted
<1> QED BY <1>2 DEF Init, ReturnInv

LEMMA ResultInvNext == ResultInv /\ [Next]_vars => ResultInv'
<1> SUFFICES ASSUME ResultInv, [Next]_vars
             PROVE  LogInv' /\ ReturnInv'
  BY InvNext DEF ResultInv
<1>1. Inv /\ LogInv /\ ReturnInv
  BY DEF ResultInv
<1>2. CASE EvaluateRaises \/ EvaluateCurrent
  <2>1. UNCHANGED <<input, profile, limit, current, transforms, rejected>>
    BY <1>2 DEF EvaluateRaises, EvaluateCurrent, given
  <2>2. pc' # "returned"
    BY <1>2 DEF EvaluateRaises, EvaluateCurrent, Raise
  <2> QED BY <1>1, <2>1, <2>2, SameLog DEF ReturnInv
<1>3. CASE FinishQuiescent \/ FinishAtLimit
  <2>1. UNCHANGED <<input, profile, limit, current, transforms, rejected, evaluation>>
    BY <1>3 DEF FinishQuiescent, FinishAtLimit, given
  <2>2. /\ Selectable' = Selectable /\ LimitReached' = LimitReached
        /\ Evaluate(current)' = Evaluate(current)
        /\ \A status, l : Result(status, l)' = Result(status, l)
    BY <2>1 DEF Selectable, RejectedOperations, LimitReached, Evaluate, Result, FindingsOf
  <2>3. evaluation = Evaluate(current)
    BY <1>1, <1>3 DEF Inv, ControlInv, FinishQuiescent, FinishAtLimit
  <2>4. CASE FinishQuiescent
    <3>1. Quiesced'
      BY <2>1, <2>2, <2>4 DEF FinishQuiescent, Return, Quiesced
    <3> QED BY <1>1, <2>1, <2>2, <2>3, <3>1, SameLog DEF ReturnInv
  <2>5. CASE FinishAtLimit
    <3>1. Exhausted'
      BY <2>1, <2>2, <2>5 DEF FinishAtLimit, Return, Exhausted
    <3> QED BY <1>1, <2>1, <2>2, <2>3, <3>1, SameLog DEF ReturnInv
  <2> QED BY <1>3, <2>4, <2>5
<1>4. ASSUME pc = "select", NEW token \in evaluation.tokens,
             RejectPatch(token) \/ ApplyPatch(token)
      PROVE  LogInv' /\ ReturnInv'
  <2>1. LogInv'
    BY <1>1, <1>4, RejectKeepsLog, ApplyKeepsLog
  <2>2. pc' = "evaluate"
    BY <1>1, <1>4, RejectStep, ApplyStep
  <2> QED BY <2>1, <2>2 DEF ReturnInv
<1>5. CASE UNCHANGED vars
  <2>1. UNCHANGED <<pc, input, profile, limit, current, transforms, rejected, evaluation,
                    outcome>>
    BY <1>5 DEF vars, given
  <2>2. /\ Selectable' = Selectable /\ LimitReached' = LimitReached
        /\ Evaluate(current)' = Evaluate(current)
        /\ \A status, l : Result(status, l)' = Result(status, l)
    BY <2>1 DEF Selectable, RejectedOperations, LimitReached, Evaluate, Result, FindingsOf
  <2>3. ReturnInv'
    BY <1>1, <2>1, <2>2 DEF ReturnInv, Quiesced, Exhausted
  <2> QED BY <1>1, <2>1, <2>3, SameLog
<1>6. CASE Terminated
  BY <1>5, <1>6 DEF Terminated
<1> QED BY <1>2, <1>3, <1>4, <1>5, <1>6 DEF Next

LEMMA ResultInvariance == Spec => []ResultInv
BY ResultInvInit, ResultInvNext, PTL DEF Spec
-------------------------------------------------------------------------------
(***************************************************************************)
(* The evaluation of the current package: its decisions, the operations    *)
(* planned from them, all of them cleared, each with its token.            *)
(***************************************************************************)
LEMMA EvaluationNow ==
    ASSUME DocumentInv, evaluation = Evaluate(current)
    PROVE  /\ evaluation.decisions = Decisions(current, profile)
           /\ evaluation.plan.operations = PlannedNow
           /\ \A op \in PlannedNow : evaluation.gate[op] = Cleared
           /\ \A token \in evaluation.tokens : token.operation \in PlannedNow
<1> DEFINE decisions == Decisions(current, profile)
           plan == OperationPlan(current, decisions)
<1>1. /\ evaluation.decisions = decisions
      /\ evaluation.plan = plan
      /\ evaluation.gate = [o \in plan.operations |->
                               GateResult(o, plan, decisions, current, profile)]
      /\ evaluation.tokens = ClearedOperations(plan, decisions, current, profile)
  BY DEF Evaluate
<1>2. plan.operations = PlannedNow
  BY DEF OperationPlan, PlannedNow
<1>3. \A op \in PlannedNow : GateResult(op, plan, decisions, current, profile) = Cleared
  BY ProfileType, OwnPackageIsCleared DEF DocumentInv, PlannedNow
<1> HIDE DEF plan, decisions
<1>4. \A token \in evaluation.tokens : token.operation \in plan.operations
  BY <1>1, TokensOfAReport
<1> QED BY <1>1, <1>2, <1>3, <1>4 DEF decisions

(***************************************************************************)
(* A planned operation is the one of its decision, which asks for a change. *)
(***************************************************************************)
LEMMA PlannedFromDecision ==
    ASSUME NEW op \in PlannedNow
    PROVE  /\ op = PlannedOperation(op.decision)
           /\ op.decision \in Decisions(current, profile)
           /\ IsDeterministic(op.decision)
<1>1. PICK d \in Decisions(current, profile) : IsDeterministic(d) /\ op = PlannedOperation(d)
  BY DEF PlannedNow, Operations
<1>2. op.decision = d
  BY <1>1 DEF PlannedOperation
<1> QED BY <1>1, <1>2

LEMMA DecisionIsPlanned ==
    ASSUME NEW d \in Decisions(current, profile), IsDeterministic(d)
    PROVE  PlannedOperation(d) \in PlannedNow /\ PlannedOperation(d).decision = d
BY DEF PlannedNow, Operations, PlannedOperation

(***************************************************************************)
(* The one finding each planned operation of a finished session has.       *)
(***************************************************************************)
FindingNow(op) ==
    IF outcome.status = "operation_limit_reached"
    THEN Finding("operation_limit", op, "operation_limit_reached")
    ELSE Finding("patch_rejected", op, OutcomeNow(op))

LEMMA QuiescedFindings ==
    ASSUME ResultInv, pc = "returned", Quiesced, NEW op \in PlannedNow
    PROVE  /\ FindingsOf(op, FALSE) = {Finding("patch_rejected", op, OutcomeNow(op))}
           /\ OutcomeNow(op) # Applied
<1>1. DocumentInv /\ evaluation = Evaluate(current)
  BY DEF ResultInv, ReturnInv, Inv
<1>2. PICK token \in evaluation.tokens : token.operation = op
  BY <1>1, EveryOperationHasToken
<1>3. op \in RejectedOperations
  BY <1>2 DEF Quiesced, Selectable
<1>4. \A r \in rejected : r.operation = op =>
          r.reason = OutcomeNow(op) /\ r.reason \in PhysicalRejections
  BY <1>1 DEF DocumentInv, RejectedArePlanned
<1>5. \E r \in rejected : r.operation = op
  BY <1>3 DEF RejectedOperations
<1>6. FindingsOf(op, FALSE) = {Finding("patch_rejected", op, OutcomeNow(op))}
  BY <1>3, <1>4, <1>5 DEF FindingsOf
<1> QED BY <1>4, <1>5, <1>6 DEF PhysicalRejections, Applied

LEMMA ExhaustedFindings ==
    ASSUME ResultInv, pc = "returned", Exhausted, NEW op \in PlannedNow
    PROVE  FindingsOf(op, TRUE) = {Finding("operation_limit", op, "operation_limit_reached")}
<1>1. ~(Len(transforms) < limit)
  BY Lengths DEF ResultInv, Exhausted, LimitReached
<1>2. RejectedOperations = {}
  BY <1>1 DEF ResultInv, LogInv, RejectedOperations
<1>3. evaluation.gate[op] = Cleared
  BY EvaluationNow DEF ResultInv, ReturnInv, Inv
<1> QED BY <1>2, <1>3 DEF FindingsOf

(***************************************************************************)
(* What a result holds.                                                    *)
(***************************************************************************)
LEMMA ReturnedResult ==
    ASSUME ResultInv, pc = "returned"
    PROVE  /\ outcome.input = input /\ outcome.output = current
           /\ outcome.transforms = transforms
           /\ outcome.decisions = Decisions(current, profile)
           /\ outcome.findings = {FindingNow(op) : op \in PlannedNow}
           /\ \/ Quiesced /\ outcome.status = "quiescent_with_unapplied" /\ PlannedNow # {}
              \/ Quiesced /\ outcome.status = "quiescent" /\ PlannedNow = {}
              \/ Exhausted /\ outcome.status = "operation_limit_reached" /\ PlannedNow # {}
<1>1. DocumentInv /\ evaluation = Evaluate(current) /\ (Quiesced \/ Exhausted)
  BY DEF ResultInv, ReturnInv, Inv
<1>2. /\ evaluation.decisions = Decisions(current, profile)
      /\ evaluation.plan.operations = PlannedNow
  BY <1>1, EvaluationNow
<1>3. /\ outcome.input = input /\ outcome.output = current
      /\ outcome.transforms = transforms
      /\ outcome.decisions = Decisions(current, profile)
  <2>1. \A status, l : LET result == Result(status, l)
                       IN  /\ result.input = input /\ result.output = current
                           /\ result.transforms = transforms
                           /\ result.decisions = Decisions(current, profile)
    BY <1>2 DEF Result
  <2> QED BY <1>1, <2>1 DEF Quiesced, Exhausted
<1>4. CASE Quiesced
  <2>1. outcome.findings = UNION {FindingsOf(op, FALSE) : op \in PlannedNow}
    BY <1>2, <1>4 DEF Quiesced, Result
  <2>2. outcome.status = IF \E d \in Decisions(current, profile) : IsDeterministic(d)
                         THEN "quiescent_with_unapplied" ELSE "quiescent"
    BY <1>2, <1>4 DEF Quiesced, Result
  <2>3. (\E d \in Decisions(current, profile) : IsDeterministic(d)) <=> PlannedNow # {}
    BY DecisionIsPlanned, PlannedFromDecision
  <2>4. \A op \in PlannedNow : FindingsOf(op, FALSE) = {FindingNow(op)}
    BY <1>4, <2>2, QuiescedFindings DEF FindingNow
  <2>5. outcome.findings = {FindingNow(op) : op \in PlannedNow}
    <3>1. \A f : f \in outcome.findings <=> \E op \in PlannedNow : f \in FindingsOf(op, FALSE)
      BY <2>1
    <3>2. \A op \in PlannedNow : \A f : f \in FindingsOf(op, FALSE) <=> f = FindingNow(op)
      BY <2>4
    <3>3. \A f : f \in outcome.findings <=> \E op \in PlannedNow : f = FindingNow(op)
      BY <3>1, <3>2
    <3> QED BY <3>3
  <2> QED BY <1>3, <1>4, <2>2, <2>3, <2>5
<1>5. CASE Exhausted
  <2>1. outcome.findings = UNION {FindingsOf(op, TRUE) : op \in PlannedNow}
        /\ outcome.status = "operation_limit_reached"
    BY <1>2, <1>5 DEF Exhausted, Result
  <2>2. \A op \in PlannedNow : FindingsOf(op, TRUE) = {FindingNow(op)}
    BY <1>5, <2>1, ExhaustedFindings DEF FindingNow
  <2>3. outcome.findings = {FindingNow(op) : op \in PlannedNow}
    <3>1. \A f : f \in outcome.findings <=> \E op \in PlannedNow : f \in FindingsOf(op, TRUE)
      BY <2>1
    <3>2. \A op \in PlannedNow : \A f : f \in FindingsOf(op, TRUE) <=> f = FindingNow(op)
      BY <2>2
    <3>3. \A f : f \in outcome.findings <=> \E op \in PlannedNow : f = FindingNow(op)
      BY <3>1, <3>2
    <3> QED BY <3>3
  <2>4. PlannedNow # {}
    BY <1>1, <1>5, EvaluationNow DEF Exhausted, Selectable
  <2> QED BY <1>3, <1>5, <2>1, <2>3, <2>4
<1> QED BY <1>1, <1>4, <1>5

-------------------------------------------------------------------------------
(***************************************************************************)
(* The constructor checks of ProcessingSessionResult never fail on what    *)
(* the engine hands it: no finished session ends in a ValueError.          *)
(***************************************************************************)
THEOREM ResultsAreWellFormed == Spec => []ResultHonoursContract
<1>1. ResultInv => ResultHonoursContract
  <2> SUFFICES ASSUME ResultInv, pc = "returned"
               PROVE  ChainIsContiguous(outcome) /\ FindingsBind(outcome) /\ StatusAgrees(outcome)
    BY DEF ResultHonoursContract
  <2>1. ChainIsContiguous(outcome)
    BY ReturnedResult DEF ResultInv, LogInv, LogIsContiguous, ChainIsContiguous
  <2>2. \A op \in PlannedNow : FindingNow(op).operation = op
    BY DEF FindingNow, Finding
  <2>3. FindingsBind(outcome)
    BY <2>2, ReturnedResult, PlannedFromDecision DEF FindingsBind
  <2>4. ASSUME PlannedNow # {}
        PROVE  /\ {d \in outcome.decisions : IsDeterministic(d)} # {}
               /\ \E op \in PlannedNow : FindingNow(op).kind \in {f.kind : f \in outcome.findings}
    BY <2>4, ReturnedResult, PlannedFromDecision
  <2>5. ASSUME outcome.status = "operation_limit_reached"
        PROVE  StatusAgrees(outcome)
    <3>1. \A op \in PlannedNow : FindingNow(op).kind = "operation_limit"
      BY <2>5 DEF FindingNow, Finding
    <3>2. PlannedNow # {}
      BY <2>5, ReturnedResult
    <3> QED BY <2>4, <2>5, <3>1, <3>2 DEF StatusAgrees
  <2>6. ASSUME outcome.status = "quiescent_with_unapplied"
        PROVE  StatusAgrees(outcome)
    <3>1. \A op \in PlannedNow : FindingNow(op).kind = "patch_rejected"
      BY <2>6 DEF FindingNow, Finding
    <3>2. PlannedNow # {}
      BY <2>6, ReturnedResult
    <3> QED BY <2>4, <2>6, <3>1, <3>2 DEF StatusAgrees
  <2>7. ASSUME outcome.status = "quiescent"
        PROVE  StatusAgrees(outcome)
    <3>1. PlannedNow = {}
      BY <2>7, ReturnedResult
    <3>2. outcome.findings = {}
      BY <3>1, ReturnedResult
    <3>3. \A d \in outcome.decisions : ~IsDeterministic(d)
      BY <3>1, ReturnedResult, DecisionIsPlanned
    <3> QED BY <2>7, <3>2, <3>3 DEF StatusAgrees
  <2>8. StatusAgrees(outcome)
    BY <2>5, <2>6, <2>7, ReturnedResult
  <2> QED BY <2>1, <2>3, <2>8
<1> QED BY <1>1, ResultInvariance, PTL

(***************************************************************************)
(* Every change the final decisions ask for has exactly one finding, and   *)
(* no other decision has any (_final_findings).                            *)
(***************************************************************************)
THEOREM ChangesAreAccounted == Spec => []EveryChangeAccounted
<1>1. ResultInv => EveryChangeAccounted
  <2> SUFFICES ASSUME ResultInv, pc = "returned", NEW d \in outcome.decisions
               PROVE  Cardinality({f \in outcome.findings : f.operation.decision = d})
                          = IF IsDeterministic(d) THEN 1 ELSE 0
    BY DEF EveryChangeAccounted
  <2> DEFINE about == {f \in outcome.findings : f.operation.decision = d}
  <2>1. d \in Decisions(current, profile)
        /\ outcome.findings = {FindingNow(op) : op \in PlannedNow}
    BY ReturnedResult
  <2>2. \A op \in PlannedNow : FindingNow(op).operation = op
    BY DEF FindingNow, Finding
  <2>3. CASE IsDeterministic(d)
    <3> DEFINE op == PlannedOperation(d)
    <3>1. op \in PlannedNow /\ op.decision = d
      BY <2>1, <2>3, DecisionIsPlanned
    <3>2. \A other \in PlannedNow : other.decision = d => other = op
      BY PlannedFromDecision
    <3> HIDE DEF op
    <3>3. about = {FindingNow(op)}
      BY <2>1, <2>2, <3>1, <3>2
    <3>4. Cardinality(about) = 1
      BY <3>3, FS_Singleton
    <3> QED BY <2>3, <3>4
  <2>4. CASE ~IsDeterministic(d)
    <3>1. about = {}
      BY <2>1, <2>2, <2>4, PlannedFromDecision
    <3>2. Cardinality(about) = 0
      BY <3>1, FS_EmptySet
    <3> QED BY <2>4, <3>2
  <2> QED BY <2>3, <2>4
<1> QED BY <1>1, ResultInvariance, PTL

(***************************************************************************)
(* A session stopped by its limit has applied exactly that many operations *)
(* and reports every operation left, and nothing else, as held back.       *)
(***************************************************************************)
THEOREM LimitCounts == Spec => []LimitIsExact
<1>1. ResultInv => LimitIsExact
  <2> SUFFICES ASSUME ResultInv
               PROVE  LimitIsExact
    OBVIOUS
  <2>1. Len(transforms) <= limit
    BY DEF ResultInv, LogInv
  <2>2. ASSUME pc = "returned", outcome.status = "operation_limit_reached"
        PROVE  /\ Len(outcome.transforms) = limit
               /\ outcome.decisions = Decisions(outcome.output, profile)
               /\ {f.kind : f \in outcome.findings} = {"operation_limit"}
    <3>1. Exhausted /\ PlannedNow # {}
      BY <2>2, ReturnedResult
    <3>2. Len(transforms) = limit
      BY <2>1, <3>1, Lengths DEF Exhausted, LimitReached, ResultInv
    <3>3. \A op \in PlannedNow : FindingNow(op).kind = "operation_limit"
      BY <2>2 DEF FindingNow, Finding
    <3>4. {f.kind : f \in outcome.findings} = {"operation_limit"}
      BY <2>2, <3>1, <3>3, ReturnedResult
    <3> QED BY <2>2, <3>2, <3>4, ReturnedResult
  <2> QED BY <2>1, <2>2 DEF LimitIsExact
<1> QED BY <1>1, ResultInvariance, PTL

(***************************************************************************)
(* The one-step description of a quiescent session: its output is at every *)
(* site what the input and the profile alone ask for, however many rounds  *)
(* and rejections it took to get there.                                    *)
(***************************************************************************)
THEOREM QuiescenceIsFormatting == Spec => []QuiescentIsFormatted
<1>1. ResultInv => QuiescentIsFormatted
  <2> SUFFICES ASSUME ResultInv, pc = "returned",
                      outcome.status # "operation_limit_reached", NEW s \in Sites
               PROVE  current[s] = Formatted(s)
    BY ReturnedResult DEF QuiescentIsFormatted
  <2>1. Quiesced /\ DocumentInv
    BY ReturnedResult DEF ResultInv, Inv
  <2>2. CASE s \in TouchedSites
    BY <2>2 DEF ResultInv, LogInv, TouchedAreFormatted, TouchedSites
  <2>3. CASE s \notin TouchedSites
    <3> DEFINE verdict == DecideProperty(SlotOf[s], RuleFor(profile, s), input[s])
    <3>1. current[s] = input[s]
      BY <2>1, <2>3 DEF DocumentInv, ChangesAreAuthorized
    <3>2. ASSUME s \in DecidedSites(profile), verdict.actionability = "deterministic_change"
          PROVE  ShapeOutcome(input[s], SlotOf[s], verdict.desired) # Applied
      <4> DEFINE op == PlannedOperation(Decision(current, profile, s))
      <4>1. op \in PlannedNow
        BY <3>1, <3>2, OperationIsPlanned DEF PlannedNow
      <4>2. op.site = s /\ op.desired = verdict.desired
        BY <3>1 DEF PlannedOperation, Decision
      <4>3. OutcomeNow(op) # Applied
        BY <2>1, <4>1, QuiescedFindings
      <4> HIDE DEF op
      <4> QED BY <3>1, <4>2, <4>3 DEF OutcomeNow
    <3> QED BY <3>1, <3>2 DEF Formatted
  <2> QED BY <2>2, <2>3
<1> QED BY <1>1, ResultInvariance, PTL
===============================================================================
