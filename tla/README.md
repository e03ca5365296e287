# Formal verification of formatador-academico

`formatador-academico` formats an academic document (a DOCX package) to a
profile of norms, conservatively: it changes a formatting property only where
the profile says which value it must have, where the present value is known and
where the XML around it has a shape it can edit without touching anything else;
everything else it reports. This directory holds TLA+ models of that program,
the TLC configurations that check them, and the proofs of the theorems that TLAPS
checks for every value of the constants. Paths of source files below are relative to
`src/src/formatador_academico/`; the numbered decisions are in `src/docs/decisions/`.

    tlc -workers 2 -config MCProcessingSession.cfg MCProcessingSession   # one run
    tlapm ProcessingSessionProofs.tla                                    # one proof module

`PROJECT.json` lists the components, runs, mutants (for each property a
plausible bug of the code that violates it), the source lines every definition
stands for, the hazards and the findings.

## 1. The system

A document goes through a chain of stages. Each is a function of its inputs
that reports what it did in records bound to one another by SHA-256 hashes; the
processing session is the loop around them, the web server the process around
the session.

| Component | State | Operations | What makes it correct |
|---|---|---|---|
| `docx_parser`, `parser_api` | none | package bytes to a physical IR: paragraphs and runs with structural paths and fingerprints | a path names one node and always the same one; the fingerprint covers the element and nothing above it |
| `analysis` | none | resolves each property through element, character style, paragraph style, defaults | unknown is never reported as known; cycles and unreadable levels block instead of being skipped |
| `classification` | none | class of each paragraph from its paragraph style, runs from their paragraph, otherwise abstention | abstains rather than guesses |
| `decision` | none | rule and resolved value to a Decision | a change only where the rule determines the value |
| `operation_plan` | none | deterministic decisions to operations, with precondition and target hash | one operation per decision, none invented |
| `safety_gate` | none | compares plan, current snapshot and active profile; issues tokens | nothing stale is cleared |
| `patcher` | none | one token on one snapshot: shape checks, XML surgery, allowed-delta check, postcondition | atomic; changes one property of one element |
| `transform_log` | none | the record of one applied operation | binds both packages and the decision |
| `processing_session` | current package, records, packages seen, rejections, evaluation | evaluate, select, patch, return or raise | see section 4.1 |
| `profile_input` | none | a profile file to rules, bindings and canonical numbers | what it accepts, the decision layer accepts |
| `product_input_boundary`, `product_output_bundle`, `product_delivery` | none | bytes in to five files out, with lineage checks and a taxonomy of errors | a delivery is of one lineage, an error is one of the named kinds, the files have a safe name |
| `processing_report` | none | a session result to applied, unapplied and review items | every site is in the report at most once, and there if anything is left to do |
| `review_docx` | none per call; within it, the tree it marks | report and clean package to a highlighted copy | every item shows if it can; nothing but highlights differs |
| `human_report` | none | the report as Markdown | wording only |
| `web_app/server.py` | a semaphore of connection slots, per connection a socket, a handler thread, a deadline timer | accept, read, process, deliver or reject, release | slots are never lost, an upload is processed whole or not at all, no client holds a slot forever |
| `normalized_text` | none | the text a paragraph reads as | what is deleted, coded or opaque does not count as text |
| web assets, corpus tools | none | static files; offline tools | not modelled |

Interactions. Within a process all stages are synchronous calls from
`process_document`, and the files of a delivery are made by a chain of calls around it
(profile, session, report, review copy, delivery). The public interface also lets a caller make the plan, the gate
report and the patch as three calls of its own, with anything in between. The web
server runs one session per connection in a thread of its own and shares with
the other connections only the semaphore; it shares the socket with a timer
thread, which shuts its reading side down at the deadline.

What is hard here. *Restarting*: every applied operation starts the session over
on a new package and forgets the rejections, and nothing in the loop's own
state says why that makes progress. *Staleness*: plans, decisions, tokens and
rejections are kept by reference and used later. *Accumulation*: each operation edits
XML that the previous ones left. *Sharing*: a property's element carries attributes other
features own, and a container serves several properties. *Cascades*: toggles, cycles,
duplicated identifiers, several defaults. *Naming*: a paragraph or a run is known by a path that counts
siblings, kept while elements are inserted around it, and found again by four different walks.
*Agreement*: numbers are checked by three components and converted by a fourth; paragraphs are classified by one
walk along `basedOn` and formatted by another. *Threads and deadlines* in the server,
with stalled or vanishing clients, partial writes and threads that do not start.
`PROJECT.json` lists these hazards at their lines, each with the properties aimed at it.

## 2. The modules

    Document ── DecisionLayer ── GateAndPatch ─┬─ ProcessingSession ── MCProcessingSession
    (sites,     (decide, plan)   (veto, patch) │    └ implements ConservativeFormatting
     hashes)                                   ├─ PlanGatePatch ── MCPlanGatePatch
                                               └─ (instance) ElementPatch ── MCElementPatch
    FormattingAnalysis ─┬─ XmlPatch ── ElementPatch
    (the cascade)       └─ StyleCatalog ── Classification ── MCStyleCatalog
    Trees ── PhysicalIR ── ReviewDocx ─┐
    StoryDiscovery ────────────────────┼─ ProductChain ── MCProductChain
    ProfileInput ──────────────────────┤
    ProductDelivery ───────────────────┘
    LocalWebServer ── MCLocalWebServer
    Selection: the elements of a sequence at some of its indices (used by Trees, ProductDelivery, XmlPatch)
    PipelineProofs, ProcessingSessionProofs, PlanGatePatchProofs, LocalWebServerProofs,
    StructureProofs ── ElementPatchProofs, StyleCatalogProofs, ProductChainProofs

**Document** (`docx_parser.py`, `analysis/formatting_model.py`, `classification/`). A
package is a function from *sites* (one property slot of one paragraph or run, numbered in
decision order) to what the analysis resolves there (`status`, `value`), whether the element
itself declares the property, and the `shape` of the XML around it: canonical, or the
reason for which the patcher will refuse it. A SHA-256 is modelled by the content
it fingerprints, so hashes are equal exactly when the contents are: collisions are
assumed away. `PhysicalHash` is the fingerprint of one element alone: it contains
what the element declares and not what it inherits, so that a change of styles alone does
not alter it; a paragraph's contains its runs.

**DecisionLayer** (`decision/engine.py`, `operation_plan/planner.py`): `DecideProperty` by
rule mode, `Decisions`, `OperationPlan`, and `ContradictsContract`, the condition under
which the planner raises.

**GateAndPatch** (`safety_gate/gate.py`, `patcher/applicator.py`): the global and local
vetoes in order, the tokens, the preconditions of the patcher in order and its effect. The vetoes for
parser, analysis and classification versions and for a missing path cannot fire within one
process and are left out.

**ProcessingSession** (`processing_session/engine.py`, `processing_session/model.py`,
`transform_log/`). The loop of `process_document`:

| Action | Code |
|---|---|
| `EvaluateRaises`, `EvaluateCurrent` | `_evaluate`: every stage on the current package; unreadable bytes, a missing or unreadable style catalog and a contradictory decision raise |
| `FinishQuiescent` | `_select_next` finds nothing: `quiescent` or `quiescent_with_unapplied` |
| `FinishAtLimit` | the limit is reached with a token left |
| `RejectPatch` | the patcher rejects: an impossible reason raises, another is remembered for this package |
| `ApplyPatch` | the patcher applies: a package seen before raises, otherwise record, replace, forget the rejections |
| `Terminated` | the call has returned or raised |

**ConservativeFormatting** is what the session promises without saying how: one property at a
time, to an authorized value, none twice, none whose present value is unknown, until it stops.

**PlanGatePatch**: the same functions as three separate calls (`Plan`, `Gate`, `Patch`) of a
caller that keeps plans and tokens as long as it likes, while `Edit` replaces the document by any
other package and `ChangeProfile` the profile. Both are the environment: they have no code.

**FormattingAnalysis** (`analysis/formatting.py`, `property_bag.py`): the cascade for bold (a
toggle, which adds up over the styles), font size, alignment and line spacing over
*levels*, each a bag of property elements, or blocked. **StyleCatalog**
(`style_catalog.py` and `_style_chain_levels`, `_resolve_start_style`): the catalog as it is read
style by style, and the levels a reference stands for.

**Classification** (`classification/classifier.py`, `identity.py`, `projection.py`) extends it:
`Classify` is the decision table in its order (story, text, container, style), `StyleIdentity` the walk to a built-in
style with its depth limit, which goes on through an empty identifier where the formatting's chain ends (`HasParent`), and `ReportsMissing` the analysis warning that makes the classifier's own superfluous.

**XmlPatch** (`patcher/xml_patch.py`, `patcher/validation.py`): the content of one element as a
sequence of nodes, the shape checks, the surgery with the schema's order of children, the
allowed-delta check and the postcondition. **ElementPatch**: a paragraph and a run, patched
operation after operation. It defines the package of sites these elements abstract to and
instantiates `GateAndPatch` with it; `PatchIsThePipelines` says that the session's model of a patch
is right, outcome by outcome and site by site.

**LocalWebServer** (`web_app/server.py`). Per connection: the phase of its handler, the timer, whether
reading was shut down, what its client does, the request, the units received and the responses on
the wire; and the free slots.

| Action | Code |
|---|---|
| `Connect`, `Stall`, `GoAway` | clients: external |
| `AdmitOrRefuse`, `StartFails`, `StartHandler` | `process_request`: the semaphore, refusal, the release when no thread starts |
| `DeadlinePasses`, `ExpireReadPhase` | the timer thread and its callback, which may come after the cancellation |
| `ReadHead`, `HeadFails` | request line, headers, guards, until the route is known; a blank request line, or a session header that `compare_digest` cannot compare, ends the request (`Unanswerable`) |
| `ReceiveUnit`, `FinishBody`, `ClientEndsBody` | `_read_body` with and without a length |
| `Process` | multipart and pipeline, one choice of outcomes |
| `WriteHead`, `WritePayload`, `WriteFails` | `_send_delivery`, `_reject`, a rejection after a failed delivery |
| `Release` | `process_request_thread`: close, then release |

**PhysicalIR** (`docx_parser.py`, `parser_api.py`, `safety_gate/targets.py`, `analysis/normalized_text.py`). A
document is a tree of **Trees**: a function from nodes (sequences of child positions) to tags, of which `Inserted` and `Removed`
are the edits of lxml and `Precedes` is document order. `Records` gives each node the
type of record the parser makes of it, by tables (`Decomposed`, `TakenOnce`) of what a record of each type
decomposes; below an opaque or depth-limited record nothing has one. `StructuralPath`
and `Resolve` are the two directions of a path, and `Paragraphs`, `RunsOf`,
`TargetRecords`, `ParagraphAncestors`, `ContainersOf` the walks of the session, the gate and the classifier.

**StoryDiscovery** (`docx_parser.py`): which parts of a package become stories, by relationship and then by content
type, with what status, and what makes the parse `partial` or `failed`.

**ProfileInput** (`profile_input/`, with `processing_session/model.py` and the conversions of `patcher/xml_patch.py`): the
first fault of a profile, what the adapter makes of it, what the session accepts, and the exact integer the patcher writes, with
the two short cuts of `_exact_half_points`.

**ProductDelivery** (`product_delivery/`): the base name, one character class at a time. **ReviewDocx**
(`review_docx/`): candidates, bindings, reasons, marks and the proof of the allowed delta.

**ProductChain** composes these four into one request (`do_POST`, `build_product_from_inputs`,
`build_product_output_bundle`, `build_product_delivery`):

| Action | Code |
|---|---|
| `ReceiveUpload` | file name and limit, else 400 |
| `ReadProfile` | `processing_profile_from_json`, else 422; a number beyond Decimal's own exponents raises: 500; a profile only the session refuses would be a 500 |
| `ParsePackage` | the first `_evaluate`: a container that raises what the parser does not translate is a 500; `parse_bytes` must be `ok`, else 422; without a readable `word/styles.xml` the gate raises: 500 |
| `ApplyOperation`, `EndSession` | `process_document` on the tree: the first applicable change in decision order, until none or the limit; then the report |
| `BindReport`, `MarkCandidate`, `FinishReview` | `build_review_docx`: all bindings, one mark per candidate, the proof of the delta and the lineage, else 500 |
| `RefuseName`, `Deliver` | `build_product_delivery`: the name, else 422, and the checks of the models, else 500 |

The session is coarser here than in `ProcessingSession` (a change and the refusals before it are one step; a declared property
has the desired value or another) because the question is another: what happens to trees and paths, not to decisions. Its
`ClassOf` takes any `w:pStyle` for a heading; `Classification` has the classifier itself.

Definitions marked "faulty" in the modules are plausible bugs. No specification uses them; replacing
the definition they vary by one of them must violate the property named in `PROJECT.json`.

## 3. The runs

| Run | Bounds | What it shows |
|---|---|---|
| `session` | 5 sites on 2 paragraphs and a run, every combination of 2 to 5 states per site that share a container consistently, 4 profiles, limits 1, 2, 9 | safety, accounting, the refinement and termination, section 4.1 |
| `session_limit` | the same | finding 1 |
| `plan_gate_patch` | 3 sites on a paragraph and its run, 10 packages, 2 versions of norms | section 4.2 |
| `web_server` | 3 connections, 2 slots, bodies of up to one unit beyond a limit of 1 | section 4.3 |
| `web_server_liveness` | 2 connections, 1 slot | `SlotsComeBack` |
| `web_one_response` | 2 connections, 1 slot | finding 2 |
| `element_patch` | runs and paragraphs with up to two of a dozen properties in every order, three ordinary ones, misplaced, doubled and marked containers, 4 sets of inherited levels | section 4.4 |
| `element_line_rule` | the same | finding 3 |
| `style_catalog` | every sheet of up to 3 styles over 2 identifiers and the empty one | section 4.5 |
| `style_false_cycle` | the same | finding 4 |
| `product_chain` | 15127 states: requests that differ from a plain one in the name (up to 5 characters of 8 classes, more than the 4 that are accepted and the 3 it is cut to), the number or shape of a rule, the parts and relationships of the package (2 parts, 2 relationships) or what reading it raises, or the document with its profile, limit and inherited values | section 4.6 |
| `review_result_hash` | the same | finding 5 |

Why the bounds are enough. *Session*: every slot, every rule mode, every patch rejection, every
resolution status class and containers shared by two sites occur; limit 9 is never reached (a site changes
at most once), 1 and 2 stop sessions in the middle. The parts that could depend on size are proved (section
5). *Plan, gate, patch*: two versions of norms and any two packages are the most that a stale plan or token can tell
apart; the packages include pairs that differ in styles only. *Server*: more connections
than slots, so that refusals occur; connections meet only in the semaphore. One unit stands
for any proper part of a body: a limit of 1 distinguishes empty, at the limit and beyond, with an announced length
below, equal and above. *Elements*: a property can only be displaced by its neighbours in
one container, and each kind of neighbour (before, after, duplicate, foreign, out of order, nested) is
among the dozen. *Style sheets*: three styles over two identifiers and the empty one give cycles of one and two, a duplicate with a shadowed second definition, several
defaults, and a style found only through an empty identifier; the classifier's depth limit is 2 there (32 in the code), which is as far as three
styles reach. What the limit does to longer chains is proved, for every limit. *Product chain*: the inputs
are varied one at a time because the stages read different ones; only a document, its profile, its limit and what is
inherited meet, and these are varied together. Bounds that the code has are scaled down, each so that both sides of it occur:
structural depth 3 (64 in the code), names of 5 raw and 3 final characters (120 and 100), 4 significant digits and exponents up to 5
(32 and 16), line twips up to 10^6 (2147483647). The largest number of half-points is the real one, 3276, because
the short cuts of the conversion depend on it. Documents have one or two paragraphs of up to two runs, plain, deleted, coded,
highlighted, out of order, with foreign, repeated or misplaced properties, in revisions, links, tables and content controls to
the depth limit. Symmetry is used only by `web_server`, a safety run over interchangeable connections.

The runs of `MCElementPatch` and `MCStyleCatalog` do not check deadlock: an element with nothing left to
change and a sheet read to its end have no further step. Every other run does.

## 4. What is checked

### 4.1 The session

`OnlyAuthorizedChanges` (against the input, the package differs exactly at the recorded
sites and there only as authorized), `InDocumentOrder` (changes go forward through the
document although every round starts over), `RejectionsHoldNow` (what is remembered as rejected would
be rejected again on this very package), `GateNeverBlocks` and `NoImpossibleError` (the gate and
the integrity errors are defence in depth), `ResultHonoursContract` (the result passes the checks of its own
constructor: contiguous chain, bound findings, status), `EveryChangeAccounted` (exactly one finding
for each change not made), `LimitIsExact`, `QuiescentIsFormatted` (without the limit the result is what one
pass over the input, in no order, would give: no rejection or change keeps another site from its
own), the refinement `ImplementsConservativeFormatting`, and `Termination`.

Fairness: `WF_vars(Next)`. The session is a synchronous call that waits for nothing.

### 4.2 Plan, gate and patch in separate calls

`PatchIsStillDecided` (a patch happens only where deciding anew, under the profile of the
token, gives the same decision), `FirstPatchSpendsTheReport`, `NoDriftBehindSnapshot`,
`CompatibleContextClearsAll` (the local vetoes never fire once the context is compatible),
`ReportFollowsActiveProfile`. A token cleared under one profile may still be executed after the profile
was replaced: the patcher is not given the profile, so the property speaks of the
token's own.

### 4.3 The web server

`SlotsAccounted`, `AnsweredInFull` (a deadline that passes late costs nothing), `SuccessMeansWholeBody`
and, under fairness, `SlotsComeBack`.

Two requests of a client that keeps up are answered by nothing at all, and `AnsweredInFull` says that they are the only ones: a blank
request line, which the standard library drops, and a single `X-Formatador-Session` header that is not ASCII. `secrets.compare_digest`
raises `TypeError` on that one (`server.py:203`), and `_authorized` is called outside of any `try`, so the connection is closed where
another wrong token gets a 401. Decision 0057 says only that a wrong token is refused, which this does; it is therefore no finding. The
slot comes back all the same.

Fairness is weak and per connection, on what the process does by itself: its threads run, the timer fires
after its delay, the pipeline ends (it is a session, which terminates), and a write
either goes on or fails by its socket timeout. No action of a client is fair: `Connect`, `Stall`, `GoAway`,
`ReadHead`, `ReceiveUnit` and `ClientEndsBody` need not happen; what ends the reading is the timer.

### 4.4 The patcher on XML

`NoIntegrityError`: whatever the element looks like, what the patcher does not refuse it changes
within its own allowed delta, to an element that resolves to the desired value.
`PatchIsThePipelines`: the outcome is the one `GateAndPatch` gives for the abstract shape, and the
change is `Patched`, with every other site's value and shape as before. Numbers are tables of tokens
(`Sizes`, `Multiples`, `Lexical`). `DocumentsAssumption`: the documents to start from are well-formed XML under a sequence of levels.
`ValuesAssumption`: norms ask for values a document may have, and what the patcher writes the analysis reads back.

### 4.5 The style catalog

`CyclesDoNotContribute`, `BoldIsParity`, `ReferencesAreNotTakenOver` (a style read later takes
over no reference, unless it is a default or the first of its identifier), `ClassFollowsFormatting` (a paragraph is classified
as the first built-in style among those its formatting comes from, and not at all when there is none). The last speaks of
paragraphs for which both walks see the same start and no cycle. They differ, and the property says so, in three more cases: a default style
whose identifier an earlier style has (the classifier goes by the identifier and finds the earlier one, the formatting uses
the default entry); a reference that is written twice or without a value (formatting falls back to the default style,
the classifier abstains); and a style with `w:basedOn w:val=""`. There the chain of the formatting ends (`formatting.py:178`
tests for a false identifier), while the classifier, which stops only at an absent one (`identity.py:143`), looks the empty
identifier up, and decision 0016 lets a style have it: the class may then be that of a style the formatting never uses. Even so
a built-in style before that end decides the class.

### 4.6 The product chain

`EveryWalkSeesTheSameTargets` and `TargetsSurviveEdits` (a path names the same paragraph or run before and after
every insertion, with the text it had), `OnlyRequestsRaise` (a 500 is the answer only where reading the request itself raises, and then no product is: the session accepts every
profile that was accepted, the report's hashes bind, the delta is the allowed one, the name passes the checks of the delivery),
`StoriesAreComplete`, `AcceptedValuesAreWritable` (every number the schema admits is written exactly and read back as itself),
`EverySiteIsAccountedFor`, `EveryItemIsVisible`, `MarkedRunsStayCanonical` and `DeliveredNamesAreCanonical`. A request
whose name cannot be made safe is refused only after the document was processed (`RefuseName`); and a base name such as
`CON` followed by dots and further characters becomes a device name only by the cut, which is why the code validates twice.

What reading a request raises, without anyone on the way to `do_POST` translating it, is modelled as three inputs. A JSON number whose
exponent is beyond Decimal's own bounds (about 10^18) makes `Decimal` raise inside `json.loads` (`parser.py:123`; a smaller one that is still
too large is a 422). A package may be readable and have no readable `word/styles.xml`: the session parses it, decides on it, and the gate
raises (`gate.py:276`), which `build_product_output_bundle` does not catch. And a container may raise what `parse_bytes` does not catch, such
as the decompressor's error for a corrupt stream, an undecodable member name or a namespace that canonicalisation refuses; this last
class is one value (`raising`), whatever is wrong otherwise.

### 4.7 Findings

1. `session_limit`: `operation_limit_reached` is returned although every operation left is one
   the patcher would refuse, while decision 0032 says that the next *safely applicable* operation exists.
2. `web_one_response`: when writing a delivery fails after its head, `do_POST` begins a second
   response on the same connection; decision 0057 promises a single one.
3. `element_line_rule`: a `w:lineRule` without `w:line` ends the cascade as unresolved; decision
   0051 says it does not interrupt it and does not mask the inherited value.
4. `style_false_cycle`: a default style whose identifier an earlier style already has, and which is based on
   that identifier, is reported as a cycle and loses its own level, although no style is its own
   ancestor; decision 0018 says levels outside a cycle are not dropped.
5. `review_result_hash`: in `build_review_docx` the hash of a mark's result is the variable left over from the
   loop that resolved the candidates, so that every result carries the hash of the last one; decision 0036 says it is the hash
   of the result's own target.

One more difference has no run: decision 0049 lists as a test that a paragraph with a finding of a run and one of its own gets a
single mark. Candidates are marked in the order of the report, so that a run marked before its paragraph leaves
the paragraph to be marked on another run.

## 5. What is proved

All theorems are for arbitrary finite documents, classes of targets, profiles and limits. They assume
`DocumentAssumption` (sites are a finite set of naturals; a target has at most one site per
slot and its fingerprint covers its own sites; no value is `None`; auto values are line
spacings), `SessionAssumption` or `ProtocolAssumption` (the packages and profiles given are of their types; one
content per profile version), and that a hash is its content.

**`PipelineProofs`**: lemmas about the stages as functions. Among them: a deterministic decision has a
desired value that differs from the observed one (`DesiredValue`), deciding again on a site that has its desired
value asks for nothing (`DesiredSettles`, `PatchedSettles`), no decision contradicts the planner's
contract (`DecisionsHonourContract`), an operation planned on a package is cleared on it
(`OwnPackageIsCleared`), and a patch gives a package that differs from the old one at its site only
(`PatchedIsPackage`, `PatchedDiffers`, `PatchedElsewhere`).

**`ProcessingSessionProofs`**: `TypeCorrectness`, `AuthorizedChanges`, `DocumentOrder`,
`RejectionsAreCurrent`, `GateIsTransparent`, `NoImpossibleErrors` and `Refinement` (every session is a
behaviour of `ConservativeFormatting`). None of these properties is inductive. The invariant is
`Inv == DocumentInv /\ ControlInv`, where beside the types

- `TouchedAreSettled`: a changed site now has the value its rule wants, so it is never planned again;
- `SeenAreLeftBehind`: a package seen earlier differs from the current one at a changed site. As a patch
  changes an unchanged site only, the next package is new, which is why the cycle check cannot fire;
- `RejectedArePlanned`: what was rejected is planned now and is refused now, for that reason;
- `PassedOverAreRejected`: an operation planned now before a changed site is one the patcher refuses.
  It was passed over when that site was changed and its site and shape have not changed since. This is why
  the order is kept although the rejections are forgotten;
- `pc = "select" => evaluation = Evaluate(current)`: the evaluation does not lag behind the package.

**`PlanGatePatchProofs`**: `TypeCorrectness`, `NoDrift`, `LocalVetoesAreRedundant`, `PatchesAreStillDecided`,
`OnePatchPerReport`, `ReportsFollowProfile`. The invariant says what old records still are: a plan is what was
decided on some package under some profile, all tokens are of one report, each for an operation
planned on the very package it names.

In the same module, about what a session returns: `ResultsAreWellFormed`, `ChangesAreAccounted`, `LimitCounts`,
`QuiescenceIsFormatting`. The invariant of the loop says nothing of it; `ResultInv` adds
`LogInv` (the log is contiguous and within the limit, a rejection is remembered only below the limit, and every changed site has the
value that the input and the profile alone ask for) and `ReturnInv` (the result is built from the evaluation of the very package it
returns, with nothing selectable left or the limit reached). The findings are then counted through an injection from decisions
to findings.

**`LocalWebServerProofs`**: `TypeCorrectness`, `SlotConservation`, `FullAnswers`, `OnlyWholeBodiesSucceed`, for any number of
connections and slots and any limit. Everything but the semaphore belongs to one connection, so `Inv` is the count of slots and, for each
connection, `Local`: what its phase says of its request (`Quiet`), of what is on the wire (`Answering`) and of how much was
received (`Whole`).

**`StructureProofs`**: what the following have in common, about the structures the models are built from. *Numbers*, from
facts about finite sets alone and without an operator as a parameter: a set of numbers has a least member, induction over numbers up
to a bound, the existence of a function defined by recursion over them, or over all numbers, and the places of the members of a
finite, totally ordered set. *Selections*: `Selected` gives the elements at the chosen places, once each and in order
(`IndicesInOrder`, `SelectedElements`). *Ordered trees*: nodes are sequences, so the proofs go by their members
(`PrecedesByMembers`); document order is total (`OrderIsTotal`), what holds of the body and goes from parent to child holds everywhere
(`TreeInduction`, `TreeRecursion`), an insertion embeds the old tree in the new one and adds one node (`InsertedTree`,
`InsertionGrows`), a removal undoes it (`MovedBackIsInverse`, `RemovedIsAsBefore`), and neither touches anything beyond the
parent (`InsertionIsLocal`, `RemovalIsLocal`).

**`StyleCatalogProofs`**: `NoCycleContributes`, `BoldIsTheParity`, `NoReferenceIsTakenOver`, `ClassesFollowFormatting`, for sheets of any
size and chains of any length; `StyleIdsAssumption` and `DepthAssumption` are the only assumptions. The walk along `basedOn` is a path in a
finite graph: it meets a style twice exactly when the style it starts from leads into a cycle. The classifier's walk and the
formatting's go along the same path, so that the first built-in style of one is the first of the other unless the depth limit
or a cycle ends one of them, or the classifier goes on beyond an empty identifier (`Beyond`).

**`ElementPatchProofs`**: `ElementTypeOK`, `PatcherNeverTrips`, `PatchesAreThePipelines`, for elements of any length, with any
properties in any order and any levels above them, under `DocumentsAssumption` and `ValuesAssumption`. The inductive invariant says only
that elements stay well-formed and that the last outcome is one the patcher has; the weight is in `MutationIsSound`, about *one*
mutation of *any* well-formed element. Setting a property is an order-preserving correspondence between the other children before and
after (`Sets`), whether the property is overwritten or inserted; inserting before the first child of a greater rank keeps the schema's
order (`SetAnew`). Two sequences that correspond and are stripped of their targets are equal (`SelectedAlong`, `KeptIsKept`,
`StrippedAlike`), and so are the elements around them, also when the container was made for the property and disappears with it: that is
the allowed delta. That the new element resolves to the desired value is `OwnValue`. It needs that the operation was planned, that is, that the
property resolved *before*: a numbering or a direction in the same container ends the cascade of a paragraph's slots, and the mutation leaves
them as they were. `OtherState` is the same correspondence read by the other slot of the container: value, declaration and shape stay.
`OutcomeOfAShape` relates the refusals in order to the shapes of `GateAndPatch`, and the three give the refinement step by step.

**`ProductChainProofs`**, in its first part, for every finite tree: a path leads back to the node it was taken from (`PathLeadsToNode`), records follow the type of the
parent (`RecordsOfTree`), each run has exactly one paragraph above it (`ParagraphsAbove`) and is found from it
(`RunsOfIsComplete`), by induction over the depth of nodes. An edit is an embedding of the old tree in the new one. It is *harmless* when what has a record keeps its tag,
and a new element lies where nothing has a record or is the first property element of its parent; then everything that has a record keeps
it, with its path and what it reads as (`HarmlessEditsCarry`, `EmbeddedPaths`, `CarriedText`), and such edits compose
(`EditAfterEdit`). Insertions of property elements, and a change of tag inside a property container, are
harmless (`InsertionsCarry`, `RetaggingCarries`).

About the chain itself it proves `ChainTypeOK`, `WalksAlwaysAgree`, `PathsOutliveEdits`, `MarkedRunsAlwaysCanonical`, `EveryItemIsAlwaysVisible`,
`StoriesAreAlwaysComplete`, `AcceptedValuesAlwaysWritable`, `EverySiteIsAlwaysAccountedFor`, `DeliveredNamesStayCanonical`, `ChecksNeverFail`, for any requests, under `RequestsAssumption` (a document is a finite
tree with a tag at each node; rules, relationships and names are sequences; no two rules of a profile are for the same class and property, which a JSON object with a repeated key
would be; numbers are Decimals), `NamesAssumption` and `LimitsAssumption` (the largest font size is below 2 * 10^4 half-points, 3276 in the code). The invariant `ChainInv` says that the document so far is a harmless edit of
the posted one, and that what the changes and the report name are targets of the document their paths are used on: this is what makes
each next edit go to a paragraph or run, hence harmless. Of the review copy `ReviewIsSound` says that it embeds the clean document so that each run kept its reason
not to be marked or is highlighted (`RunKept`), and that each candidate marked so far is visible or has no markable run. One mark inserts at
most two elements, both in the marked run; as no run is in another, every other run is what it was (`OtherRunsUntouched`), and in the
marked one all that ranks before the highlight is in front of it (`RankedPlaces`, `OrderAroundTheMark`, `MarkShows`). A mark therefore cannot
take away what an earlier one showed, although the next is chosen on the copy already marked. That a delivered name is canonical rests on two facts about cleaning: it leaves no two
spaces or underscores in a row (`RepeatedCollapsed`: all between two kept characters repeat the first), and every initial part of a tidy
name is tidy. That an accepted number is written rests on what the digits of a coefficient say of its size (`DigitsBound`): a positive exponent above three
is more than the largest font size, and with more decimals than digits there is no exact integer.

That every site is accounted for needs more than that edits are harmless: what a change does to every *other* site. The list of sites is
first shown to be a set (`SitesAreRulesAtTargets`: a rule owns a paragraph or run of its class), of which each target has at most one
of a property (`OneSiteOfAProperty`). What is observed at a target depends on nothing but the property elements in its container
(`Says`, `ObservedIsSaid`); a patch replaces one of them, the element of its own property, at one target (`SaysInstead`,
`PropertyRewritten`, `OtherTargetsUntouched`). Hence the sites of the next document are those of the last but for the verdict of the
patched one (`ChangesAreApplied`), and with distinct sites each change turns exactly one row into one of the desired value. `SitesInv`, relative to
`ChainInv`, adds that the report handed on was made from the current document (`ReportIsCurrent`).

`ChecksNeverFail` is `OnlyRequestsRaise`: each check that one component makes on what another made holds. A profile without a fault is
one the session accepts (`AcceptedProfiles`); every item binds, since its path leads to its target alone and what was
not applied has the hash of the final document (`BindingsAlwaysHold`); a name made safe is tidy, hence safe. The
hard part is the validation of the delta, which takes the marks back in the order of the report and compares what is left with the clean
tree. It is an argument about locality. Two trees are the same below a node (`SameBelow`) or beyond it (`SameBeyond`); inserting or removing below a
node changes nothing beyond it and depends on nothing but what is below (`InsertionIsLocal`, `RemovalIsLocal`). The review copy is
therefore a *patchwork* (`IsPatchwork`): the clean document, but below each marked run what marking that run alone
makes of it. Taking a mark back is the inverse of making it (`RemovedIsAsBefore`, `MarkedByPeers`), and on a patchwork gives the patchwork
of the other marks (`PatchTakenBack`), in whatever order (`DeltaOfPatchwork`). `MarksInv` says that the copy is the patchwork of
the marks made so far and that no two marks are on one run, which holds because the next run is chosen among those not highlighted
yet (`RunsOfPatchwork`).

Every invariant and action property of the passing runs is a theorem. Only model-checked are the two liveness properties (`Termination` of
the session and `SlotsComeBack` of the server): liveness under fairness and `ENABLED` are beyond the prover. `SelectSeq` and `RECURSIVE` operators are opaque to it: what the proofs
speak of is written with recursive functions, whose existence and uniqueness `StructureProofs` gives, and with `Selected`.

## 6. What is not modelled, and why

- ZIP and XML parsing and serialisation, the inventory of a package with its size limits, and the package I/O of the
  patcher: no control the pipeline depends on beyond readable, refused or raising (`intake`, `container`, `styles`, `unpackable`). What
  writing a package back could make of unusual ZIP metadata is not modelled, and `OnlyRequestsRaise` says nothing of it.
- The items inside footnotes, endnotes and comments, the parser's warnings, and the segments of the text view with their offsets.
- JSON: a profile that cannot be read is one value (encoding, duplicate keys, identity strings), one whose reading raises another.
- Analysis slots no rule can bind (fonts, language, underline, indents, the other spacings) and analysis warnings but one.
- The report's classification items and summary counts, the Markdown report, the manifest's JSON: projections with no choice.
- The evidence and basis records of a classification.
- In the server: the request log, headers and wording of responses, the interrupt that ends the process with its daemon threads,
  the browser client.
- Corpus, benchmark and measuring tools: offline programs around the product.

## 7. Plan

Done, in this order: the session and its stages, its abstract specification and proofs; the three calls
of a caller; the web server; the analysis and the patcher at the level of XML; the style catalog; the tree, its paths and
walks; stories, profiles with their numbers, reports, review copies and deliveries as one request; the classifier; the
proofs of the session's results and of the server; the proofs about style sheets, trees, and the chain's documents, marks, stories, numbers, sites, names and internal checks; the proofs about the patcher on XML.

What could follow:

1. *Shared trees*: `ElementPatch` on an element of a `PhysicalIR` tree whose levels come from a `StyleCatalog` sheet, and
   `Classify` in the place of `ClassOf` in `ProductChain`.
2. *Notes and comments*: the items of `_parse_item_story`, their identifiers and opaque items.
3. *Both marks of a paragraph*: a run for the difference with decision 0049 noted in section 4.7.
