----------------------------- MODULE ProductChain -----------------------------
(***************************************************************************)
(* One request of the local server, from the uploaded name, profile and    *)
(* package to its answer: the profile is read, the package parsed, the     *)
(* session formats one site at a time, the report is built, a review copy  *)
(* is marked one target at a time, and the delivery is named. The session  *)
(* is seen here through the document's tree; ProcessingSession has its     *)
(* decisions, gate and rejections in full.                                 *)
(***************************************************************************)
EXTENDS ReviewDocx, StoryDiscovery, ProfileInput, ProductDelivery

CONSTANTS
    Requests,      \* what may be posted
    MaxOperations  \* the default, and largest, limit of a session

(***************************************************************************)
(* What is posted: a document is a finite tree of elements, each with its  *)
(* tag; the rules of a profile, the relationships of a package and a name  *)
(* are sequences.                                                          *)
(***************************************************************************)
ASSUME RequestsAssumption ==
    \A r \in Requests :
        /\ IsTree(r.tree) /\ r.tree \in [DOMAIN r.tree -> STRING]
        /\ r.profile.rules \in Seq(ToSet(r.profile.rules)) /\ AreNamed(r.profile.rules)
        /\ \A rule \in ToSet(r.profile.rules) : IsParsed(rule)
        /\ r.package.relationships \in Seq(ToSet(r.package.relationships))
        /\ r.name \in Seq(ToSet(r.name))

VARIABLES
    request,     \* [name, docx, limit, profile, package, tree, inherited]
    stage,       \* what is done next
    tree,        \* the document, as formatted so far
    transforms,  \* the items of the changes applied
    report,      \* the processing report, once built
    review,      \* the document of the review copy
    marks,       \* what became of the report's candidates so far
    delivery,    \* what is delivered
    answer       \* the status code, 0 before there is one

vars == <<request, stage, tree, transforms, report, review, marks, delivery, answer>>

Stages == {"received", "profile", "package", "session", "bind", "mark", "deliver", "answered"}

Codes == {200, 400, 422, 500}

-------------------------------------------------------------------------------
(***************************************************************************)
(* classify_document: a paragraph of the body is classified when it has    *)
(* text and no container around it; w:pStyle stands for a heading style,   *)
(* and a paragraph without one has the default style, of class body.       *)
(***************************************************************************)
PropertiesTag == [run |-> "rPr", paragraph |-> "pPr"]

Properties(doc, node, type) ==
    {c \in Peers(doc, node, PropertiesTag[type]) : IsFirstOfKind(doc, c)}

ClassOf(doc, paragraph) ==
    IF \E c \in Properties(doc, paragraph, "paragraph") : Peers(doc, c, "pStyle") # {}
    THEN "heading" ELSE "body"

Classified(doc) ==
    {p \in Paragraphs(doc) : "t" \in ToSet(DefaultText(doc, p)) /\ ContainersOf(doc, p) = {}}

(***************************************************************************)
(* _build_decisions: the sites of a document, in the order of its          *)
(* classified paragraphs; the rules of a paragraph, in the canonical order *)
(* of the profile's bindings, come before those of its runs.               *)
(***************************************************************************)
CanonicalProperties == [paragraph |-> <<"line_spacing", "alignment">>, run |-> <<"bold", "font_size">>]

RulesFor(profile, class, type) ==
    LET rulesOf == [i \in DOMAIN CanonicalProperties[type] |->
                       Selected(profile.rules,
                                {j \in DOMAIN profile.rules :
                                    /\ profile.rules[j].class = class
                                    /\ profile.rules[j].property = CanonicalProperties[type][i]})]
    IN  FlattenSeq(rulesOf)

SitesAt(doc, node, type, rules) ==
    [i \in DOMAIN rules |-> [type |-> type, path |-> StructuralPath(doc, node), rule |-> rules[i]]]

SitesOfRuns(doc, runs, rules) ==
    FlattenSeq([i \in DOMAIN runs |-> SitesAt(doc, runs[i], "run", rules)])

SitesOfParagraph(doc, paragraph, profile) ==
    LET class == ClassOf(doc, paragraph)
    IN  SitesAt(doc, paragraph, "paragraph", RulesFor(profile, class, "paragraph"))
            \o SitesOfRuns(doc, InDocumentOrder(RunsOf(doc, paragraph)), RulesFor(profile, class, "run"))

SitesOfParagraphs(doc, paragraphs, profile) ==
    FlattenSeq([i \in DOMAIN paragraphs |-> SitesOfParagraph(doc, paragraphs[i], profile)])

SitesOf(doc, profile) == SitesOfParagraphs(doc, InDocumentOrder(Classified(doc)), profile)

-------------------------------------------------------------------------------
(***************************************************************************)
(* What a site is observed to be: what the first property container says,  *)
(* and what is inherited when it says nothing. Two elements that disagree  *)
(* are ambiguous.                                                          *)
(***************************************************************************)
DesiredTag == [bold |-> "b", font_size |-> "sz", alignment |-> "jc", line_spacing |-> "spacing"]

OtherTag == [bold |-> "b0", font_size |-> "sz0", alignment |-> "jc0", line_spacing |-> "spacing0"]

TagsOf(property) == {DesiredTag[property], OtherTag[property]}

Observed(doc, site, inherited) ==
    LET declared == {doc[e] : e \in UNION {Children(doc, c) :
                        c \in Properties(doc, NodeAt(doc, site.path), site.type)}}
        property == site.rule.property
    IN  CASE declared \cap TagsOf(property) = {}                   -> inherited
          [] declared \cap TagsOf(property) = TagsOf(property)   -> "unresolved"
          [] OTHER -> IF DesiredTag[property] \in declared THEN "desired" ELSE "other"

(***************************************************************************)
(* decide_property, for the rules of a profile.                            *)
(***************************************************************************)
Verdict(doc, site, inherited) ==
    LET observed == Observed(doc, site, inherited)
    IN  CASE site.rule.mode = "preserve" -> "preserve"
          [] site.rule.mode # "preserve" /\ observed = "desired" -> "no_action"
          [] site.rule.mode # "preserve" /\ observed = "unresolved" -> "review"
          [] OTHER -> IF site.rule.mode = "exact" \/ site.rule.preferred # NoValue
                      THEN "deterministic_change" ELSE "human_choice"

Decided(doc, sites, verdicts) ==
    Selected(sites, {i \in DOMAIN sites : Verdict(doc, sites[i], request.inherited) \in verdicts})

SitesDecided(doc, verdicts) == Decided(doc, SitesOf(doc, request.profile), verdicts)

(***************************************************************************)
(* What the patcher accepts to edit: at most one container, in first       *)
(* place, of ranked properties in order, with the property once at most.   *)
(***************************************************************************)
Rank == [run |-> RunRank, paragraph |-> [pStyle |-> 1, spacing |-> 2, spacing0 |-> 2, jc |-> 3, jc0 |-> 3]]

IsPatchable(doc, site) ==
    LET node == NodeAt(doc, site.path)
        containers == Peers(doc, node, PropertiesTag[site.type])
        elements == UNION {Children(doc, c) : c \in containers}
    IN  /\ containers \subseteq {Append(node, 1)}
        /\ \A e \in elements : doc[e] \in DOMAIN Rank[site.type]
        /\ Sorted(doc, elements, Rank[site.type])
        /\ Cardinality({e \in elements : doc[e] \in TagsOf(site.rule.property)}) <= 1

(***************************************************************************)
(* The property is rewritten in place, or put in at its rank.              *)
(***************************************************************************)
Patched(doc, site) ==
    LET node == NodeAt(doc, site.path)
        property == site.rule.property
        ready == EnsureContainer(doc, node, PropertiesTag[site.type])
        container == Append(node, 1)
        present == Peers(ready, container, OtherTag[property])
    IN  IF present = {}
        THEN InsertedByRank(ready, container, DesiredTag[property], Rank[site.type])
        ELSE [e \in DOMAIN ready |-> IF e \in present THEN DesiredTag[property] ELSE ready[e]]

(***************************************************************************)
(* The physical hash a decision carries: that of its target when it was    *)
(* decided. Faulty: that of the uploaded document.                         *)
(***************************************************************************)
HashOfUpload(doc, path) == Subtree(request.tree, NodeAt(request.tree, path))

HashNow(doc, path) == Subtree(doc, NodeAt(doc, path))

-------------------------------------------------------------------------------
(***************************************************************************)
(* build_processing_report: the changes applied, with the hash of their    *)
(* time, and from the final decisions what was not applied and what is up  *)
(* to a human. Faulty: only what the patcher refused counts as unapplied.  *)
(***************************************************************************)
ItemsFor(kind, doc, sites) ==
    [i \in DOMAIN sites |-> Item(kind, sites[i], HashNow(doc, sites[i].path))]

Refused(doc, sites) == Selected(sites, {i \in DOMAIN sites : ~IsPatchable(doc, sites[i])})

RefusedOnly(doc) == Refused(doc, SitesDecided(doc, {"deterministic_change"}))

Unapplied(doc) == SitesDecided(doc, {"deterministic_change"})

SessionStatus(doc) ==
    IF Unapplied(doc) = <<>> THEN "quiescent"
    ELSE IF Len(transforms) >= request.limit THEN "operation_limit_reached"
    ELSE "quiescent_with_unapplied"

Report(doc) ==
    [status |-> SessionStatus(doc),
     input |-> request.tree,
     output |-> doc,
     applied |-> transforms,
     unapplied |-> ItemsFor("unapplied_change", doc, Unapplied(doc)),
     review |-> ItemsFor("review_item", doc, SitesDecided(doc, {"review", "human_choice"}))]

NoReport == [status |-> "none", applied |-> <<>>, unapplied |-> <<>>, review |-> <<>>]

-------------------------------------------------------------------------------
Init ==
    /\ request \in Requests
    /\ stage = "received"
    /\ tree = request.tree
    /\ review = request.tree
    /\ transforms = <<>>
    /\ report = NoReport
    /\ marks = <<>>
    /\ delivery = NoDelivery
    /\ answer = 0

Proceed(next) == stage' = next /\ answer' = answer

(***************************************************************************)
(* Faulty: no return after a request is refused.                           *)
(***************************************************************************)
AnswerAndGoOn(code) == UNCHANGED stage /\ answer' = code

Answer(code) == stage' = "answered" /\ answer' = code

(***************************************************************************)
(* do_POST looks at the file name and the limit before anything else.      *)
(***************************************************************************)
ReceiveUpload ==
    /\ stage = "received"
    /\ IF request.docx /\ request.name # <<>> /\ request.limit \in 1 .. MaxOperations
       THEN Proceed("profile") ELSE Answer(400)
    /\ UNCHANGED <<request, tree, transforms, report, review, marks, delivery>>

(***************************************************************************)
(* A profile with a fault is refused; one that only the session's own      *)
(* checks would refuse is nobody's case, and no more is one whose reading  *)
(* raises.                                                                 *)
(***************************************************************************)
ReadProfile ==
    /\ stage = "profile"
    /\ IF RaisesWhenRead(request.profile) THEN Answer(500)
       ELSE IF ProfileFault(request.profile) # "none" THEN Answer(422)
       ELSE IF ~SessionAcceptsProfile(request.profile) THEN Answer(500)
       ELSE Proceed("package")
    /\ UNCHANGED <<request, tree, transforms, report, review, marks, delivery>>

(***************************************************************************)
(* The session's first evaluation: only a package parsed in full reaches   *)
(* the gate, which raises for one without readable styles. Neither that    *)
(* nor what escapes the parser is translated on the way to do_POST.        *)
(***************************************************************************)
ParsePackage ==
    /\ stage = "package"
    /\ IF RaisesWhenParsed(request.package) THEN Answer(500)
       ELSE IF ParseStatus(request.package) # "ok" THEN Answer(422)
       ELSE IF RaisesWhenGated(request.package) THEN Answer(500)
       ELSE Proceed("session")
    /\ UNCHANGED <<request, tree, transforms, report, review, marks, delivery>>

(***************************************************************************)
(* process_document: the first change, in decision order, that the patcher *)
(* accepts. The others of the snapshot were tried and refused before it.   *)
(***************************************************************************)
FirstPatchable(doc, sites) ==
    LET applicable == {i \in DOMAIN sites : IsPatchable(doc, sites[i])}
    IN  {sites[i] : i \in {j \in applicable : \A k \in applicable : j <= k}}

FirstApplicable == FirstPatchable(tree, Unapplied(tree))

ApplyOperation ==
    /\ stage = "session"
    /\ Len(transforms) < request.limit
    /\ \E site \in FirstApplicable :
          /\ tree' = Patched(tree, site)
          /\ transforms' = Append(transforms, Item("applied_change", site, HashNow(tree, site.path)))
    /\ UNCHANGED <<request, stage, report, review, marks, delivery, answer>>

EndSession ==
    /\ stage = "session"
    /\ Len(transforms) >= request.limit \/ FirstApplicable = {}
    /\ report' = Report(tree)
    /\ review' = tree
    /\ Proceed("bind")
    /\ UNCHANGED <<request, tree, transforms, marks, delivery>>

(***************************************************************************)
(* build_review_docx: all bindings are checked before any run is marked.   *)
(***************************************************************************)
BindReport ==
    /\ stage = "bind"
    /\ IF BindingsHold(tree, report) THEN Proceed("mark") ELSE Answer(500)
    /\ UNCHANGED <<request, tree, transforms, report, review, marks, delivery>>

(***************************************************************************)
(* The hash a result carries is the one left over from the checking loop,  *)
(* that of the last candidate.                                             *)
(***************************************************************************)
MarkCandidate ==
    /\ stage = "mark"
    /\ Len(marks) < Len(Candidates(report))
    /\ \E target \in {Candidates(report)[Len(marks) + 1]},
          hash \in {HashNow(tree, Last(Candidates(report)).path)} :
          \E mark \in {MarkOf(review, target, NodeAt(review, target.path), hash,
                              SourceKinds(report, target))} :
              /\ marks' = Append(marks, [mark EXCEPT !.runs = {StructuralPath(review, r) : r \in @}])
              /\ review' = IF mark.runs = {} THEN review
                           ELSE Highlighted(review, CHOOSE run \in mark.runs : TRUE)
    /\ UNCHANGED <<request, stage, tree, transforms, report, delivery, answer>>

MarkedPaths ==
    LET marked == Selected(marks, {i \in DOMAIN marks : marks[i].runs # {}})
    IN  [n \in DOMAIN marked |-> CHOOSE path \in marked[n].runs : TRUE]

(***************************************************************************)
(* The proof of the allowed delta, and the lineage of the three artifacts. *)
(***************************************************************************)
LineageHolds == report.input = request.tree /\ report.output = tree

FinishReview ==
    /\ stage = "mark"
    /\ Len(marks) = Len(Candidates(report))
    /\ IF DeltaAllowed(tree, review, MarkedPaths) /\ LineageHolds
       THEN Proceed("deliver") ELSE Answer(500)
    /\ UNCHANGED <<request, tree, transforms, report, review, marks, delivery>>

(***************************************************************************)
(* build_product_delivery: a name that cannot be made safe is the only     *)
(* thing refused after the work is done.                                   *)
(***************************************************************************)
RefuseName ==
    /\ stage = "deliver"
    /\ CanonicalBaseName(request.name) = {}
    /\ Answer(422)
    /\ UNCHANGED <<request, tree, transforms, report, review, marks, delivery>>

Deliver ==
    /\ stage = "deliver"
    /\ \E base \in CanonicalBaseName(request.name) :
          IF NameIsSafe(base)
          THEN Answer(200) /\ delivery' = Delivery(base, [clean |-> tree, review |-> review, report |-> report])
          ELSE Answer(500) /\ UNCHANGED delivery
    /\ UNCHANGED <<request, tree, transforms, report, review, marks>>

Done == stage = "answered" /\ UNCHANGED vars

Next ==
    \/ ReceiveUpload \/ ReadProfile \/ ParsePackage
    \/ ApplyOperation \/ EndSession
    \/ BindReport \/ MarkCandidate \/ FinishReview
    \/ RefuseName \/ Deliver
    \/ Done

Spec == Init /\ [][Next]_vars

-------------------------------------------------------------------------------
TypeOK ==
    /\ stage \in Stages
    /\ answer \in Codes \cup {0} /\ (stage = "answered" <=> answer # 0)
    /\ IsTree(tree) /\ IsTree(review)
    /\ Len(marks) <= Len(Candidates(report))
    /\ delivery # NoDelivery <=> answer = 200

(***************************************************************************)
(* The walk the session decides by, the index the gate rebinds by and the  *)
(* walk that resolves a path for the patcher and the review see the same   *)
(* paragraphs and runs: every run below a paragraph is found from it, and  *)
(* a path is one record and one element (_iter_runs, index_story_targets,  *)
(* resolve_structural_path).                                               *)
(***************************************************************************)
TargetsOf(doc) == OfType(Records(doc), {"paragraph", "run_raw"})

WalksAgree(doc) ==
    LET runs == OfType(Records(doc), {"run_raw"})
        ancestors == [r \in runs |-> ParagraphAncestors(doc, r)]
    IN  /\ \A p \in Paragraphs(doc) : RunsOf(doc, p) = {r \in runs : ancestors[r] = {p}}
        /\ \A r \in runs : Cardinality(ancestors[r]) = 1
        /\ \A node \in TargetsOf(doc) :
              LET path == StructuralPath(doc, node)
              IN  TargetRecords(doc, path) = {node} /\ Resolve(doc, path) = {node}

EveryWalkSeesTheSameTargets == WalksAgree(tree) /\ WalksAgree(review)

(***************************************************************************)
(* A path taken before an edit names the same paragraph or run after it,   *)
(* with the text it had: the session, the report and the review copy keep  *)
(* paths across edits that insert elements (_insert_canonical, _ensure_rpr)*)
(***************************************************************************)
SameTargets(before, after) ==
    \A node \in TargetsOf(before) :
        \E other \in Resolve(after, StructuralPath(before, node)) :
            /\ after[other] = before[node]
            /\ DefaultText(after, other) = DefaultText(before, node)

TargetsSurviveEdits == [][SameTargets(tree, tree') /\ SameTargets(review, review')]_<<tree, review>>

(***************************************************************************)
(* An internal error is the answer only to a request whose own bytes raise *)
(* when they are read, and a product is the answer to none of these: no    *)
(* check of one component ever fails on what another made (do_POST).       *)
(***************************************************************************)
RequestRaises(posted) ==
    \/ RaisesWhenRead(posted.profile)
    \/ RaisesWhenParsed(posted.package)
    \/ RaisesWhenGated(posted.package)

OnlyRequestsRaise ==
    /\ answer = 500 => RequestRaises(request)
    /\ answer = 200 => ~RequestRaises(request)

(***************************************************************************)
(* A product is only made of a package every story of which was read: each *)
(* part that is a story by its content type, or that the document relates  *)
(* as one, is one story without fault (parse_bytes).                       *)
(***************************************************************************)
StoriesAreComplete ==
    answer = 200 =>
        LET pkg == request.package
            parts == {p \in DOMAIN pkg.parts : pkg.parts[p].content \in StoryTypes}
        IN  \A part \in RelatedParts(pkg) \cup parts :
                \E story \in Stories(pkg) :
                    /\ {s \in Stories(pkg) : s.part = part} = {story}
                    /\ story.status = "ok"

(***************************************************************************)
(* A number that the profile's schema accepts is one the patcher writes    *)
(* without rounding, as the integer the analysis reads back as it: the     *)
(* short cuts of _exact_half_points refuse nothing that was promised.      *)
(***************************************************************************)
AcceptedValuesAreWritable ==
    stage = "package" =>
        \A rule \in ToSet(request.profile.rules) :
            IsNumeric(rule.property) =>
                \A d \in RuleValuesOf(rule) :
                    \E n \in Written(rule.property, d) : n > 0 /\ ReadsBackAs(rule.property, n, d)

(***************************************************************************)
(* In the report of a delivery every site of the uploaded document that a  *)
(* rule decides is formatted, or applied, or named as unapplied or up to a *)
(* human, and never under two of these (build_processing_report).          *)
(***************************************************************************)
Named(items, site) == \E i \in DOMAIN items : Target(items[i]) = [type |-> site.type, path |-> site.path]

EverySiteIsAccountedFor ==
    answer = 200 =>
        LET sites == ToSet(SitesOf(request.tree, request.profile))
            before(site) == Verdict(request.tree, site, request.inherited)
            after(site) == Verdict(tree, site, request.inherited)
        IN  /\ sites = ToSet(SitesOf(tree, request.profile))
            /\ \A site \in sites :
                  /\ after(site) # before(site) =>
                        after(site) = "no_action" /\ Named(report.applied, site)
                  /\ after(site) = "deterministic_change" => Named(report.unapplied, site)
                  /\ after(site) \in {"review", "human_choice"} => Named(report.review, site)
            /\ Len(report.applied) = Cardinality({site \in sites : after(site) # before(site)})

(***************************************************************************)
(* Every target the report names shows in the review copy: it carries a    *)
(* highlight, or no run of it could be marked in the clean copy            *)
(* (build_review_docx).                                                    *)
(***************************************************************************)
EveryItemIsVisible ==
    answer = 200 =>
        \A item \in ToSet(ItemsOf(report)) :
            LET node == NodeAt(tree, item.path)
                runs == IF item.type = "run" THEN {node} ELSE RunsOf(tree, node)
            IN  \/ \E run \in runs : IsHighlighted(review, NodeAt(review, StructuralPath(tree, run)))
                \/ \A run \in runs : Reason(tree, run) # "none"

(***************************************************************************)
(* Marking leaves the runs as Word writes them: run properties in order    *)
(* stay in order, with one highlight at most where there was none          *)
(* (_insert_highlight).                                                    *)
(***************************************************************************)
Highlights(doc, run) ==
    UNION {Peers(doc, c, "highlight") : c \in Peers(doc, run, "rPr")}

MarkedRunsStayCanonical ==
    stage = "mark" =>
        \A run \in OfType(Records(tree), {"run_raw"}) :
            LET copy == NodeAt(review, StructuralPath(tree, run))
            IN  /\ RunPropertiesCanonical(tree, run) => RunPropertiesCanonical(review, copy)
                /\ Cardinality(Highlights(review, copy))
                        <= IF Highlights(tree, run) = {} THEN 1 ELSE Cardinality(Highlights(tree, run))

(***************************************************************************)
(* A delivery's base name is one that canonicalization leaves alone: safe, *)
(* not a device's, not too long, however the uploaded name was cut         *)
(* (canonicalize_delivery_base_name).                                      *)
(***************************************************************************)
DeliveredNamesAreCanonical ==
    answer = 200 =>
        /\ IsCanonicalBase(delivery.base)
        /\ Len(delivery.base) <= MaxName
        /\ CanonicalBaseName(delivery.base) = {delivery.base}

(***************************************************************************)
(* Decision 0036: the hash a mark's result carries is that of its own      *)
(* target in the clean copy.                                               *)
(***************************************************************************)
ResultsDescribeTheirTarget ==
    \A i \in DOMAIN marks : marks[i].hash = HashNow(tree, marks[i].path)
===============================================================================
