---------------------------- MODULE StoryDiscovery ----------------------------
(***************************************************************************)
(* Which parts of a DOCX package the parser reads as stories, and what     *)
(* becomes of each. A package has the main document, parts with a content  *)
(* type and a root element, and the document's relationships in the order  *)
(* they are sorted in; and what the catalog finds of word/styles.xml.      *)
(***************************************************************************)
EXTENDS Naturals

StoryTypes == {"footnotes", "endnotes", "header", "footer", "comments"}

MainDocument == "word/document.xml"

Outside == "outside the package"  \* a target that leaves the package root

(***************************************************************************)
(* What stops the whole parse: the container, a required part, or any part *)
(* that cannot be unpacked.                                                *)
(***************************************************************************)
Unpackable(pkg) == \E part \in DOMAIN pkg.parts : pkg.parts[part].root = "unpackable"

Unusable(pkg) ==
    \/ pkg.container # "zip"
    \/ pkg.document # "body"
    \/ ~pkg.contentTypes
    \/ Unpackable(pkg)

(***************************************************************************)
(* A container may raise what the parser does not translate, such as the   *)
(* decompressor's error; and a package without readable styles is parsed,  *)
(* but the gate does not evaluate a plan over it (_check_catalog_binding). *)
(***************************************************************************)
RaisesWhenParsed(pkg) == pkg.container = "raising"

RaisesWhenGated(pkg) == pkg.styles # "ok"

-------------------------------------------------------------------------------
Story(type, part, status) == [type |-> type, part |-> part, status |-> status]

StoryStatus(pkg, type, part) ==
    IF part = Outside THEN "rejected"
    ELSE IF part # MainDocument /\ part \notin DOMAIN pkg.parts THEN "missing"
    ELSE IF part = MainDocument \/ pkg.parts[part].root # type THEN "failed"
    ELSE "ok"

(***************************************************************************)
(* The relationship type wins over the content type; a second relationship *)
(* to the same part is only warned about.                                  *)
(***************************************************************************)
StoryRelationships(pkg) ==
    {i \in DOMAIN pkg.relationships :
        pkg.relationships[i].type \in StoryTypes /\ ~pkg.relationships[i].external}

RelatedParts(pkg) == {pkg.relationships[i].target : i \in StoryRelationships(pkg)}

FirstOfTarget(pkg) ==
    {i \in StoryRelationships(pkg) : \A j \in StoryRelationships(pkg) :
        pkg.relationships[j].target = pkg.relationships[i].target => i <= j}

RelatedStories(pkg) ==
    {LET rel == pkg.relationships[i]
     IN  Story(rel.type, rel.target, StoryStatus(pkg, rel.type, rel.target)) : i \in FirstOfTarget(pkg)}

(***************************************************************************)
(* Parts whose content type says they are stories although no relationship *)
(* leads to them. Faulty: only related parts are stories.                  *)
(***************************************************************************)
NoOrphans(pkg) == {}

OrphanStories(pkg) ==
    {LET type == pkg.parts[part].content
     IN  Story(type, part, StoryStatus(pkg, type, part)) :
        part \in {p \in DOMAIN pkg.parts \ RelatedParts(pkg) : pkg.parts[p].content \in StoryTypes}}

Stories(pkg) ==
    {Story("body", MainDocument, "ok")} \cup RelatedStories(pkg) \cup OrphanStories(pkg)

PartsAreDistinct(stories) == \A a, b \in stories : a.part = b.part => a = b

ParseStatus(pkg) ==
    IF Unusable(pkg) \/ ~PartsAreDistinct(Stories(pkg)) THEN "failed"
    ELSE IF \E story \in Stories(pkg) : story.status # "ok" THEN "partial"
    ELSE "ok"
===============================================================================
