--------------------------- MODULE DocumentBundle ---------------------------
(***************************************************************************)
(* The reconstructable bundle (web-app shared/reconstructable-bundle.js    *)
(* and reconstructable-bundle-import.js): a ZIP file with the Markdown,    *)
(* the Word file, the PDF, what is known of each asset and equation, and a *)
(* manifest that lists every file with its checksum.                       *)
(*                                                                         *)
(* A file is a path with its content.  A path is a tuple; a token is the   *)
(* part of it that names an asset.  A content says of what it is and holds *)
(* a tuple; SHA-256 is taken to tell contents apart.  The manifest's       *)
(* entries are looked up by id.  Byte and entry limits, charts and MathML  *)
(* are left out.                                                           *)
(***************************************************************************)
EXTENDS Naturals, FiniteSets, Sequences, SequencesExt, Functions

CONSTANTS
    IdOrder,           \* the ids of assets and equations, in the order of their names
    SafeToken,         \* what is left of an id in a file name
    ExtractionVersion  \* of the application that is loaded

Ids == Range(IdOrder)
Precedes(id, other) ==
    \E i, j \in DOMAIN IdOrder : i < j /\ IdOrder[i] = id /\ IdOrder[j] = other

Content(of, v) == [of |-> of, v |-> v]
NoContent == Content("none", <<>>)
Digest(content) == [sha256 |-> content]

File(path, content) == <<path, content>>
PathOf(file) == file[1]
ContentOf(file) == file[2]
Paths(files) == {PathOf(f) : f \in files}

MarkdownPath == <<"document.md">>
WordPath == <<"document.docx">>
PdfPath == <<"source-document.pdf">>
ReportPath == <<"quality-report.json">>
SemanticPath == <<"semantic-document-ir.json">>
ManifestPath == <<"manifest.json">>

\* What an asset may be, or be made from; only an equation differs.
Kinds == {"equation", "page-crop", "raster", "graphic", "diagram"}

\* An asset that has neither a picture nor a drawing.
Bare(a) == a.data = NoContent /\ a.svg = NoContent

\* What the sanitizer leaves of a drawing; it leaves its own output alone.
Sanitized(svg) == Content("clean svg", svg.v)

-----------------------------------------------------------------------------
(* Writing.                                                                *)

\* An equation of the review queue as an asset without a picture.
FromReview(item) ==
    [id |-> item.id, source |-> item.source, sourceKind |-> "page-crop", page |-> item.page,
     kind |-> "equation", mime |-> "png", data |-> NoContent, svg |-> NoContent, ir |-> {"none"},
     disposition |-> item.disposition, latex |-> item.latex]

\* The assets by their ids, and the equations whose id no asset has.
SemanticAssets(assets, items) ==
    [id \in DOMAIN assets \cup {item.id : item \in items} |->
        IF id \in DOMAIN assets THEN assets[id]
        ELSE FromReview(CHOOSE item \in items : item.id = id)]

\* The token of an asset: those whose ids leave the same token are numbered in
\* the order of their ids.
TokenOf(list, id) ==
    LET t == SafeToken[id]
        before == {other \in DOMAIN list : SafeToken[other] = t /\ Precedes(other, id)}
    IN IF before = {} THEN <<t>> ELSE <<t, Cardinality(before) + 1>>

SourceAssetFor(asset, assets) ==
    IF asset.source \in DOMAIN assets THEN assets[asset.source] ELSE asset

\* The picture an asset was made from, under the token of the asset that holds
\* the picture, which is not numbered.
Original(asset, assets) ==
    LET source == SourceAssetFor(asset, assets)
        picture == IF source.data # NoContent THEN source.data ELSE source.svg
    IN IF Bare(source) THEN {}
       ELSE {File(<<"original", <<SafeToken[source.id]>>, source.mime>>,
                  IF source.mime = "svg" THEN Sanitized(picture) ELSE picture)}

\* The files that hold what was made of an asset.
Reconstruction(asset, token) ==
    LET If(condition, name, content) == IF condition THEN {File(<<name, token>>, content)} ELSE {}
    IN If(asset.svg # NoContent, "svg", Sanitized(asset.svg))
         \cup If(asset.ir # {"none"}, "visual", Content("visual", <<asset.ir>>))
         \cup If("mermaid" \in asset.ir, "mermaid", Content("mermaid", <<asset.id>>))
         \cup If(asset.latex # <<>>, "tex", Content("tex", asset.latex))
         \cup If(asset.latex # <<>>, "equation", Content("equation", asset.latex))

\* Mutant: the entry names the files by a token without its number.
SemanticManifestEntryPlain(asset, token, assets) ==
    [id |-> asset.id, kind |-> asset.kind, page |-> asset.page, source |-> asset.source,
     sourceKind |-> asset.sourceKind, disposition |-> asset.disposition,
     original |-> Paths(Original(asset, assets)),
     paths |-> Paths(Reconstruction(asset, <<SafeToken[asset.id]>>))]

SemanticManifestEntry(asset, token, assets) ==
    [id |-> asset.id, kind |-> asset.kind, page |-> asset.page, source |-> asset.source,
     sourceKind |-> asset.sourceKind, disposition |-> asset.disposition,
     original |-> Paths(Original(asset, assets)), paths |-> Paths(Reconstruction(asset, token))]

\* The files besides the assets'.  There is no PDF and no semantic document
\* after a Markdown file was opened.
DocumentFiles(d) ==
    {File(MarkdownPath, Content("markdown", d.markdown)), File(WordPath, Content("word", d.word)),
     File(ReportPath, Content("report", <<d.pdf, ExtractionVersion>>))}
      \cup (IF d.pdf = "none" THEN {} ELSE {File(PdfPath, Content("pdf", <<d.pdf>>))})
      \cup (IF d.semantic = <<>> THEN {} ELSE {File(SemanticPath, Content("semantic", d.semantic))})

\* Everything buildReconstructableBundle adds.  A path may be added again with
\* the same content only: otherwise there is no bundle.
AddedFiles(d) ==
    LET list == SemanticAssets(d.assets, d.items)
    IN DocumentFiles(d)
         \cup UNION {Original(list[id], d.assets) \cup Reconstruction(list[id], TokenOf(list, id)) :
                       id \in DOMAIN list}

DuplicatePath(added) ==
    \E f, g \in added : PathOf(f) = PathOf(g) /\ ContentOf(f) # ContentOf(g)

FilesOf(added) ==
    [p \in Paths(added) |-> ContentOf(CHOOSE f \in added : PathOf(f) = p)]

Manifest(d) ==
    LET list == SemanticAssets(d.assets, d.items)
        files == FilesOf(AddedFiles(d))
    IN [files |-> [p \in DOMAIN files |-> Digest(files[p])],
        sourceDocument |-> IF d.pdf = "none" THEN <<>> ELSE PdfPath,
        assets |-> [id \in DOMAIN list |->
                      SemanticManifestEntry(list[id], TokenOf(list, id), d.assets)]]

\* The archive: how often its central directory lists each path, its files, and
\* what is wrong with its records.
Archive(d) ==
    LET files == FilesOf(AddedFiles(d))
    IN [directory |-> [p \in DOMAIN files \cup {ManifestPath} |-> 1],
        files |-> files, manifest |-> <<Manifest(d)>>, flaws |-> {}]

BuildReconstructableBundle(d) ==
    [built |-> ~DuplicatePath(AddedFiles(d)), zip |-> Archive(d)]

-----------------------------------------------------------------------------
(* Reading.                                                                *)

\* What the records of an archive may be refused for, before it is unpacked.
Flaws == {"truncated", "several disks", "zip64", "encrypted", "other method", "unsafe path",
          "too large", "suspicious ratio"}

PreflightReconstructableZip(zip) ==
    /\ zip.flaws = {}
    /\ \A p \in DOMAIN zip.directory : zip.directory[p] = 1
    /\ ManifestPath \in DOMAIN zip.directory

\* Mutant: only the files that the manifest lists are looked at.
ValidateListedFiles(zip) ==
    /\ zip.manifest # <<>>
    /\ \A p \in DOMAIN zip.manifest[1].files :
          p \in DOMAIN zip.files /\ Digest(zip.files[p]) = zip.manifest[1].files[p]

\* The manifest lists every file but itself, and each with its checksum.
ValidateReconstructableBundle(zip) ==
    /\ zip.manifest # <<>>
    /\ DOMAIN zip.manifest[1].files = DOMAIN zip.files
    /\ \A p \in DOMAIN zip.files : Digest(zip.files[p]) = zip.manifest[1].files[p]

Sound(zip) == PreflightReconstructableZip(zip) /\ ValidateReconstructableBundle(zip)

\* The content of the entry's file of this name, if it has one.
FileOf(entry, name, files) ==
    LET found == {p \in entry.paths : p[1] = name}
    IN IF found = {} THEN NoContent ELSE files[CHOOSE p \in found : TRUE]

\* An asset as it comes back: its id is the one of its source.
RestoredAsset(entry, files) ==
    LET original == IF entry.original = {} THEN NoContent
                    ELSE files[CHOOSE p \in entry.original : TRUE]
        vector == \E p \in entry.original : p[3] = "svg"
        drawing == FileOf(entry, "svg", files)
        visual == FileOf(entry, "visual", files)
    IN [id |-> entry.source, source |-> entry.source, sourceKind |-> entry.sourceKind,
        page |-> entry.page, kind |-> entry.sourceKind, mime |-> IF vector THEN "svg" ELSE "png",
        data |-> IF vector THEN NoContent ELSE original,
        svg |-> IF drawing # NoContent THEN drawing ELSE IF vector THEN original ELSE NoContent,
        ir |-> IF visual = NoContent THEN {"none"} ELSE visual.v[1],
        disposition |-> entry.disposition, latex |-> FileOf(entry, "equation", files).v]

\* An equation as it comes back.  Only an accepted one counts as validated.
RestoredReviewItem(entry, files) ==
    [id |-> entry.id, page |-> entry.page, source |-> entry.source,
     latex |-> FileOf(entry, "tex", files).v, disposition |-> entry.disposition,
     mandatory |-> entry.disposition = "accepted"]

IsReview(entry) == entry.kind = "equation" /\ \E p \in entry.paths : p[1] \in {"tex", "equation"}

\* reconstructableBundleToWorkspace: the pages are those of assets and
\* equations, and they have no text.
BundlePages(zip) ==
    LET entries == Range(zip.manifest[1].assets)
        On(p) == {e \in entries : e.page = p}
    IN [p \in {e.page : e \in entries} |->
          [nodes |-> <<>>,
           assets |-> {RestoredAsset(e, zip.files) : e \in On(p)},
           items |-> {RestoredReviewItem(e, zip.files) : e \in {e \in On(p) : IsReview(e)}}]]

BundleMarkdown(zip) == zip.files[MarkdownPath].v
BundlePdf(zip) == IF zip.manifest[1].sourceDocument = <<>> THEN "none" ELSE zip.files[PdfPath].v[1]
BundleVersion(zip) == zip.files[ReportPath].v[2]

=============================================================================
