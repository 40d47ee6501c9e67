------------------------ MODULE ReviewSessionProofs ------------------------
(***************************************************************************)
(* Machine-checked proofs about ReviewSession and the bundles of           *)
(* DocumentBundle: for any documents, ids and tokens, any texts and        *)
(* formulas of the user and any number of steps.  The parser of formulas   *)
(* is used only through what it accepts.                                   *)
(***************************************************************************)
EXTENDS ReviewSession, TLAPS

-----------------------------------------------------------------------------
(* The inductive invariant.                                                *)

PagesInv(ps) == ArePages(ps) /\ PagesValid(ps)

\* What a bundle is made of.
IsSource(d) ==
    /\ d.pdf \in PdfNames /\ d.markdown \in TextType
    /\ \A id \in DOMAIN d.assets :
          d.assets[id] \in AssetType /\ AssetValid(d.assets[id]) /\ d.assets[id].id = id
    /\ \A item \in d.items : item \in ItemType /\ ItemValid(item)
    /\ \A item, other \in d.items : item.id = other.id => item = other

\* A saved bundle is the archive of its document, or was damaged.
BundleInv ==
    bundle # <<>> =>
        LET b == bundle[1]
        IN /\ bundle = <<[zip |-> b.zip, of |-> b.of, damaged |-> b.damaged]>>
           /\ b.damaged \in BOOLEAN
           /\ IsSource(b.of) /\ ~DuplicatePath(AddedFiles(b.of))
           /\ b.zip \in IF b.damaged THEN Damages(Archive(b.of)) ELSE {Archive(b.of)}

FileInv ==
    file # <<>> =>
        /\ file = <<file[1]>>
        /\ file[1].pdf \in PdfNames /\ file[1].markdown \in TextType
        /\ PagesInv(file[1].pages)

\* What is open.
OpenInv ==
    /\ pdf \in PdfNames /\ markdown \in TextType
    /\ PagesInv(pages)
    /\ QueueMirrorsPages

\* What is stored, and may be resumed.
StoredInv ==
    /\ stored = [meta |-> stored.meta, pdf |-> stored.pdf, pages |-> stored.pages]
    /\ stored.pdf \in PdfNames
    /\ PagesInv(stored.pages)
    /\ stored.meta # <<>> =>
          stored.meta = <<stored.meta[1]>> /\ stored.meta[1].markdown \in TextType
    /\ StoredIsResumable

MetaType == [pdf : PdfNames, markdown : TextType, queue : SUBSET ItemType]

\* The database has metadata as soon as something may be saved to it.
SavesInv ==
    /\ saves \in Seq(MetaType)
    /\ stored.meta = <<>> => pdf = "none" /\ saves = <<>>

RestInv ==
    /\ timer \in BOOLEAN /\ steps \in 0..MaxSteps
    /\ Len(word) <= 1 /\ Len(building) <= 1

IInv ==
    /\ OpenInv /\ StoredInv /\ StoreHoldsThePages /\ SavesInv
    /\ BundleInv /\ FileInv /\ RestInv

-----------------------------------------------------------------------------
(* Pages and their equations.                                              *)

\* An equation of the queue is one of its page, with the number of the page.
LEMMA QueueItems ==
    ASSUME NEW ps, PagesInv(ps), NEW q \in BuildReviewQueue(ps)
    PROVE  /\ q \in ItemType /\ ItemValid(q)
           /\ q.page \in DOMAIN ps
           /\ \E old \in ps[q.page].items : old \in ItemType /\ q = [old EXCEPT !.page = q.page]
<1>1. PICK p \in DOMAIN ps : q \in {[item EXCEPT !.page = p] : item \in ps[p].items}
  BY DEF BuildReviewQueue
<1>2. PICK old \in ps[p].items : q = [old EXCEPT !.page = p]
  BY <1>1
<1>3. ps[p] \in PageType /\ p \in 1..MaxPage
  BY DEF PagesInv, ArePages
<1>4. old \in ItemType
  BY <1>3 DEF PageType
<1>5. q.page = p /\ q \in ItemType
  BY <1>2, <1>3, <1>4 DEF ItemType
<1>6. ItemValid(old)
  BY DEF PagesInv, PagesValid
<1>7. ItemValid(q)
  BY <1>2, <1>4, <1>6 DEF ItemValid, ItemType
<1> QED
  BY <1>2, <1>4, <1>5, <1>7

\* The equations of the queue have ids of their own.
LEMMA QueueIds ==
    ASSUME NEW ps, PagesInv(ps),
           NEW q \in BuildReviewQueue(ps), NEW r \in BuildReviewQueue(ps), q.id = r.id
    PROVE  q = r
<1>1. PICK a \in ps[q.page].items : a \in ItemType /\ q = [a EXCEPT !.page = q.page]
  BY QueueItems
<1>2. PICK b \in ps[r.page].items : b \in ItemType /\ r = [b EXCEPT !.page = r.page]
  BY QueueItems
<1>3. q.page \in DOMAIN ps /\ r.page \in DOMAIN ps
  BY QueueItems
<1>4. a.id = b.id
  BY <1>1, <1>2 DEF ItemType
<1>5. OneOfEachId([p \in DOMAIN ps |-> ps[p].items])
  BY DEF PagesInv, PagesValid
<1>6. q.page = r.page /\ a = b
  BY <1>3, <1>4, <1>5 DEF OneOfEachId
<1> QED
  BY <1>1, <1>2, <1>6

LEMMA QueueIsTyped ==
    ASSUME NEW ps, PagesInv(ps)
    PROVE  BuildReviewQueue(ps) \subseteq ItemType
BY QueueItems

\* What makes item a new state of the equation q of the queue.
Decided(q, item) ==
    item \in ItemType /\ ItemValid(item) /\ item.id = q.id /\ item.page = q.page

\* A decision on an equation leaves valid pages, with all but the decision.
LEMMA DecisionKeepsPages ==
    ASSUME NEW ps, PagesInv(ps), NEW q \in BuildReviewQueue(ps), NEW item, Decided(q, item)
    PROVE  PagesInv(WithItem(ps, item)) /\ Undecided(WithItem(ps, item)) = Undecided(ps)
<1> DEFINE n == item.page
           New(other) == IF other.id = item.id THEN item ELSE other
           qs == WithItem(ps, item)
<1>1. n \in DOMAIN ps /\ n = q.page /\ item \in ItemType /\ ItemValid(item) /\ item.id = q.id
  BY QueueItems DEF Decided
<1>2. ArePages(ps) /\ PagesValid(ps)
  BY DEF PagesInv
<1>3. PICK old \in ps[n].items : old \in ItemType /\ q = [old EXCEPT !.page = n]
  BY <1>1, QueueItems
<1>4. old.id = item.id
  BY <1>1, <1>3 DEF ItemType
<1>5. \A p \in DOMAIN ps : ps[p] \in PageType
  BY <1>2 DEF ArePages
<1>6. /\ DOMAIN qs = DOMAIN ps
      /\ \A p \in DOMAIN ps : p # n => qs[p] = ps[p]
      /\ qs[n] = [ps[n] EXCEPT !.items = {New(other) : other \in @}]
  BY <1>1, <1>2 DEF WithItem, ArePages
<1>7. ps[n] \in PageType
  BY <1>1, <1>5
<1>8. /\ qs[n].nodes = ps[n].nodes /\ qs[n].assets = ps[n].assets
      /\ qs[n].items = {New(other) : other \in ps[n].items}
  BY <1>6, <1>7 DEF PageType
<1>9. \A p \in DOMAIN ps : \A x \in qs[p].items : \E u \in ps[p].items :
         /\ x.id = u.id
         /\ x = u \/ (p = n /\ u.id = item.id /\ x = item)
         /\ p = n /\ u.id = item.id => x = item
  <2>1. ASSUME NEW x \in qs[n].items
        PROVE  \E u \in ps[n].items : x = New(u)
    BY <1>8
  <2>2. ASSUME NEW p \in DOMAIN ps, NEW x \in qs[p].items, p # n
        PROVE  x \in ps[p].items
    BY <1>6, <2>2
  <2> QED
    BY <2>1, <2>2
<1>10. \A p \in DOMAIN ps : qs[p].nodes = ps[p].nodes /\ qs[p].assets = ps[p].assets
  BY <1>6, <1>8
<1>11. \A p \in DOMAIN ps : \A x \in qs[p].items :
          x \in ps[p].items \/ (p = n /\ x = item)
  BY <1>9
<1>12. qs[n].items \subseteq ItemType
  BY <1>1, <1>7, <1>8 DEF PageType
<1>13. qs[n] \in PageType
  <2>1. qs[n] = [nodes |-> ps[n].nodes, assets |-> ps[n].assets,
                 items |-> {New(other) : other \in ps[n].items}]
    BY <1>6, <1>7 DEF PageType
  <2>2. ps[n].nodes \in Seq([lines : TextType, disposition : STRING])
          /\ ps[n].assets \in SUBSET AssetType
    BY <1>7 DEF PageType
  <2> QED
    BY <2>1, <2>2, <1>12, <1>8 DEF PageType
<1>14. ArePages(qs)
  <2>1. \A p \in DOMAIN qs : qs[p] \in PageType
    BY <1>5, <1>6, <1>13
  <2>2. qs = [p \in DOMAIN qs |-> qs[p]]
    BY <1>1 DEF WithItem
  <2> QED
    BY <2>1, <2>2, <1>2, <1>6 DEF ArePages
<1>15. PagesValid(qs)
  <2>1. \A p \in DOMAIN qs : \A x \in qs[p].items : ItemValid(x)
    BY <1>1, <1>2, <1>6, <1>11 DEF PagesValid
  <2>2. \A p \in DOMAIN qs : \A a \in qs[p].assets : AssetValid(a)
    BY <1>2, <1>6, <1>10 DEF PagesValid
  <2>3. OneOfEachId([p \in DOMAIN qs |-> qs[p].assets])
    BY <1>2, <1>6, <1>10 DEF PagesValid, OneOfEachId
  <2>4. ASSUME NEW p \in DOMAIN qs, NEW r \in DOMAIN qs,
               NEW x \in qs[p].items, NEW y \in qs[r].items, x.id = y.id
        PROVE  p = r /\ x = y
    <3>1. PICK u \in ps[p].items :
             /\ x.id = u.id
             /\ x = u \/ (p = n /\ u.id = item.id /\ x = item)
             /\ p = n /\ u.id = item.id => x = item
      BY <1>9, <1>6
    <3>2. PICK v \in ps[r].items :
             /\ y.id = v.id
             /\ y = v \/ (r = n /\ v.id = item.id /\ y = item)
             /\ r = n /\ v.id = item.id => y = item
      BY <1>9, <1>6
    <3>3. u.id = x.id /\ v.id = y.id
      BY <3>1, <3>2
    <3>4. p = r /\ u = v
      BY <3>3, <1>2, <1>6, <2>4 DEF PagesValid, OneOfEachId
    <3> QED
      BY <3>1, <3>2, <3>4
  <2>5. OneOfEachId([p \in DOMAIN qs |-> qs[p].items])
    BY <2>4 DEF OneOfEachId
  <2> QED
    BY <2>1, <2>2, <2>3, <2>5 DEF PagesValid
<1>16. \A p \in DOMAIN ps : {x.id : x \in qs[p].items} = {x.id : x \in ps[p].items}
  <2>1. \A x \in ps[n].items : New(x).id = x.id
    OBVIOUS
  <2>2. {x.id : x \in {New(other) : other \in ps[n].items}} = {x.id : x \in ps[n].items}
    BY <2>1
  <2> QED
    BY <2>2, <1>6, <1>8
<1>17. Undecided(qs) = Undecided(ps)
  BY <1>6, <1>10, <1>16 DEF Undecided
<1> QED
  BY <1>14, <1>15, <1>17 DEF PagesInv

\* Whether a formula is accepted is a truth value, whatever it parses to.
LEMMA AcceptedIsBoolean ==
    ASSUME NEW ts PROVE ParseLatex(ts).accepted \in BOOLEAN
BY DEF ParseLatex, ParsedItems, Parsed

\* Each decision makes a valid equation of one of the queue.
LEMMA DecisionsAreValid ==
    ASSUME NEW q, q \in ItemType, ItemValid(q)
    PROVE  /\ q.mandatory => Decided(q, Accepted(q))
           /\ Decided(q, Preserved(q))
           /\ \A latex \in Formulas \cup {q.latex} : Decided(q, Edited(q, latex))
<1>1. /\ q.latex \in Seq(STRING) /\ q.latex # <<>>
      /\ Formulas \subseteq Seq(STRING) \ {<<>>}
  BY SessionAssumption DEF ItemType, ItemValid
<1>2. Decided(q, Preserved(q))
  BY <1>1 DEF Decided, Preserved, ItemType, ItemValid, Dispositions
<1>3. ASSUME q.mandatory PROVE Decided(q, Accepted(q))
  BY <1>1, <1>3 DEF Decided, Accepted, CanAccept, ItemType, ItemValid, Dispositions
<1>4. ASSUME NEW latex \in Formulas \cup {q.latex} PROVE Decided(q, Edited(q, latex))
  <2> DEFINE ok == ParseLatex(latex).accepted
  <2>1. ok \in BOOLEAN
    BY AcceptedIsBoolean
  <2>2. latex \in Seq(STRING) /\ latex # <<>>
    BY <1>1
  <2>3. Edited(q, latex) = [q EXCEPT !.latex = latex, !.mandatory = ok,
                                     !.disposition = IF ok THEN "review" ELSE "preserved"]
    BY DEF Edited
  <2>4. /\ Edited(q, latex) \in ItemType /\ Edited(q, latex).latex = latex
        /\ Edited(q, latex).mandatory = ok /\ Edited(q, latex).source = q.source
        /\ Edited(q, latex).id = q.id /\ Edited(q, latex).page = q.page
        /\ Edited(q, latex).disposition # "accepted"
    <3> HIDE DEF ok
    <3> QED
      BY <2>1, <2>2, <2>3 DEF ItemType, Dispositions
  <2> QED
    BY <2>2, <2>4 DEF Decided, ItemValid
<1> QED
  BY <1>2, <1>3, <1>4

-----------------------------------------------------------------------------
(* The files of a bundle.                                                  *)

\* A content says of what it is, and nothing is of another kind.
LEMMA ContentIs ==
    /\ \A of, v : Content(of, v).of = of /\ Content(of, v).v = v
    /\ NoContent.of = "none" /\ NoContent.v = <<>>
    /\ \A of, v : of # "none" => Content(of, v) # NoContent
    /\ \A svg : Sanitized(svg) # NoContent /\ Sanitized(svg).v = svg.v
BY DEF Content, NoContent, Sanitized

\* Each file is found under its path.
LEMMA FilesHold ==
    ASSUME NEW added, ~DuplicatePath(added), NEW f \in added
    PROVE  /\ PathOf(f) \in DOMAIN FilesOf(added)
           /\ FilesOf(added)[PathOf(f)] = ContentOf(f)
<1>1. PathOf(f) \in Paths(added)
  BY DEF Paths
<1> DEFINE g == CHOOSE g \in added : PathOf(g) = PathOf(f)
<1>2. g \in added /\ PathOf(g) = PathOf(f)
  OBVIOUS
<1>3. ContentOf(g) = ContentOf(f)
  BY <1>2 DEF DuplicatePath
<1> QED
  BY <1>1, <1>3 DEF FilesOf

\* An entry with one file of a name leads to the content of that file.
LEMMA FileIsFound ==
    ASSUME NEW added, ~DuplicatePath(added), NEW fs \in SUBSET added, NEW f \in fs, NEW name,
           PathOf(f)[1] = name,
           \A g \in fs : PathOf(g)[1] = name => g = f,
           NEW entry, entry.paths = Paths(fs)
    PROVE  FileOf(entry, name, FilesOf(added)) = ContentOf(f)
<1> DEFINE found == {p \in entry.paths : p[1] = name}
<1>1. PathOf(f) \in found
  BY DEF Paths
<1>2. \A p \in found : p = PathOf(f)
  BY DEF Paths
<1>3. (CHOOSE p \in found : TRUE) = PathOf(f)
  BY <1>1, <1>2
<1> QED
  BY <1>1, <1>3, FilesHold DEF FileOf

LEMMA FileIsMissing ==
    ASSUME NEW fs, NEW name, \A g \in fs : PathOf(g)[1] # name,
           NEW entry, entry.paths = Paths(fs), NEW files
    PROVE  FileOf(entry, name, files) = NoContent
BY DEF FileOf, Paths

\* The files of one asset, by their names.
LEMMA FilesOfAsset ==
    ASSUME NEW added, ~DuplicatePath(added), NEW a, NEW token,
           Reconstruction(a, token) \subseteq added,
           NEW entry, entry.paths = Paths(Reconstruction(a, token))
    PROVE  LET Found(name) == FileOf(entry, name, FilesOf(added))
           IN /\ Found("svg") = IF a.svg # NoContent THEN Sanitized(a.svg) ELSE NoContent
              /\ Found("visual") = IF a.ir # {"none"} THEN Content("visual", <<a.ir>>)
                                   ELSE NoContent
              /\ Found("tex") = IF a.latex # <<>> THEN Content("tex", a.latex) ELSE NoContent
              /\ Found("equation") = IF a.latex # <<>> THEN Content("equation", a.latex)
                                     ELSE NoContent
<1> DEFINE fs == Reconstruction(a, token)
           svg == File(<<"svg", token>>, Sanitized(a.svg))
           visual == File(<<"visual", token>>, Content("visual", <<a.ir>>))
           mermaid == File(<<"mermaid", token>>, Content("mermaid", <<a.id>>))
           tex == File(<<"tex", token>>, Content("tex", a.latex))
           equation == File(<<"equation", token>>, Content("equation", a.latex))
<1>1. \A g : g \in fs <=> \/ a.svg # NoContent /\ g = svg
                          \/ a.ir # {"none"} /\ g = visual
                          \/ "mermaid" \in a.ir /\ g = mermaid
                          \/ a.latex # <<>> /\ (g = tex \/ g = equation)
  BY DEF Reconstruction
<1>2. /\ PathOf(svg)[1] = "svg" /\ ContentOf(svg) = Sanitized(a.svg)
      /\ PathOf(visual)[1] = "visual" /\ ContentOf(visual) = Content("visual", <<a.ir>>)
      /\ PathOf(mermaid)[1] = "mermaid"
      /\ PathOf(tex)[1] = "tex" /\ ContentOf(tex) = Content("tex", a.latex)
      /\ PathOf(equation)[1] = "equation" /\ ContentOf(equation) = Content("equation", a.latex)
  BY DEF PathOf, ContentOf, File
<1> HIDE DEF fs, svg, visual, mermaid, tex, equation
<1>3. fs \subseteq added /\ entry.paths = Paths(fs)
  BY DEF fs
<1>4. ASSUME NEW name, NEW f, PathOf(f)[1] = name, \A g \in fs : PathOf(g)[1] = name => g = f
      PROVE  FileOf(entry, name, FilesOf(added)) = IF f \in fs THEN ContentOf(f) ELSE NoContent
  <2>1. CASE f \in fs
    BY <1>3, <1>4, <2>1, FileIsFound
  <2>2. CASE f \notin fs
    <3>1. \A g \in fs : PathOf(g)[1] # name
      BY <1>4, <2>2
    <3> QED
      BY <3>1, <1>3, <2>2, FileIsMissing
  <2> QED
    BY <2>1, <2>2
<1>5. /\ svg \in fs <=> a.svg # NoContent
      /\ visual \in fs <=> a.ir # {"none"}
      /\ tex \in fs <=> a.latex # <<>>
      /\ equation \in fs <=> a.latex # <<>>
  BY <1>1, <1>2
<1>6. \A g \in fs : /\ PathOf(g)[1] = "svg" => g = svg
                    /\ PathOf(g)[1] = "visual" => g = visual
                    /\ PathOf(g)[1] = "tex" => g = tex
                    /\ PathOf(g)[1] = "equation" => g = equation
  BY <1>1, <1>2
<1>7. FileOf(entry, "svg", FilesOf(added)) = IF a.svg # NoContent THEN ContentOf(svg) ELSE NoContent
  BY <1>2, <1>4, <1>5, <1>6
<1>8. FileOf(entry, "visual", FilesOf(added)) = IF a.ir # {"none"} THEN ContentOf(visual) ELSE NoContent
  BY <1>2, <1>4, <1>5, <1>6
<1>9. FileOf(entry, "tex", FilesOf(added)) = IF a.latex # <<>> THEN ContentOf(tex) ELSE NoContent
  BY <1>2, <1>4, <1>5, <1>6
<1>10. FileOf(entry, "equation", FilesOf(added)) =
         IF a.latex # <<>> THEN ContentOf(equation) ELSE NoContent
  BY <1>2, <1>4, <1>5, <1>6
<1> QED
  BY <1>2, <1>7, <1>8, <1>9, <1>10

-----------------------------------------------------------------------------
(* What comes back of an asset and of an equation.                         *)

\* What the manifest lists as an asset: a valid asset, its own source.
Listed(a, id) == a \in AssetType /\ AssetValid(a) /\ a.id = id /\ a.source = id

LEMMA ListedAssets ==
    ASSUME NEW d, IsSource(d)
    PROVE  LET list == SemanticAssets(d.assets, d.items)
           IN /\ DOMAIN list = DOMAIN d.assets \cup {item.id : item \in d.items}
              /\ \A id \in DOMAIN list : Listed(list[id], id)
              /\ \A id \in DOMAIN d.assets : list[id] = d.assets[id]
              /\ \A item \in d.items :
                    item.id \notin DOMAIN d.assets => list[item.id] = FromReview(item)
<1> DEFINE list == SemanticAssets(d.assets, d.items)
           named == {item.id : item \in d.items}
<1>1. DOMAIN list = DOMAIN d.assets \cup named
  BY DEF SemanticAssets
<1>2. \A id \in DOMAIN d.assets : list[id] = d.assets[id]
  BY DEF SemanticAssets
<1>3. \A item \in d.items : item.id \notin DOMAIN d.assets => list[item.id] = FromReview(item)
  <2> SUFFICES ASSUME NEW item \in d.items, item.id \notin DOMAIN d.assets
               PROVE  list[item.id] = FromReview(item)
    OBVIOUS
  <2>1. (CHOOSE other \in d.items : other.id = item.id) = item
    BY DEF IsSource
  <2> QED
    BY <2>1 DEF SemanticAssets
<1>4. \A id \in DOMAIN d.assets : Listed(d.assets[id], id)
  BY DEF IsSource, Listed, AssetValid
<1>5. \A item \in d.items : Listed(FromReview(item), item.id)
  <2> SUFFICES ASSUME NEW item \in d.items PROVE Listed(FromReview(item), item.id)
    OBVIOUS
  <2>1. item \in ItemType /\ ItemValid(item)
    BY DEF IsSource
  <2>2. FromReview(item) \in AssetType
    <3>1. /\ item.id \in Ids /\ item.source \in Ids /\ item.page \in 1..MaxPage
          /\ item.disposition \in Dispositions /\ item.latex \in Seq(STRING)
      BY <2>1 DEF ItemType
    <3>2. NoContent \in ContentType
      BY DEF NoContent, Content, ContentType
    <3>3. {"none"} \in SUBSET (Refusals \cup {"mermaid"})
      BY DEF Refusals
    <3> HIDE DEF NoContent
    <3> QED
      BY <3>1, <3>2, <3>3 DEF FromReview, AssetType, Kinds
  <2>3. AssetValid(FromReview(item))
    BY <2>1 DEF FromReview, AssetValid, ItemValid
  <2> QED
    BY <2>1, <2>2, <2>3 DEF Listed, FromReview, ItemValid
<1>6. \A id \in DOMAIN list : Listed(list[id], id)
  <2> HIDE DEF list
  <2> QED
    BY <1>1, <1>2, <1>3, <1>4, <1>5
<1> QED
  BY <1>1, <1>2, <1>3, <1>6

\* What is made of an asset with its own files.
Returned(a) ==
    [id |-> a.id, source |-> a.id, sourceKind |-> a.sourceKind, page |-> a.page,
     kind |-> a.sourceKind, mime |-> IF Bare(a) THEN "png" ELSE a.mime, data |-> a.data,
     svg |-> IF a.svg # NoContent THEN Sanitized(a.svg) ELSE NoContent, ir |-> a.ir,
     disposition |-> a.disposition, latex |-> a.latex]

\* The entry of an asset, with the files under the paths it names.
Holds(entry, a, d) ==
    LET added == AddedFiles(d)
        token == TokenOf(SemanticAssets(d.assets, d.items), a.id)
    IN /\ ~DuplicatePath(added)
       /\ Original(a, d.assets) \cup Reconstruction(a, token) \subseteq added
       /\ SourceAssetFor(a, d.assets) = a
       /\ entry = SemanticManifestEntry(a, token, d.assets)

\* An asset is restored from its own files, whatever the other assets are.
LEMMA AssetIsReturned ==
    ASSUME NEW d, NEW a, Listed(a, a.id), NEW entry, Holds(entry, a, d)
    PROVE  RestoredAsset(entry, FilesOf(AddedFiles(d))) = Returned(a)
<1> DEFINE added == AddedFiles(d)
           token == TokenOf(SemanticAssets(d.assets, d.items), a.id)
           picture == IF a.data # NoContent THEN a.data ELSE a.svg
           shown == IF a.mime = "svg" THEN Sanitized(picture) ELSE picture
           f == File(<<"original", <<SafeToken[a.id]>>, a.mime>>, shown)
           files == FilesOf(added)
<1>1. Original(a, d.assets) = IF Bare(a) THEN {} ELSE {f}
  BY DEF Holds, Original
<1>2. entry.original = IF Bare(a) THEN {} ELSE {PathOf(f)}
  BY <1>1 DEF Holds, SemanticManifestEntry, Paths
<1>3. ~Bare(a) => files[PathOf(f)] = ContentOf(f)
  BY <1>1, FilesHold DEF Holds
<1>4. PathOf(f)[3] = a.mime /\ ContentOf(f) = shown
  BY DEF PathOf, ContentOf, File
<1>5. /\ FileOf(entry, "svg", files) = IF a.svg # NoContent THEN Sanitized(a.svg) ELSE NoContent
      /\ FileOf(entry, "visual", files) = IF a.ir # {"none"} THEN Content("visual", <<a.ir>>)
                                          ELSE NoContent
      /\ FileOf(entry, "equation", files) = IF a.latex # <<>> THEN Content("equation", a.latex)
                                            ELSE NoContent
  <2>1. entry.paths = Paths(Reconstruction(a, token))
    BY DEF Holds, SemanticManifestEntry
  <2>2. ~DuplicatePath(added) /\ Reconstruction(a, token) \subseteq added
    BY DEF Holds
  <2> QED
    BY <2>1, <2>2, FilesOfAsset
<1>6. /\ a.mime \in {"png", "svg"}
      /\ a.mime = "svg" => a.data = NoContent
      /\ a.mime = "png" /\ a.data = NoContent => a.svg = NoContent
  BY DEF Listed, AssetType, AssetValid
<1>7. /\ entry.source = a.id /\ entry.sourceKind = a.sourceKind /\ entry.page = a.page
      /\ entry.disposition = a.disposition
  BY DEF Holds, SemanticManifestEntry, Listed
<1> HIDE DEF f, files, added, token
<1>8. /\ (IF FileOf(entry, "visual", files) = NoContent THEN {"none"}
          ELSE FileOf(entry, "visual", files).v[1]) = a.ir
      /\ FileOf(entry, "equation", files).v = a.latex
  <2>1. \A ir : Content("visual", <<ir>>) # NoContent /\ Content("visual", <<ir>>).v[1] = ir
    BY ContentIs
  <2>2. Content("equation", a.latex).v = a.latex /\ NoContent.v = <<>>
    BY ContentIs
  <2> QED
    BY <1>5, <2>1, <2>2
<1>9. CASE Bare(a)
  <2>1. entry.original = {} /\ a.data = NoContent /\ a.svg = NoContent
    BY <1>2, <1>9 DEF Bare
  <2> QED
    BY <1>5, <1>7, <1>8, <1>9, <2>1 DEF RestoredAsset, Returned, files, added
<1>10. CASE ~Bare(a) /\ a.mime = "png"
  <2>1. entry.original = {PathOf(f)} /\ a.data # NoContent
    BY <1>2, <1>6, <1>10 DEF Bare
  <2>2. (CHOOSE p \in entry.original : TRUE) = PathOf(f)
    BY <2>1
  <2>3. files[PathOf(f)] = a.data /\ PathOf(f)[3] = "png"
    BY <1>3, <1>4, <1>10, <2>1
  <2>4. ~\E p \in entry.original : p[3] = "svg"
    BY <2>1, <2>3
  <2> QED
    BY <1>5, <1>7, <1>8, <1>10, <2>1, <2>2, <2>3, <2>4 DEF RestoredAsset, Returned, files, added
<1>11. CASE ~Bare(a) /\ a.mime = "svg"
  <2>1. entry.original = {PathOf(f)} /\ a.data = NoContent /\ a.svg # NoContent
    BY <1>2, <1>6, <1>11 DEF Bare
  <2>2. PathOf(f)[3] = "svg"
    BY <1>4, <1>11
  <2>3. \E p \in entry.original : p[3] = "svg"
    BY <2>1, <2>2
  <2>4. FileOf(entry, "svg", files) # NoContent
    BY <1>5, <2>1, ContentIs
  <2> QED
    BY <1>5, <1>7, <1>8, <1>11, <2>1, <2>3, <2>4 DEF RestoredAsset, Returned, files, added
<1> QED
  BY <1>6, <1>9, <1>10, <1>11

\* What is made of a listed equation.
ReturnedItem(a) ==
    [id |-> a.id, page |-> a.page, source |-> a.id, latex |-> a.latex,
     disposition |-> a.disposition, mandatory |-> a.disposition = "accepted"]

\* An equation is restored from its own files; what counts as one has a formula.
LEMMA ItemIsReturned ==
    ASSUME NEW d, NEW a, Listed(a, a.id), NEW entry, Holds(entry, a, d)
    PROVE  /\ RestoredReviewItem(entry, FilesOf(AddedFiles(d))) = ReturnedItem(a)
           /\ IsReview(entry) <=> a.kind = "equation" /\ a.latex # <<>>
<1> DEFINE added == AddedFiles(d)
           token == TokenOf(SemanticAssets(d.assets, d.items), a.id)
           fs == Reconstruction(a, token)
<1>1. entry.paths = Paths(fs) /\ ~DuplicatePath(added) /\ fs \subseteq added
  BY DEF Holds, SemanticManifestEntry
<1>2. FileOf(entry, "tex", FilesOf(added)) =
        IF a.latex # <<>> THEN Content("tex", a.latex) ELSE NoContent
  BY <1>1, FilesOfAsset
<1>3. FileOf(entry, "tex", FilesOf(added)).v = a.latex
  BY <1>2, ContentIs
<1>4. /\ entry.id = a.id /\ entry.source = a.id /\ entry.page = a.page
      /\ entry.disposition = a.disposition /\ entry.kind = a.kind
  BY DEF Holds, SemanticManifestEntry, Listed
<1>5. (\E f \in fs : PathOf(f)[1] \in {"tex", "equation"}) <=> a.latex # <<>>
  <2>1. \A f \in fs : PathOf(f)[1] \in {"tex", "equation"} => a.latex # <<>>
    BY DEF Reconstruction, File, PathOf
  <2> DEFINE tex == File(<<"tex", token>>, Content("tex", a.latex))
  <2>2. a.latex # <<>> => tex \in fs
    BY DEF Reconstruction
  <2>3. PathOf(tex)[1] = "tex"
    BY DEF PathOf, File
  <2> QED
    BY <2>1, <2>2, <2>3
<1>6. IsReview(entry) <=> a.kind = "equation" /\ a.latex # <<>>
  BY <1>1, <1>4, <1>5 DEF IsReview, Paths
<1> HIDE DEF added
<1>7. RestoredReviewItem(entry, FilesOf(added)) = ReturnedItem(a)
  BY <1>3, <1>4 DEF RestoredReviewItem, ReturnedItem
<1> QED
  BY <1>6, <1>7 DEF added

\* A valid asset comes back as a valid asset, and as a valid equation if it is one.
LEMMA ReturnedIsValid ==
    ASSUME NEW a, NEW id, Listed(a, id)
    PROVE  /\ Returned(a) \in AssetType /\ AssetValid(Returned(a))
           /\ a.latex # <<>> => ReturnedItem(a) \in ItemType /\ ItemValid(ReturnedItem(a))
<1>1. /\ a.id = id /\ a.source = id /\ a \in AssetType /\ AssetValid(a)
      /\ a.id \in Ids /\ a.sourceKind \in Kinds /\ a.page \in 1..MaxPage
      /\ a.mime \in {"png", "svg"} /\ a.data \in ContentType /\ a.svg \in ContentType
      /\ a.ir \in SUBSET (Refusals \cup {"mermaid"}) /\ a.disposition \in Dispositions
      /\ a.latex \in Seq(STRING)
  BY DEF Listed, AssetType
<1>2. Sanitized(a.svg) \in ContentType
  BY <1>1 DEF Sanitized, Content, ContentType
<1>3. NoContent \in ContentType
  BY DEF NoContent, Content, ContentType
<1>4. Returned(a) \in AssetType
  <2> HIDE DEF NoContent
  <2> QED
    BY <1>1, <1>2, <1>3 DEF Returned, AssetType
<1>5. AssetValid(Returned(a))
  BY <1>1, ContentIs DEF Returned, AssetValid, Bare
<1>6. ASSUME a.latex # <<>>
      PROVE  ReturnedItem(a) \in ItemType /\ ItemValid(ReturnedItem(a))
  BY <1>1, <1>6 DEF ReturnedItem, ItemType, ItemValid, AssetValid
<1> QED
  BY <1>4, <1>5, <1>6

\* Each asset of the list leads to its entry.
LEMMA EntriesHold ==
    ASSUME NEW d, IsSource(d), ~DuplicatePath(AddedFiles(d)),
           NEW id \in DOMAIN SemanticAssets(d.assets, d.items)
    PROVE  LET list == SemanticAssets(d.assets, d.items)
           IN Listed(list[id], list[id].id) /\ Holds(Manifest(d).assets[id], list[id], d)
<1> DEFINE list == SemanticAssets(d.assets, d.items)
           a == list[id]
<1>1. Listed(a, id) /\ a.id = id /\ a.source = id
  BY ListedAssets DEF Listed
<1>2. SourceAssetFor(a, d.assets) = a
  <2>1. id \in DOMAIN d.assets => a = d.assets[id]
    BY ListedAssets
  <2> QED
    BY <1>1, <2>1 DEF SourceAssetFor
<1>3. Original(a, d.assets) \cup Reconstruction(a, TokenOf(list, id)) \subseteq AddedFiles(d)
  BY DEF AddedFiles
<1>4. Manifest(d).assets[id] = SemanticManifestEntry(a, TokenOf(list, id), d.assets)
  BY DEF Manifest
<1> QED
  BY <1>1, <1>2, <1>3, <1>4 DEF Holds

\* The pages of a bundle, in terms of what it was made of.
LEMMA PagesOfBundle ==
    ASSUME NEW d, IsSource(d), ~DuplicatePath(AddedFiles(d))
    PROVE  LET list == SemanticAssets(d.assets, d.items)
               ps == BundlePages(Archive(d))
               On(p) == {id \in DOMAIN list : list[id].page = p}
               Shown(p) == {id \in On(p) : list[id].kind = "equation" /\ list[id].latex # <<>>}
           IN ps = [p \in {list[id].page : id \in DOMAIN list} |->
                      [nodes |-> <<>>,
                       assets |-> {Returned(list[id]) : id \in On(p)},
                       items |-> {ReturnedItem(list[id]) : id \in Shown(p)}]]
<1> DEFINE list == SemanticAssets(d.assets, d.items)
           entry == Manifest(d).assets
           files == FilesOf(AddedFiles(d))
           entries == Range(entry)
           EntriesOn(p) == {e \in entries : e.page = p}
           On(p) == {id \in DOMAIN list : list[id].page = p}
           Shown(p) == {id \in On(p) : list[id].kind = "equation" /\ list[id].latex # <<>>}
<1>1. DOMAIN entry = DOMAIN list
  BY DEF Manifest
<1>2. \A id \in DOMAIN list :
         /\ entry[id].page = list[id].page
         /\ RestoredAsset(entry[id], files) = Returned(list[id])
         /\ RestoredReviewItem(entry[id], files) = ReturnedItem(list[id])
         /\ IsReview(entry[id]) <=> list[id].kind = "equation" /\ list[id].latex # <<>>
  <2> SUFFICES ASSUME NEW id \in DOMAIN list
               PROVE  /\ entry[id].page = list[id].page
                      /\ RestoredAsset(entry[id], files) = Returned(list[id])
                      /\ RestoredReviewItem(entry[id], files) = ReturnedItem(list[id])
                      /\ IsReview(entry[id]) <=> list[id].kind = "equation" /\ list[id].latex # <<>>
    OBVIOUS
  <2>1. Listed(list[id], list[id].id) /\ Holds(entry[id], list[id], d)
    BY EntriesHold
  <2>2. entry[id].page = list[id].page
    BY <2>1 DEF Holds, SemanticManifestEntry
  <2> QED
    BY <2>1, <2>2, AssetIsReturned, ItemIsReturned
<1>3. entries = {entry[id] : id \in DOMAIN list}
  BY <1>1 DEF Range
<1>4. BundlePages(Archive(d)) =
        [p \in {e.page : e \in entries} |->
           [nodes |-> <<>>,
            assets |-> {RestoredAsset(e, files) : e \in EntriesOn(p)},
            items |-> {RestoredReviewItem(e, files) : e \in {e \in EntriesOn(p) : IsReview(e)}}]]
  BY DEF BundlePages, Archive
<1> HIDE DEF list, entry, files, entries
<1>5. {e.page : e \in entries} = {list[id].page : id \in DOMAIN list}
  BY <1>2, <1>3
<1>6. \A p : {RestoredAsset(e, files) : e \in EntriesOn(p)} = {Returned(list[id]) : id \in On(p)}
  BY <1>2, <1>3
<1>7. \A p : {RestoredReviewItem(e, files) : e \in {e \in EntriesOn(p) : IsReview(e)}}
               = {ReturnedItem(list[id]) : id \in Shown(p)}
  BY <1>2, <1>3
<1> QED
  BY <1>4, <1>5, <1>6, <1>7 DEF list

\* A bundle gives back valid pages: an id is that of one of its assets.
LEMMA BundlePagesAreValid ==
    ASSUME NEW d, IsSource(d), ~DuplicatePath(AddedFiles(d))
    PROVE  PagesInv(BundlePages(Archive(d)))
<1> DEFINE list == SemanticAssets(d.assets, d.items)
           ps == BundlePages(Archive(d))
           On(p) == {id \in DOMAIN list : list[id].page = p}
           Shown(p) == {id \in On(p) : list[id].kind = "equation" /\ list[id].latex # <<>>}
<1>1. ps = [p \in {list[id].page : id \in DOMAIN list} |->
              [nodes |-> <<>>,
               assets |-> {Returned(list[id]) : id \in On(p)},
               items |-> {ReturnedItem(list[id]) : id \in Shown(p)}]]
  BY PagesOfBundle
<1>2. \A id \in DOMAIN list : Listed(list[id], id)
  BY ListedAssets
<1>3. \A id \in DOMAIN list :
         /\ list[id].page \in 1..MaxPage /\ list[id].id = id
         /\ Returned(list[id]) \in AssetType /\ AssetValid(Returned(list[id]))
         /\ list[id].latex # <<>> =>
               ReturnedItem(list[id]) \in ItemType /\ ItemValid(ReturnedItem(list[id]))
  BY <1>2, ReturnedIsValid DEF Listed, AssetType
<1> HIDE DEF list, ps
<1>4. /\ DOMAIN ps = {list[id].page : id \in DOMAIN list}
      /\ \A p \in DOMAIN ps : ps[p] = [nodes |-> <<>>,
                                       assets |-> {Returned(list[id]) : id \in On(p)},
                                       items |-> {ReturnedItem(list[id]) : id \in Shown(p)}]
  BY <1>1
<1>5. \A p \in DOMAIN ps :
         /\ ps[p].assets = {Returned(list[id]) : id \in On(p)}
         /\ ps[p].items = {ReturnedItem(list[id]) : id \in Shown(p)}
         /\ ps[p] = [nodes |-> <<>>, assets |-> ps[p].assets, items |-> ps[p].items]
  <2> SUFFICES ASSUME NEW p \in DOMAIN ps
               PROVE  /\ ps[p].assets = {Returned(list[id]) : id \in On(p)}
                      /\ ps[p].items = {ReturnedItem(list[id]) : id \in Shown(p)}
                      /\ ps[p] = [nodes |-> <<>>, assets |-> ps[p].assets, items |-> ps[p].items]
    OBVIOUS
  <2> DEFINE as == {Returned(list[id]) : id \in On(p)}
             is == {ReturnedItem(list[id]) : id \in Shown(p)}
  <2>1. ps[p] = [nodes |-> <<>>, assets |-> as, items |-> is]
    BY <1>4
  <2> HIDE DEF as, is
  <2>2. ps[p].assets = as /\ ps[p].items = is
    BY <2>1
  <2>3. ps[p] = [nodes |-> <<>>, assets |-> ps[p].assets, items |-> ps[p].items]
    BY <2>1, <2>2
  <2> QED
    BY <2>2, <2>3 DEF as, is
<1>6. \A p \in DOMAIN ps : \A x \in ps[p].assets :
         \E id \in DOMAIN list : list[id].page = p /\ x = Returned(list[id])
  BY <1>5
<1>7. \A p \in DOMAIN ps : \A x \in ps[p].items :
         \E id \in DOMAIN list :
            list[id].page = p /\ x = ReturnedItem(list[id]) /\ list[id].latex # <<>>
  BY <1>5
<1>8. ArePages(ps)
  <2>1. \A p \in DOMAIN ps : ps[p].assets \subseteq AssetType /\ ps[p].items \subseteq ItemType
    BY <1>3, <1>6, <1>7
  <2>2. ASSUME NEW p \in DOMAIN ps PROVE ps[p] \in PageType
    <3> DEFINE none == <<>>
    <3>1. ps[p] = [nodes |-> none, assets |-> ps[p].assets, items |-> ps[p].items]
      BY <1>5
    <3>2. ps[p].assets \in SUBSET AssetType /\ ps[p].items \in SUBSET ItemType
      BY <2>1
    <3>3. none \in Seq([lines : TextType, disposition : STRING])
      OBVIOUS
    <3> HIDE DEF none
    <3> QED
      BY <3>1, <3>2, <3>3 DEF PageType
  <2>3. \A p \in DOMAIN ps : ps[p] \in PageType
    BY <2>2
  <2>4. ps = [p \in DOMAIN ps |-> ps[p]]
    BY <1>1
  <2>5. DOMAIN ps \subseteq 1..MaxPage
    BY <1>3, <1>4
  <2> QED
    BY <2>3, <2>4, <2>5 DEF ArePages
<1>9. PagesValid(ps)
  <2>1. \A p \in DOMAIN ps :
           (\A x \in ps[p].items : ItemValid(x)) /\ (\A x \in ps[p].assets : AssetValid(x))
    BY <1>3, <1>6, <1>7
  <2>2. \A id \in DOMAIN list : Returned(list[id]).id = id /\ ReturnedItem(list[id]).id = id
    BY <1>3 DEF Returned, ReturnedItem
  <2>3. ASSUME NEW p \in DOMAIN ps, NEW q \in DOMAIN ps,
               NEW x \in ps[p].assets, NEW y \in ps[q].assets, x.id = y.id
        PROVE  p = q /\ x = y
    BY <1>6, <2>2, <2>3
  <2>4. ASSUME NEW p \in DOMAIN ps, NEW q \in DOMAIN ps,
               NEW x \in ps[p].items, NEW y \in ps[q].items, x.id = y.id
        PROVE  p = q /\ x = y
    BY <1>7, <2>2, <2>4
  <2>5. OneOfEachId([p \in DOMAIN ps |-> ps[p].assets])
    BY <2>3 DEF OneOfEachId
  <2>6. OneOfEachId([p \in DOMAIN ps |-> ps[p].items])
    BY <2>4 DEF OneOfEachId
  <2> QED
    BY <2>1, <2>5, <2>6 DEF PagesValid
<1> QED
  BY <1>8, <1>9 DEF PagesInv, ps

\* What BundleHoldsTheDocument says of one archive.
HoldsDocument(zip, of) ==
    /\ Sound(zip)
    /\ BundleMarkdown(zip) = of.markdown
    /\ BundlePdf(zip) = of.pdf
    /\ \A id \in DOMAIN of.assets : HoldsAsset(BundlePages(zip), of.assets[id])
    /\ \A item \in of.items :
          item.id \notin DOMAIN of.assets => HoldsItem(BundlePages(zip), item)

LEMMA ArchiveHoldsDocument ==
    ASSUME NEW d, IsSource(d), ~DuplicatePath(AddedFiles(d))
    PROVE  HoldsDocument(Archive(d), d)
<1> DEFINE list == SemanticAssets(d.assets, d.items)
           ps == BundlePages(Archive(d))
           added == AddedFiles(d)
           files == FilesOf(added)
           On(p) == {id \in DOMAIN list : list[id].page = p}
           Shown(p) == {id \in On(p) : list[id].kind = "equation" /\ list[id].latex # <<>>}
<1>1. Sound(Archive(d))
  BY DEF Sound, PreflightReconstructableZip, ValidateReconstructableBundle, Archive, Manifest
<1>2. BundleMarkdown(Archive(d)) = d.markdown
  <2> DEFINE f == File(MarkdownPath, Content("markdown", d.markdown))
  <2>1. f \in added
    BY DEF AddedFiles, DocumentFiles
  <2>2. PathOf(f) = MarkdownPath /\ ContentOf(f).v = d.markdown
    BY ContentIs DEF PathOf, ContentOf, File
  <2>3. files[MarkdownPath].v = d.markdown
    BY <2>1, <2>2, FilesHold
  <2> QED
    BY <2>3 DEF BundleMarkdown, Archive
<1>3. BundlePdf(Archive(d)) = d.pdf
  <2>1. CASE d.pdf = "none"
    BY <2>1 DEF BundlePdf, Archive, Manifest
  <2>2. CASE d.pdf # "none"
    <3> DEFINE f == File(PdfPath, Content("pdf", <<d.pdf>>))
    <3>1. f \in added
      BY <2>2 DEF AddedFiles, DocumentFiles
    <3>2. PathOf(f) = PdfPath /\ ContentOf(f).v = <<d.pdf>>
      BY ContentIs DEF PathOf, ContentOf, File
    <3>3. files[PdfPath].v[1] = d.pdf
      BY <3>1, <3>2, FilesHold
    <3>4. PdfPath # <<>>
      BY DEF PdfPath
    <3>5. Archive(d).files = files /\ Archive(d).manifest[1].sourceDocument = PdfPath
      BY <2>2 DEF Archive, Manifest
    <3> QED
      BY <3>3, <3>4, <3>5 DEF BundlePdf
  <2> QED
    BY <2>1, <2>2
<1>4. ps = [p \in {list[id].page : id \in DOMAIN list} |->
              [nodes |-> <<>>,
               assets |-> {Returned(list[id]) : id \in On(p)},
               items |-> {ReturnedItem(list[id]) : id \in Shown(p)}]]
  BY PagesOfBundle
<1>5. /\ DOMAIN list = DOMAIN d.assets \cup {item.id : item \in d.items}
      /\ \A id \in DOMAIN list : Listed(list[id], id)
      /\ \A id \in DOMAIN d.assets : list[id] = d.assets[id]
      /\ \A item \in d.items : item.id \notin DOMAIN d.assets => list[item.id] = FromReview(item)
  BY ListedAssets
<1> HIDE DEF list, ps
<1>6. \A id \in DOMAIN list :
         /\ list[id].page \in DOMAIN ps
         /\ Returned(list[id]) \in ps[list[id].page].assets
         /\ list[id].kind = "equation" /\ list[id].latex # <<>> =>
               ReturnedItem(list[id]) \in ps[list[id].page].items
  BY <1>4
<1>7. ASSUME NEW id \in DOMAIN d.assets PROVE HoldsAsset(ps, d.assets[id])
  <2> DEFINE a == d.assets[id]
  <2>1. id \in DOMAIN list /\ list[id] = a
    BY <1>5
  <2>2. /\ a.page \in DOMAIN ps /\ Returned(a) \in ps[a.page].assets
        /\ AssetValid(a)
    BY <1>5, <1>6, <2>1 DEF Listed
  <2>3. /\ Returned(a).id = a.id /\ Returned(a).data = a.data /\ Returned(a).ir = a.ir
        /\ Returned(a).svg = IF a.svg # NoContent THEN Sanitized(a.svg) ELSE NoContent
    BY DEF Returned
  <2> QED
    BY <2>2, <2>3, ContentIs DEF HoldsAsset
<1>8. ASSUME NEW item \in d.items, item.id \notin DOMAIN d.assets PROVE HoldsItem(ps, item)
  <2> DEFINE a == FromReview(item)
  <2>1. item.id \in DOMAIN list /\ list[item.id] = a
    BY <1>5, <1>8
  <2>2. /\ a.id = item.id /\ a.page = item.page /\ a.latex = item.latex
        /\ a.disposition = item.disposition /\ a.kind = "equation"
    BY DEF FromReview
  <2>3. item.latex # <<>>
    BY DEF IsSource, ItemValid
  <2>4. item.page \in DOMAIN ps /\ ReturnedItem(a) \in ps[item.page].items
    BY <1>6, <2>1, <2>2, <2>3
  <2>5. /\ ReturnedItem(a).id = item.id /\ ReturnedItem(a).latex = item.latex
        /\ ReturnedItem(a).disposition = item.disposition
    BY <2>2 DEF ReturnedItem
  <2> QED
    BY <2>4, <2>5 DEF HoldsItem
<1> QED
  BY <1>1, <1>2, <1>3, <1>7, <1>8 DEF HoldsDocument, ps

\* No file of a document has the path of the one that is added to its bundle.
LEMMA ExtraIsNew ==
    ASSUME NEW d PROVE Extra \notin DOMAIN FilesOf(AddedFiles(d))
<1>1. \A f \in DocumentFiles(d) : PathOf(f)[1] # "extra"
  BY DEF DocumentFiles, PathOf, File, MarkdownPath, WordPath, ReportPath, PdfPath, SemanticPath
<1>2. \A a, token : \A f \in Original(a, d.assets) \cup Reconstruction(a, token) : PathOf(f)[1] # "extra"
  BY DEF Original, Reconstruction, PathOf, File
<1>3. \A f \in AddedFiles(d) : PathOf(f)[1] # "extra"
  BY <1>1, <1>2 DEF AddedFiles
<1>4. Extra[1] = "extra"
  BY DEF Extra
<1> QED
  BY <1>3, <1>4 DEF FilesOf, Paths

\* Whatever happens to a bundle, it is no longer sound.
LEMMA DamageIsSeen ==
    ASSUME NEW d, NEW zip \in Damages(Archive(d))
    PROVE  ~Sound(zip)
<1> DEFINE was == Archive(d)
           files == FilesOf(AddedFiles(d))
           sums == [p \in DOMAIN files |-> Digest(files[p])]
<1>1. /\ was = [directory |-> was.directory, files |-> files, manifest |-> <<Manifest(d)>>, flaws |-> {}]
      /\ was.directory = [p \in DOMAIN files \cup {ManifestPath} |-> 1]
      /\ Manifest(d).files = sums
  BY DEF Archive, Manifest
<1>2. \A content : Altered(content) # content
  BY ContentIs DEF Altered
<1>3. \A a, b : Digest(a) = Digest(b) => a = b
  <2>1. \A a : Digest(a).sha256 = a
    BY DEF Digest
  <2> QED
    BY <2>1
<1> HIDE DEF was, files
<1>4. was.files = files
  BY <1>1
<1>5. CASE \E p \in DOMAIN was.files : zip = [was EXCEPT !.files[p] = Altered(@)]
  <2>1. PICK p \in DOMAIN was.files : zip = [was EXCEPT !.files[p] = Altered(@)]
    BY <1>5
  <2>2. /\ p \in DOMAIN zip.files /\ zip.files[p] = Altered(files[p])
        /\ zip.manifest[1].files[p] = Digest(files[p])
    BY <1>1, <1>4, <2>1
  <2> QED
    BY <1>2, <1>3, <2>2 DEF Sound, ValidateReconstructableBundle
<1>6. CASE \E p \in DOMAIN was.files :
              zip = [was EXCEPT !.files = Without(@, p), !.directory = Without(@, p)]
  <2>1. PICK p \in DOMAIN was.files :
           zip = [was EXCEPT !.files = Without(@, p), !.directory = Without(@, p)]
    BY <1>6
  <2>2. /\ zip.files = Without(files, p) /\ DOMAIN zip.manifest[1].files = DOMAIN files
        /\ p \in DOMAIN files
    BY <1>1, <1>4, <2>1
  <2>3. p \notin DOMAIN zip.files
    BY <2>2 DEF Without
  <2> QED
    BY <2>2, <2>3 DEF Sound, ValidateReconstructableBundle
<1>7. CASE zip = [was EXCEPT !.files = With(@, Extra, NoContent), !.directory = With(@, Extra, 1)]
  <2>1. zip.files = With(files, Extra, NoContent) /\ DOMAIN zip.manifest[1].files = DOMAIN files
    BY <1>1, <1>7
  <2>2. Extra \in DOMAIN zip.files
    BY <2>1 DEF With
  <2>3. Extra \notin DOMAIN files
    BY ExtraIsNew DEF files
  <2> QED
    BY <2>1, <2>2, <2>3 DEF Sound, ValidateReconstructableBundle
<1>8. CASE zip = [was EXCEPT !.manifest = <<>>, !.directory = Without(@, ManifestPath)]
  <2>1. zip.manifest = <<>>
    BY <1>1, <1>8
  <2> QED
    BY <2>1 DEF Sound, ValidateReconstructableBundle
<1>9. CASE \E p \in DOMAIN was.directory : zip = [was EXCEPT !.directory[p] = 2]
  <2>1. PICK p \in DOMAIN was.directory : zip = [was EXCEPT !.directory[p] = 2]
    BY <1>9
  <2>2. p \in DOMAIN zip.directory /\ zip.directory[p] = 2
    BY <1>1, <2>1
  <2> QED
    BY <2>2 DEF Sound, PreflightReconstructableZip
<1>10. CASE \E flaw \in Flaws : zip = [was EXCEPT !.flaws = {flaw}]
  <2>1. zip.flaws # {}
    BY <1>1, <1>10
  <2> QED
    BY <2>1 DEF Sound, PreflightReconstructableZip
<1> QED
  BY <1>5, <1>6, <1>7, <1>8, <1>9, <1>10 DEF Damages, was

-----------------------------------------------------------------------------
(* The invariant of the session.                                           *)

LEMMA InvImplies == IInv => ReviewInv
<1> SUFFICES ASSUME IInv PROVE ReviewInv
  OBVIOUS
<1>1. /\ pdf \in PdfNames /\ markdown \in TextType /\ PagesInv(pages) /\ QueueMirrorsPages
      /\ stored.pdf \in PdfNames /\ PagesInv(stored.pages) /\ StoredIsResumable
      /\ stored.meta # <<>> => stored.meta = <<stored.meta[1]>>
      /\ saves \in Seq([pdf : PdfNames, markdown : TextType, queue : SUBSET ItemType])
      /\ timer \in BOOLEAN /\ steps \in 0..MaxSteps
      /\ Len(word) <= 1 /\ Len(building) <= 1
  BY DEF IInv, OpenInv, StoredInv, SavesInv, RestInv, MetaType
<1>2. ArePages(pages) /\ ArePages(stored.pages) /\ queue \subseteq ItemType
  BY <1>1, QueueIsTyped DEF PagesInv, QueueMirrorsPages
<1>3. \A s, x : s = <<x>> => Len(s) <= 1
  OBVIOUS
<1>4. Len(stored.meta) <= 1
  <2>1. \A s : s = <<>> => Len(s) <= 1
    OBVIOUS
  <2> QED
    BY <1>1, <1>3, <2>1
<1>5. Len(bundle) <= 1
  BY <1>3 DEF IInv, BundleInv
<1>6. Len(file) <= 1
  BY <1>3 DEF IInv, FileInv
<1>7. TypeOK
  BY <1>1, <1>2, <1>4, <1>5, <1>6 DEF TypeOK
<1>8. AcceptedWasValidated
  <2>1. ASSUME NEW ps, PagesInv(ps), NEW p \in DOMAIN ps, NEW item \in ps[p].items,
               item.disposition = "accepted"
        PROVE  item.mandatory /\ ParseLatex(item.latex).accepted
    BY <2>1 DEF PagesInv, PagesValid, ItemValid
  <2> QED
    BY <1>1, <2>1 DEF AcceptedWasValidated
<1> QED
  BY <1>1, <1>7, <1>8 DEF ReviewInv, IInv

LEMMA NoPagesAreValid == PagesInv(NoPages)
BY DEF PagesInv, NoPages, ArePages, PagesValid, OneOfEachId

\* The documents that a session may begin with or read from a file.
LEMMA DocumentsAreValid ==
    \A d \in Documents \cup ForeignFiles :
        d.pdf \in PdfNames /\ d.markdown \in TextType /\ PagesInv(d.pages)
BY SessionAssumption DEF PdfNames, PagesInv

\* A new session with its workspace.
LEMMA WorkspaceIsStored ==
    ASSUME NEW d, d.pdf \in PdfNames, d.markdown \in TextType, PagesInv(d.pages), NEW items,
           Show(d), stored' = Workspace(d, items)
    PROVE  OpenInv' /\ StoredInv' /\ StoreHoldsThePages' /\ stored'.meta # <<>>
<1>1. OpenInv'
  BY DEF Show, OpenInv, QueueMirrorsPages
<1> DEFINE meta == [pdf |-> d.pdf, markdown |-> d.markdown, queue |-> items,
                    version |-> ExtractionVersion]
<1>2. /\ stored' = [meta |-> <<meta>>, pdf |-> d.pdf, pages |-> d.pages]
      /\ stored'.meta = <<meta>> /\ stored'.pdf = d.pdf /\ stored'.pages = d.pages
  BY DEF Workspace
<1>3. meta.markdown = d.markdown /\ "version" \in DOMAIN meta /\ meta.version = ExtractionVersion
  OBVIOUS
<1> HIDE DEF meta
<1>4. stored'.meta # <<>> /\ stored'.meta[1] = meta
  BY <1>2
<1>5. StoredInv'
  BY <1>2, <1>3, <1>4 DEF StoredInv, StoredIsResumable
<1>6. StoreHoldsThePages'
  BY <1>2 DEF Show, StoreHoldsThePages
<1> QED
  BY <1>1, <1>4, <1>5, <1>6

\* A new session that stores nothing.
LEMMA ShownWithoutPdf ==
    ASSUME NEW d, d.pdf = "none", d.markdown \in TextType, PagesInv(d.pages), Show(d),
           StoredInv, SavesInv, UNCHANGED <<stored, saves>>
    PROVE  OpenInv' /\ StoredInv' /\ StoreHoldsThePages' /\ SavesInv'
<1>1. OpenInv'
  BY DEF Show, OpenInv, QueueMirrorsPages, PdfNames
<1>2. StoredInv'
  BY DEF StoredInv, StoredIsResumable
<1>3. StoreHoldsThePages' /\ SavesInv'
  BY DEF Show, StoreHoldsThePages, SavesInv
<1> QED
  BY <1>1, <1>2, <1>3

\* The initial state.
LEMMA InvInit == Init => IInv
<1> SUFFICES ASSUME Init PROVE IInv
  OBVIOUS
<1>1. PICK d \in Documents :
         /\ pdf = d.pdf /\ pages = d.pages /\ markdown = d.markdown
         /\ queue = BuildReviewQueue(d.pages)
         /\ stored = IF d.pdf = "none" THEN [meta |-> <<>>, pdf |-> "none", pages |-> NoPages]
                     ELSE Workspace(d, queue)
         /\ steps = d.steps
  BY DEF Init
<1>2. d.pdf \in PdfNames /\ d.markdown \in TextType /\ PagesInv(d.pages) /\ d.steps \in 0..MaxSteps
  BY DocumentsAreValid, SessionAssumption
<1>3. OpenInv
  BY <1>1, <1>2 DEF OpenInv, QueueMirrorsPages
<1>4. ASSUME d.pdf = "none" PROVE StoredInv /\ StoreHoldsThePages
  <2>1. /\ stored = [meta |-> <<>>, pdf |-> "none", pages |-> NoPages]
        /\ stored.meta = <<>> /\ stored.pdf = "none" /\ stored.pages = NoPages
    BY <1>1, <1>4
  <2>2. StoredInv
    BY <2>1, NoPagesAreValid DEF StoredInv, StoredIsResumable, PdfNames
  <2> QED
    BY <1>1, <1>4, <2>2 DEF StoreHoldsThePages
<1>5. ASSUME d.pdf # "none" PROVE StoredInv /\ StoreHoldsThePages
  <2> DEFINE meta == [pdf |-> d.pdf, markdown |-> d.markdown, queue |-> queue,
                      version |-> ExtractionVersion]
  <2>1. /\ stored = [meta |-> <<meta>>, pdf |-> d.pdf, pages |-> d.pages]
        /\ stored.meta = <<meta>> /\ stored.pdf = d.pdf /\ stored.pages = d.pages
    BY <1>1, <1>5 DEF Workspace
  <2>2. meta.markdown = d.markdown /\ "version" \in DOMAIN meta /\ meta.version = ExtractionVersion
    OBVIOUS
  <2> HIDE DEF meta
  <2>3. stored.meta # <<>> /\ stored.meta[1] = meta
    BY <2>1
  <2>4. StoredInv
    BY <1>2, <2>1, <2>2, <2>3 DEF StoredInv, StoredIsResumable
  <2> QED
    BY <1>1, <2>1, <2>4 DEF StoreHoldsThePages
<1>6. SavesInv
  <2>1. stored.meta = <<>> => pdf = "none"
    BY <1>1 DEF Workspace
  <2> QED
    BY <2>1 DEF Init, SavesInv
<1>7. BundleInv /\ FileInv
  BY DEF Init, BundleInv, FileInv
<1>8. RestInv
  <2>1. timer = FALSE /\ word = <<>> /\ building = <<>>
    BY DEF Init
  <2>2. \A s : s = <<>> => Len(s) <= 1
    OBVIOUS
  <2>3. Len(word) <= 1 /\ Len(building) <= 1
    BY <2>1, <2>2
  <2> QED
    BY <1>1, <1>2, <2>1, <2>3 DEF RestInv
<1> QED
  BY <1>3, <1>4, <1>5, <1>6, <1>7, <1>8 DEF IInv

-----------------------------------------------------------------------------
(* Each step keeps the invariant.                                          *)

LEMMA StepIsCounted == ASSUME RestInv, Step PROVE steps' \in 0..MaxSteps
BY SessionAssumption DEF RestInv, Step

\* Writing what is waiting keeps the version that the database has.
LEMMA CommitKeepsInv == ASSUME IInv, Commit PROVE IInv'
<1>1. /\ OpenInv /\ StoredInv /\ StoreHoldsThePages /\ SavesInv
      /\ BundleInv /\ FileInv /\ RestInv
  BY DEF IInv
<1>2. /\ saves # <<>> /\ saves' = Tail(saves)
      /\ stored' = [stored EXCEPT !.meta = <<SaveResult(@[1], Head(saves))>>]
      /\ UNCHANGED <<pdf, pages, markdown, queue, timer, building, word, bundle, file, steps>>
  BY DEF Commit, session, saved
<1> DEFINE meta == SaveResult(stored.meta[1], Head(saves))
<1>3. Head(saves) \in MetaType /\ saves' \in Seq(MetaType)
  BY <1>1, <1>2 DEF SavesInv
<1>4. stored.meta # <<>>
  BY <1>1, <1>2 DEF SavesInv
<1>5. "version" \in DOMAIN stored.meta[1] /\ stored.meta[1].version = ExtractionVersion
  BY <1>1, <1>4 DEF StoredInv, StoredIsResumable
<1>6. /\ meta.markdown \in TextType
      /\ "version" \in DOMAIN meta /\ meta.version = ExtractionVersion
  <2>1. /\ DOMAIN Head(saves) = {"pdf", "markdown", "queue"}
        /\ Head(saves).markdown \in TextType
    BY <1>3 DEF MetaType
  <2> QED
    BY <1>5, <2>1 DEF SaveResult, Over
<1>7. /\ stored' = [meta |-> <<meta>>, pdf |-> stored.pdf, pages |-> stored.pages]
      /\ stored'.meta = <<meta>> /\ stored'.pdf = stored.pdf /\ stored'.pages = stored.pages
  BY <1>1, <1>2 DEF StoredInv
<1> HIDE DEF meta
<1>8. stored'.meta # <<>> /\ stored'.meta[1] = meta
  BY <1>7
<1>9. StoredInv'
  BY <1>1, <1>6, <1>7, <1>8 DEF StoredInv, StoredIsResumable
<1>10. OpenInv' /\ StoreHoldsThePages'
  BY <1>1, <1>2, <1>7 DEF OpenInv, QueueMirrorsPages, StoreHoldsThePages
<1>11. SavesInv'
  BY <1>3, <1>8 DEF SavesInv
<1>12. BundleInv' /\ FileInv' /\ RestInv'
  BY <1>1, <1>2 DEF BundleInv, FileInv, RestInv
<1> QED
  BY <1>9, <1>10, <1>11, <1>12 DEF IInv

\* What is saved has the types of what is open.
LEMMA PersistKeepsSaves ==
    ASSUME OpenInv, SavesInv, NEW text \in TextType, NEW items \in SUBSET ItemType,
           Persist(text, items), UNCHANGED <<pdf, stored>>
    PROVE  SavesInv'
<1>1. Meta(text, items) \in MetaType
  BY DEF OpenInv, Meta, MetaType
<1>2. CASE pdf = "none"
  BY <1>2 DEF Persist, SavesInv
<1>3. CASE pdf # "none"
  <2>1. saves' = Append(saves, Meta(text, items)) /\ stored.meta # <<>>
    BY <1>3 DEF Persist, SavesInv
  <2>2. saves' \in Seq(MetaType)
    BY <1>1, <2>1 DEF SavesInv
  <2> QED
    BY <2>1, <2>2 DEF SavesInv
<1> QED
  BY <1>2, <1>3

LEMMA SaveTimerKeepsInv == ASSUME IInv, SaveTimer PROVE IInv'
<1>1. /\ OpenInv /\ StoredInv /\ StoreHoldsThePages /\ SavesInv
      /\ BundleInv /\ FileInv /\ RestInv
  BY DEF IInv
<1>2. /\ timer' = FALSE /\ Persist(markdown, queue)
      /\ UNCHANGED <<pdf, pages, markdown, queue, stored, building, word, bundle, file, steps>>
  BY DEF SaveTimer, session, saved
<1>3. markdown \in TextType /\ queue \in SUBSET ItemType
  BY <1>1, QueueIsTyped DEF OpenInv, QueueMirrorsPages
<1>4. SavesInv'
  BY <1>1, <1>2, <1>3, PersistKeepsSaves
<1>5. OpenInv' /\ StoredInv' /\ StoreHoldsThePages'
  BY <1>1, <1>2 DEF OpenInv, QueueMirrorsPages, StoredInv, StoredIsResumable, StoreHoldsThePages
<1>6. BundleInv' /\ FileInv' /\ RestInv'
  BY <1>1, <1>2 DEF BundleInv, FileInv, RestInv
<1> QED
  BY <1>4, <1>5, <1>6 DEF IInv

\* What a step that opens something leaves alone.
LEMMA OpeningKeepsRest ==
    ASSUME IInv, Step, UNCHANGED <<timer, building, saved>>
    PROVE  BundleInv' /\ FileInv' /\ RestInv'
<1>1. UNCHANGED <<word, bundle, file>>
  BY DEF saved
<1>2. BundleInv' /\ FileInv'
  BY <1>1 DEF IInv, BundleInv, FileInv
<1>3. RestInv'
  BY <1>1, StepIsCounted DEF IInv, RestInv
<1> QED
  BY <1>2, <1>3

\* Opening a document with a PDF stores it; one without leaves what is stored.
LEMMA OpenKeepsInv ==
    ASSUME IInv, Step, NEW d, d.pdf \in PdfNames, d.markdown \in TextType, PagesInv(d.pages), Show(d),
           \/ \E items : stored' = Workspace(d, items)
           \/ d.pdf = "none" /\ UNCHANGED stored,
           UNCHANGED <<timer, saves, building, saved>>
    PROVE  IInv'
<1>1. OpenInv' /\ StoredInv' /\ StoreHoldsThePages' /\ SavesInv'
  <2>1. CASE \E items : stored' = Workspace(d, items)
    <3>1. OpenInv' /\ StoredInv' /\ StoreHoldsThePages' /\ stored'.meta # <<>>
      BY <2>1, WorkspaceIsStored
    <3> QED
      BY <3>1 DEF IInv, SavesInv
  <2>2. CASE d.pdf = "none" /\ UNCHANGED stored
    BY <2>2, ShownWithoutPdf DEF IInv
  <2> QED
    BY <2>1, <2>2
<1> QED
  BY <1>1, OpeningKeepsRest DEF IInv

LEMMA OpenFileKeepsInv == ASSUME IInv, NEW name \in Pdfs, OpenFile(name) PROVE IInv'
<1> DEFINE d == [pdf |-> name, pages |-> NoPages, markdown |-> <<>>]
<1>1. d.pdf \in PdfNames /\ d.markdown \in TextType /\ PagesInv(d.pages)
  BY NoPagesAreValid DEF PdfNames, TextType
<1>2. /\ Step /\ Show(d) /\ stored' = Workspace(d, {})
      /\ UNCHANGED <<timer, saves, building, saved>>
  BY DEF OpenFile
<1> HIDE DEF d
<1> QED
  BY <1>1, <1>2, OpenKeepsInv

LEMMA OpenMarkdownFileKeepsInv ==
    ASSUME IInv, NEW text \in MarkdownFiles, OpenMarkdownFile(text) PROVE IInv'
<1> DEFINE d == [pdf |-> "none", pages |-> NoPages, markdown |-> text]
<1>1. d.pdf = "none" /\ d.pdf \in PdfNames /\ d.markdown \in TextType /\ PagesInv(d.pages)
  BY NoPagesAreValid, SessionAssumption DEF PdfNames
<1>2. Step /\ Show(d) /\ UNCHANGED stored /\ UNCHANGED <<timer, saves, building, saved>>
  BY DEF OpenMarkdownFile, OpenMarkdown
<1> HIDE DEF d
<1> QED
  BY <1>1, <1>2, OpenKeepsInv

LEMMA EditMarkdownKeepsInv ==
    ASSUME IInv, NEW text \in Texts, EditMarkdown(text) PROVE IInv'
<1>1. /\ OpenInv /\ StoredInv /\ StoreHoldsThePages /\ SavesInv
      /\ BundleInv /\ FileInv /\ RestInv
  BY DEF IInv
<1>2. /\ Step /\ markdown' = text /\ timer' = TRUE
      /\ UNCHANGED <<pdf, pages, queue, saves, stored, building, word, bundle, file>>
  BY DEF EditMarkdown, saved
<1>3. text \in TextType
  BY SessionAssumption
<1>4. OpenInv' /\ StoredInv' /\ StoreHoldsThePages' /\ SavesInv'
  BY <1>1, <1>2, <1>3
     DEF OpenInv, QueueMirrorsPages, StoredInv, StoredIsResumable, StoreHoldsThePages, SavesInv
<1>5. BundleInv' /\ FileInv' /\ RestInv'
  BY <1>1, <1>2, StepIsCounted DEF BundleInv, FileInv, RestInv
<1> QED
  BY <1>4, <1>5 DEF IInv

\* A decision changes an equation of the pages and of the queue alike.
LEMMA DecisionKeepsInv ==
    ASSUME IInv, NEW q \in queue, NEW item, Decided(q, item), SetReviewItemDisposition(item)
    PROVE  IInv'
<1>1. /\ OpenInv /\ StoredInv /\ StoreHoldsThePages /\ SavesInv
      /\ BundleInv /\ FileInv /\ RestInv
  BY DEF IInv
<1>2. /\ Step /\ pages' = WithItem(pages, item) /\ queue' = BuildReviewQueue(pages')
      /\ Persist(markdown, queue')
      /\ UNCHANGED <<pdf, markdown, timer, stored, building, word, bundle, file>>
  BY DEF SetReviewItemDisposition, saved
<1>3. q \in BuildReviewQueue(pages) /\ PagesInv(pages)
  BY <1>1 DEF OpenInv, QueueMirrorsPages
<1>4. PagesInv(pages') /\ Undecided(pages') = Undecided(pages)
  BY <1>2, <1>3, DecisionKeepsPages
<1>5. queue' \in SUBSET ItemType
  BY <1>2, <1>4, QueueIsTyped
<1>6. OpenInv' /\ StoredInv' /\ StoreHoldsThePages'
  BY <1>1, <1>2, <1>4
     DEF OpenInv, QueueMirrorsPages, StoredInv, StoredIsResumable, StoreHoldsThePages
<1>7. SavesInv'
  BY <1>1, <1>2, <1>5, PersistKeepsSaves DEF OpenInv
<1>8. BundleInv' /\ FileInv' /\ RestInv'
  BY <1>1, <1>2, StepIsCounted DEF BundleInv, FileInv, RestInv
<1> QED
  BY <1>6, <1>7, <1>8 DEF IInv

LEMMA DecisionsKeepInv == ASSUME IInv, AcceptItem \/ EditItem \/ KeepOriginal PROVE IInv'
<1>1. \A q \in queue : q \in ItemType /\ ItemValid(q)
  BY QueueItems DEF IInv, OpenInv, QueueMirrorsPages
<1>2. CASE AcceptItem
  BY <1>1, <1>2, DecisionsAreValid, DecisionKeepsInv DEF AcceptItem
<1>3. CASE EditItem
  BY <1>1, <1>3, DecisionsAreValid, DecisionKeepsInv DEF EditItem
<1>4. CASE KeepOriginal
  BY <1>1, <1>4, DecisionsAreValid, DecisionKeepsInv DEF KeepOriginal
<1> QED
  BY <1>2, <1>3, <1>4

\* The assets of valid pages, by their ids.
LEMMA AssetMapIsValid ==
    ASSUME NEW ps, PagesInv(ps), NEW id \in DOMAIN AssetMap(ps)
    PROVE  LET a == AssetMap(ps)[id] IN a \in AssetType /\ AssetValid(a) /\ a.id = id
<1> DEFINE all == UNION {ps[p].assets : p \in DOMAIN ps}
           a == CHOOSE a \in all : a.id = id
<1>1. AssetMap(ps) = [key \in {b.id : b \in all} |-> CHOOSE b \in all : b.id = key]
  BY DEF AssetMap
<1>2. a \in all /\ a.id = id
  BY <1>1
<1>3. PICK p \in DOMAIN ps : a \in ps[p].assets
  BY <1>2
<1>4. ps[p] \in PageType /\ AssetValid(a)
  BY <1>3 DEF PagesInv, ArePages, PagesValid
<1>5. a \in AssetType
  BY <1>3, <1>4 DEF PageType
<1> QED
  BY <1>1, <1>2, <1>4, <1>5

\* What is open is what a bundle may be made of.
LEMMA OpenDocumentIsSource ==
    ASSUME OpenInv, NEW d, d.markdown = markdown, d.pdf = pdf, d.assets = AssetMap(pages),
           d.items = queue
    PROVE  IsSource(d)
<1>1. PagesInv(pages) /\ queue = BuildReviewQueue(pages)
  BY DEF OpenInv, QueueMirrorsPages
<1>2. \A id \in DOMAIN d.assets :
         d.assets[id] \in AssetType /\ AssetValid(d.assets[id]) /\ d.assets[id].id = id
  BY <1>1, AssetMapIsValid
<1>3. \A item \in d.items : item \in ItemType /\ ItemValid(item)
  BY <1>1, QueueItems
<1>4. \A item, other \in d.items : item.id = other.id => item = other
  BY <1>1, QueueIds
<1> QED
  BY <1>2, <1>3, <1>4 DEF IsSource, OpenInv

\* What a step that leaves the session and what is stored keeps of it.
LEMMA SessionUnchanged ==
    ASSUME IInv, UNCHANGED <<session, saves, stored>>
    PROVE  OpenInv' /\ StoredInv' /\ StoreHoldsThePages' /\ SavesInv'
<1>1. OpenInv /\ StoredInv /\ StoreHoldsThePages /\ SavesInv
  BY DEF IInv
<1> QED
  BY <1>1 DEF session, OpenInv, QueueMirrorsPages, StoredInv, StoredIsResumable,
              StoreHoldsThePages, SavesInv

LEMMA SavingKeepsInv ==
    ASSUME IInv, SaveDocx \/ BeginBundle \/ SaveWorkspaceFile PROVE IInv'
<1>1. /\ Step /\ UNCHANGED <<session, saves, stored>> /\ UNCHANGED <<timer, bundle>>
  BY DEF SaveDocx, BeginBundle, SaveWorkspaceFile, saved
<1>2. \A s, x : s = <<x>> => Len(s) <= 1
  OBVIOUS
<1>3. OpenInv' /\ StoredInv' /\ StoreHoldsThePages' /\ SavesInv' /\ BundleInv'
  BY <1>1, SessionUnchanged DEF IInv, BundleInv
<1>4. steps' \in 0..MaxSteps
  BY <1>1, StepIsCounted DEF IInv
<1>5. CASE SaveDocx
  <2>1. (\E x : word' = <<x>>) /\ UNCHANGED <<building, file>>
    BY <1>5 DEF SaveDocx
  <2>2. FileInv'
    BY <2>1 DEF IInv, FileInv
  <2>3. RestInv'
    BY <1>1, <1>2, <1>4, <2>1 DEF IInv, RestInv
  <2> QED
    BY <1>3, <2>2, <2>3 DEF IInv
<1>6. CASE BeginBundle
  <2>1. (\E x : building' = <<x>>) /\ UNCHANGED <<word, file>>
    BY <1>6 DEF BeginBundle, saved
  <2>2. FileInv'
    BY <2>1 DEF IInv, FileInv
  <2>3. RestInv'
    BY <1>1, <1>2, <1>4, <2>1 DEF IInv, RestInv
  <2> QED
    BY <1>3, <2>2, <2>3 DEF IInv
<1>7. CASE SaveWorkspaceFile
  <2>1. /\ file' = <<[pdf |-> pdf, pages |-> pages, markdown |-> markdown]>>
        /\ UNCHANGED <<building, word>>
    BY <1>7 DEF SaveWorkspaceFile
  <2>2. FileInv'
    BY <2>1 DEF IInv, OpenInv, FileInv
  <2>3. RestInv'
    BY <1>1, <1>4, <2>1 DEF IInv, RestInv
  <2> QED
    BY <1>3, <2>2, <2>3 DEF IInv
<1> QED
  BY <1>5, <1>6, <1>7

\* A bundle is made of what is open when its Word file is ready.
LEMMA FinishBundleKeepsInv == ASSUME IInv, FinishBundle PROVE IInv'
<1> DEFINE d == [markdown |-> markdown, pdf |-> pdf, assets |-> AssetMap(pages), items |-> queue,
                 semantic |-> building[1].semantic, word |-> building[1].word]
           made == [zip |-> Archive(d), of |-> d, damaged |-> FALSE]
<1>1. /\ UNCHANGED <<session, saves, stored>> /\ UNCHANGED <<timer, word, file, steps>>
      /\ building' = <<>>
      /\ bundle' = IF ~DuplicatePath(AddedFiles(d)) THEN <<made>> ELSE bundle
  BY DEF FinishBundle, BuildReconstructableBundle
<1>2. IsSource(d)
  BY OpenDocumentIsSource DEF IInv
<1>3. /\ made.zip = Archive(d) /\ made.of = d /\ made.damaged = FALSE
      /\ made = [zip |-> made.zip, of |-> made.of, damaged |-> made.damaged]
  OBVIOUS
<1> HIDE DEF d, made
<1>4. BundleInv'
  <2>1. CASE DuplicatePath(AddedFiles(d))
    BY <1>1, <2>1 DEF IInv, BundleInv
  <2>2. CASE ~DuplicatePath(AddedFiles(d))
    <3>1. bundle' = <<made>> /\ bundle'[1] = made
      BY <1>1, <2>2
    <3> QED
      BY <1>2, <1>3, <2>2, <3>1 DEF BundleInv
  <2> QED
    BY <2>1, <2>2
<1>5. Len(building') <= 1
  <2>1. \A s : s = <<>> => Len(s) <= 1
    OBVIOUS
  <2> QED
    BY <1>1, <2>1
<1>6. FileInv' /\ RestInv'
  BY <1>1, <1>5 DEF IInv, FileInv, RestInv
<1> QED
  BY <1>1, <1>4, <1>6, SessionUnchanged DEF IInv

LEMMA ImportFileKeepsInv == ASSUME IInv, ImportFile PROVE IInv'
<1>1. PICK d : /\ d.pdf \in PdfNames /\ d.markdown \in TextType /\ PagesInv(d.pages)
               /\ ImportWorkspace(d)
  BY DocumentsAreValid DEF ImportFile, IInv, FileInv
<1>2. Step /\ UNCHANGED <<timer, saves, building, saved>>
  BY <1>1 DEF ImportWorkspace
<1>3. CASE d.pdf = "none"
  BY <1>1, <1>2, <1>3, OpenKeepsInv DEF ImportWorkspace
<1>4. CASE d.pdf # "none"
  <2> DEFINE e == [pdf |-> d.pdf, pages |-> d.pages, markdown |-> d.markdown,
                   queue |-> BuildReviewQueue(d.pages)]
  <2>1. Show(e) /\ stored' = Workspace(e, e.queue)
    BY <1>1, <1>4 DEF ImportWorkspace, Restore
  <2>2. e.pdf \in PdfNames /\ e.markdown \in TextType /\ PagesInv(e.pages)
    BY <1>1
  <2> HIDE DEF e
  <2> QED
    BY <1>2, <2>1, <2>2, OpenKeepsInv
<1> QED
  BY <1>3, <1>4

\* A bundle that is taken is the archive of its document.
LEMMA SoundBundles ==
    ASSUME BundleInv, bundle # <<>>, Sound(bundle[1].zip)
    PROVE  /\ ~bundle[1].damaged
           /\ IsSource(bundle[1].of) /\ ~DuplicatePath(AddedFiles(bundle[1].of))
           /\ bundle[1].zip = Archive(bundle[1].of)
<1>1. ~bundle[1].damaged
  BY DamageIsSeen DEF BundleInv
<1> QED
  BY <1>1 DEF BundleInv

LEMMA ImportBundleKeepsInv == ASSUME IInv, ImportBundle PROVE IInv'
<1>1. Step /\ bundle # <<>> /\ UNCHANGED <<timer, saves, building, saved>>
  BY DEF ImportBundle
<1>2. CASE ~Sound(bundle[1].zip)
  <2>1. UNCHANGED <<session, stored>>
    BY <1>2 DEF ImportBundle
  <2> QED
    BY <1>1, <2>1, SessionUnchanged, OpeningKeepsRest DEF IInv
<1>3. CASE Sound(bundle[1].zip)
  <2> DEFINE zip == bundle[1].zip
             of == bundle[1].of
             ps == BundlePages(zip)
  <2>1. IsSource(of) /\ ~DuplicatePath(AddedFiles(of)) /\ zip = Archive(of)
    BY <1>1, <1>3, SoundBundles DEF IInv
  <2>2. BundleMarkdown(zip) = of.markdown /\ BundlePdf(zip) = of.pdf
    BY <2>1, ArchiveHoldsDocument DEF HoldsDocument
  <2>3. PagesInv(ps)
    BY <2>1, BundlePagesAreValid
  <2>4. BundleMarkdown(zip) \in TextType /\ BundlePdf(zip) \in PdfNames
    BY <2>1, <2>2 DEF IsSource
  <2>5. HandOff(zip)
    BY <1>3 DEF ImportBundle
  <2> HIDE DEF zip, of, ps
  <2>6. CASE BundlePdf(zip) # "none" /\ BundleVersion(zip) >= 0
    <3> DEFINE e == [pdf |-> BundlePdf(zip), pages |-> ps, markdown |-> BundleMarkdown(zip),
                     queue |-> BuildReviewQueue(ps)]
    <3>1. Show(e) /\ stored' = Workspace(e, e.queue)
      BY <2>5, <2>6 DEF HandOff, Restore, ps
    <3>2. e.pdf \in PdfNames /\ e.markdown \in TextType /\ PagesInv(e.pages)
      BY <2>3, <2>4
    <3> HIDE DEF e
    <3> QED
      BY <1>1, <3>1, <3>2, OpenKeepsInv
  <2>7. CASE ~(BundlePdf(zip) # "none" /\ BundleVersion(zip) >= 0)
    <3> DEFINE e == [pdf |-> "none", pages |-> NoPages, markdown |-> BundleMarkdown(zip)]
    <3>1. Show(e) /\ UNCHANGED stored
      BY <2>5, <2>7 DEF HandOff, OpenMarkdown
    <3>2. e.pdf = "none" /\ e.pdf \in PdfNames /\ e.markdown \in TextType /\ PagesInv(e.pages)
      BY <2>4, NoPagesAreValid DEF PdfNames
    <3> HIDE DEF e
    <3> QED
      BY <1>1, <3>1, <3>2, OpenKeepsInv
  <2> QED
    BY <2>6, <2>7
<1> QED
  BY <1>2, <1>3

\* After a reload the session is what was stored.
LEMMA ReloadKeepsInv == ASSUME IInv, Reload PROVE IInv'
<1>1. /\ OpenInv /\ StoredInv /\ StoreHoldsThePages /\ SavesInv
      /\ BundleInv /\ FileInv /\ RestInv
  BY DEF IInv
<1>2. /\ Step /\ stored.meta # <<>> /\ timer' = FALSE /\ saves' = <<>> /\ building' = <<>>
      /\ UNCHANGED <<stored, word, bundle, file>>
  BY DEF Reload, saved
<1> DEFINE d == [pdf |-> stored.pdf, pages |-> stored.pages, markdown |-> stored.meta[1].markdown]
<1>3. stored.meta[1].version = ExtractionVersion /\ stored.meta[1].markdown \in TextType
  BY <1>1, <1>2 DEF StoredInv, StoredIsResumable
<1>4. Show(d)
  BY <1>3 DEF Reload
<1>5. d.pdf = stored.pdf /\ d.pages = stored.pages /\ d.markdown \in TextType
  BY <1>3
<1> HIDE DEF d
<1>6. OpenInv'
  BY <1>1, <1>4, <1>5 DEF Show, StoredInv, OpenInv, QueueMirrorsPages
<1>7. StoredInv' /\ StoreHoldsThePages'
  BY <1>1, <1>2, <1>4, <1>5 DEF Show, StoredInv, StoredIsResumable, StoreHoldsThePages
<1>8. SavesInv'
  BY <1>2 DEF SavesInv
<1>9. BundleInv' /\ FileInv'
  BY <1>1, <1>2 DEF BundleInv, FileInv
<1>10. Len(building') <= 1
  <2>1. \A s : s = <<>> => Len(s) <= 1
    OBVIOUS
  <2> QED
    BY <1>2, <2>1
<1>11. RestInv'
  BY <1>1, <1>2, <1>10, StepIsCounted DEF RestInv
<1> QED
  BY <1>6, <1>7, <1>8, <1>9, <1>11 DEF IInv

LEMMA DamageBundleKeepsInv == ASSUME IInv, DamageBundle PROVE IInv'
<1>1. PICK zip \in Damages(bundle[1].zip) :
         bundle' = <<[zip |-> zip, of |-> bundle[1].of, damaged |-> TRUE]>>
  BY DEF DamageBundle
<1>2. /\ Step /\ bundle # <<>> /\ ~bundle[1].damaged
      /\ UNCHANGED <<session, saves, stored>> /\ UNCHANGED <<timer, building, word, file>>
  BY DEF DamageBundle
<1> DEFINE b == bundle[1]
           c == [zip |-> zip, of |-> b.of, damaged |-> TRUE]
<1>3. /\ bundle = <<[zip |-> b.zip, of |-> b.of, damaged |-> b.damaged]>>
      /\ IsSource(b.of) /\ ~DuplicatePath(AddedFiles(b.of)) /\ b.zip = Archive(b.of)
  BY <1>2 DEF IInv, BundleInv
<1>4. bundle' = <<c>> /\ bundle'[1] = c
  BY <1>1
<1>5. /\ c.zip = zip /\ c.of = b.of /\ c.damaged = TRUE
      /\ c = [zip |-> c.zip, of |-> c.of, damaged |-> c.damaged]
  OBVIOUS
<1>6. zip \in Damages(Archive(b.of))
  BY <1>3
<1> HIDE DEF b, c
<1>7. BundleInv'
  BY <1>3, <1>4, <1>5, <1>6 DEF BundleInv
<1>8. FileInv' /\ RestInv'
  BY <1>2, StepIsCounted DEF IInv, FileInv, RestInv
<1> QED
  BY <1>2, <1>7, <1>8, SessionUnchanged DEF IInv

LEMMA InvStep == IInv /\ [Next]_vars => IInv'
<1> SUFFICES ASSUME IInv, [Next]_vars PROVE IInv'
  OBVIOUS
<1>1. CASE Commit
  BY <1>1, CommitKeepsInv
<1>2. CASE SaveTimer
  BY <1>2, SaveTimerKeepsInv
<1>3. CASE \E name \in Pdfs : OpenFile(name)
  BY <1>3, OpenFileKeepsInv
<1>4. CASE \E text \in MarkdownFiles : OpenMarkdownFile(text)
  BY <1>4, OpenMarkdownFileKeepsInv
<1>5. CASE \E text \in Texts : EditMarkdown(text)
  BY <1>5, EditMarkdownKeepsInv
<1>6. CASE AcceptItem \/ EditItem \/ KeepOriginal
  BY <1>6, DecisionsKeepInv
<1>7. CASE SaveDocx \/ BeginBundle \/ SaveWorkspaceFile
  BY <1>7, SavingKeepsInv
<1>8. CASE FinishBundle
  BY <1>8, FinishBundleKeepsInv
<1>9. CASE ImportFile
  BY <1>9, ImportFileKeepsInv
<1>10. CASE ImportBundle
  BY <1>10, ImportBundleKeepsInv
<1>11. CASE Reload
  BY <1>11, ReloadKeepsInv
<1>12. CASE DamageBundle
  BY <1>12, DamageBundleKeepsInv
<1>13. CASE UNCHANGED vars
  <2>1. /\ UNCHANGED <<session, saves, stored>>
        /\ UNCHANGED <<timer, building, word, bundle, file, steps>>
    BY <1>13 DEF vars, saved
  <2> QED
    BY <2>1, SessionUnchanged DEF IInv, BundleInv, FileInv, RestInv
<1> QED
  BY <1>1, <1>2, <1>3, <1>4, <1>5, <1>6, <1>7, <1>8, <1>9, <1>10, <1>11, <1>12, <1>13 DEF Next

-----------------------------------------------------------------------------
(* The theorems.                                                           *)

LEMMA Invariance == Spec => []IInv
<1> QED
  BY InvInit, InvStep, PTL DEF Spec

\* The queue is what the pages hold, the database holds the pages of what is open
\* and can be resumed, and no equation passes as accepted that was not validated
\* as it stands, after any decisions, edits, imports and reloads, for any documents
\* (app.js; review-queue.js; workspace-db.js).
THEOREM SessionsAgree == Spec => []ReviewInv
<1> QED
  BY Invariance, InvImplies, PTL

\* A bundle that nobody touched is taken, and gives back the document it was made
\* of: any assets and equations under any ids, also such that leave the same
\* file names (reconstructable-bundle.js; reconstructable-bundle-import.js).
THEOREM BundlesAreWhole == Spec => []BundleHoldsTheDocument
<1>1. IInv => BundleHoldsTheDocument
  <2> SUFFICES ASSUME IInv, bundle # <<>>, ~bundle[1].damaged
               PROVE  HoldsDocument(bundle[1].zip, bundle[1].of)
    BY DEF BundleHoldsTheDocument, HoldsDocument
  <2>1. /\ IsSource(bundle[1].of) /\ ~DuplicatePath(AddedFiles(bundle[1].of))
        /\ bundle[1].zip = Archive(bundle[1].of)
    BY DEF IInv, BundleInv
  <2> QED
    BY <2>1, ArchiveHoldsDocument
<1> QED
  BY <1>1, Invariance, PTL

\* A bundle of which a file was changed, lost or added, or of which a record was, is
\* refused, and the session and its workspace stay (reconstructable-bundle-import.js).
THEOREM DamagedBundlesAreRefused == Spec => DamagedBundleIsRefused
<1>1. IInv /\ ImportBundle /\ bundle[1].damaged => UNCHANGED <<session, stored>>
  BY SoundBundles DEF IInv, ImportBundle
<1>2. IInv /\ [Next]_vars =>
        [ImportBundle /\ bundle[1].damaged => UNCHANGED <<session, stored>>]_vars
  BY <1>1
<1> QED
  BY <1>2, Invariance, PTL DEF Spec, DamagedBundleIsRefused
=============================================================================
