----------------------- MODULE ExtractionWorkerProofs -----------------------
(***************************************************************************)
(* Machine-checked proofs about ExtractionWorker, for batches of any size, *)
(* pages of any content and any settings.  First the stages of one page    *)
(* (PageExtraction), for any outcome of crops and recognisers; then the    *)
(* batch.                                                                  *)
(***************************************************************************)
EXTENDS ExtractionWorker, FiniteSetTheorems, SequenceTheorems, WellFoundedInduction, TLAPS

-----------------------------------------------------------------------------
(* Sequences as they grow.                                                 *)

Elements(s) == {s[i] : i \in DOMAIN s}
IsSequence(s) == s \in Seq(Elements(s))

LEMMA SequenceOf ==
    ASSUME NEW S, NEW s \in Seq(S)
    PROVE  IsSequence(s) /\ Elements(s) \subseteq S
<1>1. Len(s) \in Nat /\ s \in [1..Len(s) -> S] /\ DOMAIN s = 1..Len(s)
  BY LenProperties
<1>2. Elements(s) \subseteq S
  BY <1>1 DEF Elements
<1>3. s \in [1..Len(s) -> Elements(s)]
  BY <1>1 DEF Elements
<1> QED
  BY <1>1, <1>2, <1>3, SeqDef DEF IsSequence

LEMMA Appended ==
    ASSUME NEW s, IsSequence(s), NEW x
    PROVE  /\ IsSequence(Append(s, x))
           /\ Elements(Append(s, x)) = Elements(s) \cup {x}
<1>1. s \in Seq(Elements(s) \cup {x})
  BY SeqMonotonic DEF IsSequence
<1>2. /\ Append(s, x) \in Seq(Elements(s) \cup {x})
      /\ Len(Append(s, x)) = Len(s) + 1
      /\ \A i \in 1..Len(s) : Append(s, x)[i] = s[i]
      /\ Append(s, x)[Len(s) + 1] = x
  BY <1>1, AppendProperties
<1>3. /\ Len(s) \in Nat /\ DOMAIN s = 1..Len(s)
      /\ DOMAIN Append(s, x) = 1..(Len(s) + 1)
  BY <1>1, <1>2, LenProperties
<1>4. Elements(s) \subseteq Elements(Append(s, x)) /\ x \in Elements(Append(s, x))
  BY <1>2, <1>3 DEF Elements
<1>5. IsSequence(Append(s, x)) /\ Elements(Append(s, x)) \subseteq Elements(s) \cup {x}
  BY <1>2, SequenceOf
<1> QED
  BY <1>4, <1>5

LEMMA Joined ==
    ASSUME NEW s, IsSequence(s), NEW t, IsSequence(t)
    PROVE  /\ IsSequence(s \o t)
           /\ Elements(s \o t) = Elements(s) \cup Elements(t)
<1> DEFINE S == Elements(s) \cup Elements(t)
<1>1. s \in Seq(S) /\ t \in Seq(S)
  BY SeqMonotonic DEF IsSequence
<1>2. /\ s \o t \in Seq(S)
      /\ Len(s \o t) = Len(s) + Len(t)
      /\ \A i \in 1 .. Len(s) + Len(t) : (s \o t)[i] =
                     IF i <= Len(s) THEN s[i] ELSE t[i - Len(s)]
  BY <1>1, ConcatProperties
<1>3. /\ Len(s) \in Nat /\ DOMAIN s = 1..Len(s) /\ Len(t) \in Nat /\ DOMAIN t = 1..Len(t)
      /\ DOMAIN (s \o t) = 1..(Len(s) + Len(t))
  BY <1>1, <1>2, LenProperties
<1>4. Elements(s) \subseteq Elements(s \o t)
  <2>1. \A i \in DOMAIN s : i \in DOMAIN (s \o t) /\ (s \o t)[i] = s[i]
    BY <1>2, <1>3
  <2> QED
    BY <2>1 DEF Elements
<1>5. Elements(t) \subseteq Elements(s \o t)
  <2>1. \A i \in DOMAIN t : i + Len(s) \in DOMAIN (s \o t) /\ (s \o t)[i + Len(s)] = t[i]
    BY <1>2, <1>3
  <2> QED
    BY <2>1 DEF Elements
<1>6. IsSequence(s \o t) /\ Elements(s \o t) \subseteq S
  BY <1>2, SequenceOf
<1> QED
  BY <1>4, <1>5, <1>6

LEMMA Empty == IsSequence(<<>>) /\ Elements(<<>>) = {}
  BY EmptySeq DEF IsSequence, Elements

LEMMA Single ==
    ASSUME NEW x
    PROVE  IsSequence(<<x>>) /\ Elements(<<x>>) = {x}
  BY DEF IsSequence, Elements

-----------------------------------------------------------------------------
(* The things of a page in their order.                                    *)

Listing(s, things) ==
    /\ s \in [1 .. Cardinality(things) -> things]
    /\ \A i, j \in DOMAIN s : i < j => s[i][2] < s[j][2]

FirstOf(sort, n) == {<<sort, i>> : i \in 1..n}

LEMMA MoreListed ==
    ASSUME NEW sort, NEW n \in Nat \ {0}, NEW things, things \subseteq FirstOf(sort, n),
           IsFiniteSet(things \ {<<sort, n>>}),
           NEW s, Listing(s, things \ {<<sort, n>>})
    PROVE  IsFiniteSet(things) /\ \E more : Listing(more, things)
<1> DEFINE last == <<sort, n>>
           less == things \ {last}
<1>1. CASE last \notin things
  <2>1. less = things
    BY <1>1
  <2> QED
    BY <2>1
<1>2. CASE last \in things
  <2>1. less \cup {last} = things /\ last \notin less
    BY <1>2
  <2>2. /\ IsFiniteSet(things)
        /\ Cardinality(less) \in Nat /\ Cardinality(things) = Cardinality(less) + 1
    <3>1. IsFiniteSet(less)
      OBVIOUS
    <3> HIDE DEF less, last
    <3>2. /\ IsFiniteSet(less \cup {last})
          /\ Cardinality(less \cup {last}) = Cardinality(less) + 1
      BY <3>1, <2>1, FS_AddElement
    <3>3. Cardinality(less) \in Nat
      BY <3>1, FS_CardinalityType
    <3> QED
      BY <2>1, <3>2, <3>3
  <2> DEFINE c == Cardinality(less)
             more == [i \in 1..(c + 1) |-> IF i = c + 1 THEN last ELSE s[i]]
  <2> HIDE DEF c
  <2>3. /\ c \in Nat /\ Cardinality(things) = c + 1
        /\ s \in [1..c -> less] /\ \A i, j \in 1..c : i < j => s[i][2] < s[j][2]
    BY <2>2 DEF Listing, c
  <2>4. more \in [1..Cardinality(things) -> things] /\ DOMAIN more = 1..(c + 1)
    BY <2>1, <2>3
  <2>5. \A i \in 1..c : s[i][2] < n
    <3>1. \A t \in less : t[2] < n
      BY DEF FirstOf
    <3> QED
      BY <2>3, <3>1
  <2>6. \A i, j \in DOMAIN more : i < j => more[i][2] < more[j][2]
    <3>1. SUFFICES ASSUME NEW i \in 1..(c + 1), NEW j \in 1..(c + 1), i < j
                   PROVE  more[i][2] < more[j][2]
      BY <2>4
    <3>2. i \in 1..c /\ more[i] = s[i]
      BY <2>3, <3>1
    <3>3. CASE j = c + 1
      BY <3>2, <3>3, <2>5
    <3>4. CASE j # c + 1
      <4>1. j \in 1..c /\ more[j] = s[j]
        BY <2>3, <3>4
      <4> QED
        BY <3>1, <3>2, <4>1, <2>3
    <3> QED
      BY <3>3, <3>4
  <2>7. Listing(more, things)
    BY <2>4, <2>6 DEF Listing
  <2> QED
    BY <2>2, <2>7
<1> QED
  BY <1>1, <1>2

LEMMA ListingExists ==
    ASSUME NEW sort, NEW n \in Nat, NEW things, things \subseteq FirstOf(sort, n)
    PROVE  IsFiniteSet(things) /\ \E s : Listing(s, things)
<1> DEFINE Listed(m) == \A T \in SUBSET FirstOf(sort, m) :
                          IsFiniteSet(T) /\ \E s : Listing(s, T)
           Unlisted == {m \in Nat : ~Listed(m)}
<1>1. Listed(0)
  <2>1. SUFFICES ASSUME NEW T, T = {} PROVE IsFiniteSet(T) /\ \E s : Listing(s, T)
    BY DEF FirstOf
  <2>2. IsFiniteSet(T) /\ Cardinality(T) = 0
    BY <2>1, FS_EmptySet
  <2>3. Listing(<<>>, T)
    BY <2>1, <2>2 DEF Listing
  <2> QED
    BY <2>2, <2>3
<1>2. ASSUME NEW m \in Nat, Listed(m) PROVE Listed(m + 1)
  <2>1. SUFFICES ASSUME NEW T \in SUBSET FirstOf(sort, m + 1)
                 PROVE  IsFiniteSet(T) /\ \E s : Listing(s, T)
    OBVIOUS
  <2>2. T \ {<<sort, m + 1>>} \in SUBSET FirstOf(sort, m)
    BY <2>1 DEF FirstOf
  <2>3. m + 1 \in Nat \ {0}
    OBVIOUS
  <2> QED
    BY <1>2, <2>1, <2>2, <2>3, MoreListed
<1>3. Unlisted = {}
  <2>1. SUFFICES ASSUME Unlisted # {} PROVE FALSE
    OBVIOUS
  <2> DEFINE R == OpToRel(<, Nat)
  <2>a. IsWellFoundedOn(R, Nat) /\ Unlisted \subseteq Nat
    BY NatLessThanWellFounded, Zenon
  <2>b. \A k, m \in Nat : k < m => <<k, m>> \in R
    BY DEF OpToRel
  <2> HIDE DEF R, Listed
  <2>c. \E m \in Unlisted : \A k \in Unlisted : ~(<<k, m>> \in R)
    <3> HIDE DEF Unlisted
    <3> QED
      BY <2>1, <2>a, WFMin
  <2>2. PICK m \in Unlisted : \A k \in Unlisted : ~(<<k, m>> \in R)
    BY <2>c
  <2>3. m \in Nat /\ m # 0 /\ m - 1 \in Nat /\ <<m - 1, m>> \in R
    BY <2>2, <1>1, <2>b
  <2>4. Listed(m - 1)
    BY <2>2, <2>3
  <2>5. Listed((m - 1) + 1)
    BY <2>3, <2>4, <1>2
  <2>6. (m - 1) + 1 = m
    BY <2>3
  <2> QED
    BY <2>2, <2>5, <2>6
<1> QED
  BY <1>3

\* The order of the page names each of the things once.
LEMMA InOrderLists ==
    ASSUME NEW sort, NEW n \in Nat, NEW things, things \subseteq FirstOf(sort, n)
    PROVE  /\ IsFiniteSet(things) /\ Cardinality(things) \in Nat
           /\ InOrder(things) \in [1 .. Cardinality(things) -> things]
           /\ \A t \in things : \E i \in 1 .. Cardinality(things) : InOrder(things)[i] = t
<1> DEFINE s == InOrder(things)
           c == Cardinality(things)
<1>1. IsFiniteSet(things) /\ c \in Nat /\ \E r : Listing(r, things)
  BY ListingExists, FS_CardinalityType
<1>2. Listing(s, things)
  BY <1>1 DEF Listing, InOrder
<1>3. s \in [1..c -> things] /\ \A i, j \in 1..c : i < j => s[i][2] < s[j][2]
  BY <1>2 DEF Listing
<1>4. s \in Injection(1..c, things)
  <2>1. \A t \in things : t[2] \in Nat
    BY DEF FirstOf
  <2>2. ASSUME NEW i \in 1..c, NEW j \in 1..c, s[i] = s[j] PROVE i = j
    BY <1>1, <1>3, <2>1, <2>2
  <2> HIDE DEF s, c
  <2> QED
    BY <1>3, <2>2 DEF Injection, IsInjective
<1>5. IsFiniteSet(1..c) /\ Cardinality(1..c) = c
  BY <1>1, FS_Interval
<1>6. s \in Surjection(1..c, things)
  <2> HIDE DEF s
  <2> QED
    BY <1>1, <1>4, <1>5, FS_Injection
<1>7. \A t \in things : \E i \in 1..c : s[i] = t
  BY <1>6 DEF Surjection
<1> QED
  BY <1>1, <1>3, <1>7

LEMMA FirstIsOne ==
    ASSUME NEW sort, NEW n \in Nat, NEW things, things \subseteq FirstOf(sort, n), things # {}
    PROVE  First(things) \in things
<1>1. Cardinality(things) # 0
  BY InOrderLists, FS_EmptySet
<1>2. 1 \in 1..Cardinality(things)
  BY <1>1, InOrderLists
<1> QED
  BY <1>2, InOrderLists DEF First

\* One entry is made of each.
LEMMA EntriesMade ==
    ASSUME NEW sort, NEW n \in Nat, NEW made, DOMAIN made \subseteq FirstOf(sort, n)
    PROVE  /\ IsSequence(EntriesFor(made))
           /\ Elements(EntriesFor(made)) = {made[t] : t \in DOMAIN made}
<1> DEFINE order == InOrder(DOMAIN made)
           c == Cardinality(DOMAIN made)
           s == [i \in 1..c |-> made[order[i]]]
<1>1. /\ c \in Nat /\ order \in [1..c -> DOMAIN made]
      /\ \A t \in DOMAIN made : \E i \in 1..c : order[i] = t
  BY InOrderLists
<1>2. EntriesFor(made) = s /\ DOMAIN s = 1..c
  BY <1>1 DEF EntriesFor
<1> HIDE DEF order, c
<1>3. s \in [1..c -> Elements(s)]
  BY DEF Elements
<1>4. IsSequence(s)
  BY <1>1, <1>3, SeqDef DEF IsSequence
<1>5. Elements(s) = {made[t] : t \in DOMAIN made}
  BY <1>1 DEF Elements
<1> QED
  BY <1>2, <1>4, <1>5

-----------------------------------------------------------------------------
(* The inductive invariant of a page.                                      *)

Es == Elements(entries)
As == Elements(assets)
AllThings == Blocks \cup Images \cup Graphics \cup Lines

\* An entry stands for what it was made of by its text or by the picture it marks.
Shows(e) == e.text \/ e.marker # NoMarker
There == Shown \cup given

EntryInv ==
    /\ IsSequence(entries) /\ IsSequence(assets)
    /\ \A e \in Es : e.of \subseteq AllThings /\ (e.kind = "table" => Shows(e))
    /\ {e.marker : e \in Es} \ {NoMarker} = {a.id : a \in As}

\* Before the page is recognised it has no entry but its table's, and embedded text
\* is none of what comes later.
ReadingInv ==
    /\ stage \in {"read", "table"} => entries = <<>> /\ assets = <<>>
    /\ stage \in {"read", "table", "recognise"} =>
         ~ocrApplied /\ \A e \in Es : e.kind = "table"
    /\ ocrApplied =>
         /\ NeedsOcr
         /\ \A e \in Es : e.text => e.kind = "table" \/ e.of \cap Blocks = {}
    /\ recovered \subseteq Shown

\* A damaged page is to be kept unless it was recognised with confidence.
DamageInv ==
    /\ preserveSourcePage => KeepsWhole
    /\ stage \notin {"read", "failed"} /\ KeepsWhole =>
         preserveSourcePage \/ (ocrApplied /\ ocrConfident)

Later == {"images", "graphics", "candidates", "source"}
TextInv ==
    /\ stage \in {"formulas", "blocks"} \cup Later /\ ocrApplied =>
         Lines \ Excluded \subseteq There
    /\ stage \in Later /\ ~ocrApplied => KeepBlocks(Blocks) \subseteq There

\* What the loops over pictures have left behind.
ImageKept(t) ==
    \/ preserveSourcePage \/ t \in There
    \/ Thing(t).kind \in {"tiny", "scan"}
    \/ HasConfidentExtraction(Place(t))
GraphicKept(t) ==
    \/ preserveSourcePage \/ t \in There
    \/ HasConfidentExtraction(Place(t)) \/ Beside(Place(t)) \/ TableAt(Place(t))
CaptionKept(c) ==
    \/ preserveSourcePage \/ LabelsOf(c) \subseteq There
    \/ HasConfidentExtraction(Wide(Place(c)[1])) \/ Beside(Place(c))

LoopInv ==
    /\ stage = "images" => todo \subseteq Images
    /\ stage = "graphics" => todo \subseteq Graphics
    /\ stage = "candidates" => todo \subseteq Captions
    /\ options.preserveVisuals =>
        /\ stage \in Later =>
             \A t \in Images : ImageKept(t) \/ (stage = "images" /\ t \in todo)
        /\ stage \in Later \ {"images"} /\ options.flows =>
             \A t \in Graphics : GraphicKept(t) \/ (stage = "graphics" /\ t \in todo)
        /\ stage \in {"candidates", "source"} /\ ocrApplied =>
             \A c \in Captions : CaptionKept(c) \/ (stage = "candidates" /\ c \in todo)

AnswerInv ==
    /\ TextSurvives /\ PicturesSurvive /\ DamageIsNeverSilent
    /\ OneReading /\ MarkersHavePictures

OpenInv ==
    /\ page \in Contents /\ options \in Settings
    /\ stage \in Stages \ {"none"}
    /\ EntryInv /\ ReadingInv /\ DamageInv /\ TextInv /\ LoopInv /\ AnswerInv


-----------------------------------------------------------------------------
(* What a step changes.                                                    *)

\* A page has so many things of each sort.
LEMMA ThingsListed ==
    ASSUME page \in Contents
    PROVE  /\ \E n \in Nat : Blocks \subseteq FirstOf("block", n)
           /\ \E n \in Nat : Images \subseteq FirstOf("image", n)
           /\ \E n \in Nat : Graphics \subseteq FirstOf("graphic", n)
           /\ \E n \in Nat : Lines \subseteq FirstOf("line", n)
           /\ Captions \subseteq Lines /\ Labels \subseteq Lines /\ EquationLines \subseteq Lines
           /\ Lines \cap Blocks = {} /\ Images \cap Blocks = {} /\ Graphics \cap Blocks = {}
<1>1. /\ page.blocks \in Seq(ThingType) /\ page.images \in Seq(ThingType)
      /\ page.graphics \in Seq(ThingType) /\ page.lines \in Seq(ThingType)
  <2>1. page \in PageType
    BY PageAssumption
  <2> QED
    BY <2>1 DEF PageType
<1>2. \A sort : \A s \in Seq(ThingType) :
        Len(s) \in Nat /\ Things(sort, s) \subseteq FirstOf(sort, Len(s))
  BY LenProperties DEF Things, FirstOf
<1>3. /\ \E n \in Nat : Blocks \subseteq FirstOf("block", n)
      /\ \E n \in Nat : Images \subseteq FirstOf("image", n)
      /\ \E n \in Nat : Graphics \subseteq FirstOf("graphic", n)
      /\ \E n \in Nat : Lines \subseteq FirstOf("line", n)
  BY <1>1, <1>2 DEF Blocks, Images, Graphics, Lines
<1>4. Captions \subseteq Lines /\ Labels \subseteq Lines /\ EquationLines \subseteq Lines
  BY DEF Captions, Labels, EquationLines, OfKind
<1>5. Lines \cap Blocks = {} /\ Images \cap Blocks = {} /\ Graphics \cap Blocks = {}
  BY DEF Lines, Blocks, Images, Graphics, Things
<1> QED
  BY <1>3, <1>4, <1>5

LEMMA PageKept ==
    ASSUME UNCHANGED <<page, options>>
    PROVE  /\ Blocks' = Blocks /\ Images' = Images /\ Graphics' = Graphics /\ Lines' = Lines
           /\ AllThings' = AllThings /\ KeepBlocks(Blocks)' = KeepBlocks(Blocks)
           /\ Captions' = Captions /\ Labels' = Labels /\ Excluded' = Excluded
           /\ NeedsOcr' = NeedsOcr /\ KeepsWhole' = KeepsWhole
           /\ \A t : /\ Thing(t)' = Thing(t) /\ Place(t)' = Place(t)
                     /\ LabelsOf(t)' = LabelsOf(t)
  BY DEF Blocks, Images, Graphics, Lines, AllThings, KeepBlocks, Captions, Labels, Excluded,
         NeedsOcr, KeepsWhole, Thing, Place, LabelsOf, OfKind, FigureBands, Things

\* What is shown, and what stands in a place, depends on what was pushed only.
LEMMA AsElements ==
    /\ \A t : t \in Shown <=> \E e \in Es : Shows(e) /\ t \in e.of
    /\ \A at : HasConfidentExtraction(at) <=> \E e \in Es :
         e.kind \in {"equation", "table", "text"} /\ e.confident /\ e.at = at
    /\ \A at : Beside(at) <=> \E a \in As : a.kind # "source-page" /\ Overlaps(a.at, at)
    /\ \A at : TableAt(at) <=> \E e \in Es : e.kind = "table" /\ Intersects(e.at, at)
<1>1. \A t : t \in Shown <=> \E e \in Es : Shows(e) /\ t \in e.of
  BY DEF Shown, Es, Elements, Shows
<1>2. \A at : HasConfidentExtraction(at) <=> \E e \in Es :
         e.kind \in {"equation", "table", "text"} /\ e.confident /\ e.at = at
  BY DEF HasConfidentExtraction, Es, Elements
<1>3. \A at : Beside(at) <=> \E a \in As : a.kind # "source-page" /\ Overlaps(a.at, at)
  BY DEF Beside, As, Elements
<1>4. \A at : TableAt(at) <=> \E e \in Es : e.kind = "table" /\ Intersects(e.at, at)
  BY DEF TableAt, Es, Elements
<1> QED
  BY <1>1, <1>2, <1>3, <1>4

\* What is pushed stays, and so does what it stands for.
LEMMA Grown ==
    ASSUME Es \subseteq Es', As \subseteq As', given \subseteq given'
    PROVE  /\ Shown \subseteq Shown' /\ There \subseteq There'
           /\ \A at : /\ HasConfidentExtraction(at) => HasConfidentExtraction(at)'
                      /\ Beside(at) => Beside(at)'
                      /\ TableAt(at) => TableAt(at)'
<1>1. \A t : t \in Shown' <=> \E e \in Es' : Shows(e) /\ t \in e.of
  BY DEF Shown, Es, Elements, Shows
<1>2. \A at : HasConfidentExtraction(at)' <=> \E e \in Es' :
         e.kind \in {"equation", "table", "text"} /\ e.confident /\ e.at = at
  BY DEF HasConfidentExtraction, Es, Elements
<1>3. \A at : Beside(at)' <=> \E a \in As' : a.kind # "source-page" /\ Overlaps(a.at, at)
  BY DEF Beside, As, Elements
<1>4. \A at : TableAt(at)' <=> \E e \in Es' : e.kind = "table" /\ Intersects(e.at, at)
  BY DEF TableAt, Es, Elements
<1>5. Shown \subseteq Shown' /\ There \subseteq There'
  BY <1>1, AsElements DEF There
<1>6. \A at : /\ HasConfidentExtraction(at) => HasConfidentExtraction(at)'
              /\ Beside(at) => Beside(at)'
              /\ TableAt(at) => TableAt(at)'
  BY <1>2, <1>3, <1>4, AsElements
<1> QED
  BY <1>5, <1>6

\* A step that adds entries and the pictures they mark.
Adds(newEntries, newAssets) ==
    /\ IsSequence(entries') /\ IsSequence(assets')
    /\ Es' = Es \cup newEntries
    /\ As' = As \cup newAssets
    /\ \A e \in newEntries : e.of \subseteq AllThings /\ (e.kind = "table" => Shows(e))
    /\ {e.marker : e \in newEntries} \ {NoMarker} = {a.id : a \in newAssets}

LEMMA EntriesAdded ==
    ASSUME EntryInv, UNCHANGED <<page, options>>, given \subseteq given',
           NEW newEntries, NEW newAssets, Adds(newEntries, newAssets)
    PROVE  /\ EntryInv'
           /\ Shown \subseteq Shown' /\ There \subseteq There'
           /\ \A e \in newEntries : Shows(e) => e.of \subseteq Shown'
           /\ \A at : /\ HasConfidentExtraction(at) => HasConfidentExtraction(at)'
                      /\ Beside(at) => Beside(at)'
                      /\ TableAt(at) => TableAt(at)'
<1>1. Es \subseteq Es' /\ As \subseteq As' /\ AllThings' = AllThings
  BY PageKept DEF Adds
<1>2. \A e \in Es' : e.of \subseteq AllThings' /\ (e.kind = "table" => Shows(e))
  BY <1>1 DEF EntryInv, Adds
<1>3. {e.marker : e \in Es'} \ {NoMarker} = {a.id : a \in As'}
  <2>1. {e.marker : e \in Es'} = {e.marker : e \in Es} \cup {e.marker : e \in newEntries}
    BY DEF Adds
  <2>2. {a.id : a \in As'} = {a.id : a \in As} \cup {a.id : a \in newAssets}
    BY DEF Adds
  <2>3. /\ {e.marker : e \in Es} \ {NoMarker} = {a.id : a \in As}
        /\ {e.marker : e \in newEntries} \ {NoMarker} = {a.id : a \in newAssets}
    BY DEF EntryInv, Adds
  <2> QED
    BY <2>1, <2>2, <2>3
<1>4. EntryInv'
  BY <1>2, <1>3 DEF EntryInv, Adds
<1>5. \A t : t \in Shown' <=> \E e \in Es' : Shows(e) /\ t \in e.of
  BY DEF Shown, Es, Elements, Shows
<1>6. \A e \in newEntries : Shows(e) => e.of \subseteq Shown'
  BY <1>5 DEF Adds
<1> QED
  BY <1>1, <1>4, <1>6, Grown

\* A step that pushes nothing.
LEMMA NothingAdded ==
    ASSUME UNCHANGED <<page, options, entries, assets, given>>
    PROVE  /\ EntryInv' = EntryInv
           /\ Es' = Es /\ As' = As /\ Shown' = Shown /\ There' = There
           /\ \A at : /\ HasConfidentExtraction(at)' = HasConfidentExtraction(at)
                      /\ Beside(at)' = Beside(at)
                      /\ TableAt(at)' = TableAt(at)
  BY PageKept DEF EntryInv, Es, As, Shown, There, HasConfidentExtraction, Beside, TableAt

\* Nothing is promised of a page before it is answered.
LEMMA NotAnswered == stage # "answer" => AnswerInv
  BY DEF AnswerInv, TextSurvives, PicturesSurvive, DamageIsNeverSilent, OneReading,
         MarkersHavePictures, Answered

LEMMA NotYetAnswered == stage' # "answer" => AnswerInv'
  BY DEF AnswerInv, TextSurvives, PicturesSurvive, DamageIsNeverSilent, OneReading,
         MarkersHavePictures, Answered

-----------------------------------------------------------------------------
(* The stages that read the page.                                          *)

LEMMA ReadStep ==
    ASSUME OpenInv, Read, UNCHANGED options
    PROVE  OpenInv'
<1>1. /\ stage = "read" /\ stage' = "table" /\ preserveSourcePage' = KeepsWhole
      /\ UNCHANGED <<page, options, entries, assets, given, recovered>>
      /\ UNCHANGED <<ocrApplied, ocrConfident, todo>>
  BY DEF Read
<1>2. EntryInv' /\ ReadingInv'
  BY <1>1, NothingAdded, PageKept DEF OpenInv, ReadingInv
<1>3. DamageInv' /\ TextInv' /\ LoopInv'
  BY <1>1, PageKept DEF DamageInv, TextInv, LoopInv, Later
<1> QED
  BY <1>1, <1>2, <1>3, NotYetAnswered DEF OpenInv, Stages
LEMMA DetectTableStep ==
    ASSUME OpenInv, DetectTable, UNCHANGED options
    PROVE  OpenInv'
<1>1. /\ stage = "table" /\ stage' = "recognise" /\ entries = <<>> /\ assets = <<>>
      /\ UNCHANGED <<page, options, given, ocrApplied, ocrConfident, preserveSourcePage,
                     recovered, todo>>
  BY DEF DetectTable, OpenInv, ReadingInv
<1> DEFINE table == Asset(<<"table-source", <<>>>>, "table-image", Wide(TableBand))
<1>2. PICK confident \in BOOLEAN :
        \/ /\ entries' = <<Entry("table", Cells, Wide(TableBand), TRUE, NoMarker, confident)>>
           /\ assets' = assets
        \/ /\ entries' = <<Entry("table", Cells, table.at, FALSE, table.id, confident)>>
           /\ assets' = <<table>>
        \/ UNCHANGED <<entries, assets>>
  BY DEF DetectTable
<1>3. Cells \subseteq AllThings
  BY DEF Cells, OfKind, AllThings
<1>4. Es = {} /\ As = {}
  BY <1>1, Empty DEF Es, As
<1>5. \E E, A : Adds(E, A) /\ \A e \in E : e.kind = "table"
  <2>1. CASE /\ entries' = <<Entry("table", Cells, Wide(TableBand), TRUE, NoMarker, confident)>>
             /\ assets' = assets
    <3> DEFINE e == Entry("table", Cells, Wide(TableBand), TRUE, NoMarker, confident)
    <3>1. e.kind = "table" /\ e.of = Cells /\ e.text /\ e.marker = NoMarker
      BY DEF Entry
    <3> HIDE DEF e
    <3>2. IsSequence(entries') /\ Es' = {e}
      BY <2>1, Single DEF Es, e
    <3>3. IsSequence(assets') /\ As' = {}
      BY <1>4, <2>1 DEF As, OpenInv, EntryInv
    <3>4. Adds({e}, {})
      BY <1>3, <1>4, <3>1, <3>2, <3>3 DEF Adds, Shows
    <3> QED
      BY <3>1, <3>4
  <2>2. CASE /\ entries' = <<Entry("table", Cells, table.at, FALSE, table.id, confident)>>
             /\ assets' = <<table>>
    <3> DEFINE e == Entry("table", Cells, table.at, FALSE, table.id, confident)
    <3>1. e.kind = "table" /\ e.of = Cells /\ e.marker = table.id
      BY DEF Entry
    <3>2. table.id # NoMarker
      BY DEF Asset, NoMarker
    <3> HIDE DEF e, table
    <3>3. IsSequence(entries') /\ Es' = {e}
      BY <2>2, Single DEF Es, e
    <3>4. IsSequence(assets') /\ As' = {table}
      BY <2>2, Single DEF As
    <3>5. Adds({e}, {table})
      BY <1>3, <1>4, <3>1, <3>2, <3>3, <3>4 DEF Adds, Shows
    <3> QED
      BY <3>1, <3>5
  <2>3. CASE UNCHANGED <<entries, assets>>
    <3>1. Adds({}, {})
      BY <2>3 DEF Adds, Es, As, OpenInv, EntryInv
    <3> QED
      BY <3>1
  <2> QED
    BY <1>2, <2>1, <2>2, <2>3
<1>6. PICK E, A : Adds(E, A) /\ \A e \in E : e.kind = "table"
  BY <1>5
<1>7. EntryInv' /\ Shown \subseteq Shown'
  BY <1>1, <1>6, EntriesAdded DEF OpenInv
<1>8. ReadingInv'
  BY <1>1, <1>4, <1>6, <1>7, PageKept DEF OpenInv, ReadingInv, Adds
<1>9. DamageInv' /\ TextInv' /\ LoopInv'
  BY <1>1, PageKept DEF OpenInv, DamageInv, TextInv, LoopInv, Later
<1> QED
  BY <1>1, <1>7, <1>8, <1>9, NotYetAnswered DEF OpenInv, Stages

LEMMA RecogniseFailsStep ==
    ASSUME OpenInv, RecogniseFails, UNCHANGED options
    PROVE  OpenInv'
<1>1. /\ stage' = "failed"
      /\ UNCHANGED <<page, options, entries, assets, given, ocrApplied, recovered>>
      /\ UNCHANGED <<preserveSourcePage, ocrConfident, todo>>
  BY DEF RecogniseFails
<1>2. EntryInv' /\ ReadingInv'
  BY <1>1, NothingAdded, PageKept DEF OpenInv, ReadingInv
<1>3. DamageInv' /\ TextInv' /\ LoopInv'
  BY <1>1, PageKept DEF OpenInv, DamageInv, TextInv, LoopInv, Later
<1> QED
  BY <1>1, <1>2, <1>3, NotYetAnswered DEF OpenInv, Stages

LEMMA SkipRecognitionStep ==
    ASSUME OpenInv, SkipRecognition, UNCHANGED options
    PROVE  OpenInv'
<1>1. /\ stage = "recognise" /\ stage' = "formulas" /\ ~ocrApplied
      /\ UNCHANGED <<page, options, entries, assets, given, ocrApplied, recovered>>
      /\ UNCHANGED <<preserveSourcePage, ocrConfident, todo>>
  BY DEF SkipRecognition, OpenInv, ReadingInv
<1>2. EntryInv' /\ ReadingInv'
  BY <1>1, NothingAdded, PageKept DEF OpenInv, ReadingInv
<1>3. DamageInv' /\ TextInv' /\ LoopInv'
  BY <1>1, PageKept DEF OpenInv, DamageInv, TextInv, LoopInv, Later
<1> QED
  BY <1>1, <1>2, <1>3, NotYetAnswered DEF OpenInv, Stages

\* The crops of formulas, as pictures.
LEMMA EquationAssetsMade ==
    ASSUME page \in Contents, NEW things,
           things \subseteq Blocks \/ things \subseteq Images \/ things \subseteq Lines
    PROVE  /\ IsSequence(EquationAssets(things))
           /\ Elements(EquationAssets(things)) = {EquationAsset(t) : t \in things}
<1> DEFINE made == [t \in things |-> EquationAsset(t)]
<1>1. DOMAIN made = things /\ \A t \in things : made[t] = EquationAsset(t)
  OBVIOUS
<1>2. PICK sort : \E n \in Nat : things \subseteq FirstOf(sort, n)
  <2>1. CASE things \subseteq Blocks
    BY <2>1, ThingsListed
  <2>2. CASE things \subseteq Images
    BY <2>2, ThingsListed
  <2>3. CASE things \subseteq Lines
    BY <2>3, ThingsListed
  <2> QED
    BY <2>1, <2>2, <2>3
<1> HIDE DEF made
<1>3. /\ IsSequence(EntriesFor(made))
      /\ Elements(EntriesFor(made)) = {made[t] : t \in DOMAIN made}
  BY <1>1, <1>2, EntriesMade
<1>4. EquationAssets(things) = EntriesFor(made)
  BY DEF EquationAssets, made
<1>5. {made[t] : t \in DOMAIN made} = {EquationAsset(t) : t \in things}
  BY <1>1
<1> QED
  BY <1>3, <1>4, <1>5

\* Each of some things becomes one entry, some of them with a crop.
Made(made) == {made[t] : t \in DOMAIN made}
Crops(things) == {EquationAsset(t) : t \in things}

Makes(made, pictured) ==
    /\ \/ DOMAIN made \subseteq Blocks
       \/ DOMAIN made \subseteq Images
       \/ DOMAIN made \subseteq Lines
    /\ pictured \subseteq DOMAIN made
    /\ entries' = entries \o EntriesFor(made)
    /\ assets' = assets \o EquationAssets(pictured)
    /\ \A t \in DOMAIN made :
         /\ made[t].of = {t}
         /\ made[t].kind = "table" => Shows(made[t])
         /\ made[t].marker = IF t \in pictured THEN EquationAsset(t).id ELSE NoMarker

LEMMA CropsAreMarked == \A t : EquationAsset(t).id # NoMarker
  BY DEF EquationAsset, Asset, NoMarker

LEMMA EntriesOfThings ==
    ASSUME page \in Contents, EntryInv, NEW made, NEW pictured, Makes(made, pictured)
    PROVE  Adds(Made(made), Crops(pictured))
<1> DEFINE things == DOMAIN made
           E == Made(made)
           A == Crops(pictured)
<1>0. /\ pictured \subseteq things
      /\ things \subseteq Blocks \/ things \subseteq Images \/ things \subseteq Lines
      /\ entries' = entries \o EntriesFor(made)
      /\ assets' = assets \o EquationAssets(pictured)
  BY DEF Makes
<1>1. PICK sort : \E n \in Nat : things \subseteq FirstOf(sort, n)
  <2>1. CASE things \subseteq Blocks
    BY <2>1, ThingsListed
  <2>2. CASE things \subseteq Images
    BY <2>2, ThingsListed
  <2>3. CASE things \subseteq Lines
    BY <2>3, ThingsListed
  <2> QED
    BY <1>0, <2>1, <2>2, <2>3
<1>2. IsSequence(EntriesFor(made)) /\ Elements(EntriesFor(made)) = E
  BY <1>1, EntriesMade DEF Made
<1>3. IsSequence(EquationAssets(pictured)) /\ Elements(EquationAssets(pictured)) = A
  BY <1>0, EquationAssetsMade DEF Crops
<1>4. IsSequence(entries) /\ IsSequence(assets)
  BY DEF EntryInv
<1>5. IsSequence(entries') /\ Es' = Es \cup E
  BY <1>0, <1>2, <1>4, Joined DEF Es
<1>6. IsSequence(assets') /\ As' = As \cup A
  BY <1>0, <1>3, <1>4, Joined DEF As
<1>7. things \subseteq AllThings
  BY <1>0 DEF AllThings
<1>8. \A e \in E : e.of \subseteq AllThings /\ (e.kind = "table" => Shows(e))
  BY <1>7 DEF Makes, Made
<1>9. {e.marker : e \in E} \ {NoMarker} = {a.id : a \in A}
  <2>1. \A e \in E : e.marker # NoMarker => \E a \in A : a.id = e.marker
    BY DEF Makes, Made, Crops
  <2>2. \A a \in A : a.id # NoMarker /\ \E e \in E : e.marker = a.id
    <3>1. SUFFICES ASSUME NEW t \in pictured
                   PROVE  /\ EquationAsset(t).id # NoMarker
                          /\ \E e \in E : e.marker = EquationAsset(t).id
      BY DEF Crops
    <3>2. made[t] \in E /\ made[t].marker = EquationAsset(t).id
      BY <1>0 DEF Makes, Made
    <3> QED
      BY <3>2, CropsAreMarked
  <2> QED
    BY <2>1, <2>2
<1> QED
  BY <1>5, <1>6, <1>8, <1>9 DEF Adds

LEMMA RecogniseStep ==
    ASSUME OpenInv, Recognise, UNCHANGED options
    PROVE  OpenInv'
<1>1. /\ stage = "recognise" /\ stage' = "formulas" /\ NeedsOcr /\ ~ocrApplied /\ ocrApplied'
      /\ UNCHANGED <<page, options, recovered, todo>>
      /\ page \in Contents /\ EntryInv
  BY DEF Recognise, OpenInv, ReadingInv
<1>2. PICK confident \in BOOLEAN, cropped \in SUBSET EquationLines :
        /\ ocrConfident' = confident
        /\ preserveSourcePage' = (preserveSourcePage /\ ~confident)
        /\ assets' = assets \o EquationAssets(cropped)
        /\ entries' = entries \o EntriesFor([t \in Lines \ Excluded |->
                                               LineEntry(t, cropped, confident)])
        /\ given' = given \cup (EquationLines \ cropped)
  BY DEF Recognise
<1> DEFINE read == Lines \ Excluded
           made == [t \in read |-> LineEntry(t, cropped, confident)]
           E == Made(made)
           A == Crops(cropped)
<1>3. cropped \subseteq read
  <2>1. \A t \in EquationLines : t \in Lines /\ Thing(t).kind = "formula"
    BY DEF EquationLines, OfKind
  <2>2. \A t \in Excluded : Thing(t).kind = "label"
    BY DEF Excluded, Labels, OfKind
  <2> QED
    BY <2>1, <2>2
<1>4. \A t \in read :
        /\ made[t].of = {t} /\ made[t].kind # "table"
        /\ made[t].marker = IF t \in cropped THEN EquationAsset(t).id ELSE NoMarker
        /\ t \notin EquationLines => made[t].text
  BY DEF LineEntry, Entry
<1>5. Adds(E, A)
  <2>1. Makes(made, cropped)
    BY <1>2, <1>3, <1>4 DEF Makes
  <2> HIDE DEF made
  <2> QED
    BY <1>1, <2>1, EntriesOfThings
<1>6. given \subseteq given'
  BY <1>2
<1>7. /\ EntryInv' /\ Shown \subseteq Shown' /\ There \subseteq There'
      /\ \A e \in E : Shows(e) => e.of \subseteq Shown'
  BY <1>1, <1>5, <1>6, EntriesAdded
<1>8. read \subseteq There'
  <2>2. SUFFICES ASSUME NEW t \in read PROVE t \in There'
    OBVIOUS
  <2>3. made[t] \in E /\ t \in made[t].of
    BY <1>4 DEF Made
  <2>4. CASE t \in EquationLines \ cropped
    BY <1>2, <2>4 DEF There
  <2>5. CASE t \notin EquationLines \ cropped
    <3>1. Shows(made[t])
      BY <1>4, <2>5, CropsAreMarked DEF Shows
    <3> QED
      BY <1>7, <2>3, <3>1 DEF There
  <2> QED
    BY <2>4, <2>5
<1>9. ReadingInv'
  <2>1. \A e \in Es' : e.kind = "table" \/ e.of \cap Blocks = {}
    <3>1. \A e \in Es : e.kind = "table"
      BY <1>1 DEF OpenInv, ReadingInv
    <3>2. \A e \in E : e.of \cap Blocks = {}
      BY <1>1, <1>4, ThingsListed DEF Made
    <3> QED
      BY <3>1, <3>2, <1>5 DEF Adds
  <2> QED
    BY <1>1, <1>7, <2>1, PageKept DEF OpenInv, ReadingInv
<1>10. DamageInv'
  <2>1. /\ preserveSourcePage => KeepsWhole
        /\ KeepsWhole => preserveSourcePage
    BY <1>1 DEF OpenInv, DamageInv
  <2>2. /\ preserveSourcePage' => preserveSourcePage
        /\ preserveSourcePage /\ ~ocrConfident' => preserveSourcePage'
    BY <1>2
  <2>3. KeepsWhole' = KeepsWhole
    BY <1>1, PageKept
  <2> QED
    BY <1>1, <2>1, <2>2, <2>3 DEF DamageInv
<1>11. TextInv' /\ LoopInv'
  BY <1>1, <1>8, PageKept DEF TextInv, LoopInv, Later
<1> QED
  BY <1>1, <1>7, <1>9, <1>10, <1>11, NotYetAnswered DEF OpenInv, Stages

\* A formula is shown by its text or by its crop.
LEMMA EquationEntryShows ==
    ASSUME NEW t, NEW outcome
    PROVE  /\ EquationEntry(t, outcome).of = {t}
           /\ EquationEntry(t, outcome).kind # "table"
           /\ EquationEntry(t, outcome).marker =
                IF outcome \in Kept THEN EquationAsset(t).id ELSE NoMarker
           /\ Shows(EquationEntry(t, outcome))
<1> DEFINE e == EquationEntry(t, outcome)
<1>1. /\ e.of = {t} /\ e.kind # "table"
      /\ e.marker = IF outcome \in Kept THEN EquationAsset(t).id ELSE NoMarker
      /\ e.text = (outcome # "source")
  BY DEF EquationEntry, Entry
<1>2. CASE outcome = "source"
  BY <1>1, <1>2, CropsAreMarked DEF Kept, Shows
<1>3. CASE outcome # "source"
  BY <1>1, <1>3 DEF Shows
<1> QED
  BY <1>1, <1>2, <1>3

LEMMA FormulaImagesStep ==
    ASSUME OpenInv, FormulaImages, UNCHANGED options
    PROVE  OpenInv'
<1>1. /\ stage = "formulas" /\ stage' = "blocks"
      /\ UNCHANGED <<page, options, given, ocrApplied>>
      /\ UNCHANGED <<todo, preserveSourcePage, ocrConfident>>
      /\ page \in Contents /\ EntryInv
  BY DEF FormulaImages, OpenInv
<1>2. PICK read \in SUBSET Images : \E outcome \in [read -> EquationOutcomes \ {"bare", "raw"}] :
        /\ recovered' = read
        /\ entries' = entries \o EntriesFor([t \in read |-> EquationEntry(t, outcome[t])])
        /\ assets' = assets \o EquationAssets({t \in read : outcome[t] \in Kept})
  BY DEF FormulaImages, OfKind
<1>3. PICK outcome \in [read -> EquationOutcomes \ {"bare", "raw"}] :
        /\ recovered' = read
        /\ entries' = entries \o EntriesFor([t \in read |-> EquationEntry(t, outcome[t])])
        /\ assets' = assets \o EquationAssets({t \in read : outcome[t] \in Kept})
  BY <1>2
<1> DEFINE made == [t \in read |-> EquationEntry(t, outcome[t])]
           cropped == {t \in read : outcome[t] \in Kept}
           E == Made(made)
<1>4. \A t \in read :
        /\ made[t].of = {t} /\ made[t].kind # "table" /\ Shows(made[t])
        /\ made[t].marker = IF t \in cropped THEN EquationAsset(t).id ELSE NoMarker
  BY EquationEntryShows
<1>5. Adds(E, Crops(cropped))
  <2>1. Makes(made, cropped)
    BY <1>3, <1>4 DEF Makes
  <2> HIDE DEF made, cropped
  <2> QED
    BY <1>1, <2>1, EntriesOfThings
<1>6. given \subseteq given'
  BY <1>1
<1>7. /\ EntryInv' /\ Shown \subseteq Shown' /\ There \subseteq There'
      /\ \A e \in E : Shows(e) => e.of \subseteq Shown'
  BY <1>1, <1>5, <1>6, EntriesAdded
<1>8. recovered' \subseteq Shown'
  <2>1. \A t \in read : made[t] \in E /\ Shows(made[t]) /\ t \in made[t].of
    BY <1>4 DEF Made
  <2> QED
    BY <1>3, <1>7, <2>1
<1>9. ReadingInv'
  <2>1. \A e \in E : e.of \cap Blocks = {}
    BY <1>1, <1>4, ThingsListed DEF Made
  <2>2. ocrApplied => \A e \in Es' : e.text => e.kind = "table" \/ e.of \cap Blocks = {}
    BY <2>1, <1>5 DEF Adds, OpenInv, ReadingInv
  <2> QED
    BY <1>1, <1>8, <2>2, PageKept DEF OpenInv, ReadingInv
<1>10. DamageInv' /\ LoopInv'
  BY <1>1, PageKept DEF OpenInv, DamageInv, LoopInv, Later
<1>11. TextInv'
  BY <1>1, <1>7, PageKept DEF OpenInv, TextInv, Later
<1> QED
  BY <1>1, <1>7, <1>9, <1>10, <1>11, NotYetAnswered DEF OpenInv, Stages

LEMMA ReadBlocksStep ==
    ASSUME OpenInv, ReadBlocks, UNCHANGED options
    PROVE  OpenInv'
<1>1. /\ stage = "blocks" /\ stage' = "images"
      /\ todo' = IF options.preserveVisuals THEN Images ELSE {}
      /\ UNCHANGED <<page, options, given, ocrApplied, recovered>>
      /\ UNCHANGED <<preserveSourcePage, ocrConfident>>
      /\ page \in Contents /\ EntryInv
  BY DEF ReadBlocks, OpenInv
<1> DEFINE left == BlocksToRead
           formulas == IF options.extractEquations THEN OfKind(left, "formula") ELSE {}
           grids == IF options.detectTables THEN OfKind(left, "grid") ELSE {}
           entry(t, o) ==
             CASE t \in formulas -> EquationEntry(t, o[t])
               [] t \in grids -> Entry("table", {t}, Place(t), TRUE, NoMarker, TRUE)
               [] OTHER -> Entry("text", {t}, Place(t), TRUE, NoMarker, ~page.corrupt)
<1>2. PICK outcome \in [formulas -> EquationOutcomes] :
        /\ entries' = entries \o EntriesFor([t \in left |-> entry(t, outcome)])
        /\ assets' = assets \o EquationAssets({t \in formulas : outcome[t] \in Kept})
  BY DEF ReadBlocks
<1> DEFINE made == [t \in left |-> entry(t, outcome)]
           cropped == {t \in formulas : outcome[t] \in Kept}
           E == Made(made)
<1>3. formulas \subseteq left /\ left \subseteq Blocks
  BY DEF BlocksToRead, KeepBlocks, OfKind
<1>4. \A t \in left :
        /\ made[t].of = {t} /\ Shows(made[t])
        /\ made[t].marker = IF t \in cropped THEN EquationAsset(t).id ELSE NoMarker
  <2>1. SUFFICES ASSUME NEW t \in left
                 PROVE  /\ made[t].of = {t} /\ Shows(made[t])
                        /\ made[t].marker = IF t \in cropped THEN EquationAsset(t).id
                                                             ELSE NoMarker
    OBVIOUS
  <2>2. made[t] = entry(t, outcome)
    OBVIOUS
  <2>3. CASE t \in formulas
    <3>0. t \notin grids
      BY <2>3 DEF OfKind
    <3>1. made[t] = EquationEntry(t, outcome[t])
      <4> HIDE DEF made, left, grids, formulas
      <4> QED
        BY <2>2, <2>3, <3>0
    <3>2. t \in cropped <=> outcome[t] \in Kept
      BY <2>3
    <3> HIDE DEF made, left, grids, formulas, cropped
    <3> QED
      BY <3>1, <3>2, EquationEntryShows
  <2>4. CASE t \notin formulas
    <3>1. t \notin cropped
      BY <2>4
    <3> HIDE DEF made, left, grids, formulas, cropped
    <3> QED
      BY <2>2, <2>4, <3>1 DEF Entry, Shows
  <2> QED
    BY <2>3, <2>4
<1>5. Adds(E, Crops(cropped))
  <2>1. Makes(made, cropped)
    <3>1. DOMAIN made = left /\ cropped \subseteq left
      BY <1>3
    <3> HIDE DEF left, entry, formulas, cropped
    <3> QED
      BY <1>2, <1>3, <1>4, <3>1 DEF Makes, cropped
  <2> HIDE DEF made, cropped
  <2> QED
    BY <1>1, <2>1, EntriesOfThings
<1> HIDE DEF made, left, cropped
<1>6. given \subseteq given'
  BY <1>1
<1>7. /\ EntryInv' /\ Shown \subseteq Shown' /\ There \subseteq There'
      /\ \A e \in E : Shows(e) => e.of \subseteq Shown'
  BY <1>1, <1>5, <1>6, EntriesAdded
<1>8. left \subseteq Shown'
  <2>1. \A t \in left : made[t] \in E /\ Shows(made[t]) /\ t \in made[t].of
    BY <1>4 DEF Made, made
  <2> QED
    BY <1>7, <2>1
<1>9. ReadingInv'
  <2>1. ocrApplied => E = {}
    BY DEF left, made, BlocksToRead, Made
  <2>2. ocrApplied => \A e \in Es' : e.text => e.kind = "table" \/ e.of \cap Blocks = {}
    BY <2>1, <1>5 DEF Adds, OpenInv, ReadingInv
  <2> QED
    BY <1>1, <1>7, <2>2, PageKept DEF OpenInv, ReadingInv
<1>10. DamageInv' /\ LoopInv'
  BY <1>1, PageKept DEF OpenInv, DamageInv, LoopInv, Later
<1>11. TextInv'
  <2>1. TableLines \subseteq Shown
    BY AsElements, <1>1 DEF TableLines, EntryInv, Es, Elements
  <2>2. ~ocrApplied => KeepBlocks(Blocks) \subseteq Shown'
    BY <2>1, <1>7, <1>8 DEF left, BlocksToRead
  <2>3. There' = Shown' \cup given'
    BY DEF There
  <2> QED
    BY <1>1, <1>7, <2>2, <2>3, PageKept DEF OpenInv, TextInv, Later
<1> QED
  BY <1>1, <1>7, <1>9, <1>10, <1>11, NotYetAnswered DEF OpenInv, Stages

-----------------------------------------------------------------------------
(* The loops over pictures.                                                *)

\* A picture becomes a table, a crop, or is given up.
LEMMA PictureAdds ==
    ASSUME EntryInv, NEW of, of \subseteq AllThings, NEW at, NEW box, NEW caption,
           NEW id, id # NoMarker, NEW kind, Picture(of, at, box, caption, id, kind)
    PROVE  /\ given \subseteq given'
           /\ \E E, A : /\ Adds(E, A)
                        /\ \A e \in E : e.text => e.kind = "table"
                        /\ of \subseteq given' \/ \E e \in E : Shows(e) /\ e.of = of
<1> USE DEF EntryInv
<1>1. ASSUME NEW confident,
             entries' = Append(entries, Entry("table", of, at, TRUE, NoMarker, confident)),
             UNCHANGED <<assets, given>>
      PROVE  /\ given \subseteq given'
             /\ \E E, A : /\ Adds(E, A)
                          /\ \A e \in E : e.text => e.kind = "table"
                          /\ \E e \in E : Shows(e) /\ e.of = of
  <2> DEFINE e == Entry("table", of, at, TRUE, NoMarker, confident)
  <2>1. e.kind = "table" /\ e.of = of /\ e.text /\ e.marker = NoMarker
    BY DEF Entry
  <2> HIDE DEF e
  <2>2. IsSequence(entries') /\ Es' = Es \cup {e}
    BY <1>1, Appended DEF Es, e
  <2>3. Adds({e}, {})
    BY <1>1, <2>1, <2>2 DEF Adds, As, Shows
  <2> QED
    BY <1>1, <2>1, <2>3 DEF Shows
<1>2. ASSUME NEW asset, asset.id = id,
             assets' = Append(assets, asset),
             entries' = Append(entries, Entry("visual", of, box, FALSE, id, FALSE)),
             UNCHANGED given
      PROVE  /\ given \subseteq given'
             /\ \E E, A : /\ Adds(E, A)
                          /\ \A e \in E : e.text => e.kind = "table"
                          /\ \E e \in E : Shows(e) /\ e.of = of
  <2> DEFINE e == Entry("visual", of, box, FALSE, id, FALSE)
  <2>1. e.kind = "visual" /\ e.of = of /\ ~e.text /\ e.marker = id
    BY DEF Entry
  <2> HIDE DEF e
  <2>2. IsSequence(entries') /\ Es' = Es \cup {e}
    BY <1>2, Appended DEF Es, e
  <2>3. IsSequence(assets') /\ As' = As \cup {asset}
    BY <1>2, Appended DEF As
  <2>4. Adds({e}, {asset})
    BY <1>2, <2>1, <2>2, <2>3 DEF Adds, Shows
  <2> QED
    BY <1>2, <2>1, <2>4 DEF Shows
<1>3. ASSUME given' = given \cup of, UNCHANGED <<entries, assets>>
      PROVE  /\ given \subseteq given' /\ of \subseteq given'
             /\ \E E, A : Adds(E, A) /\ \A e \in E : e.text => e.kind = "table"
  <2>1. Adds({}, {})
    BY <1>3 DEF Adds, Es, As
  <2> QED
    BY <1>3, <2>1
<1>4. \/ /\ \E confident \in BOOLEAN :
              entries' = Append(entries, Entry("table", of, at, TRUE, NoMarker, confident))
         /\ UNCHANGED <<assets, given>>
      \/ /\ \E asset : asset.id = id /\ assets' = Append(assets, asset)
         /\ entries' = Append(entries, Entry("visual", of, box, FALSE, id, FALSE))
         /\ UNCHANGED given
      \/ given' = given \cup of /\ UNCHANGED <<entries, assets>>
  BY DEF Picture, Asset
<1>5. CASE /\ \E confident \in BOOLEAN :
                entries' = Append(entries, Entry("table", of, at, TRUE, NoMarker, confident))
           /\ UNCHANGED <<assets, given>>
  BY <1>1, <1>5
<1>6. CASE /\ \E asset : asset.id = id /\ assets' = Append(assets, asset)
           /\ entries' = Append(entries, Entry("visual", of, box, FALSE, id, FALSE))
           /\ UNCHANGED given
  BY <1>2, <1>6
<1>7. CASE given' = given \cup of /\ UNCHANGED <<entries, assets>>
  BY <1>3, <1>7
<1> QED
  BY <1>4, <1>5, <1>6, <1>7

\* What a step of a loop leaves as it was.
GoesOn ==
    /\ EntryInv' /\ ReadingInv' /\ DamageInv' /\ TextInv' /\ AnswerInv'
    /\ page' \in Contents /\ options' \in Settings /\ stage' \in Stages \ {"none"}
    /\ \A t : /\ ImageKept(t) => ImageKept(t)'
              /\ GraphicKept(t) => GraphicKept(t)'
              /\ CaptionKept(t) => CaptionKept(t)'

LEMMA LoopKeeps ==
    ASSUME OpenInv, stage \in Later, stage' \in Later, PictureFrame, UNCHANGED options,
           given \subseteq given',
           NEW E, NEW A, Adds(E, A), \A e \in E : e.text => e.kind = "table"
    PROVE  GoesOn /\ \A e \in E : Shows(e) => e.of \subseteq There'
<1>1. /\ UNCHANGED <<page, options>>
      /\ UNCHANGED <<ocrApplied, ocrConfident, preserveSourcePage, recovered>>
      /\ EntryInv /\ page \in Contents /\ options \in Settings
  BY DEF PictureFrame, OpenInv
<1>2. /\ EntryInv'
      /\ Shown \subseteq Shown' /\ There \subseteq There'
      /\ \A e \in E : Shows(e) => e.of \subseteq Shown'
      /\ \A at : /\ HasConfidentExtraction(at) => HasConfidentExtraction(at)'
                 /\ Beside(at) => Beside(at)'
                 /\ TableAt(at) => TableAt(at)'
  BY <1>1, EntriesAdded
<1>3. ReadingInv'
  <2>1. ocrApplied => \A e \in Es' : e.text => e.kind = "table" \/ e.of \cap Blocks = {}
    BY DEF Adds, OpenInv, ReadingInv
  <2> QED
    BY <1>1, <1>2, <2>1, PageKept DEF OpenInv, ReadingInv, Later
<1>4. DamageInv'
  BY <1>1, PageKept DEF OpenInv, DamageInv, Later
<1>5. TextInv'
  BY <1>1, <1>2, PageKept DEF OpenInv, TextInv, Later
<1>6. \A t : ImageKept(t) => ImageKept(t)'
  BY <1>1, <1>2, PageKept DEF ImageKept
<1>7. \A t : GraphicKept(t) => GraphicKept(t)'
  BY <1>1, <1>2, PageKept DEF GraphicKept
<1>8. \A t : CaptionKept(t) => CaptionKept(t)'
  BY <1>1, <1>2, PageKept DEF CaptionKept, Wide
<1>9. AnswerInv' /\ stage' \in Stages \ {"none"}
  BY NotYetAnswered DEF Later, Stages
<1>10. \A e \in E : Shows(e) => e.of \subseteq There'
  BY <1>2 DEF There
<1> QED
  BY <1>1, <1>2, <1>3, <1>4, <1>5, <1>6, <1>7, <1>8, <1>9, <1>10 DEF GoesOn

LEMMA HandleGoesOn ==
    ASSUME OpenInv, stage \in Later, PictureFrame, UNCHANGED options,
           NEW t, NEW id, id # NoMarker, NEW kind, NEW of, of \subseteq AllThings, NEW box,
           Handle(t, id, kind, of, box)
    PROVE  GoesOn /\ of \subseteq There' /\ todo' = todo \ {t} /\ stage' = stage
<1>1. /\ Picture(of, Place(t), box, Thing(t).caption, id, kind)
      /\ todo' = todo \ {t} /\ stage' = stage
  BY DEF Handle
<1>2. EntryInv
  BY DEF OpenInv
<1>3. /\ given \subseteq given'
      /\ \E E, A : /\ Adds(E, A)
                   /\ \A e \in E : e.text => e.kind = "table"
                   /\ of \subseteq given' \/ \E e \in E : Shows(e) /\ e.of = of
  BY <1>1, <1>2, PictureAdds
<1>4. PICK E, A : /\ Adds(E, A)
                  /\ \A e \in E : e.text => e.kind = "table"
                  /\ of \subseteq given' \/ \E e \in E : Shows(e) /\ e.of = of
  BY <1>3
<1>5. GoesOn /\ \A e \in E : Shows(e) => e.of \subseteq There'
  BY <1>1, <1>3, <1>4, LoopKeeps
<1>6. of \subseteq There'
  BY <1>4, <1>5 DEF There
<1> QED
  BY <1>1, <1>5, <1>6

LEMMA PassingGoesOn ==
    ASSUME OpenInv, stage \in Later, stage' \in Later, PictureFrame, UNCHANGED options,
           UNCHANGED <<entries, assets, given>>
    PROVE  GoesOn
<1>1. Adds({}, {})
  BY DEF Adds, Es, As, OpenInv, EntryInv
<1> QED
  BY <1>1, LoopKeeps

\* The thing a loop is at.
LEMMA AtOne ==
    ASSUME OpenInv, todo # {},
           \/ stage = "images" \/ stage = "graphics" \/ stage = "candidates"
    PROVE  First(todo) \in todo
<1>1. page \in Contents /\ LoopInv
  BY DEF OpenInv
<1>2. \E sort : \E n \in Nat : todo \subseteq FirstOf(sort, n)
  <2>1. CASE stage = "images"
    <3>1. todo \subseteq Images
      BY <1>1, <2>1 DEF LoopInv
    <3> QED
      BY <1>1, <3>1, ThingsListed
  <2>2. CASE stage = "graphics"
    <3>1. todo \subseteq Graphics
      BY <1>1, <2>2 DEF LoopInv
    <3> QED
      BY <1>1, <3>1, ThingsListed
  <2>3. CASE stage = "candidates"
    <3>1. todo \subseteq Lines
      BY <1>1, <2>3, ThingsListed DEF LoopInv
    <3> QED
      BY <1>1, <3>1, ThingsListed
  <2> QED
    BY <2>1, <2>2, <2>3
<1> QED
  BY <1>2, FirstIsOne

LEMMA KeepImagesStep ==
    ASSUME OpenInv, KeepImages, UNCHANGED options
    PROVE  OpenInv'
<1>1. /\ stage = "images" /\ stage \in Later /\ PictureFrame
      /\ UNCHANGED <<page, options, ocrApplied>> /\ LoopInv
  BY DEF KeepImages, PictureFrame, OpenInv, Later
<1>2. CASE todo # {} /\ PassOver(First(todo)) /\ SkipImage(First(todo))
  <2>. PICK t : t = First(todo)
    OBVIOUS
  <2>1. stage' = stage /\ todo' = todo \ {t} /\ UNCHANGED <<entries, assets, given>>
    BY <1>2 DEF PassOver
  <2>2. GoesOn
    BY <1>1, <2>1, PassingGoesOn
  <2>3. ImageKept(t)
    BY <1>2 DEF SkipImage, ImageKept, There, OpenInv, ReadingInv
  <2>4. options.preserveVisuals => \A x \in Images : ImageKept(x)' \/ x \in todo'
    BY <1>1, <2>1, <2>2, <2>3 DEF LoopInv, GoesOn
  <2>5. LoopInv'
    BY <1>1, <2>1, <2>4, PageKept DEF LoopInv
  <2> QED
    BY <2>2, <2>5 DEF GoesOn, OpenInv
<1>3. CASE todo # {} /\ Handle(First(todo), <<"image", First(todo)[2]>>, "image",
                               {First(todo)}, Place(First(todo)))
  <2>. PICK t : t = First(todo)
    OBVIOUS
  <2>1. t \in Images
    BY <1>1, <1>3, AtOne DEF LoopInv
  <2>2. {t} \subseteq AllThings /\ <<"image", t[2]>> # NoMarker
    BY <2>1 DEF AllThings, NoMarker
  <2>3. GoesOn /\ {t} \subseteq There' /\ todo' = todo \ {t} /\ stage' = stage
    BY <1>1, <1>3, <2>2, HandleGoesOn
  <2>4. ImageKept(t)'
    BY <2>3 DEF ImageKept
  <2>5. options.preserveVisuals => \A x \in Images : ImageKept(x)' \/ x \in todo'
    BY <1>1, <2>3, <2>4 DEF LoopInv, GoesOn
  <2>6. LoopInv'
    BY <1>1, <2>3, <2>5, PageKept DEF LoopInv
  <2> QED
    BY <2>3, <2>6 DEF GoesOn, OpenInv
<1>4. CASE Proceed("graphics", IF options.flows /\ options.preserveVisuals THEN Graphics ELSE {})
  <2>1. /\ todo = {} /\ stage' = "graphics" /\ UNCHANGED <<entries, assets, given>>
        /\ todo' = IF options.flows /\ options.preserveVisuals THEN Graphics ELSE {}
    BY <1>4 DEF Proceed
  <2>2. GoesOn
    BY <1>1, <2>1, PassingGoesOn DEF Later
  <2>3. options.preserveVisuals =>
          /\ \A x \in Images : ImageKept(x)'
          /\ options.flows => \A x \in Graphics : x \in todo'
    BY <1>1, <2>1, <2>2 DEF LoopInv, GoesOn
  <2>4. LoopInv'
    BY <1>1, <2>1, <2>3, PageKept DEF LoopInv
  <2> QED
    BY <2>2, <2>4 DEF GoesOn, OpenInv
<1> QED
  BY <1>2, <1>3, <1>4 DEF KeepImages

LEMMA KeepGraphicsStep ==
    ASSUME OpenInv, KeepGraphics, UNCHANGED options
    PROVE  OpenInv'
<1>1. /\ stage = "graphics" /\ stage \in Later /\ PictureFrame
      /\ UNCHANGED <<page, options, ocrApplied>> /\ LoopInv
  BY DEF KeepGraphics, PictureFrame, OpenInv, Later
<1>2. CASE todo # {} /\ PassOver(First(todo)) /\ SkipGraphic(First(todo))
  <2>. PICK t : t = First(todo)
    OBVIOUS
  <2>1. stage' = stage /\ todo' = todo \ {t} /\ UNCHANGED <<entries, assets, given>>
    BY <1>2 DEF PassOver
  <2>2. GoesOn
    BY <1>1, <2>1, PassingGoesOn
  <2>3. GraphicKept(t)
    BY <1>2 DEF SkipGraphic, GraphicKept
  <2>4. options.preserveVisuals =>
          /\ \A x \in Images : ImageKept(x)'
          /\ options.flows => \A x \in Graphics : GraphicKept(x)' \/ x \in todo'
    BY <1>1, <2>1, <2>2, <2>3 DEF LoopInv, GoesOn
  <2>5. LoopInv'
    BY <1>1, <2>1, <2>4, PageKept DEF LoopInv
  <2> QED
    BY <2>2, <2>5 DEF GoesOn, OpenInv
<1>3. CASE todo # {} /\ Handle(First(todo), GraphicId(First(todo)), "graphic",
                               {First(todo)}, Place(First(todo)))
  <2>. PICK t : t = First(todo)
    OBVIOUS
  <2>1. t \in Graphics
    BY <1>1, <1>3, AtOne DEF LoopInv
  <2>2. {t} \subseteq AllThings /\ GraphicId(t) # NoMarker
    BY <2>1 DEF AllThings, NoMarker, GraphicId
  <2>3. GoesOn /\ {t} \subseteq There' /\ todo' = todo \ {t} /\ stage' = stage
    BY <1>1, <1>3, <2>2, HandleGoesOn
  <2>4. GraphicKept(t)'
    BY <2>3 DEF GraphicKept
  <2>5. options.preserveVisuals =>
          /\ \A x \in Images : ImageKept(x)'
          /\ options.flows => \A x \in Graphics : GraphicKept(x)' \/ x \in todo'
    BY <1>1, <2>3, <2>4 DEF LoopInv, GoesOn
  <2>6. LoopInv'
    BY <1>1, <2>3, <2>5, PageKept DEF LoopInv
  <2> QED
    BY <2>3, <2>6 DEF GoesOn, OpenInv
<1>4. CASE Proceed("candidates", IF ocrApplied /\ options.preserveVisuals
                                 THEN Captions ELSE {})
  <2>1. /\ todo = {} /\ stage' = "candidates" /\ UNCHANGED <<entries, assets, given>>
        /\ todo' = IF ocrApplied /\ options.preserveVisuals THEN Captions ELSE {}
    BY <1>4 DEF Proceed
  <2>2. GoesOn
    BY <1>1, <2>1, PassingGoesOn DEF Later
  <2>3. options.preserveVisuals =>
          /\ \A x \in Images : ImageKept(x)'
          /\ options.flows => \A x \in Graphics : GraphicKept(x)'
          /\ ocrApplied => \A x \in Captions : x \in todo'
    BY <1>1, <2>1, <2>2 DEF LoopInv, GoesOn
  <2>4. LoopInv'
    BY <1>1, <2>1, <2>3, PageKept DEF LoopInv
  <2> QED
    BY <2>2, <2>4 DEF GoesOn, OpenInv
<1> QED
  BY <1>2, <1>3, <1>4 DEF KeepGraphics

LEMMA KeepCandidatesStep ==
    ASSUME OpenInv, KeepCandidates, UNCHANGED options
    PROVE  OpenInv'
<1>1. /\ stage = "candidates" /\ stage \in Later /\ PictureFrame
      /\ UNCHANGED <<page, options, ocrApplied>> /\ LoopInv
  BY DEF KeepCandidates, PictureFrame, OpenInv, Later
<1>2. CASE todo # {} /\ PassOver(First(todo)) /\ SkipCandidate(First(todo))
  <2>. PICK c : c = First(todo)
    OBVIOUS
  <2>1. stage' = stage /\ todo' = todo \ {c} /\ UNCHANGED <<entries, assets, given>>
    BY <1>2 DEF PassOver
  <2>2. GoesOn
    BY <1>1, <2>1, PassingGoesOn
  <2>3. CaptionKept(c)
    BY <1>2 DEF SkipCandidate, CaptionKept
  <2>4. options.preserveVisuals =>
          /\ \A x \in Images : ImageKept(x)'
          /\ options.flows => \A x \in Graphics : GraphicKept(x)'
          /\ ocrApplied => \A x \in Captions : CaptionKept(x)' \/ x \in todo'
    BY <1>1, <2>1, <2>2, <2>3 DEF LoopInv, GoesOn
  <2>5. LoopInv'
    BY <1>1, <2>1, <2>4, PageKept DEF LoopInv
  <2> QED
    BY <2>2, <2>5 DEF GoesOn, OpenInv
<1>3. CASE todo # {} /\ Handle(First(todo), CandidateId(First(todo)), "graphic",
                               LabelsOf(First(todo)), Wide(Place(First(todo))[1]))
  <2>. PICK c : c = First(todo)
    OBVIOUS
  <2>2. LabelsOf(c) \subseteq AllThings /\ CandidateId(c) # NoMarker
    BY <1>1, ThingsListed
    DEF AllThings, NoMarker, CandidateId, CaptionedKind, LabelsOf, OpenInv
  <2>3. GoesOn /\ LabelsOf(c) \subseteq There' /\ todo' = todo \ {c} /\ stage' = stage
    BY <1>1, <1>3, <2>2, HandleGoesOn
  <2>4. CaptionKept(c)'
    BY <1>1, <2>3, PageKept DEF CaptionKept
  <2>5. options.preserveVisuals =>
          /\ \A x \in Images : ImageKept(x)'
          /\ options.flows => \A x \in Graphics : GraphicKept(x)'
          /\ ocrApplied => \A x \in Captions : CaptionKept(x)' \/ x \in todo'
    BY <1>1, <2>3, <2>4 DEF LoopInv, GoesOn
  <2>6. LoopInv'
    BY <1>1, <2>3, <2>5, PageKept DEF LoopInv
  <2> QED
    BY <2>3, <2>6 DEF GoesOn, OpenInv
<1>4. CASE Proceed("source", {})
  <2>1. todo = {} /\ stage' = "source" /\ UNCHANGED <<entries, assets, given>>
    BY <1>4 DEF Proceed
  <2>2. GoesOn
    BY <1>1, <2>1, PassingGoesOn DEF Later
  <2>3. options.preserveVisuals =>
          /\ \A x \in Images : ImageKept(x)'
          /\ options.flows => \A x \in Graphics : GraphicKept(x)'
          /\ ocrApplied => \A x \in Captions : CaptionKept(x)'
    BY <1>1, <2>1, <2>2 DEF LoopInv, GoesOn
  <2>4. LoopInv'
    BY <1>1, <2>1, <2>3, PageKept DEF LoopInv
  <2> QED
    BY <2>2, <2>4 DEF GoesOn, OpenInv
<1> QED
  BY <1>2, <1>3, <1>4 DEF KeepCandidates

-----------------------------------------------------------------------------
(* The answer.                                                             *)

\* What the loops left behind is what may be missing from the answer.
LEMMA TextIsThere ==
    ASSUME OpenInv, stage = "source", ~preserveSourcePage
    PROVE  LET owed == IF ocrApplied THEN Lines ELSE KeepBlocks(Blocks)
           IN \A t \in owed \ There :
                t \in Excluded /\ (Beside(Place(t)) \/ HasConfidentExtraction(Wide(Place(t)[1])))
<1>1. CASE ~ocrApplied
  BY <1>1 DEF OpenInv, TextInv, Later
<1>2. CASE ocrApplied
  <2>1. SUFFICES ASSUME NEW t \in Lines \ There
                 PROVE  /\ t \in Excluded
                        /\ Beside(Place(t)) \/ HasConfidentExtraction(Wide(Place(t)[1]))
    BY <1>2
  <2>2. t \in Excluded
    BY <1>2, <2>1 DEF OpenInv, TextInv, Later
  <2>3. options.preserveVisuals /\ t \in Labels
    BY <2>2 DEF Excluded
  <2>4. PICK c \in Captions : Place(c)[1] = Place(t)[1]
    BY <2>3 DEF Labels, FigureBands
  <2>5. Overlaps(Place(t), Place(c)) /\ t \in LabelsOf(c)
    BY <2>3, <2>4 DEF Overlaps, Meets, LabelsOf
  <2>6. CaptionKept(c)
    BY <1>2, <2>3 DEF OpenInv, LoopInv
  <2>7. Beside(Place(c)) => Beside(Place(t))
    BY <2>4 DEF Beside, Overlaps
  <2> QED
    BY <2>1, <2>2, <2>4, <2>5, <2>6, <2>7 DEF CaptionKept, Wide
<1> QED
  BY <1>1, <1>2

LEMMA PicturesAreThere ==
    ASSUME OpenInv, stage = "source", ~preserveSourcePage, options.preserveVisuals
    PROVE  /\ \A t \in Images \ There :
                Thing(t).kind \in {"tiny", "scan"} \/ HasConfidentExtraction(Place(t))
           /\ options.flows => \A t \in Graphics \ There :
                HasConfidentExtraction(Place(t)) \/ Beside(Place(t)) \/ TableAt(Place(t))
<1>1. \A t \in Images : ImageKept(t)
  BY DEF OpenInv, LoopInv, Later
<1>2. options.flows => \A t \in Graphics : GraphicKept(t)
  BY DEF OpenInv, LoopInv, Later
<1> QED
  BY <1>1, <1>2 DEF ImageKept, GraphicKept

\* The page as it looks, or that it could not be kept.
LEMMA PreserveAdds ==
    ASSUME OpenInv, PreservePage, preserveSourcePage
    PROVE  /\ given \subseteq given'
           /\ \E E, A : /\ Adds(E, A) /\ \A e \in E : ~e.text
                        /\ \/ sourcePageFallbackFailed' /\ AllThings \subseteq given'
                           \/ \E e \in E : Shows(e) /\ e.of = AllThings /\ e.kind = "source-page"
<1> DEFINE asset == Asset(<<"source-page", <<>>>>, "source-page", WholePage)
           e == Entry("source-page", AllThings, asset.at, FALSE, asset.id, FALSE)
<1>1. \/ /\ assets' = Append(assets, asset) /\ entries' = Append(entries, e)
         /\ UNCHANGED given
      \/ /\ sourcePageFallbackFailed' /\ given' = given \cup AllThings
         /\ UNCHANGED <<entries, assets>>
  BY DEF PreservePage, AllThings
<1>2. e.kind = "source-page" /\ e.of = AllThings /\ ~e.text /\ e.marker = asset.id
  BY DEF Entry
<1>3. asset.id # NoMarker
  BY DEF Asset, NoMarker
<1> HIDE DEF asset, e
<1>4. IsSequence(entries) /\ IsSequence(assets)
  BY DEF OpenInv, EntryInv
<1>5. CASE /\ assets' = Append(assets, asset) /\ entries' = Append(entries, e)
           /\ UNCHANGED given
  <2>1. /\ IsSequence(entries') /\ Es' = Es \cup {e}
        /\ IsSequence(assets') /\ As' = As \cup {asset}
    BY <1>4, <1>5, Appended DEF Es, As
  <2>2. Adds({e}, {asset})
    BY <1>2, <1>3, <2>1 DEF Adds, Shows
  <2>3. Shows(e)
    BY <1>2, <1>3 DEF Shows
  <2> QED
    BY <1>2, <1>5, <2>2, <2>3
<1>6. CASE /\ sourcePageFallbackFailed' /\ given' = given \cup AllThings
           /\ UNCHANGED <<entries, assets>>
  <2>1. Adds({}, {})
    BY <1>4, <1>6 DEF Adds, Es, As
  <2> QED
    BY <1>6, <2>1
<1> QED
  BY <1>1, <1>5, <1>6

\* Once the page is answered its entries have the markers of its pictures, and
\* embedded text is none of what was recognised.
LEMMA AnsweredEntries == EntryInv /\ ReadingInv => MarkersHavePictures /\ OneReading
<1> SUFFICES ASSUME EntryInv, ReadingInv PROVE MarkersHavePictures /\ OneReading
  OBVIOUS
<1>1. MarkersHavePictures
  <2>1. {entries[i].marker : i \in DOMAIN entries} = {e.marker : e \in Es}
    BY DEF Es, Elements
  <2>2. {assets[i].id : i \in DOMAIN assets} = {a.id : a \in As}
    BY DEF As, Elements
  <2> QED
    BY <2>1, <2>2 DEF EntryInv, MarkersHavePictures
<1>2. OneReading
  BY DEF ReadingInv, OneReading, Texts, Es, Elements
<1> QED
  BY <1>1, <1>2

LEMMA PreservePageStep ==
    ASSUME OpenInv, PreservePage, UNCHANGED options
    PROVE  OpenInv'
<1>1. /\ stage = "source" /\ stage' = "answer"
      /\ UNCHANGED <<page, options, ocrApplied, recovered>>
      /\ UNCHANGED <<ocrConfident, preserveSourcePage>>
      /\ page \in Contents /\ EntryInv
      /\ ~preserveSourcePage => UNCHANGED <<entries, assets, given, sourcePageFallbackFailed>>
  BY DEF PreservePage, OpenInv
<1>2. DamageInv' /\ TextInv' /\ LoopInv'
  BY <1>1, PageKept DEF OpenInv, DamageInv, TextInv, LoopInv, Later
<1>3. EntryInv' /\ ReadingInv' => MarkersHavePictures' /\ OneReading'
  BY AnsweredEntries, PTL
<1>4. /\ Blocks' = Blocks /\ Images' = Images /\ Graphics' = Graphics /\ Lines' = Lines
      /\ KeepBlocks(Blocks)' = KeepBlocks(Blocks) /\ Excluded' = Excluded
      /\ \A t : Thing(t)' = Thing(t) /\ Place(t)' = Place(t)
  BY <1>1, PageKept
<1>5. CASE preserveSourcePage
  <2>1. PICK E, A : /\ Adds(E, A) /\ \A e \in E : ~e.text
                    /\ \/ sourcePageFallbackFailed' /\ AllThings \subseteq given'
                       \/ \E e \in E : Shows(e) /\ e.of = AllThings /\ e.kind = "source-page"
    BY <1>5, PreserveAdds
  <2>2. given \subseteq given'
    BY <1>5, PreserveAdds
  <2>3. /\ EntryInv' /\ Shown \subseteq Shown'
        /\ \A e \in E : Shows(e) => e.of \subseteq Shown'
    BY <1>1, <2>1, <2>2, EntriesAdded
  <2>4. ReadingInv'
    <3>1. ocrApplied => \A e \in Es' : e.text => e.kind = "table" \/ e.of \cap Blocks = {}
      BY <2>1 DEF Adds, OpenInv, ReadingInv
    <3> QED
      BY <1>1, <2>3, <3>1, PageKept DEF OpenInv, ReadingInv
  <2>5. AllThings \subseteq There'
    BY <2>1, <2>3 DEF There
  <2>6. TextSurvives' /\ PicturesSurvive'
    <3>1. /\ Blocks \subseteq Shown' \cup given' /\ Images \subseteq Shown' \cup given'
          /\ Graphics \subseteq Shown' \cup given' /\ Lines \subseteq Shown' \cup given'
          /\ KeepBlocks(Blocks) \subseteq Blocks
      BY <2>5 DEF There, AllThings, KeepBlocks
    <3> QED
      BY <1>4, <3>1 DEF TextSurvives, PicturesSurvive
  <2>7. DamageIsNeverSilent'
    <3>1. sourcePageFallbackFailed' \/ \E e \in Es' : e.kind = "source-page"
      BY <2>1 DEF Adds
    <3> QED
      BY <3>1 DEF DamageIsNeverSilent, Es, Elements
  <2>8. AnswerInv'
    BY <1>3, <2>3, <2>4, <2>6, <2>7 DEF AnswerInv
  <2> QED
    BY <1>1, <1>2, <2>3, <2>4, <2>8 DEF OpenInv, Stages
<1>6. CASE ~preserveSourcePage
  <2>1. UNCHANGED <<page, options, entries, assets, given>>
    BY <1>1, <1>6
  <2>2. /\ EntryInv' /\ Shown' = Shown /\ There' = There
        /\ \A at : /\ HasConfidentExtraction(at)' = HasConfidentExtraction(at)
                   /\ Beside(at)' = Beside(at)
                   /\ TableAt(at)' = TableAt(at)
    BY <1>1, <2>1, NothingAdded
  <2>3. ReadingInv'
    BY <1>1, <2>1, <2>2, NothingAdded, PageKept DEF OpenInv, ReadingInv
  <2>4. There' = Shown' \cup given'
    BY DEF There
  <2>5. TextSurvives'
    BY <1>1, <1>4, <1>6, <2>2, <2>4, TextIsThere DEF TextSurvives, Wide
  <2>6. PicturesSurvive'
    BY <1>1, <1>4, <1>6, <2>2, <2>4, PicturesAreThere DEF PicturesSurvive
  <2>7. DamageIsNeverSilent'
    BY <1>1, <1>2, <1>6 DEF DamageIsNeverSilent, DamageInv, KeepsWhole
  <2>8. AnswerInv'
    BY <1>3, <2>2, <2>3, <2>5, <2>6, <2>7 DEF AnswerInv
  <2> QED
    BY <1>1, <1>2, <2>2, <2>3, <2>8 DEF OpenInv, Stages
<1> QED
  BY <1>5, <1>6

\* Whatever a stage does with a page, what it holds is accounted for.
LEMMA PageStepKeeps ==
    ASSUME OpenInv, PageStep, UNCHANGED options
    PROVE  OpenInv'
  BY ReadStep, DetectTableStep, RecogniseStep, RecogniseFailsStep, SkipRecognitionStep,
     FormulaImagesStep, ReadBlocksStep, KeepImagesStep, KeepGraphicsStep, KeepCandidatesStep,
     PreservePageStep
  DEF PageStep

\* A page that was opened has nothing yet.
LEMMA OpenPageOpens ==
    ASSUME NEW p \in Contents, OpenPage(p), options' \in Settings
    PROVE  OpenInv'
<1>1. /\ page' = p /\ stage' = "read" /\ entries' = <<>> /\ assets' = <<>>
      /\ ~ocrApplied' /\ ~preserveSourcePage' /\ recovered' = {}
  BY DEF OpenPage
<1>2. EntryInv'
  BY <1>1, Empty DEF EntryInv, Es, As, Elements
<1>3. ReadingInv' /\ DamageInv' /\ TextInv' /\ LoopInv'
  BY <1>1, Empty DEF ReadingInv, DamageInv, TextInv, LoopInv, Later, Es
<1> QED
  BY <1>1, <1>2, <1>3, NotYetAnswered DEF OpenInv, Stages

\* Of an open page all that is promised holds.
LEMMA OpenPagePromises ==
    ASSUME OpenInv
    PROVE  PageInv /\ AnswerInv
<1>1. \A i \in DOMAIN entries : entries[i].of \subseteq AllThings
  BY DEF OpenInv, EntryInv, Es, Elements
<1>2. PageInv
  BY <1>1 DEF OpenInv, PageInv, ReadingInv, DamageInv, KeepsWhole, AllThings
<1> QED
  BY <1>2 DEF OpenInv

-----------------------------------------------------------------------------
(* The inductive invariant of a batch.                                     *)

Messages == [type : {"worker-started", "engine-loading", "engine-ready", "page-start",
                     "page", "page-error", "done", "error"}, page : Nat]
Replies == {"page", "page-error"}
Reply(i) == channel[i].type \in Replies

MessageInv ==
    /\ options \in Settings
    /\ channel \in Seq(Messages)
    /\ answers \in Seq(Messages)
    /\ \A i \in DOMAIN answers : answers[i].type \in Replies

\* The pages between the last that was heard of and the one the worker is at are on
\* their way, in this order.
OrderInv ==
    /\ Len(answers) < index
    /\ \A i \in DOMAIN channel : Reply(i) =>
         /\ Len(answers) < channel[i].page /\ channel[i].page < index
         /\ \A j \in DOMAIN channel : Reply(j) /\ i < j => channel[i].page < channel[j].page
    /\ batch = "running" => \A n \in (Len(answers) + 1)..(index - 1) :
         \E i \in DOMAIN channel : Reply(i) /\ channel[i].page = n

\* The end of a batch is the worker's last word.
EndInv ==
    /\ batch # "running" <=> worker = "terminated"
    /\ batch # "running" => channel = <<>>
    /\ worker = "page" => index <= BatchSize
    /\ \A i \in DOMAIN channel : channel[i].type = "done" =>
         i = Len(channel) /\ index = BatchSize + 1 /\ worker = "ended"

\* Under strict extraction a failed page is the worker's last.
StrictInv ==
    options.strict =>
        /\ \A i \in DOMAIN answers : answers[i].type = "page-error" =>
             /\ worker \in {"ended", "terminated"} /\ batch # "done"
             /\ \A j \in DOMAIN channel : channel[j].type # "done"
        /\ \A i \in DOMAIN channel : channel[i].type = "page-error" =>
             /\ worker \in {"ended", "terminated"}
             /\ \A j \in DOMAIN channel : channel[j].type # "done"

\* The watch is on until the engine is there, and what the worker says before is
\* not that it is.
StartInv ==
    /\ worker = "booting" => channel = <<>> /\ watch = "worker-boot"
    /\ worker = "loading" =>
         watch \in Phases /\ \A i \in DOMAIN channel : channel[i].type # "engine-ready"

IInv == MessageInv /\ BatchInv /\ OrderInv /\ EndInv /\ StrictInv /\ StartInv

-----------------------------------------------------------------------------
(* What is said and heard.                                                 *)

\* Messages are added at the end of the channel.
LEMMA PostedOne ==
    ASSUME channel \in Seq(Messages), NEW m \in Messages, Post(<<m>>)
    PROVE  /\ channel' \in Seq(Messages)
           /\ DOMAIN channel = 1..Len(channel) /\ Len(channel) \in Nat
           /\ DOMAIN channel' = 1..(Len(channel) + 1) /\ Len(channel') = Len(channel) + 1
           /\ \A i \in DOMAIN channel : channel'[i] = channel[i]
           /\ channel'[Len(channel) + 1] = m
           /\ \A i \in DOMAIN channel' \ DOMAIN channel : channel'[i] = m
<1>1. <<m>> \in Seq(Messages) /\ Len(<<m>>) = 1 /\ <<m>>[1] = m
  OBVIOUS
<1> QED
  BY <1>1, ConcatProperties, LenProperties DEF Post

LEMMA PostedTwo ==
    ASSUME channel \in Seq(Messages), NEW m \in Messages, NEW n \in Messages, Post(<<m, n>>)
    PROVE  /\ channel' \in Seq(Messages)
           /\ DOMAIN channel = 1..Len(channel) /\ Len(channel) \in Nat
           /\ DOMAIN channel' = 1..(Len(channel) + 2) /\ Len(channel') = Len(channel) + 2
           /\ \A i \in DOMAIN channel : channel'[i] = channel[i]
           /\ channel'[Len(channel) + 1] = m /\ channel'[Len(channel) + 2] = n
           /\ \A i \in DOMAIN channel' \ DOMAIN channel : channel'[i] \in {m, n}
<1>1. /\ <<m, n>> \in Seq(Messages) /\ Len(<<m, n>>) = 2
      /\ <<m, n>>[1] = m /\ <<m, n>>[2] = n
  OBVIOUS
<1> QED
  BY <1>1, ConcatProperties, LenProperties DEF Post

\* A step that only posts notices moves no page.
LEMMA NoticesKeepOrder ==
    ASSUME MessageInv, OrderInv, NEW k \in {1, 2},
           UNCHANGED <<batch, index, answers>>,
           channel' \in Seq(Messages),
           DOMAIN channel = 1..Len(channel), Len(channel) \in Nat,
           DOMAIN channel' = 1..(Len(channel) + k),
           \A i \in DOMAIN channel : channel'[i] = channel[i],
           \A i \in DOMAIN channel' \ DOMAIN channel : channel'[i].type \notin Replies
    PROVE  OrderInv'
<1>1. \A i \in DOMAIN channel : i \in DOMAIN channel'
  OBVIOUS
<1>2. \A i \in DOMAIN channel' : Reply(i)' => i \in DOMAIN channel /\ Reply(i)
  BY DEF Reply
<1>3. \A i \in DOMAIN channel : Reply(i) => Reply(i)'
  BY DEF Reply
<1> QED
  BY <1>1, <1>2, <1>3 DEF OrderInv

\* The reply for the page the worker was at comes after all others.
LEMMA RepliesKeepOrder ==
    ASSUME MessageInv, OrderInv, BatchInv, NEW k \in {1, 2},
           UNCHANGED <<batch, answers>>, index' = index + 1,
           channel' \in Seq(Messages),
           DOMAIN channel = 1..Len(channel), Len(channel) \in Nat,
           DOMAIN channel' = 1..(Len(channel) + k),
           \A i \in DOMAIN channel : channel'[i] = channel[i],
           channel'[Len(channel) + 1].type \in Replies,
           channel'[Len(channel) + 1].page = index,
           k = 2 => channel'[Len(channel) + 2].type \notin Replies
    PROVE  OrderInv'
<1>. PICK last : last = Len(channel) + 1
  OBVIOUS
<1>0. Len(answers) \in Nat /\ index \in Nat
  BY BatchSizeAssumption, LenProperties DEF MessageInv, BatchInv, WorkerInv
<1>1. \A i \in DOMAIN channel : i \in DOMAIN channel' /\ i < last /\ last \in DOMAIN channel'
  OBVIOUS
<1>2. \A i \in DOMAIN channel' : Reply(i)' => i = last \/ (i \in DOMAIN channel /\ Reply(i))
  BY DEF Reply
<1>3. Reply(last)' /\ \A i \in DOMAIN channel : Reply(i) => Reply(i)'
  BY DEF Reply
<1>4. \A i \in DOMAIN channel : channel[i].page \in Nat
  <2>1. \A i \in DOMAIN channel : channel[i] \in Messages
    BY ElementOfSeq DEF MessageInv
  <2> QED
    BY <2>1 DEF Messages
<1>5. (Len(answers) < index)'
  BY <1>0 DEF OrderInv
<1>6. \A i \in DOMAIN channel' : Reply(i)' =>
         /\ Len(answers) < channel'[i].page /\ channel'[i].page < index'
         /\ \A j \in DOMAIN channel' : Reply(j)' /\ i < j => channel'[i].page < channel'[j].page
  BY <1>0, <1>1, <1>2, <1>4 DEF OrderInv
<1>7. batch = "running" => \A n \in (Len(answers) + 1)..(index' - 1) :
         \E i \in DOMAIN channel' : Reply(i)' /\ channel'[i].page = n
  <2>1. SUFFICES ASSUME batch = "running", NEW n \in (Len(answers) + 1)..(index' - 1)
                 PROVE  \E i \in DOMAIN channel' : Reply(i)' /\ channel'[i].page = n
    OBVIOUS
  <2>2. CASE n = index
    BY <2>2, <1>3
  <2>3. CASE n # index
    <3>1. n \in (Len(answers) + 1)..(index - 1)
      BY <2>3, <1>0
    <3> QED
      BY <2>1, <3>1, <1>1, <1>3 DEF OrderInv
  <2> QED
    BY <2>2, <2>3
<1> QED
  BY <1>5, <1>6, <1>7 DEF OrderInv

\* A page is not closed before it is answered or has failed.
LEMMA StageStays ==
    ASSUME PageStep, stage # "none"
    PROVE  stage' # "none"
  BY DEF PageStep, Read, DetectTable, Recognise, RecogniseFails, SkipRecognition,
         FormulaImages, ReadBlocks, KeepImages, KeepGraphics, KeepCandidates, PreservePage,
         PassOver, Handle, Proceed

-----------------------------------------------------------------------------
(* The steps of the worker.                                                *)



\* Starting the worker and its engine, and the start of a page.
LEMMA NoticeSteps ==
    ASSUME IInv, Boot \/ LoadEngine \/ StartPage \/ FinishWorker
    PROVE  IInv'
<1> USE DEF Replies, Message, Notice
<1>0. /\ batch = "running" /\ DOMAIN channel = 1..Len(channel) /\ Len(channel) \in Nat
      /\ index \in Nat /\ index' = index /\ answers' = answers /\ batch' = batch
      /\ options' = options /\ watch' = watch
  BY LenProperties, BatchSizeAssumption
  DEF IInv, MessageInv, BatchInv, WorkerInv, EndInv, Boot, LoadEngine, StartPage, FinishWorker
<1>. channel \in Seq(Messages)
  BY DEF IInv, MessageInv
<1> DEFINE Said(k) ==
        /\ channel' \in Seq(Messages)
        /\ DOMAIN channel' = 1..(Len(channel) + k) /\ Len(channel') = Len(channel) + k
        /\ \A i \in DOMAIN channel : channel'[i] = channel[i]
        /\ \A i \in DOMAIN channel' \ DOMAIN channel : channel'[i].type \notin Replies
<1>1. CASE Boot
  <2>0. channel = <<>> /\ watch = "worker-boot" /\ DOMAIN channel = {} /\ stage' = stage
    BY <1>1 DEF IInv, StartInv, Boot, pageVars
  <2>1. CASE worker' = "loading"
    <3>1. Post(<<Notice("worker-started"), Notice("engine-loading")>>)
      BY <1>1, <2>1 DEF Boot
    <3>2. Notice("worker-started") \in Messages /\ Notice("engine-loading") \in Messages
      BY DEF Messages
    <3>3. /\ Said(2)
          /\ \A i \in DOMAIN channel' : channel'[i].type \notin {"done", "engine-ready"}
      BY <3>1, <3>2, <2>0, <1>0, PostedTwo
    <3>4. OrderInv'
      BY <3>3, <1>0, NoticesKeepOrder DEF IInv
    <3>5. MessageInv' /\ BatchInv'
      BY <3>3, <2>0, <1>0, <2>1, <1>1
      DEF IInv, MessageInv, Boot, BatchInv, WorkerInv, AnswersInOrder, DoneMeansAnswered,
          StrictBatchesAreWhole, StartupIsWatched, Phases
    <3>6. EndInv' /\ StrictInv' /\ StartInv'
      BY <3>3, <2>0, <1>0, <2>1, <1>1 DEF IInv, Boot, EndInv, StrictInv, StartInv, Phases
    <3> QED
      BY <3>4, <3>5, <3>6 DEF IInv
  <2>2. CASE worker' = "ended"
    <3>1. Post(<<Notice("error")>>)
      BY <1>1, <2>2 DEF Boot
    <3>2. Notice("error") \in Messages
      BY DEF Messages
    <3>3. Said(1) /\ \A i \in DOMAIN channel' : channel'[i].type # "done"
      BY <3>1, <3>2, <2>0, PostedOne
    <3>4. OrderInv'
      BY <3>3, <1>0, NoticesKeepOrder DEF IInv
    <3>5. MessageInv' /\ BatchInv'
      BY <3>3, <2>0, <1>0, <2>2, <1>1
      DEF IInv, MessageInv, Boot, BatchInv, WorkerInv, AnswersInOrder, DoneMeansAnswered,
          StrictBatchesAreWhole, StartupIsWatched, Phases
    <3>6. EndInv' /\ StrictInv' /\ StartInv'
      BY <3>3, <2>0, <1>0, <2>2, <1>1 DEF IInv, Boot, EndInv, StrictInv, StartInv, Phases
    <3> QED
      BY <3>4, <3>5, <3>6 DEF IInv
  <2> QED
    BY <1>1, <2>1, <2>2 DEF Boot
<1>2. CASE LoadEngine
  <2>0. worker = "loading" /\ worker' \in {"between", "ended"} /\ stage' = stage
    BY <1>2 DEF LoadEngine, pageVars
  <2>1. \A i \in DOMAIN channel : channel[i].type # "done"
    BY <2>0 DEF IInv, EndInv
  <2>2. /\ Notice("engine-ready") \in Messages /\ Notice("error") \in Messages
    BY DEF Messages
  <2>3. PICK k \in {1, 2} : Said(k) /\ \A i \in DOMAIN channel' \ DOMAIN channel :
                                channel'[i].type \in {"engine-ready", "error"}
    <3>1. CASE Post(<<Notice("engine-ready")>>)
      BY <3>1, <2>2, <1>0, PostedOne
    <3>2. CASE Post(<<Notice("error")>>)
      BY <3>2, <2>2, <1>0, PostedOne
    <3>3. CASE Post(<<Notice("engine-ready"), Notice("error")>>)
      BY <3>3, <2>2, <1>0, PostedTwo
    <3> QED
      BY <3>1, <3>2, <3>3, <1>2 DEF LoadEngine
  <2>4. OrderInv'
    BY <2>3, <1>0, NoticesKeepOrder DEF IInv
  <2>5. MessageInv' /\ BatchInv'
    BY <2>3, <2>0, <1>0
    DEF IInv, MessageInv, BatchInv, WorkerInv, AnswersInOrder, DoneMeansAnswered,
        StrictBatchesAreWhole, StartupIsWatched, Phases
  <2>6. EndInv' /\ StrictInv' /\ StartInv'
    BY <2>3, <2>1, <2>0, <1>0 DEF IInv, EndInv, StrictInv, StartInv
  <2> QED
    BY <2>4, <2>5, <2>6 DEF IInv
<1>3. CASE StartPage
  <2>0. /\ worker = "between" /\ worker' = "page" /\ stage' = "read" /\ index <= BatchSize
        /\ Post(<<Message("page-start", index)>>) /\ Message("page-start", index) \in Messages
    BY <1>0, <1>3 DEF StartPage, OpenPage, Messages
  <2>1. \A i \in DOMAIN channel : channel[i].type # "done"
    BY <2>0 DEF IInv, EndInv
  <2>3. Said(1) /\ channel'[Len(channel) + 1].type = "page-start"
    BY <2>0, <1>0, PostedOne
  <2>4. OrderInv'
    BY <2>3, <1>0, NoticesKeepOrder DEF IInv
  <2>5. MessageInv' /\ BatchInv'
    BY <2>3, <2>0, <1>0
    DEF IInv, MessageInv, BatchInv, WorkerInv, AnswersInOrder, DoneMeansAnswered,
        StrictBatchesAreWhole, StartupIsWatched, Phases
  <2>6. EndInv' /\ StartInv'
    BY <2>3, <2>1, <2>0, <1>0 DEF IInv, EndInv, StartInv
  <2>7. StrictInv'
    <3>1. options.strict => /\ \A i \in DOMAIN answers : answers[i].type # "page-error"
                            /\ \A i \in DOMAIN channel : channel[i].type # "page-error"
      BY <2>0 DEF IInv, StrictInv
    <3> QED
      BY <2>3, <3>1, <1>0 DEF StrictInv
  <2> QED
    BY <2>4, <2>5, <2>6, <2>7 DEF IInv
<1>4. CASE FinishWorker
  <2>0. /\ worker = "between" /\ worker' = "ended" /\ stage' = stage /\ index = BatchSize + 1
        /\ Post(<<Notice("done")>>) /\ Notice("done") \in Messages
    BY <1>0, <1>4, BatchSizeAssumption
    DEF FinishWorker, Messages, pageVars, IInv, BatchInv, WorkerInv
  <2>1. /\ \A i \in DOMAIN channel : channel[i].type # "done"
        /\ options.strict => /\ \A i \in DOMAIN answers : answers[i].type # "page-error"
                             /\ \A i \in DOMAIN channel : channel[i].type # "page-error"
    BY <2>0 DEF IInv, EndInv, StrictInv
  <2>3. Said(1) /\ channel'[Len(channel) + 1].type = "done"
    BY <2>0, <1>0, PostedOne
  <2>4. OrderInv'
    BY <2>3, <1>0, NoticesKeepOrder DEF IInv
  <2>5. MessageInv' /\ BatchInv'
    BY <2>3, <2>0, <1>0
    DEF IInv, MessageInv, BatchInv, WorkerInv, AnswersInOrder, DoneMeansAnswered,
        StrictBatchesAreWhole, StartupIsWatched, Phases
  <2>6. EndInv'
    BY <2>3, <2>1, <2>0, <1>0 DEF IInv, EndInv
  <2>7. StrictInv' /\ StartInv'
    BY <2>3, <2>1, <2>0, <1>0 DEF StrictInv, StartInv
  <2> QED
    BY <2>4, <2>5, <2>6, <2>7 DEF IInv
<1> QED
  BY <1>1, <1>2, <1>3, <1>4

\* The answer of a page, or that it failed.
LEMMA ReplySteps ==
    ASSUME IInv, AnswerPage \/ FailPage
    PROVE  IInv'
<1> USE DEF Replies, Message, Notice
<1>. channel \in Seq(Messages)
  BY DEF IInv, MessageInv
<1>0. /\ worker = "page" /\ batch = "running" /\ DOMAIN channel = 1..Len(channel)
      /\ Len(channel) \in Nat /\ Len(answers) \in Nat
      /\ index \in Nat /\ index' = index + 1 /\ answers' = answers /\ batch' = batch
      /\ options' = options /\ watch' = watch /\ stage' = "none"
  BY LenProperties, BatchSizeAssumption
  DEF IInv, MessageInv, BatchInv, WorkerInv, EndInv, AnswerPage, FailPage, ClosePage
<1>1. /\ Message("page", index) \in Messages /\ Message("page-error", index) \in Messages
      /\ Notice("error") \in Messages
  BY <1>0 DEF Messages
<1>2. PICK k \in {1, 2} :
        /\ channel' \in Seq(Messages)
        /\ DOMAIN channel' = 1..(Len(channel) + k) /\ Len(channel') = Len(channel) + k
        /\ \A i \in DOMAIN channel : channel'[i] = channel[i]
        /\ channel'[Len(channel) + 1].type \in Replies
        /\ channel'[Len(channel) + 1].page = index
        /\ \A i \in DOMAIN channel' \ DOMAIN channel :
             /\ channel'[i].type # "done"
             /\ worker' = "between" /\ options.strict => channel'[i].type # "page-error"
        /\ k = 2 => channel'[Len(channel) + 2].type \notin Replies
        /\ worker' \in {"between", "ended"}
  <2>1. CASE Post(<<Message("page", index)>>) /\ worker' = "between"
    BY <2>1, <1>1, <1>0, PostedOne
  <2>2. CASE Post(<<Message("page-error", index)>>) /\ worker' = "between" /\ ~options.strict
    BY <2>2, <1>1, <1>0, PostedOne
  <2>3. CASE Post(<<Message("page-error", index), Notice("error")>>) /\ worker' = "ended"
    BY <2>3, <1>1, <1>0, PostedTwo
  <2> QED
    BY <2>1, <2>2, <2>3 DEF AnswerPage, FailPage
<1>3. /\ index <= BatchSize
      /\ \A i \in DOMAIN channel : channel[i].type # "done"
      /\ options.strict => /\ \A i \in DOMAIN answers : answers[i].type # "page-error"
                           /\ \A i \in DOMAIN channel : channel[i].type # "page-error"
  BY <1>0 DEF IInv, EndInv, StrictInv
<1>4. OrderInv'
  BY <1>2, <1>0, RepliesKeepOrder DEF IInv
<1>5. MessageInv' /\ BatchInv'
  BY <1>2, <1>3, <1>0, BatchSizeAssumption
  DEF IInv, MessageInv, BatchInv, WorkerInv, AnswersInOrder, DoneMeansAnswered,
      StrictBatchesAreWhole, StartupIsWatched, Phases
<1>6. EndInv' /\ StrictInv' /\ StartInv'
  BY <1>2, <1>3, <1>0 DEF IInv, EndInv, StrictInv, StartInv
<1> QED
  BY <1>4, <1>5, <1>6 DEF IInv

\* Reading a page says nothing.
LEMMA PageSteps ==
    ASSUME IInv, ExtractPage \/ PageThrows
    PROVE  IInv'
<1>1. UNCHANGED <<options, workerVars>> /\ worker = "page" /\ stage # "none" /\ stage' # "none"
  BY StageStays DEF ExtractPage, PageThrows, workerVars, IInv, BatchInv, WorkerInv
<1>2. MessageInv' /\ OrderInv' /\ EndInv' /\ StrictInv' /\ StartInv'
  BY <1>1 DEF IInv, MessageInv, OrderInv, EndInv, StrictInv, StartInv, Reply, workerVars
<1>3. BatchInv'
  BY <1>1 DEF IInv, BatchInv, WorkerInv, AnswersInOrder, DoneMeansAnswered,
      StrictBatchesAreWhole, StartupIsWatched, workerVars
<1> QED
  BY <1>2, <1>3 DEF IInv

-----------------------------------------------------------------------------
(* The steps of the application.                                           *)

\* What is left of a batch that is settled.
LEMMA FinishKeeps ==
    ASSUME IInv, NEW outcome \in {"done", "failed"}, Finish(outcome),
           UNCHANGED <<options, index>>,
           MessageInv', AnswersInOrder',
           Len(answers') < index,
           outcome = "done" => Len(answers') = BatchSize,
           outcome = "done" /\ options.strict => \A i \in DOMAIN answers' : answers'[i].type = "page"
    PROVE  IInv'
<1>1. /\ batch' = outcome /\ watch' = "closed" /\ worker' = "terminated" /\ channel' = <<>>
      /\ stage' = "none" /\ DOMAIN channel' = {}
  BY DEF Finish, ClosePage
<1>2. BatchInv'
  BY <1>1 DEF IInv, BatchInv, WorkerInv, DoneMeansAnswered, StrictBatchesAreWhole,
              StartupIsWatched
<1>3. OrderInv' /\ EndInv' /\ StrictInv' /\ StartInv'
  BY <1>1 DEF MessageInv, Replies, OrderInv, EndInv, StrictInv, StartInv
<1> QED
  BY <1>2, <1>3 DEF IInv

\* A batch that is given up heard what it heard.
LEMMA GivingUpSteps ==
    ASSUME IInv, Reject \/ StartupTimesOut \/ Abort
    PROVE  IInv'
<1>1. Finish("failed") /\ UNCHANGED <<options, index, answers>> /\ channel' = <<>>
  BY DEF Reject, StartupTimesOut, Abort, Finish
<1>2. MessageInv' /\ AnswersInOrder' /\ Len(answers') < index
  BY <1>1 DEF IInv, MessageInv, BatchInv, AnswersInOrder, OrderInv
<1> QED
  BY <1>1, <1>2, FinishKeeps

\* The first message of the channel.
LEMMA Received ==
    ASSUME IInv, Receive
    PROVE  /\ channel \in Seq(Messages) /\ Head(channel) \in Messages
           /\ DOMAIN channel = 1..Len(channel) /\ Len(channel) \in Nat \ {0}
           /\ Head(channel) = channel[1]
           /\ Tail(channel) \in Seq(Messages) /\ DOMAIN Tail(channel) = 1..(Len(channel) - 1)
           /\ Len(Tail(channel)) = Len(channel) - 1
           /\ \A i \in 1..(Len(channel) - 1) : Tail(channel)[i] = channel[i + 1]
           /\ answers \in Seq(Messages)
           /\ DOMAIN answers = 1..Len(answers) /\ Len(answers) \in Nat
           /\ index \in Nat /\ batch = "running"
           /\ UNCHANGED <<options, index>>
           /\ channel' \in Seq(Messages)
           /\ channel[1].type = "done" => Finish("done")
           /\ channel[1].type = "error" => Finish("failed")
           /\ channel[1].type \notin {"done", "error"} =>
                /\ watch' = NextPhase(channel[1].type)
                /\ channel' = Tail(channel)
                /\ UNCHANGED <<batch, worker, stage>>
<1>1. channel \in Seq(Messages) /\ channel # <<>> /\ answers \in Seq(Messages)
  BY DEF IInv, MessageInv, Receive
<1>2. index \in Nat /\ batch = "running" /\ UNCHANGED <<options, index>>
  BY BatchSizeAssumption DEF IInv, BatchInv, WorkerInv, Receive
<1>3. /\ DOMAIN channel = 1..Len(channel) /\ Len(channel) \in Nat \ {0}
      /\ DOMAIN answers = 1..Len(answers) /\ Len(answers) \in Nat
      /\ Head(channel) = channel[1]
  BY <1>1, LenProperties, EmptySeq
<1>4. /\ Head(channel) \in Messages
      /\ Tail(channel) \in Seq(Messages)
      /\ Len(Tail(channel)) = Len(channel) - 1
      /\ \A i \in 1 .. Len(Tail(channel)) : Tail(channel)[i] = channel[i+1]
  BY <1>1, HeadTailProperties
<1>5. DOMAIN Tail(channel) = 1..Len(Tail(channel))
  BY <1>4, LenProperties
<1>6. /\ channel[1].type = "done" => Finish("done")
      /\ channel[1].type = "error" => Finish("failed")
      /\ channel[1].type \notin {"done", "error"} =>
           /\ watch' = NextPhase(channel[1].type)
           /\ channel' = Tail(channel)
           /\ UNCHANGED <<batch, worker, stage>>
  BY <1>3 DEF Receive, pageVars
<1>7. channel' = <<>> \/ channel' = Tail(channel)
  BY <1>6 DEF Finish
<1>8. channel' \in Seq(Messages)
  BY <1>7, <1>4, EmptySeq
<1> QED
  BY <1>1, <1>2, <1>3, <1>4, <1>5, <1>6, <1>8, Zenon

\* Pages are heard of in their order.
LEMMA HeardInOrder ==
    ASSUME IInv, Receive
    PROVE  /\ MessageInv' /\ AnswersInOrder' /\ Len(answers') < index
           /\ IF Reply(1) THEN Len(answers') = Len(answers) + 1 /\ channel[1].page = Len(answers')
                          ELSE answers' = answers
           /\ \A i \in DOMAIN answers' :
                \/ i \in DOMAIN answers /\ answers'[i] = answers[i]
                \/ Reply(1) /\ answers'[i] = channel[1]
<1> DEFINE m == channel[1]
<1>1. answers' = IF Reply(1) THEN Append(answers, m) ELSE answers
  BY Received DEF Receive, Heard, Reply, Replies
<1>2. m \in Messages /\ m.page \in Nat
  BY Received DEF Messages
<1>3. CASE Reply(1)
  <2>1. /\ answers' \in Seq(Messages) /\ Len(answers') = Len(answers) + 1
        /\ DOMAIN answers' = 1..(Len(answers) + 1)
        /\ \A i \in 1..Len(answers) : answers'[i] = answers[i]
        /\ answers'[Len(answers) + 1] = m
    BY <1>1, <1>2, <1>3, Received, AppendProperties, LenProperties
  <2>2. Len(answers) < m.page /\ m.page < index
    BY <1>3, Received DEF IInv, OrderInv
  <2>3. m.page = Len(answers) + 1
    <3>1. Len(answers) + 1 \in (Len(answers) + 1)..(index - 1)
      BY <2>2, <1>2, Received
    <3>2. PICK i \in DOMAIN channel : Reply(i) /\ channel[i].page = Len(answers) + 1
      BY <3>1, Received DEF IInv, OrderInv
    <3>3. i # 1 => m.page < channel[i].page
      BY <1>3, <3>2, Received DEF IInv, OrderInv
    <3> QED
      BY <2>2, <3>2, <3>3, <1>2, Received
  <2>6. \A i \in DOMAIN answers' :
          \/ i \in DOMAIN answers /\ answers'[i] = answers[i]
          \/ i = Len(answers) + 1 /\ answers'[i] = m
    BY <2>1, Received
  <2>4. AnswersInOrder'
    <3>1. \A i \in DOMAIN answers : answers[i].page = i
      BY DEF IInv, BatchInv, AnswersInOrder
    <3> QED
      BY <2>6, <3>1, <2>3 DEF AnswersInOrder
  <2>5. MessageInv'
    <3>1. \A i \in DOMAIN answers' : answers'[i].type \in Replies
      <4>1. m.type \in Replies /\ \A i \in DOMAIN answers : answers[i].type \in Replies
        BY <1>3 DEF IInv, MessageInv, Reply
      <4> QED
        BY <2>6, <4>1
    <3> QED
      BY <2>1, <3>1, Received DEF IInv, MessageInv
  <2> QED
    BY <2>1, <2>2, <2>3, <2>4, <2>5, <1>3, Received
<1>4. CASE ~Reply(1)
  <2>2. MessageInv' /\ AnswersInOrder' /\ Len(answers') < index
    BY <1>1, <1>4, Received DEF IInv, MessageInv, BatchInv, AnswersInOrder, OrderInv
  <2> QED
    BY <1>1, <1>4, <2>2
<1> QED
  BY <1>3, <1>4

LEMMA ReceiveStep ==
    ASSUME IInv, Receive
    PROVE  IInv'
<1> USE DEF Replies
<1>1. CASE channel[1].type = "done"
  <2>1. /\ Len(channel) = 1 /\ index = BatchSize + 1 /\ ~Reply(1)
        /\ options.strict => \A i \in DOMAIN answers : answers[i].type # "page-error"
    <3>1. 1 \in DOMAIN channel
      BY Received
    <3>2. Len(channel) = 1 /\ index = BatchSize + 1 /\ ~Reply(1)
      BY <1>1, <3>1, Received DEF IInv, EndInv, Reply
    <3>3. options.strict => \A i \in DOMAIN answers : answers[i].type # "page-error"
      BY <1>1, <3>1 DEF IInv, StrictInv
    <3> QED
      BY <3>2, <3>3
  <2>2. answers' = answers
    BY <2>1, HeardInOrder
  <2>3. Len(answers) = BatchSize
    <3>1. \A n \in (Len(answers) + 1)..(index - 1) : FALSE
      BY <2>1, Received DEF IInv, OrderInv
    <3> QED
      BY <3>1, <2>1, Received, BatchSizeAssumption DEF IInv, OrderInv
  <2>4. options.strict => \A i \in DOMAIN answers : answers[i].type = "page"
    BY <2>1 DEF IInv, MessageInv
  <2> QED
    BY <1>1, <2>2, <2>3, <2>4, HeardInOrder, Received, FinishKeeps
<1>2. CASE channel[1].type = "error"
  BY <1>2, HeardInOrder, Received, FinishKeeps
<1>3. CASE channel[1].type \notin {"done", "error"}
  <2>0. /\ channel' = Tail(channel) /\ UNCHANGED <<options, batch, worker, index, stage>>
        /\ watch' = NextPhase(channel[1].type) /\ batch = "running"
        /\ DOMAIN channel' = 1..(Len(channel) - 1) /\ Len(channel') = Len(channel) - 1
        /\ \A i \in DOMAIN channel' : i + 1 \in DOMAIN channel /\ channel'[i] = channel[i + 1]
    <3>1. /\ channel' = Tail(channel) /\ UNCHANGED <<options, batch, worker, index, stage>>
          /\ watch' = NextPhase(channel[1].type) /\ batch = "running"
      BY <1>3, Received
    <3>2. DOMAIN channel' = 1..(Len(channel) - 1) /\ Len(channel') = Len(channel) - 1
      BY <3>1, Received, Zenon
    <3>3. \A i \in DOMAIN channel' : i + 1 \in DOMAIN channel /\ channel'[i] = channel[i + 1]
      BY <3>1, <3>2, Received
    <3> QED
      BY <3>1, <3>2, <3>3, Zenon
  <2>1. OrderInv'
    <3>1. \A i \in DOMAIN channel' : i + 1 \in DOMAIN channel /\ (Reply(i)' <=> Reply(i + 1))
      BY <2>0 DEF Reply
    <3>2. \A i \in DOMAIN channel' : Reply(i)' =>
            /\ Len(answers') < channel'[i].page /\ channel'[i].page < index
            /\ \A j \in DOMAIN channel' : Reply(j)' /\ i < j => channel'[i].page < channel'[j].page
      <4>1. SUFFICES ASSUME NEW i \in DOMAIN channel', Reply(i)'
                     PROVE  /\ Len(answers') < channel'[i].page /\ channel'[i].page < index
                            /\ \A j \in DOMAIN channel' : Reply(j)' /\ i < j =>
                                 channel'[i].page < channel'[j].page
        OBVIOUS
      <4>2. i + 1 \in DOMAIN channel /\ Reply(i + 1) /\ channel'[i] = channel[i + 1] /\ 1 < i + 1
            /\ 1 \in DOMAIN channel /\ i \in Nat
        BY <3>1, <2>0, <4>1, Received
      <4>3. Len(answers) < channel[i + 1].page /\ channel[i + 1].page < index
            /\ \A j \in DOMAIN channel : Reply(j) /\ i + 1 < j =>
                 channel[i + 1].page < channel[j].page
        BY <4>2 DEF IInv, OrderInv
      <4>4. Reply(1) => channel[1].page < channel[i + 1].page
        BY <4>2 DEF IInv, OrderInv
      <4>5. Len(answers') < channel'[i].page
        BY <4>2, <4>3, <4>4, HeardInOrder
      <4> QED
        BY <4>2, <4>3, <4>5, <3>1, <2>0, Received
    <3>3. \A n \in (Len(answers') + 1)..(index - 1) :
            \E i \in DOMAIN channel' : Reply(i)' /\ channel'[i].page = n
      <4>1. SUFFICES ASSUME NEW n \in (Len(answers') + 1)..(index - 1)
                     PROVE  \E i \in DOMAIN channel' : Reply(i)' /\ channel'[i].page = n
        OBVIOUS
      <4>2. n \in (Len(answers) + 1)..(index - 1) /\ (Reply(1) => n # channel[1].page)
        BY HeardInOrder, Received
      <4>3. PICK i \in DOMAIN channel : Reply(i) /\ channel[i].page = n
        BY <4>2, Received DEF IInv, OrderInv
      <4>4. i # 1 /\ i - 1 \in DOMAIN channel' /\ (i - 1) + 1 = i
        BY <4>2, <4>3, <2>0, Received
      <4>5. channel'[i - 1] = channel[i] /\ Reply(i - 1)'
        BY <4>3, <4>4, <2>0, <3>1, Zenon
      <4> QED
        BY <4>3, <4>4, <4>5
    <3> QED
      BY <3>2, <3>3, <2>0, HeardInOrder DEF OrderInv
  <2>2. MessageInv' /\ BatchInv'
    BY <2>0, HeardInOrder, Received
    DEF IInv, BatchInv, WorkerInv, DoneMeansAnswered, StrictBatchesAreWhole, StartupIsWatched,
        NextPhase, Phases, StartInv
  <2>3. EndInv'
    BY <2>0, Received DEF IInv, EndInv
  <2>4. StrictInv'
    <3>1. SUFFICES ASSUME options.strict PROVE StrictInv'
      BY <2>0 DEF StrictInv
    <3>2. \A i \in DOMAIN answers' : answers'[i].type = "page-error" =>
            \/ i \in DOMAIN answers /\ answers[i].type = "page-error"
            \/ 1 \in DOMAIN channel /\ channel[1].type = "page-error"
      BY HeardInOrder, Received
    <3>3. \A i \in DOMAIN channel' : channel'[i].type = "page-error" =>
            \E j \in DOMAIN channel : channel[j].type = "page-error"
      BY <2>0
    <3> QED
      BY <3>1, <3>2, <3>3, <2>0 DEF IInv, StrictInv
  <2>5. StartInv'
    BY <2>0, Received DEF IInv, StartInv, NextPhase, Phases
  <2> QED
    BY <2>1, <2>2, <2>3, <2>4, <2>5 DEF IInv
<1> QED
  BY <1>1, <1>2, <1>3

-----------------------------------------------------------------------------
(* The theorem.                                                            *)

LEMMA InitIInv == Init => IInv
<1> SUFFICES ASSUME Init PROVE IInv
  OBVIOUS
<1>1. channel = <<>> /\ answers = <<>> /\ DOMAIN channel = {} /\ DOMAIN answers = {}
      /\ Len(answers) = 0 /\ channel \in Seq(Messages) /\ answers \in Seq(Messages)
  BY DEF Init
<1>2. MessageInv /\ OrderInv /\ EndInv /\ StrictInv /\ StartInv
  BY <1>1, BatchSizeAssumption
  DEF Init, MessageInv, OrderInv, EndInv, StrictInv, StartInv
<1>3. BatchInv
  BY <1>1, BatchSizeAssumption
  DEF Init, BatchInv, WorkerInv, AnswersInOrder, DoneMeansAnswered, StrictBatchesAreWhole,
      StartupIsWatched, Phases
<1> QED
  BY <1>2, <1>3 DEF IInv

LEMMA StepIInv == IInv /\ [Next]_vars => IInv'
<1> SUFFICES ASSUME IInv, [Next]_vars PROVE IInv'
  OBVIOUS
<1>1. CASE Boot \/ LoadEngine \/ StartPage \/ FinishWorker
  BY <1>1, NoticeSteps
<1>2. CASE AnswerPage \/ FailPage
  BY <1>2, ReplySteps
<1>3. CASE ExtractPage \/ PageThrows
  BY <1>3, PageSteps
<1>4. CASE Reject \/ StartupTimesOut \/ Abort
  BY <1>4, GivingUpSteps
<1>5. CASE Receive
  BY <1>5, ReceiveStep
<1>6. CASE UNCHANGED vars
  BY <1>6 DEF vars, pageVars, workerVars, IInv, MessageInv, BatchInv, OrderInv, EndInv,
      StrictInv, StartInv, WorkerInv, AnswersInOrder, DoneMeansAnswered,
      StrictBatchesAreWhole, StartupIsWatched, Reply
<1> QED
  BY <1>1, <1>2, <1>3, <1>4, <1>5, <1>6 DEF Next

\* A batch answers for its pages in order and completely, under a watch that closes
\* when the worker has started, whatever is posted, heard, rejected or aborted, and
\* however many pages it has (self.onmessage of extract-worker.js, runBatch of app.js).
THEOREM BatchesAnswer == Spec => []BatchInv
<1>1. IInv => BatchInv
  BY DEF IInv
<1> QED
  BY InitIInv, StepIInv, <1>1, PTL DEF Spec

-----------------------------------------------------------------------------
(* The contents of the pages.                                              *)

ContentsInv ==
    /\ options \in Settings
    /\ stage = "none" => entries = <<>> /\ ~preserveSourcePage /\ ~ocrApplied
    /\ stage # "none" => OpenInv

LEMMA PageUntouched ==
    ASSUME ContentsInv, UNCHANGED <<options, pageVars>>
    PROVE  ContentsInv'
<1>1. /\ UNCHANGED <<page, options, entries, assets, given>>
      /\ UNCHANGED <<stage, ocrApplied, ocrConfident, preserveSourcePage,
                     sourcePageFallbackFailed, todo, recovered>>
  BY DEF pageVars
<1>2. /\ EntryInv' = EntryInv /\ ReadingInv' = ReadingInv /\ DamageInv' = DamageInv
      /\ TextInv' = TextInv
  BY <1>1, NothingAdded, PageKept DEF ReadingInv, DamageInv, TextInv
<1>3. LoopInv' = LoopInv
  <2>1. /\ \A t : ImageKept(t)' = ImageKept(t) /\ GraphicKept(t)' = GraphicKept(t)
        /\ \A c : CaptionKept(c)' = CaptionKept(c)
    BY <1>1, NothingAdded, PageKept DEF ImageKept, GraphicKept, CaptionKept, Wide
  <2> QED
    BY <1>1, <2>1, PageKept DEF LoopInv
<1>4. AnswerInv' = AnswerInv
  <2>1. /\ TextSurvives' = TextSurvives /\ PicturesSurvive' = PicturesSurvive
    BY <1>1, NothingAdded, PageKept DEF TextSurvives, PicturesSurvive, Answered, Wide
  <2>2. DamageIsNeverSilent' = DamageIsNeverSilent
    BY <1>1 DEF DamageIsNeverSilent, Answered
  <2>3. OneReading' = OneReading
    BY <1>1, NothingAdded, PageKept DEF OneReading, Answered, Texts
  <2>4. MarkersHavePictures' = MarkersHavePictures
    BY <1>1 DEF MarkersHavePictures, Answered
  <2> QED
    BY <2>1, <2>2, <2>3, <2>4 DEF AnswerInv
<1>5. OpenInv' = OpenInv
  BY <1>1, <1>2, <1>3, <1>4 DEF OpenInv
<1> QED
  BY <1>1, <1>5 DEF ContentsInv

LEMMA PageClosed ==
    ASSUME ContentsInv, ClosePage, UNCHANGED options
    PROVE  ContentsInv'
  BY DEF ContentsInv, ClosePage

LEMMA StepContentsInv == ContentsInv /\ [Next]_vars => ContentsInv'
<1> SUFFICES ASSUME ContentsInv, [Next]_vars PROVE ContentsInv'
  OBVIOUS
<1>1. CASE Boot \/ LoadEngine \/ FinishWorker \/ UNCHANGED vars
  BY <1>1, PageUntouched DEF Boot, LoadEngine, FinishWorker, vars
<1>2. CASE StartPage
  <2>1. \E p \in Contents : OpenPage(p)
    BY <1>2 DEF StartPage
  <2>2. options' \in Settings /\ stage' # "none"
    BY <1>2 DEF StartPage, OpenPage, ContentsInv
  <2> QED
    BY <2>1, <2>2, OpenPageOpens DEF ContentsInv
<1>3. CASE ExtractPage
  <2>1. stage # "none"
    BY <1>3 DEF ExtractPage, PageStep, Read, DetectTable, Recognise, RecogniseFails,
           SkipRecognition, FormulaImages, ReadBlocks, KeepImages, KeepGraphics,
           KeepCandidates, PreservePage
  <2>2. OpenInv'
    BY <1>3, <2>1, PageStepKeeps DEF ExtractPage, ContentsInv
  <2> QED
    BY <1>3, <2>1, <2>2, StageStays DEF ExtractPage, ContentsInv
<1>4. CASE PageThrows
  <2>1. /\ stage = "read" /\ stage' = "failed"
        /\ UNCHANGED <<page, options, entries, assets, given, recovered>>
        /\ UNCHANGED <<ocrApplied, ocrConfident, preserveSourcePage>>
    BY <1>4 DEF PageThrows
  <2>2. OpenInv
    BY <2>1 DEF ContentsInv
  <2>3. EntryInv'
    BY <2>1, <2>2, NothingAdded DEF OpenInv
  <2>4. ReadingInv'
    BY <2>1, <2>2, NothingAdded, PageKept DEF OpenInv, ReadingInv
  <2>5. DamageInv'
    BY <2>1, <2>2, PageKept DEF OpenInv, DamageInv
  <2>6. TextInv' /\ LoopInv' /\ AnswerInv'
    BY <2>1, NotYetAnswered DEF TextInv, LoopInv, Later
  <2> QED
    BY <2>1, <2>2, <2>3, <2>4, <2>5, <2>6 DEF ContentsInv, OpenInv, Stages
<1>5. CASE AnswerPage \/ FailPage \/ Reject \/ StartupTimesOut \/ Abort
  BY <1>5, PageClosed DEF AnswerPage, FailPage, Reject, StartupTimesOut, Abort, Finish
<1>6. CASE Receive
  <2>1. \/ Finish("done") \/ Finish("failed") \/ UNCHANGED pageVars
    BY <1>6 DEF Receive
  <2> QED
    BY <1>6, <2>1, PageClosed, PageUntouched DEF Receive, Finish
<1> QED
  BY <1>1, <1>2, <1>3, <1>4, <1>5, <1>6 DEF Next

\* What a page holds is in its answer once, as text or as a picture, or its loss is
\* told, for every content of the page, every setting and whatever crops fail and
\* recognisers say (pageMarkdown of extract-worker.js).
THEOREM ContentsOfPagesArrive == Spec => []ContentsArrive
<1>1. Init => ContentsInv
  BY DEF Init, ContentsInv
<1>2. ContentsInv => ContentsArrive
  <2> SUFFICES ASSUME ContentsInv PROVE ContentsArrive
    OBVIOUS
  <2>1. CASE stage = "none"
    BY <2>1 DEF ContentsInv, ContentsArrive, PageInv, TextSurvives, PicturesSurvive,
           OneReading, MarkersHavePictures, DamageIsNeverSilent, Answered, Stages
  <2>2. CASE stage # "none"
    BY <2>2, OpenPagePromises DEF ContentsInv, ContentsArrive, AnswerInv
  <2> QED
    BY <2>1, <2>2
<1> QED
  BY <1>1, <1>2, StepContentsInv, PTL DEF Spec
=============================================================================
