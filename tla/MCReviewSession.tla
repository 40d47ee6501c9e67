-------------------------- MODULE MCReviewSession --------------------------
(* Documents for TLC: an extracted one of two pages with equations and      *)
(* visuals, workspace files whose ids differ in case only, and Markdown     *)
(* files that put every kind of line next to every other.                   *)
EXTENDS ReviewSession

MCNames == {"a", "b", "c", "d", "x", "n", "1", "0"}
MCWords == {"Title", "one", "two", "three", "cell", "head", "code", "item", "p1-image", "p2-svg", "lost", "the", "Lemma", "of"}
MCIdOrder == <<"Eq-1", "eq-1", "p1-eq-1", "p1-eq-2", "p1-image", "p1-Image", "p2-eq-1", "p2-svg">>
MCSafeToken ==
    [id \in Range(MCIdOrder) |-> CASE id = "Eq-1" -> "eq-1" [] id = "p1-Image" -> "p1-image" [] OTHER -> id]

Words1(k, v) == <<Part(k, v)>>
Line(v) == Text(v)
Head1 == Words1("heading", <<"Title">>)
Row(v) == Words1("row", v)
Rule == Words1("rule", <<>>)
Dollar == Words1("dollar", <<>>)
Visual(id) == Part("visual", <<id>>)
Formula(f) == <<Dollar, Line(f), Dollar>>
Listing(tag, ls) == <<Words1("fence", tag)>> \o ls \o <<Words1("fence", <<tag[1]>>)>>
Table == <<Row(<<"|", "head", "|", "one", "|">>), Rule, Row(<<"|", "cell", "|", "two", "|">>),
           Row(<<"|", "three", "|">>)>>
Empty == <<BlankLine>>

Plain == <<"x", "^", "n", "=", "frac", "{", "a", "}", "{", "b", "+", "1", "}">>
Scripted2 == <<"a", "_", "n", "^", "{", "b", "c", "}", "+", "sqrt", "[", "n", "]", "{", "x", "}">>
Summed == <<"sum", "_", "{", "n", "=", "1", "}", "^", "c", "a", "_", "n">>
Integral == <<"int", "_", "0", "^", "1", "x", "d", "x">>
Delimited == <<"left", "(", "a", "right", ")", "+", "sin", "x">>
Hat == <<"hat", "{", "a", "}", "=", "b">>
Matrix == <<"begin", "{", "pmatrix", "}", "a", "&", "b", "linebreak", "c", "&", "d", "end", "{", "pmatrix", "}">>
Unknown == <<"a", "+", "foo", "b">>
Open == <<"frac", "{", "a", "}", "{", "b">>
Hanging == <<"a", "+">>
Alone == <<"x">>
\* Prose between dollar lines, each by another sign of it, and an equation with a sentence behind it.
Proofs == {<<"one", "the", "two", "three", "one", "two">>, <<"Lemma", "=", "a", ",", "the", "one">>,
           <<"of", "one", "=", "the", "two", "a">>, <<"a", "<", "b">>, <<"a", "+", "b", "+", "a", "+", "b", "+", "a", "+", "b", "+", "a", "+", "b">>}
Followed == <<"x", "=", "a", ".", "Title", "one">>
MCFormulas == {Alone, Unknown}

MCMarkdowns == {
    <<Head1, Empty, Line(<<"one">>), Line(<<"two">>), Empty, Words1("bullet", <<"item">>),
      Words1("numbered", <<"item">>), Words1("comment", <<"lost">>), Line(<<"three">>)>>,
    <<Line(<<"one">>)>> \o Table \o <<Line(<<"two">>)>> \o Table \o <<Head1>> \o Table,
    <<Row(<<"|", "cell", "|">>), Line(<<"one">>), Rule, Row(<<"|", "head", "|">>), Rule>>,
    <<<<PageMarker>>, Line(<<"one">>) \o <<PageMarker>> \o Text(<<"two">>), <<PageMarker>>,
      Line(<<"three">>) \o <<Visual("p1-image")>> \o Text(<<"one">>)>>,
    Listing(<<"~~", "mermaid">>, <<Line(<<"code">>), <<PageMarker>>, Dollar, Empty>>)
      \o Listing(<<"===">>, <<Line(<<"code">>), Line(<<"two">>) \o <<Visual("p1-image")>>>>) \o Formula(Plain),
    Listing(<<"~~", "js">>, Listing(<<"===">>, <<Line(<<"code">>)>>)) \o <<Line(<<"one">>), Words1("fence", <<"~~">>), Line(<<"lost">>)>>,
    Formula(Plain) \o <<Line(<<"one">>)>> \o Formula(Scripted2) \o Formula(Unknown) \o Formula(Summed),
    <<Line(<<"one">>)>> \o Formula(Integral) \o Formula(Delimited) \o Formula(Open) \o <<Line(<<"two">>)>>,
    Formula(Hat) \o Formula(Matrix) \o Formula(Hanging) \o <<Dollar, Line(Alone), <<PageMarker>>, Words1("comment", <<"lost">>), Empty, Line(Alone), Dollar>>,
    <<Line(<<"one">>), Dollar, Line(<<"a", "lost">>), <<PageMarker>>, Line(<<"b">>)>>,
    <<Words1("comment", <<"lost">>)>>,
    FlattenSeq([i \in 1 .. 5 |-> Formula(SetToSeq(Proofs)[i])]) \o Formula(Followed) \o Formula(Plain),
    <<Dollar, Head1, Dollar, Line(<<"one">>), Dollar, Line(Alone), <<Visual("p1-image")>>, Dollar>>,
    <<Dollar, Words1("fence", <<"~~">>), Line(Plain), <<PageMarker>>, Dollar>> \o Formula(Plain) \o <<Line(<<"two">>)>>,
    <<Words1("placeholder", <<"one">>), <<Visual("nobody")>>, Row(<<"|", "cell", "|">>), <<PageMarker>>>>
}
Edit1 == <<Head1, Line(<<"three">>)>>
MCTexts == {Edit1, Formula(Plain)}
MCMarkdownFiles == {Edit1}

Png(id) == Content("png", <<id>>)
Item(id, p, latex, d, ok) ==
    [id |-> id, page |-> p, source |-> id, latex |-> latex, disposition |-> d, mandatory |-> ok]
AssetAt(id, p, kind, mime) ==
    [id |-> id, source |-> id, sourceKind |-> kind, page |-> p, kind |-> kind, mime |-> mime,
     data |-> IF mime = "png" THEN Png(id) ELSE NoContent,
     svg |-> IF mime = "svg" THEN Content("svg", <<id>>) ELSE NoContent,
     ir |-> {"none"}, disposition |-> "preserved", latex |-> <<>>]
NodeOf(d, ls) == [lines |-> ls, disposition |-> d]
Page1 == [nodes |-> <<NodeOf("reconstructed", <<Head1>>), NodeOf("preserved-source", <<<<Visual("p1-image")>>>>),
                      NodeOf("reconstructed", Formula(Plain)), NodeOf("omitted-decoration", <<Line(<<"lost">>)>>)>>,
          assets |-> {AssetAt("p1-image", 1, "graphic", "png"),
                      [AssetAt("p1-eq-2", 1, "equation", "png") EXCEPT !.sourceKind = "raster"]},
          items |-> {Item("p1-eq-1", 1, Plain, "accepted", TRUE), Item("p1-eq-2", 1, Hanging, "review", FALSE)}]
Page2 == [nodes |-> <<NodeOf("reconstructed", Table), NodeOf("preserved-source", <<<<Visual("p2-svg")>>>>)>>,
          assets |-> {[AssetAt("p2-svg", 2, "diagram", "svg") EXCEPT !.ir = {"mermaid", "not-accepted"}]},
          items |-> {Item("p2-eq-1", 2, Summed, "review", TRUE)}]
Extracted == [pdf |-> "A.pdf", pages |-> (1 :> Page1) @@ (2 :> Page2),
              markdown |-> <<Head1, Line(<<"one">>)>>, steps |-> 0]
\* Equations without crops whose ids leave one token.
Alike == [pdf |-> "B.pdf", markdown |-> <<Head1>>, steps |-> 0,
          pages |-> (1 :> [nodes |-> <<>>, assets |-> {AssetAt("p1-image", 1, "graphic", "png")},
                           items |-> {Item("eq-1", 1, Plain, "review", TRUE)}])
                      @@ (2 :> [nodes |-> <<>>, assets |-> {}, items |-> {Item("Eq-1", 2, Alone, "accepted", TRUE)}])]
\* Pictures whose ids leave one token: there is no bundle of them.
Clashing == [pdf |-> "C.pdf", markdown |-> <<Head1>>, steps |-> 0,
             pages |-> 1 :> [nodes |-> <<>>, items |-> {},
                             assets |-> {AssetAt("p1-image", 1, "graphic", "png"), AssetAt("p1-Image", 1, "graphic", "png")}]]
Welcome == [pdf |-> "none", pages |-> NoPages, markdown |-> <<>>, steps |-> 0]
MCDocuments ==
    {Welcome, Extracted} \cup {[Welcome EXCEPT !.markdown = m, !.steps = MaxSteps - 1] : m \in MCMarkdowns}
MCForeignFiles == {Alike, Clashing}
=============================================================================
