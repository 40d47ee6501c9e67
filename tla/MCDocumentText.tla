--------------------------- MODULE MCDocumentText ---------------------------
(* Pages for TLC: a chapter that opens, running titles with a body that      *)
(* begins like them, two columns around a wide figure, drawings and listings, *)
(* formulas, a page of the Companion and pages that are missing or damaged.   *)
EXTENDS DocumentText

MCAcronyms == {"API", "BOX"}
MCCapitals == MCAcronyms \cup {"Acme", "Guide", "Chapter", "Figure", "Setup", "Tools"}
MCNumbers == {"1", "2", "3"}
MCStrokes == {"+--+", "|"}
MCSigns == {"="}
MCStops == {"done.", "b."}
MCOpeners == {"Chapter"}
MCHalves == {"inter-"}
MCHashes == [w \in {"#", "###"} |-> IF w = "#" THEN 1 ELSE 3]

Sound == [empty |-> FALSE, ocr |-> FALSE, corrupt |-> FALSE, unsaved |-> FALSE]
Raw(kind, level, layout, col, y, ls) ==
    [kind |-> kind, level |-> level, layout |-> layout, col |-> col, y |-> y, h |-> 1, lines |-> ls]
Para(y, words) == Raw("text", 0, "paragraph", "wide", y, <<words>>)
Titled(y, level, words) == Raw("text", level, "heading", "wide", y, <<words>>)
InCol(col, y, words) == Raw("text", 0, "paragraph", col, y, <<words>>)
Sheet(es, headers, footers) ==
    [from |-> "worker", failed |-> FALSE, entries |-> es,
     headers |-> headers, footers |-> footers, quality |-> Sound]

Title == <<"Acme", "Guide">>
OpeningPage == Sheet(<<Para(1, <<"Chapter", "2", "Acme", "Guide">>), Titled(5, 3, <<"Setup">>),
                  Para(6, <<"Tools">>), Para(12, <<"we", "read", "what", "is", "split">>)>>,
                <<<<"Chapter", "2", "Acme", "Guide">>>>, <<Title>>)
Running == Sheet(<<Para(1, <<"Acme", "Guide", "3">>), Para(6, <<"Acme", "Guide", "says", "it", "over">>),
                  Titled(10, 2, <<"Setup", "Tools">>), Para(14, <<"and", "the", "end", "done.">>),
                  Para(30, <<"3">>)>>,
                <<<<"Acme", "Guide", "3">>>>, <<<<"3">>>>)
Own == Sheet(<<Para(1, <<"Acme", "Guide", "Setup">>), Para(6, <<"over", "to", "an", "inter-">>),
              Titled(10, 2, <<"Setup", "Tools">>), Para(20, <<"end", "of", "it">>)>>,
            <<<<"Acme", "Guide", "Setup">>>>, <<<<"Acme", "Guide">>>>)
Columns == Sheet(<<InCol("left", 1, <<"left", "one">>), InCol("right", 1, <<"right", "one">>),
                  InCol("left", 3, <<"left", "two">>), InCol("right", 4, <<"right", "two">>),
                  [Raw("visual", 0, "figure", "wide", 6, <<<<"picture", "one">>>>) EXCEPT !.h = 3],
                  InCol("left", 7, <<"left", "beside">>),
                  Raw("text", 0, "caption", "wide", 10, <<<<"Figure", "1">>>>),
                  InCol("right", 13, <<"right", "three">>), InCol("left", 14, <<"left", "three">>),
                  Raw("visual", 0, "figure", "right", 18, <<<<"picture", "two">>>>)>>,
                <<>>, <<<<"Figure", "1">>>>)
Drawn == Sheet(<<Para(1, <<"Figure", "1">>), Para(5, <<"+--+", "BOX">>), Para(6, <<"API", "BOX">>),
                Para(7, <<"|", "API">>), Para(15, <<"x", "=", "y">>), Para(16, <<"inter-">>),
                Para(17, <<"next">>), Para(18, <<"y", "=", "inter-">>), Para(30, <<"API", "BOX">>)>>,
              <<<<"Figure", "1">>>>, <<<<"API", "BOX">>>>)
Labelled == Sheet(<<Titled(1, 1, <<"API", "BOX">>), Para(5, <<"+--+", "BOX">>),
                  Para(6, <<"#", "API", "BOX">>), Para(7, <<"###", "API">>), Para(8, <<"|", "API">>),
                  Titled(20, 4, <<"Setup">>), Para(25, <<"#", "over", "it">>)>>, <<>>, <<>>)
Equational == Sheet(<<Titled(1, 1, <<"Setup", "Tools">>),
                    Raw("equation", 0, "equation", "wide", 3, <<<<"x", "=", "y">>>>),
                    Raw("equation", 0, "equation", "wide", 4, <<<<"x", "=", "y">>>>),
                    Raw("equation", 0, "equation", "wide", 9,
                          <<<<"x", "=", "b.", "Acme", "has", "more">>>>),
                    Raw("equation", 0, "equation", "wide", 14,
                          <<<<"one", "two", "three", "four", "five", "six">>>>),
                    Para(20, <<"API", "BOX">>)>>,
                  <<>>, <<<<"API", "BOX">>>>)
Companion == [Sheet(<<Raw("text", 1, "none", "wide", 0, <<Title>>),
                     Raw("text", 0, "none", "wide", 0,
                           <<<<"text", "of", "an", "inter-">>, <<"nal", "page">>>>)>>, <<>>, <<>>)
              EXCEPT !.from = "companion", !.failed = TRUE]
Damaged == [Sheet(<<Para(4, <<"Acme", "Guide">>)>>, <<>>, <<>>)
            EXCEPT !.quality = [Sound EXCEPT !.ocr = TRUE, !.corrupt = TRUE, !.unsaved = TRUE]]
Missing == [Sheet(<<>>, <<>>, <<>>) EXCEPT !.from = "nobody"]
Failed == [Missing EXCEPT !.failed = TRUE]
MCSources == {OpeningPage, Running, Own, Columns, Drawn, Labelled, Equational, Companion, Damaged, Missing, Failed}

All == [flows |-> TRUE, removeHeaders |-> TRUE, removeFooters |-> TRUE, preserveMarkers |-> TRUE,
        detectHeadings |-> TRUE, joinParagraphs |-> TRUE, extractEquations |-> TRUE, partial |-> FALSE]
Bare == [flows |-> FALSE, removeHeaders |-> FALSE, removeFooters |-> FALSE, preserveMarkers |-> FALSE,
         detectHeadings |-> FALSE, joinParagraphs |-> FALSE, extractEquations |-> FALSE, partial |-> TRUE]
MCSettings == {All, Bare, [All EXCEPT !.preserveMarkers = FALSE],
               [All EXCEPT !.removeHeaders = FALSE, !.preserveMarkers = FALSE],
               [Bare EXCEPT !.removeHeaders = TRUE, !.preserveMarkers = TRUE]}
=============================================================================
