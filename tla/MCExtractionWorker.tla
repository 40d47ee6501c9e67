------------------------- MODULE MCExtractionWorker -------------------------
(* Small instances of the extraction worker for TLC: the pages and options  *)
(* below bring every stage of a page to each of its outcomes.               *)
EXTENDS ExtractionWorker

Of(kind, band, col, caption) == [kind |-> kind, at |-> <<band, col>>, caption |-> caption]

\* A page with a table, a formula, a page number and an image beside a drawing.
Rich(table) == [NoPage EXCEPT
    !.table = table,
    !.blocks = <<Of("cell", 1, 1, "none"), Of("formula", 2, 1, "none"),
                 Of("number", 4, 1, "none")>>,
    !.images = <<Of("photo", 3, 1, "table")>>,
    !.graphics = <<Of("path", 1, 2, "none"), Of("path", 3, 2, "none")>>]

\* A page with a formula set as an image, a block that is a table, drawings, one of
\* them over the text, a small image and the scan of the page.
Drawn == [NoPage EXCEPT
    !.blocks = <<Of("prose", 1, 1, "none"), Of("grid", 2, 1, "none"),
                 Of("prose", 4, 1, "none")>>,
    !.images = <<Of("formula", 3, 1, "none"), Of("photo", 3, 2, "none"),
                 Of("tiny", 5, 1, "none"),
                 Of("scan", 0, 0, "none")>>,
    !.graphics = <<Of("path", 1, 1, "none"), Of("path", 6, 1, "figure")>>]

\* A scanned page: its text, a formula and a figure with a label are recognised.
Scanned(corrupt, caption) == [NoPage EXCEPT
    !.corrupt = corrupt, !.sparse = ~corrupt, !.table = "readable",
    !.blocks = IF corrupt THEN <<Of("prose", 1, 1, "none")>>
                          ELSE <<Of("cell", 1, 1, "none")>>,
    !.images = <<Of("scan", 0, 0, "none")>>,
    !.graphics = <<Of("path", 5, 1, "none")>>,
    !.lines = <<Of("line", 1, 1, "none"), Of("formula", 2, 1, "none"),
                Of("label", 3, 1, "none"), Of("caption", 3, 1, caption)>>]

\* Two drawings, the first captioned as a table.
TableDrawings == [NoPage EXCEPT
    !.graphics = <<Of("path", 1, 1, "table"), Of("path", 2, 1, "figure")>>]

SmallContents == {Rich("readable"), Rich("unclear"), Drawn, Scanned(TRUE, "table"),
                  Scanned(FALSE, "figure"), TableDrawings}

Default == [forceOcr |-> FALSE, useOcr |-> TRUE, preserveVisuals |-> TRUE,
            detectTables |-> TRUE, extractEquations |-> TRUE, flows |-> TRUE,
            strict |-> FALSE]
SmallSettings == {Default,
    [Default EXCEPT !.strict = TRUE, !.forceOcr = TRUE],
    [Default EXCEPT !.preserveVisuals = FALSE],
    [Default EXCEPT !.useOcr = FALSE, !.extractEquations = FALSE, !.flows = FALSE],
    [Default EXCEPT !.useOcr = FALSE, !.detectTables = FALSE]}
=============================================================================
