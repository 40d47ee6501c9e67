------------------------- MODULE MCExtractionSession -------------------------
(***************************************************************************)
(* The extraction session for TLC: a user who clicks a bounded number of   *)
(* times.  The start of an extraction counts as many clicks as it wants    *)
(* pages, so that short sequences of clicks are taken with more to extract *)
(* and long ones with less.                                                *)
(***************************************************************************)
EXTENDS ExtractionSession

CONSTANT MaxClicks

VARIABLE clicks

\* A session that begins with the last version is like one with a single version.
MCInit ==
    /\ Init
    /\ version = 1
    /\ clicks = 0

\* The PDFs take the same part in it, so one of them is the first to be opened.
FirstPdf == CHOOSE d \in Docs : TRUE

Click ==
    /\ NothingDue
    /\ UserStep
    /\ clicks' = clicks + IF latest' = latest THEN 1 ELSE Cardinality(run'[latest'].wanted)
    /\ clicks' <= MaxClicks
    /\ clicks = 0 => doc' = FirstPdf

MCNext ==
    \/ Click
    \/ (\E a \in Runs : RunStep(a)) /\ UNCHANGED clicks
    \/ (DatabaseStep \/ (NothingDue /\ OpenStep)) /\ UNCHANGED clicks

MCSpec == MCInit /\ [][MCNext]_<<vars, clicks>> /\ Fairness
=============================================================================
