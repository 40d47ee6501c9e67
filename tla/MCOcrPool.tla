------------------------------ MODULE MCOcrPool ------------------------------
(* Small instances of the OCR pool for TLC.                                *)
EXTENDS OcrPool
=============================================================================
