------------------------- MODULE MCAndersenWaveDiff ---------------------------
(***************************************************************************)
(* AndersenWaveDiff on the small programs of MCPrograms.                        *)
(***************************************************************************)
EXTENDS AndersenWaveDiff, MCPrograms
=============================================================================
