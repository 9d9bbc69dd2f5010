--------------------------- MODULE MCAndersenLCD ---------------------------
(***************************************************************************)
(* AndersenLCD on the small programs of MCPrograms.                        *)
(***************************************************************************)
EXTENDS AndersenLCD, MCPrograms
=============================================================================
