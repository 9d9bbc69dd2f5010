----------------------------- MODULE MCAndersen -----------------------------
(***************************************************************************)
(* Andersen on the small programs of MCPrograms.                           *)
(***************************************************************************)
EXTENDS Andersen, MCPrograms
=============================================================================
