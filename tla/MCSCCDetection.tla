--------------------------- MODULE MCSCCDetection ---------------------------
(***************************************************************************)
(* SCCDetection on all the graphs of a set of nodes, find() being called   *)
(* with any of the nodes as candidates.                                    *)
(***************************************************************************)
EXTENDS SCCDetection

MCGraphs == SUBSET (Node \X Node)

MCCandidateSets == {C \in SUBSET Node : C # {}}
=============================================================================
