----------------------------- MODULE AndersenLCD -----------------------------
(***************************************************************************)
(* Lazy cycle detection (lib/WPA/AndersenLCD.cpp): a copy edge whose two   *)
(* ends turn out to have equal points-to sets suggests a cycle, and before *)
(* the next node is popped the strongly connected components reachable     *)
(* from the ends of such edges are merged.  The class overrides            *)
(* handleCopyGep, SCCDetect and mergeSrcToTgt; unlike Andersen's, its      *)
(* mergeSrcToTgt pushes the node it merges into.                           *)
(***************************************************************************)
EXTENDS Andersen

VARIABLES
  metEdges,       \* copy edges that have raised a candidate already
  lcdCandidates,  \* where the next SCC detection starts
  merging         \* <<n, r>>: merges mergeSccCycle still has to make

lcdVars == <<vars, metEdges, lcdCandidates, merging>>

LCDTypeOK ==
  /\ TypeOK
  /\ metEdges \in SUBSET (Node \X Node)
  /\ lcdCandidates \in SUBSET Node
  /\ merging \in SUBSET (Node \X Node)

LCDInit ==
  /\ Init
  /\ metEdges = {}
  /\ lcdCandidates = {}
  /\ merging = {}

-----------------------------------------------------------------------------
(* mergeSCC: every cycle visited from a candidate that still is a          *)
(* representative will be merged into its root, the member the depth-first *)
(* search entered first, which may be any member.                          *)
MergeSCC ==
  /\ pc = "solve"
  /\ worklist # {}
  /\ merging = {}
  /\ lcdCandidates # {}
  /\ lcdCandidates' = {}
  /\ \E cycles \in {SCCs({c \in lcdCandidates : rep[c] = c})} :
       \E root \in RootsOf(cycles) : merging' = MergesInto(root)
  /\ UNCHANGED vars
  /\ UNCHANGED metEdges

(* Re-targeted edges are new edges, which no longer count as met. *)
ForgetMovedEdges == metEdges' = metEdges \cap copyE'

(* Slip: the merged node is not pushed. *)
MergeNode_NotPushed ==
  /\ \E e \in merging :
       /\ MergeNodeToRep(e[1], e[2], pts)
       /\ merging' = merging \ {e}
  /\ ForgetMovedEdges
  /\ UNCHANGED <<prog, fi, fields>>
  /\ UNCHANGED <<control, lcdCandidates>>

MergeNode ==
  /\ \E e \in merging :
       /\ MergeNodeToRep(e[1], e[2], pts)
       /\ worklist' = worklist \cup {e[2]}
       /\ merging' = merging \ {e}
  /\ ForgetMovedEdges
  /\ UNCHANGED <<prog, fi, fields>>
  /\ UNCHANGED <<pc, cur, ptsQ, toCollapse, collapsing, fieldQ, callgraph,
                 connectQ, reanalyze>>
  /\ UNCHANGED lcdCandidates

LCDPop ==
  /\ merging = {}
  /\ lcdCandidates = {}
  /\ Pop
  /\ UNCHANGED <<metEdges, lcdCandidates, merging>>

(* handleCopyGep: a successor with the same points-to set as cur becomes a *)
(* candidate, once per edge; then the differences are propagated.          *)
LCDHandleCopyGep ==
  /\ pc = "copygep"
  /\ LET suspects == {e \in copyE \ metEdges :
                        e[1] = cur /\ pts[cur] # {} /\ pts[e[2]] = pts[cur]}
     IN /\ metEdges' = metEdges \cup suspects
        /\ lcdCandidates' = lcdCandidates \cup {e[2] : e \in suspects}
  /\ HandleCopyGep
  /\ UNCHANGED merging

LCDCollapse ==
  /\ Collapse(TRUE)
  /\ ForgetMovedEdges
  /\ UNCHANGED <<lcdCandidates, merging>>

LCDOther ==
  /\ \/ StartNode("loadstore") \/ ProcessLoadStore \/ EndLoadStore("copygep")
     \/ EndNode \/ OnTheFlyCallGraph \/ Terminated
  /\ UNCHANGED <<metEdges, lcdCandidates, merging>>

LCDNext == \/ MergeSCC \/ MergeNode
           \/ LCDPop \/ LCDCollapse \/ LCDHandleCopyGep \/ LCDOther

LCDSpec == LCDInit /\ [][LCDNext]_lcdVars /\ WF_lcdVars(LCDNext)
=============================================================================
