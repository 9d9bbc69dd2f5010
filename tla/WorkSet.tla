------------------------------- MODULE WorkSet -------------------------------
(***************************************************************************)
(* What a client of a work list of include/Util/WorkList.h may rely on:    *)
(* a set of distinct elements, a push() that says whether the element is   *)
(* new and a pop() that removes and returns some element.  The solver      *)
(* modules use the work list at this level, so what they show holds for    *)
(* every order of popping.                                                 *)
(***************************************************************************)
CONSTANT Data

VARIABLES members, ret

Init == members = {} /\ ret = [op |-> "none"]

Push(d) == /\ members' = members \cup {d}
           /\ ret' = [op |-> "push", of |-> d, new |-> d \notin members]

Pop(d) == /\ d \in members
          /\ members' = members \ {d}
          /\ ret' = [op |-> "pop", of |-> d]

Clear == members' = {} /\ ret' = [op |-> "clear"]

Next == \/ \E d \in Data : Push(d) \/ Pop(d)
        \/ Clear

Spec == Init /\ [][Next]_<<members, ret>>
=============================================================================
