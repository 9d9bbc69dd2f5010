---------------------------- MODULE FIFOWorkList ----------------------------
(***************************************************************************)
(* FIFOWorkList<Data> of include/Util/WorkList.h: the queue every solver   *)
(* of the project takes its next node from.  A deque keeps the order, a    *)
(* set answers find() and keeps push() from queueing an element twice.     *)
(* The two are separate members and every operation must touch both.       *)
(***************************************************************************)
EXTENDS Naturals, Sequences, SequencesExt

CONSTANT Data

VARIABLES data_set,   \* DataSet data_set
          data_list,  \* DataDeque data_list
          ret         \* what the last call returned

vars == <<data_set, data_list, ret>>

Empty == data_list = <<>>

Init == /\ data_set = {}
        /\ data_list = <<>>
        /\ ret = [op |-> "none"]

-----------------------------------------------------------------------------
(* Slips the properties below must reject. *)
Push_SetNotUpdated(d) ==   \* push() that queues but does not record
  /\ d \notin data_set
  /\ data_list' = Append(data_list, d)
  /\ ret' = [op |-> "push", of |-> d, new |-> TRUE]
  /\ UNCHANGED data_set

Pop_SetNotErased ==        \* pop() that leaves the element in the index
  /\ ~Empty
  /\ data_list' = Tail(data_list)
  /\ ret' = [op |-> "pop", of |-> Head(data_list)]
  /\ UNCHANGED data_set

Push_Front(d) ==           \* push() at the wrong end
  /\ d \notin data_set
  /\ data_list' = <<d>> \o data_list
  /\ data_set' = data_set \cup {d}
  /\ ret' = [op |-> "push", of |-> d, new |-> TRUE]
-----------------------------------------------------------------------------
(* push(): TRUE iff the element was not already in the list *)
Push(d) ==
  \/ /\ d \notin data_set
     /\ data_list' = Append(data_list, d)
     /\ data_set' = data_set \cup {d}
     /\ ret' = [op |-> "push", of |-> d, new |-> TRUE]
  \/ /\ d \in data_set
     /\ ret' = [op |-> "push", of |-> d, new |-> FALSE]
     /\ UNCHANGED <<data_set, data_list>>

(* pop() asserts that the list is not empty and takes its FRONT, as the    *)
(* comment of the class says (WorkList.h:123); that of the method says END.*)
Pop ==
  /\ ~Empty
  /\ LET d == Head(data_list) IN
       /\ data_list' = Tail(data_list)
       /\ data_set' = data_set \ {d}
       /\ ret' = [op |-> "pop", of |-> d]

Clear ==
  /\ data_list' = <<>>
  /\ data_set' = {}
  /\ ret' = [op |-> "clear"]

Next == (\E d \in Data : Push(d)) \/ Pop \/ Clear

Spec == Init /\ [][Next]_vars

-----------------------------------------------------------------------------
(* The set and the deque hold the same elements, each once. *)
IndexAgrees == /\ ToSet(data_list) = data_set
               /\ IsInjective(data_list)

TypeOK == /\ data_set \subseteq Data
          /\ data_list \in Seq(Data)

(* The promise clients rely on, which forgets the order: see WorkSet. *)
Abstract == INSTANCE WorkSet WITH members <- data_set

ImplementsWorkSet == Abstract!Spec

(* "First in first out" (WorkList.h:122-123): an element that waits moves  *)
(* only towards the front, unless the list is cleared, so nothing pushed   *)
(* later is popped before it.                                              *)
Position(l, d) == CHOOSE i \in DOMAIN l : l[i] = d

NoOvertaking ==
  [][\A d \in data_set \cap data_set' :
        Position(data_list', d) <= Position(data_list, d)]_vars
=============================================================================
