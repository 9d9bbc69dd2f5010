------------------------- MODULE FIFOWorkListProofs -------------------------
(***************************************************************************)
(* For every set Data: the set and the deque of a FIFOWorkList agree in    *)
(* every reachable state, and the class implements WorkSet.                *)
(***************************************************************************)
EXTENDS FIFOWorkList, TLAPS

Inv == TypeOK /\ IndexAgrees

LEMMA InitInv == Init => Inv
BY DEF Init, Inv, TypeOK, IndexAgrees, ToSet, IsInjective

LEMMA PushInv == ASSUME Inv, NEW d \in Data, Push(d) PROVE Inv'
<1>1. CASE d \in data_set
  BY <1>1 DEF Inv, TypeOK, IndexAgrees, Push
<1>2. CASE d \notin data_set
  <2>1. /\ data_list' = Append(data_list, d)
        /\ data_set' = data_set \cup {d}
    BY <1>2 DEF Push
  <2>2. TypeOK'
    BY <2>1 DEF Inv, TypeOK
  <2>3. ToSet(data_list') = data_set'
    BY <2>1 DEF Inv, TypeOK, IndexAgrees, ToSet
  <2>4. IsInjective(data_list')
    BY <1>2, <2>1 DEF Inv, TypeOK, IndexAgrees, ToSet, IsInjective
  <2> QED BY <2>2, <2>3, <2>4 DEF Inv, IndexAgrees
<1> QED BY <1>1, <1>2

LEMMA PopInv == ASSUME Inv, Pop PROVE Inv'
<1> DEFINE d == Head(data_list)
<1>1. /\ data_list # <<>>
      /\ data_list' = Tail(data_list)
      /\ data_set' = data_set \ {d}
  BY DEF Pop, Empty
<1>2. TypeOK'
  BY <1>1 DEF Inv, TypeOK
<1>3. /\ Len(data_list) \in Nat \ {0}
      /\ Len(data_list') = Len(data_list) - 1
      /\ \A i \in 1 .. Len(data_list') : data_list'[i] = data_list[i + 1]
      /\ d = data_list[1]
  BY <1>1 DEF Inv, TypeOK
<1>4. IsInjective(data_list')
  BY <1>1, <1>3 DEF Inv, TypeOK, IndexAgrees, IsInjective
<1>5. ToSet(data_list') = data_set'
  <2>1. \A i \in DOMAIN data_list' : data_list'[i] \in data_set'
    BY <1>1, <1>3 DEF Inv, TypeOK, IndexAgrees, IsInjective, ToSet
  <2>2. ASSUME NEW x \in data_set' PROVE \E i \in DOMAIN data_list' : data_list'[i] = x
    <3>1. PICK j \in DOMAIN data_list : data_list[j] = x
      BY <1>1, <2>2 DEF Inv, IndexAgrees, ToSet
    <3>2. j # 1 /\ j - 1 \in 1 .. Len(data_list')
      BY <1>1, <1>3, <2>2, <3>1 DEF Inv, TypeOK
    <3>3. data_list'[j - 1] = x
      BY <1>3, <3>1, <3>2 DEF Inv, TypeOK
    <3> QED BY <1>1, <1>2, <3>2, <3>3 DEF TypeOK
  <2> QED BY <2>1, <2>2 DEF ToSet
<1> QED BY <1>2, <1>4, <1>5 DEF Inv, IndexAgrees

LEMMA NextInv == ASSUME Inv, [Next]_vars PROVE Inv'
<1>1. CASE \E d \in Data : Push(d) BY <1>1, PushInv
<1>2. CASE Pop BY <1>2, PopInv
<1>3. CASE Clear
  BY <1>3 DEF Clear, Inv, TypeOK, IndexAgrees, ToSet, IsInjective
<1>4. CASE UNCHANGED vars
  BY <1>4 DEF vars, Inv, TypeOK, IndexAgrees
<1> QED BY <1>1, <1>2, <1>3, <1>4 DEF Next

LEMMA Invariance == Spec => []Inv
<1>1. Inv /\ [Next]_vars => Inv' BY NextInv
<1> QED BY InitInv, <1>1, PTL DEF Spec

(* The deque and the set never disagree, however push, pop and clear       *)
(* interleave: find() tells the truth and no element is queued twice.      *)
THEOREM IndexAlwaysAgrees == Spec => []IndexAgrees
<1>1. Inv => IndexAgrees BY DEF Inv
<1> QED BY Invariance, <1>1, PTL

-----------------------------------------------------------------------------
(* The work list is a WorkSet: push() and pop() of the class do to the set *)
(* and answer what those of WorkSet do, for some element popped.           *)
LEMMA StepImplements ==
  ASSUME Inv, [Next]_vars PROVE [Abstract!Next]_<<data_set, ret>>
<1>1. ASSUME NEW d \in Data, Push(d) PROVE Abstract!Push(d)
  <2>1. CASE d \in data_set
    BY <1>1, <2>1 DEF Push, Abstract!Push
  <2>2. CASE d \notin data_set
    BY <1>1, <2>2 DEF Push, Abstract!Push
  <2> QED BY <2>1, <2>2
<1>2. ASSUME Pop PROVE \E d \in Data : Abstract!Pop(d)
  <2> DEFINE d == Head(data_list)
  <2>1. 1 \in DOMAIN data_list /\ d = data_list[1]
    BY <1>2 DEF Pop, Empty, Inv, TypeOK
  <2>2. d \in data_set /\ d \in Data
    BY <2>1 DEF Inv, TypeOK, IndexAgrees, ToSet
  <2>3. data_set' = data_set \ {d} /\ ret' = [op |-> "pop", of |-> d]
    BY <1>2 DEF Pop
  <2> QED BY <2>2, <2>3 DEF Abstract!Pop
<1>3. ASSUME Clear PROVE Abstract!Clear
  BY <1>3 DEF Clear, Abstract!Clear
<1>4. CASE UNCHANGED vars
  BY <1>4 DEF vars
<1> QED BY <1>1, <1>2, <1>3, <1>4 DEF Next, Abstract!Next

(* What a client may rely on, it gets: every behaviour of the work list is *)
(* one of the abstract set that the solver modules use.                    *)
THEOREM WorkListImplementsWorkSet == Spec => ImplementsWorkSet
<1>1. Init => Abstract!Init
  BY DEF Init, Abstract!Init
<1>2. Inv /\ [Next]_vars => [Abstract!Next]_<<data_set, ret>>
  BY StepImplements
<1> QED BY Invariance, <1>1, <1>2, PTL DEF Spec, ImplementsWorkSet, Abstract!Spec

-----------------------------------------------------------------------------
(* Where an element waits is well defined, as it waits only once. *)
LEMMA PositionIs ==
  ASSUME NEW l, IsInjective(l), NEW i \in DOMAIN l
  PROVE  Position(l, l[i]) = i
BY DEF Position, IsInjective

LEMMA StepKeepsOrder ==
  ASSUME Inv, Inv', [Next]_vars, NEW d \in data_set \cap data_set'
  PROVE  Position(data_list', d) <= Position(data_list, d)
<1>1. PICK i \in DOMAIN data_list : data_list[i] = d
  BY DEF Inv, IndexAgrees, ToSet
<1>2. Position(data_list, d) = i
  BY <1>1, PositionIs DEF Inv, IndexAgrees
<1>3. Len(data_list) \in Nat /\ i \in 1 .. Len(data_list)
  BY <1>1 DEF Inv, TypeOK
<1>4. ASSUME NEW j \in DOMAIN data_list', data_list'[j] = d, j <= i
      PROVE  Position(data_list', d) <= Position(data_list, d)
  <2>1. Position(data_list', d) = j
    BY <1>4, PositionIs DEF Inv, IndexAgrees
  <2> QED BY <1>2, <1>4, <2>1
<1>5. CASE \E c \in Data : Push(c)
  <2>1. PICK c \in Data : Push(c)
    BY <1>5
  <2>2. CASE data_list' = Append(data_list, c)
    <3>1. i \in DOMAIN data_list' /\ data_list'[i] = d /\ i <= i
      BY <1>1, <1>3, <2>2 DEF Inv, TypeOK
    <3> QED BY <1>4, <3>1
  <2>3. CASE UNCHANGED data_list
    BY <1>1, <1>3, <1>4, <2>3
  <2> QED BY <2>1, <2>2, <2>3 DEF Push
<1>6. CASE Pop
  <2>1. /\ data_list # <<>> /\ data_list' = Tail(data_list)
        /\ data_set' = data_set \ {data_list[1]}
    BY <1>6 DEF Pop, Empty, Inv, TypeOK
  <2>2. i # 1
    BY <1>1, <2>1
  <2>3. /\ i - 1 \in DOMAIN data_list' /\ data_list'[i - 1] = d /\ i - 1 <= i
    BY <1>1, <1>3, <2>1, <2>2 DEF Inv, TypeOK
  <2> QED BY <1>4, <2>3
<1>7. CASE Clear
  BY <1>7 DEF Clear
<1>8. CASE UNCHANGED vars
  BY <1>1, <1>3, <1>4, <1>8 DEF vars
<1> QED BY <1>5, <1>6, <1>7, <1>8 DEF Next

(* pop() is fair to what waits: an element only moves towards the front.   *)
THEOREM NothingOvertakes == Spec => NoOvertaking
<1> DEFINE Ordered == \A d \in data_set \cap data_set' :
                        Position(data_list', d) <= Position(data_list, d)
<1>1. Inv /\ Inv' /\ [Next]_vars => [Ordered]_vars
  BY StepKeepsOrder
<1>2. Spec => [][Ordered]_vars
  BY Invariance, <1>1, PTL DEF Spec
<1> QED BY <1>2 DEF NoOvertaking
=============================================================================
