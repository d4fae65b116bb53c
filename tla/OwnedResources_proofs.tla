----------------------- MODULE OwnedResources_proofs -----------------------
(***************************************************************************)
(* What OwnedResources promises follows from its steps, for any kinds and  *)
(* ids, however often something is created, lost and deleted.              *)
(***************************************************************************)
EXTENDS OwnedResources, TLAPS

TypeInv ==
    /\ issued \in [Kinds -> SUBSET Ids]
    /\ existing \in [Kinds -> SUBSET Ids]
    /\ recorded \in [Kinds -> Ids \cup {None}]

\* The functions keep their domains.
LEMMA Typed == Spec => []TypeInv
<1>1. Init => TypeInv
  BY DEF Init, TypeInv
<1>2. TypeInv /\ [Next]_vars => TypeInv'
  BY DEF TypeInv, Next, vars, Create, Record, Delete, Close
<1> QED
  BY <1>1, <1>2, PTL DEF Spec

\* What is gone is not created again, for a kind that the object names: once
\* the object is removed, nothing that it named exists, nor ever will.
THEOREM CleanForGood == Spec => []ClosedClean
<1>1. Init => ClosedClean
  BY DEF Init, ClosedClean
<1>2. TypeInv /\ ClosedClean /\ [Next]_vars => ClosedClean'
  <2> SUFFICES ASSUME TypeInv, ClosedClean, [Next]_vars PROVE ClosedClean'
    OBVIOUS
  <2>1. CASE \E k \in Kinds : Delete(k)
    BY <2>1 DEF Delete, TypeInv, ClosedClean
  <2>2. CASE \/ Record \/ \E k \in Kinds, id \in Ids : Create(k, id)
    BY <2>2 DEF Record, Create, ClosedClean
  <2>3. CASE Close \/ UNCHANGED vars
    BY <2>3 DEF Close, vars, ClosedClean
  <2> QED
    BY <2>1, <2>2, <2>3 DEF Next
<1> QED
  BY <1>1, <1>2, Typed, PTL DEF Spec

\* With Unique a resource whose id was lost is never doubled.
THEOREM OneOfAKind == Spec => []NeverTwo
<1>1. Init => NeverTwo
  BY DEF Init, NeverTwo
<1>2. TypeInv /\ NeverTwo /\ [Next]_vars => NeverTwo'
  BY DEF TypeInv, NeverTwo, AtMostOne, Next, vars, Create, Record, Delete,
         Close
<1> QED
  BY <1>1, <1>2, Typed, PTL DEF Spec

\* No recorded id is swapped or forgotten in a step.
IdsKept == \A k \in Kinds : recorded[k] # None => recorded'[k] = recorded[k]

\* What the object names was handed out by the cloud.
HandedOut == \A k \in Kinds : recorded[k] \in issued[k] \cup {None}

\* An id, once recorded, is neither swapped nor forgotten, and what the object
\* names was handed out by the cloud.
THEOREM NeverSwapped == Spec => [][IdsKept]_vars /\ []HandedOut
<1>1. Init => HandedOut
  BY DEF Init, HandedOut
<1>2. TypeInv /\ [Next]_vars => [IdsKept]_vars
  BY DEF TypeInv, IdsKept, Next, vars, Create, Record, Delete, Close
<1>3. TypeInv /\ HandedOut /\ [Next]_vars => HandedOut'
  BY DEF TypeInv, HandedOut, Next, vars, Create, Record, Delete, Close
<1> QED
  BY <1>1, <1>2, <1>3, Typed, PTL DEF Spec
=============================================================================
