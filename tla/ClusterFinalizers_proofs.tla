---------------------- MODULE ClusterFinalizers_proofs ----------------------
(***************************************************************************)
(* Theorems about ClusterFinalizers, for every number of machines, of      *)
(* failures and of crashes.                                                *)
(*                                                                         *)
(* The types and the lists without duplicates hold whatever the constants  *)
(* are.  The rest needs conditions, each of which is a hypothesis of the   *)
(* theorem and one that TLC finds a counterexample without: copies of the  *)
(* UCloudCluster read fresh, machines created once the cluster is ready,   *)
(* and, for the registration of machines, names without dots or a cluster  *)
(* that is deleted after its machines.  The number of workers is not one   *)
(* of them: what concurrent writers do to a registration is in the         *)
(* theorems themselves.                                                    *)
(*                                                                         *)
(* The lemmas are about Step, which is a step of Next or a refusal, so     *)
(* that ClusterTeardown_proofs can use them.                               *)
(***************************************************************************)
EXTENDS ClusterFinalizers, FiniteSetTheorems, SequenceTheorems, TLAPS

\* Every element of s occurs once.
DupFree(s) == \A i, j \in 1..Len(s) : s[i] = s[j] => i = j

-----------------------------------------------------------------------------
(* Lists of finalizers.                                                    *)

\* AddFinalizer yields a list of names, without duplicates if there were none.
LEMMA AddFinalizerList ==
    ASSUME NEW fins \in Seq(Names), NEW name \in Names
    PROVE  /\ AddFinalizer(fins, name) \in Seq(Names)
           /\ DupFree(fins) => DupFree(AddFinalizer(fins, name))
<1>1. CASE name \in Range(fins)
  BY <1>1 DEF AddFinalizer
<1>2. CASE name \notin Range(fins)
  <2>1. \A i \in 1..Len(fins) : fins[i] # name
    BY <1>2 DEF Range
  <2>2. AddFinalizer(fins, name) = Append(fins, name)
    BY <1>2 DEF AddFinalizer
  <2> QED
    BY <2>1, <2>2 DEF DupFree
<1> QED
  BY <1>1, <1>2

\* RemoveFinalizer in place keeps the array a list of names of the same
\* length.
LEMMA ShiftedList ==
    ASSUME NEW array \in Seq(Names), NEW len \in Nat, len <= Len(array),
           NEW name
    PROVE  /\ Shifted(array, len, name) \in Seq(Names)
           /\ Len(Shifted(array, len, name)) = Len(array)
<1> DEFINE n == Len(array)
<1>1. n \in Nat /\ array \in [1..n -> Names]
  OBVIOUS
<1>2. Shifted(array, len, name) \in [1..n -> Names]
  BY <1>1 DEF Shifted
<1> QED
  BY <1>1, <1>2, SeqDef

\* The part of the array that is the list after RemoveFinalizer has no
\* duplicates when it had none before.
LEMMA RemovedDupFree ==
    ASSUME NEW array \in Seq(Names), NEW len \in Nat, len <= Len(array),
           NEW name,
           \A i, j \in 1..len : array[i] = array[j] => i = j
    PROVE  LET new == Shifted(array, len, name)
               k == IF Holds(array, len, name) THEN len - 1 ELSE len
           IN  \A i, j \in 1..k : new[i] = new[j] => i = j
<1> DEFINE new == Shifted(array, len, name)
<1> DEFINE Found1(k) == \E i \in 1..k : array[i] = name
<1>1. \A k \in 1..Len(array) :
        new[k] = IF k < len /\ Found1(k) THEN array[k + 1] ELSE array[k]
  BY DEF Shifted
<1> HIDE DEF new
<1>2. CASE ~Holds(array, len, name)
  <2>1. \A k \in 1..len : ~Found1(k)
    BY <1>2 DEF Holds
  <2>2. \A k \in 1..len : new[k] = array[k]
    <3> SUFFICES ASSUME NEW k \in 1..len PROVE new[k] = array[k]
      OBVIOUS
    <3>1. k \in 1..Len(array)
      OBVIOUS
    <3>2. ~Found1(k)
      BY <2>1
    <3> QED
      BY <3>1, <3>2, <1>1
  <2> QED
    BY <1>2, <2>2 DEF new
<1>3. CASE Holds(array, len, name)
  <2>1. \A i, j \in 1..(len - 1) : i <= j /\ Found1(i) => Found1(j)
    OBVIOUS
  <2>2. \A i \in 1..(len - 1) : ~Found1(i) => array[i] # name
    OBVIOUS
  <2>3. \A i, j \in 1..(len - 1) : i < j => new[i] # new[j]
    <3> SUFFICES ASSUME NEW i \in 1..(len - 1), NEW j \in 1..(len - 1), i < j
                 PROVE  new[i] # new[j]
      OBVIOUS
    <3>1. CASE Found1(i)
      BY <3>1, <2>1, <1>1
    <3>2. CASE ~Found1(i) /\ Found1(j)
      BY <3>2, <1>1
    <3>3. CASE ~Found1(i) /\ ~Found1(j)
      BY <3>3, <1>1
    <3> QED
      BY <3>1, <3>2, <3>3
  <2> QED
    BY <1>3, <2>3 DEF new
<1> QED
  BY <1>2, <1>3

\* The finalizers of the cluster reconcile's copy are a list of names.
LEMMA HeldList ==
    ASSUME NEW rec \in ClusterReconciles, rec.len <= Len(rec.array)
    PROVE  /\ Held(rec) \in Seq(Names)
           /\ Len(Held(rec)) = rec.len
           /\ \A i \in 1..rec.len : Held(rec)[i] = rec.array[i]
BY DEF Held, ClusterReconciles

\* RemoveFinalizer on the copy of the cluster reconcile.
LEMMA RemovedReconcile ==
    ASSUME NEW rec \in ClusterReconciles, rec.len <= Len(rec.array), NEW name,
           NEW pc \in ClusterSteps, NEW next \in Nat, NEW new,
           new = [rec EXCEPT !.pc = pc, !.next = next,
                             !.array = Shifted(@, rec.len, name),
                             !.len = IF Holds(rec.array, @, name)
                                     THEN @ - 1 ELSE @]
    PROVE  new \in ClusterReconciles /\ new.len <= Len(new.array)
<1> DEFINE array == Shifted(rec.array, rec.len, name)
<1> DEFINE len == IF Holds(rec.array, rec.len, name)
                  THEN rec.len - 1 ELSE rec.len
<1>1. array \in Seq(Names) /\ Len(array) = Len(rec.array)
  BY ShiftedList DEF ClusterReconciles
<1>2. len \in Nat /\ len <= Len(rec.array)
  BY DEF Holds, ClusterReconciles
<1>3. new = [rec EXCEPT !.pc = pc, !.next = next, !.array = array,
                        !.len = len]
  OBVIOUS
<1> HIDE DEF array, len
<1> QED
  BY <1>1, <1>2, <1>3 DEF ClusterReconciles

\* The state of a reconciler between two reconciles.
LEMMA IdleReconciles ==
    /\ NoMachineReconcile \in MachineReconciles
    /\ NoClusterReconcile \in ClusterReconciles
    /\ NoClusterReconcile.len <= Len(NoClusterReconcile.array)
BY DEF NoMachineReconcile, MachineReconciles, MachineSteps,
       NoClusterReconcile, ClusterReconciles, ClusterSteps

\* What a patch leaves in the API server.
LEMMA PatchedObject ==
    ASSUME cluster \in Objects, NEW before \in Seq(Names),
           NEW after \in Seq(Names)
    PROVE  /\ Patched(before, after) \in Objects
           /\ Patched(before, after).fins \in {cluster.fins, after}
BY DEF Patched, Objects

-----------------------------------------------------------------------------
(* Type correctness.                                                       *)

LEMMA TypeInit == Init => TypeOK
<1> SUFFICES ASSUME Init PROVE TypeOK
  OBVIOUS
<1>1. cluster \in Objects /\ cached \in Objects
  BY DEF Init, Objects
<1>2. mrec \in [Machines -> MachineReconciles]
  BY IdleReconciles DEF Init
<1>3. 0 \in 0..MaxFaults
  BY ConstantsAssumption
<1> QED
  BY <1>1, <1>2, <1>3, IdleReconciles DEF Init, TypeOK

LEMMA TypeMachineStep ==
    ASSUME TypeOK, NEW m \in Machines,
           MStart(m) \/ MachineStep(m) \/ MFault(m)
    PROVE  TypeOK'
<1> USE DEF TypeOK
<1>0. mrec[m] \in MachineReconciles /\ Seen \in Objects /\ m \in Names
  BY DEF Seen, Names
<1>1. CASE MStart(m)
  BY <1>0, <1>1 DEF MStart, Goal, FirstStep, MachineReconciles,
     MachineSteps, Objects
<1>2. CASE MPatchMachine(m)
  <2>1. AddFinalizer(mrec[m].after, m) \in Seq(Names)
    BY <1>0, AddFinalizerList DEF MachineReconciles
  <2>2. \/ mrec'[m] = [mrec[m] EXCEPT !.pc = "patchCluster",
                                      !.after = AddFinalizer(@, m)]
        \/ mrec'[m] = [mrec[m] EXCEPT !.pc = "closeMachine"]
    BY <1>2 DEF MPatchMachine
  <2>3. mrec'[m] \in MachineReconciles
    BY <1>0, <2>1, <2>2 DEF MachineReconciles, MachineSteps
  <2>4. mrec' = [mrec EXCEPT ![m] = mrec'[m]]
    BY <1>2 DEF MPatchMachine
  <2> QED
    BY <1>2, <2>3, <2>4 DEF MPatchMachine
<1>3. CASE MPatchCluster(m)
  <2>1. Patched(mrec[m].before, mrec[m].after) \in Objects
    BY <1>0, PatchedObject DEF MachineReconciles
  <2> QED
    BY <1>0, <1>3, <2>1 DEF MPatchCluster, MachineReconciles, MachineSteps
<1>4. CASE MWork(m)
  <2>1. PICK goal \in {"serve", "fail"} :
          mrec' = [mrec EXCEPT ![m].pc = "closeMachine", ![m].goal = goal]
    BY <1>4 DEF MWork
  <2> QED
    BY <1>0, <1>4, <2>1 DEF MWork, MachineReconciles, MachineSteps
<1>5. CASE MUnwind(m)
  BY <1>0, <1>5 DEF MUnwind, MachineReconciles, MachineSteps
<1>6. CASE MCloseMachine(m)
  <2>1. AtClose(mrec[m]) \in MachineReconciles
    BY <1>0 DEF AtClose, MachineReconciles, MachineSteps
  <2>2. mrec' \in [Machines -> MachineReconciles]
    BY <1>6, <2>1 DEF MCloseMachine
  <2>3. failed' \subseteq Machines /\ machineFin' \subseteq Machines
    BY <1>6 DEF MCloseMachine
  <2> QED
    BY <1>6, <2>2, <2>3 DEF MCloseMachine
<1>7. CASE MCloseCluster(m)
  <2>1. Patched(mrec[m].before, mrec[m].after) \in Objects
    BY <1>0, PatchedObject DEF MachineReconciles
  <2> QED
    BY <1>7, <2>1, IdleReconciles DEF MCloseCluster
<1>8. CASE MFault(m)
  <2>1. faults + 1 \in 0..MaxFaults
    BY <1>8, ConstantsAssumption DEF MFault
  <2>2. mrec'[m] \in MachineReconciles
    <3>1. \/ mrec'[m] = NoMachineReconcile
          \/ mrec'[m] = [mrec[m] EXCEPT !.pc = "closeMachine"]
          \/ mrec'[m] = AtClose(mrec[m])
      BY <1>8 DEF MFault
    <3> QED
      BY <1>0, <3>1, IdleReconciles DEF AtClose, MachineReconciles,
         MachineSteps
  <2>3. mrec' = [mrec EXCEPT ![m] = mrec'[m]]
    BY <1>8 DEF MFault
  <2>4. failed' \subseteq Machines
    BY <1>8 DEF MFault
  <2> QED
    BY <1>8, <2>1, <2>2, <2>3, <2>4 DEF MFault
<1> QED
  BY <1>1, <1>2, <1>3, <1>4, <1>5, <1>6, <1>7, <1>8 DEF MachineStep

\* A step of the cluster reconciler that leaves the rest of the state alone.
LEMMA TypeOfClusterReconcile ==
    ASSUME TypeOK,
           UNCHANGED <<cached, machine, machineFin, started, failed, mrec>>,
           cluster' \in Objects, infra' \in BOOLEAN, faults' \in 0..MaxFaults,
           crec' \in ClusterReconciles, crec'.len <= Len(crec'.array)
    PROVE  TypeOK'
BY DEF TypeOK

LEMMA TypeClusterStep ==
    ASSUME TypeOK, CStart \/ ClusterStep \/ CFault
    PROVE  TypeOK'
<1> DEFINE GoodReconcile ==
             crec' \in ClusterReconciles /\ crec'.len <= Len(crec'.array)
<1>0. /\ crec \in ClusterReconciles /\ crec.len <= Len(crec.array)
      /\ cluster \in Objects /\ infra \in BOOLEAN /\ faults \in 0..MaxFaults
      /\ Seen \in Objects /\ ClusterFinalizer \in Names
  BY DEF TypeOK, Seen, Names
<1>a. crec.pc \in ClusterSteps /\ crec.next \in Nat
  BY <1>0 DEF ClusterReconciles
<1>b. ASSUME NEW pc \in ClusterSteps, crec' = [crec EXCEPT !.pc = pc]
      PROVE  GoodReconcile
  BY <1>0, <1>b DEF ClusterReconciles
<1>1. CASE CStart
  <2>1. AddFinalizer(Seen.fins, ClusterFinalizer) \in Seq(Names)
    BY <1>0, AddFinalizerList DEF Objects
  <2>2. Seen.fins \in Seq(Names)
    BY <1>0 DEF Objects
  <2>3. PICK list \in Seq(Names), pc \in {"scan", "patch"} :
          crec' = [pc |-> pc, before |-> Seen.fins, array |-> list,
                   len |-> Len(list), next |-> 1, ready |-> FALSE]
    BY <1>1, <2>1, <2>2 DEF CStart
  <2>4. GoodReconcile
    BY <2>2, <2>3 DEF ClusterReconciles, ClusterSteps
  <2>5. UNCHANGED <<cluster, cached, machine, machineFin, started, failed,
                    infra, mrec, faults>>
    BY <1>1 DEF CStart
  <2> QED
    BY <1>0, <2>4, <2>5, TypeOfClusterReconcile
<1>2. CASE CPatch
  <2>1. cluster' \in Objects
    BY <1>0, <1>2, HeldList, PatchedObject DEF CPatch, ClusterReconciles
  <2>2. PICK pc \in {"provision", "close"} : crec' = [crec EXCEPT !.pc = pc]
    BY <1>2 DEF CPatch
  <2>3. GoodReconcile
    BY <1>b, <2>2 DEF ClusterSteps
  <2>4. UNCHANGED <<cached, machine, machineFin, started, failed, infra, mrec,
                    faults>>
    BY <1>2 DEF CPatch
  <2> QED
    BY <1>0, <2>1, <2>3, <2>4, TypeOfClusterReconcile
<1>3. CASE CProvision
  <2>1. crec' = [crec EXCEPT !.pc = "close", !.ready = TRUE]
    BY <1>3 DEF CProvision
  <2>2. GoodReconcile
    BY <1>0, <2>1 DEF ClusterReconciles, ClusterSteps
  <2>3. /\ UNCHANGED <<cluster, cached, machine, machineFin, started, failed,
                       mrec, faults>>
        /\ infra' = TRUE
    BY <1>3 DEF CProvision
  <2> QED
    BY <1>0, <2>2, <2>3, TypeOfClusterReconcile
<1>4. CASE CScan
  <2> DEFINE name == crec.array[crec.next]
  <2>1. \/ crec' = [crec EXCEPT !.next = @ + 1]
        \/ crec' = [crec EXCEPT !.pc = "close"]
        \/ crec' = [crec EXCEPT
                      !.next = @ + 1,
                      !.array = Shifted(@, crec.len, name),
                      !.len = IF Holds(crec.array, @, name)
                              THEN @ - 1 ELSE @]
    BY <1>4 DEF CScan
  <2>2. UNCHANGED <<cluster, cached, machine, machineFin, started, failed,
                    infra, mrec, faults>>
    BY <1>4 DEF CScan
  <2>3. CASE crec' = [crec EXCEPT !.next = @ + 1]
    <3>1. GoodReconcile
      BY <1>0, <2>3 DEF ClusterReconciles
    <3> QED
      BY <1>0, <2>2, <3>1, TypeOfClusterReconcile
  <2>4. CASE crec' = [crec EXCEPT !.pc = "close"]
    <3>1. GoodReconcile
      BY <1>b, <2>4 DEF ClusterSteps
    <3> QED
      BY <1>0, <2>2, <3>1, TypeOfClusterReconcile
  <2>5. CASE crec' = [crec EXCEPT
                        !.next = @ + 1,
                        !.array = Shifted(@, crec.len, name),
                        !.len = IF Holds(crec.array, @, name)
                                THEN @ - 1 ELSE @]
    <3> HIDE DEF name
    <3>1. crec' = [crec EXCEPT !.pc = crec.pc, !.next = crec.next + 1,
                               !.array = Shifted(@, crec.len, name),
                               !.len = IF Holds(crec.array, @, name)
                                       THEN @ - 1 ELSE @]
      BY <1>0, <2>5 DEF ClusterReconciles
    <3>2. crec.next + 1 \in Nat
      BY <1>a
    <3>3. GoodReconcile
      BY <1>0, <1>a, <3>1, <3>2, RemovedReconcile
    <3> QED
      BY <1>0, <2>2, <3>3, TypeOfClusterReconcile
  <2> QED
    BY <2>1, <2>3, <2>4, <2>5
<1>5. CASE CScanDone
  <2>1. crec' = [crec EXCEPT !.pc = "teardown"]
    BY <1>5 DEF CScanDone
  <2>2. GoodReconcile
    BY <1>b, <2>1 DEF ClusterSteps
  <2>3. UNCHANGED <<cluster, cached, machine, machineFin, started, failed,
                    infra, mrec, faults>>
    BY <1>5 DEF CScanDone
  <2> QED
    BY <1>0, <2>2, <2>3, TypeOfClusterReconcile
<1>6. CASE CTeardown
  <2>1. crec' = [crec EXCEPT !.pc = "close", !.next = crec.next,
                             !.array = Shifted(@, crec.len, ClusterFinalizer),
                             !.len = IF Holds(crec.array, @, ClusterFinalizer)
                                     THEN @ - 1 ELSE @]
    BY <1>0, <1>6 DEF CTeardown, ClusterReconciles
  <2>2. "close" \in ClusterSteps
    BY DEF ClusterSteps
  <2>3. GoodReconcile
    BY <1>0, <1>a, <2>1, <2>2, RemovedReconcile
  <2>4. /\ UNCHANGED <<cluster, cached, machine, machineFin, started, failed,
                       mrec, faults>>
        /\ infra' = FALSE
    BY <1>6 DEF CTeardown
  <2> QED
    BY <1>0, <2>3, <2>4, TypeOfClusterReconcile
<1>7. CASE CClose
  <2>1. Patched(crec.before, Held(crec)) \in Objects
    BY <1>0, HeldList, PatchedObject DEF ClusterReconciles
  <2>2. cluster' \in Objects
    BY <1>0, <1>7, <2>1 DEF CClose, Objects, ClusterReconciles
  <2>3. /\ crec' = NoClusterReconcile
        /\ UNCHANGED <<cached, machine, machineFin, started, failed, infra,
                       mrec, faults>>
    BY <1>7 DEF CClose
  <2> QED
    BY <1>0, <2>2, <2>3, IdleReconciles, TypeOfClusterReconcile
<1>8. CASE CFault
  <2>1. faults' \in 0..MaxFaults
    BY <1>0, <1>8, ConstantsAssumption DEF CFault
  <2>2. /\ crec' = [crec EXCEPT !.pc = "close"] \/ crec' = NoClusterReconcile
        /\ infra' \in {infra, TRUE}
        /\ UNCHANGED <<cluster, cached, machine, machineFin, started, failed,
                       mrec>>
    BY <1>8 DEF CFault
  <2>3. GoodReconcile
    BY <1>b, <2>2, IdleReconciles DEF ClusterSteps
  <2> QED
    BY <1>0, <2>1, <2>2, <2>3, TypeOfClusterReconcile
<1> QED
  BY <1>1, <1>2, <1>3, <1>4, <1>5, <1>6, <1>7, <1>8 DEF ClusterStep

LEMMA TypeEnvironment ==
    ASSUME TypeOK,
           \/ \E m \in Machines : CreateMachine(m) \/ DeleteMachine(m)
           \/ Crash \/ Sync \/ DeleteCluster
    PROVE  TypeOK'
<1> USE DEF TypeOK
<1>1. CASE \E m \in Machines : CreateMachine(m) \/ DeleteMachine(m)
  BY <1>1 DEF CreateMachine, DeleteMachine
<1>2. CASE Crash
  <2>1. faults + 1 \in 0..MaxFaults
    BY <1>2, ConstantsAssumption DEF Crash
  <2> QED
    BY <1>2, <2>1, IdleReconciles DEF Crash
<1>3. CASE Sync
  BY <1>3 DEF Sync
<1>4. CASE DeleteCluster
  BY <1>4 DEF DeleteCluster, Objects
<1> QED
  BY <1>1, <1>2, <1>3, <1>4

LEMMA TypeStep == TypeOK /\ [Next]_vars => TypeOK'
<1> SUFFICES ASSUME TypeOK, [Next]_vars PROVE TypeOK'
  OBVIOUS
<1>1. CASE Next
  BY <1>1, TypeMachineStep, TypeClusterStep, TypeEnvironment DEF Next
<1>2. CASE UNCHANGED vars
  BY <1>2 DEF vars, TypeOK
<1> QED
  BY <1>1, <1>2

\* Whatever the reconcilers, the users and the failures do, the state keeps
\* its shape; in particular the in-place removal of RemoveFinalizer never
\* makes the list longer than the array it lies in, nor its length negative.
THEOREM TypeCorrect == Spec => []TypeOK
BY TypeInit, TypeStep, PTL DEF Spec

\* The reconcile of a machine ends early.
GivesUp(m) ==
    /\ mrec[m].pc # "idle"
    /\ mrec'[m] \in {[mrec[m] EXCEPT !.pc = "closeMachine"],
                      AtClose(mrec[m])}
    /\ UNCHANGED <<cluster, machine, machineFin, started, crec>>

\* The lists of a reconcile stay as they are, but for AddFinalizer.
SameLists(m) ==
    mrec'[m].before = mrec[m].before /\ mrec'[m].after = mrec[m].after

\* What each step makes of the reconcile of its machine.
LEMMA ReconcileMoves ==
    ASSUME mrec \in [Machines -> MachineReconciles], NEW m \in Machines
    PROVE  /\ MStart(m) =>
                 /\ mrec[m].pc = "idle"
                 /\ mrec'[m].pc \in {"patchMachine", "closeMachine", "unwind"}
                 /\ mrec'[m].pc = "patchMachine" => mrec'[m].goal = "serve"
                 /\ mrec'[m].goal # "unwound"
                 /\ mrec'[m].before = Seen.fins /\ mrec'[m].after = Seen.fins
           /\ MPatchMachine(m) =>
                 /\ mrec[m].pc = "patchMachine"
                 /\ mrec'[m].goal = mrec[m].goal
                 /\ mrec'[m].before = mrec[m].before
                 /\ \/ /\ mrec'[m].pc = "patchCluster" /\ Exists(m)
                       /\ mrec'[m].after = AddFinalizer(mrec[m].after, m)
                    \/ mrec'[m].pc = "closeMachine" /\ SameLists(m)
           /\ MPatchCluster(m) =>
                 /\ mrec[m].pc = "patchCluster" /\ SameLists(m)
                 /\ mrec'[m].pc \in {"work", "closeMachine"}
                 /\ mrec'[m].goal = mrec[m].goal
           /\ MWork(m) =>
                 /\ mrec[m].pc = "work" /\ SameLists(m)
                 /\ mrec'[m].pc = "closeMachine"
                 /\ mrec'[m].goal \in {"serve", "fail"}
           /\ MUnwind(m) =>
                 /\ mrec[m].pc = "unwind" /\ SameLists(m)
                 /\ mrec'[m].pc = "closeMachine" /\ mrec'[m].goal = "unwound"
           /\ MCloseMachine(m) =>
                 /\ mrec[m].pc = "closeMachine" /\ SameLists(m)
                 /\ mrec'[m].pc = "closeCluster" /\ mrec'[m].goal = "serve"
           /\ GivesUp(m) =>
                 /\ mrec[m].pc # "idle" /\ SameLists(m)
                 /\ mrec'[m].pc \in {"closeMachine", "closeCluster"}
                 /\ mrec'[m].goal \in {mrec[m].goal, "serve"}
<1> USE DEF SameLists
<1>0. mrec[m] \in MachineReconciles
  OBVIOUS
<1>1. ASSUME MStart(m)
      PROVE  /\ mrec[m].pc = "idle"
             /\ mrec'[m].pc \in {"patchMachine", "closeMachine", "unwind"}
             /\ mrec'[m].pc = "patchMachine" => mrec'[m].goal = "serve"
             /\ mrec'[m].goal # "unwound"
             /\ mrec'[m].before = Seen.fins /\ mrec'[m].after = Seen.fins
  <2>1. /\ mrec'[m].pc = FirstStep(Goal(m)) /\ mrec'[m].goal = Goal(m)
        /\ mrec'[m].before = Seen.fins /\ mrec'[m].after = Seen.fins
        /\ mrec[m].pc = "idle"
    BY <1>1 DEF MStart
  <2> QED
    BY <2>1 DEF Goal, FirstStep
<1>2. ASSUME MPatchMachine(m)
      PROVE  /\ mrec[m].pc = "patchMachine"
             /\ mrec'[m].goal = mrec[m].goal
             /\ mrec'[m].before = mrec[m].before
             /\ \/ /\ mrec'[m].pc = "patchCluster" /\ Exists(m)
                   /\ mrec'[m].after = AddFinalizer(mrec[m].after, m)
                \/ mrec'[m].pc = "closeMachine" /\ SameLists(m)
  BY <1>0, <1>2 DEF MPatchMachine, MachineReconciles
<1>3. ASSUME MPatchCluster(m)
      PROVE  /\ mrec[m].pc = "patchCluster" /\ SameLists(m)
             /\ mrec'[m].pc \in {"work", "closeMachine"}
             /\ mrec'[m].goal = mrec[m].goal
  BY <1>0, <1>3 DEF MPatchCluster, MachineReconciles
<1>4. ASSUME MWork(m)
      PROVE  /\ mrec[m].pc = "work" /\ SameLists(m)
             /\ mrec'[m].pc = "closeMachine"
             /\ mrec'[m].goal \in {"serve", "fail"}
  BY <1>0, <1>4 DEF MWork, MachineReconciles
<1>5. ASSUME MUnwind(m)
      PROVE  /\ mrec[m].pc = "unwind" /\ SameLists(m)
             /\ mrec'[m].pc = "closeMachine" /\ mrec'[m].goal = "unwound"
  BY <1>0, <1>5 DEF MUnwind, MachineReconciles
<1>6. ASSUME MCloseMachine(m)
      PROVE  /\ mrec[m].pc = "closeMachine" /\ SameLists(m)
             /\ mrec'[m].pc = "closeCluster" /\ mrec'[m].goal = "serve"
  <2>1. mrec[m].pc = "closeMachine" /\ mrec'[m] = AtClose(mrec[m])
    BY <1>6 DEF MCloseMachine
  <2> QED
    BY <1>0, <2>1 DEF AtClose, MachineReconciles
<1>7. ASSUME GivesUp(m)
      PROVE  /\ mrec[m].pc # "idle" /\ SameLists(m)
             /\ mrec'[m].pc \in {"closeMachine", "closeCluster"}
             /\ mrec'[m].goal \in {mrec[m].goal, "serve"}
  BY <1>0, <1>7 DEF GivesUp, AtClose, MachineReconciles
<1> QED
  BY <1>1, <1>2, <1>3, <1>4, <1>5, <1>6, <1>7

-----------------------------------------------------------------------------
(* No finalizer is listed twice.                                           *)

\* The strengthening: every list that may still be written to the object is
\* without duplicates, be it in the cache, in a copy of a reconcile or in the
\* part of the array the scan has not given up.
ListsDupFree ==
    /\ DupFree(cluster.fins) /\ DupFree(cached.fins)
    /\ \A m \in Machines : DupFree(mrec[m].before) /\ DupFree(mrec[m].after)
    /\ DupFree(crec.before)
    /\ \A i, j \in 1..crec.len : crec.array[i] = crec.array[j] => i = j

\* A patch with a list without duplicates leaves none.
LEMMA PatchedDupFree ==
    ASSUME cluster \in Objects, NEW before \in Seq(Names),
           NEW after \in Seq(Names), DupFree(cluster.fins), DupFree(after)
    PROVE  DupFree(Patched(before, after).fins)
<1>1. Patched(before, after).fins \in {cluster.fins, after}
  BY PatchedObject
<1> QED
  BY <1>1

\* The copy the cluster reconcile writes back is without duplicates.
LEMMA HeldDupFree ==
    ASSUME TypeOK, ListsDupFree
    PROVE  Held(crec) \in Seq(Names) /\ DupFree(Held(crec))
<1>1. crec \in ClusterReconciles /\ crec.len <= Len(crec.array)
  BY DEF TypeOK
<1>2. crec.len \in Nat
  BY <1>1 DEF ClusterReconciles
<1> QED
  BY <1>1, <1>2, HeldList DEF ListsDupFree, DupFree

LEMMA ListsInit == Init => ListsDupFree
BY DEF Init, ListsDupFree, DupFree, NoMachineReconcile, NoClusterReconcile

LEMMA ListsMachineStep ==
    ASSUME TypeOK, ListsDupFree, NEW m \in Machines,
           MStart(m) \/ MachineStep(m) \/ MFault(m)
    PROVE  ListsDupFree'
<1>0. /\ mrec[m] \in MachineReconciles /\ m \in Names
      /\ mrec \in [Machines -> MachineReconciles]
      /\ cluster \in Objects
      /\ DupFree(Seen.fins)
      /\ DupFree(mrec[m].before) /\ DupFree(mrec[m].after)
      /\ mrec[m].before \in Seq(Names) /\ mrec[m].after \in Seq(Names)
  BY DEF TypeOK, ListsDupFree, Seen, Names, MachineReconciles
<1>1. DupFree(cluster'.fins)
  <2>1. CASE cluster' = cluster
    BY <2>1 DEF ListsDupFree
  <2>2. CASE cluster' = Patched(mrec[m].before, mrec[m].after)
    BY <1>0, <2>2, PatchedDupFree DEF ListsDupFree
  <2> QED
    BY <2>1, <2>2 DEF MStart, MachineStep, MFault, MPatchMachine,
       MPatchCluster, MWork, MUnwind, MCloseMachine, MCloseCluster
<1>2. mrec' = [mrec EXCEPT ![m] = mrec'[m]]
  BY <1>0 DEF MStart, MachineStep, MFault, MPatchMachine, MPatchCluster,
     MWork, MUnwind, MCloseMachine, MCloseCluster
<1>3. /\ mrec'[m].before \in {mrec[m].before, Seen.fins, <<>>}
      /\ mrec'[m].after \in {mrec[m].after, Seen.fins, <<>>,
                             AddFinalizer(mrec[m].after, m)}
  <2>1. CASE MStart(m) \/ MPatchMachine(m) \/ MPatchCluster(m) \/ MWork(m)
             \/ MUnwind(m) \/ MCloseMachine(m)
    BY <1>0, <2>1, ReconcileMoves DEF SameLists
  <2>2. CASE MCloseCluster(m)
    BY <1>0, <2>2 DEF MCloseCluster, NoMachineReconcile
  <2>3. CASE MFault(m)
    <3>1. mrec'[m] \in {[mrec[m] EXCEPT !.pc = "closeMachine"],
                        AtClose(mrec[m]), NoMachineReconcile}
      BY <1>0, <2>3 DEF MFault
    <3>2. /\ AtClose(mrec[m]).before = mrec[m].before
          /\ AtClose(mrec[m]).after = mrec[m].after
      BY <1>0 DEF AtClose, MachineReconciles
    <3>3. /\ [mrec[m] EXCEPT !.pc = "closeMachine"].before = mrec[m].before
          /\ [mrec[m] EXCEPT !.pc = "closeMachine"].after = mrec[m].after
      BY <1>0 DEF MachineReconciles
    <3>4. CASE mrec'[m] = NoMachineReconcile
      BY <3>4 DEF NoMachineReconcile
    <3>5. CASE SameLists(m)
      BY <3>5 DEF SameLists
    <3> QED
      BY <3>1, <3>2, <3>3, <3>4, <3>5 DEF SameLists
  <2> QED
    BY <2>1, <2>2, <2>3 DEF MachineStep
<1>4. DupFree(mrec'[m].before) /\ DupFree(mrec'[m].after)
  <2>1. DupFree(<<>>)
    BY DEF DupFree
  <2>2. DupFree(AddFinalizer(mrec[m].after, m))
    BY <1>0, AddFinalizerList
  <2> QED
    BY <1>0, <1>3, <2>1, <2>2
<1>5. UNCHANGED <<cached, crec>>
  BY DEF MStart, MachineStep, MFault, MPatchMachine, MPatchCluster, MWork,
     MUnwind, MCloseMachine, MCloseCluster
<1> QED
  BY <1>0, <1>1, <1>2, <1>4, <1>5 DEF ListsDupFree

LEMMA ListsClusterStep ==
    ASSUME TypeOK, ListsDupFree, CStart \/ ClusterStep \/ CFault
    PROVE  ListsDupFree'
<1> DEFINE Distinct(array, len) ==
             \A i, j \in 1..len : array[i] = array[j] => i = j
<1> DEFINE Array(name) == Shifted(crec.array, crec.len, name)
<1> DEFINE Length(name) == IF Holds(crec.array, crec.len, name)
                           THEN crec.len - 1 ELSE crec.len
<1>0. /\ crec \in ClusterReconciles /\ crec.len <= Len(crec.array)
      /\ crec.array \in Seq(Names) /\ crec.len \in Nat
      /\ crec.before \in Seq(Names)
      /\ cluster \in Objects
      /\ Seen.fins \in Seq(Names) /\ DupFree(Seen.fins)
      /\ ClusterFinalizer \in Names
  BY DEF TypeOK, ListsDupFree, Seen, Names, ClusterReconciles, Objects
<1>1. DupFree(cluster'.fins)
  <2>1. CASE cluster' = cluster
    BY <2>1 DEF ListsDupFree
  <2>2. CASE cluster'.fins = Patched(crec.before, Held(crec)).fins
    BY <1>0, <2>2, HeldDupFree, PatchedDupFree DEF ListsDupFree
  <2>3. CASE CClose
    <3>1. Patched(crec.before, Held(crec)) \in Objects
      BY <1>0, HeldDupFree, PatchedObject
    <3>2. cluster'.fins = Patched(crec.before, Held(crec)).fins
      BY <2>3, <3>1 DEF CClose, Objects
    <3> QED
      BY <2>2, <3>2
  <2> QED
    BY <2>1, <2>2, <2>3 DEF CStart, ClusterStep, CFault, CPatch, CProvision,
       CScan, CScanDone, CTeardown
<1>2. UNCHANGED <<cached, mrec>>
  BY DEF CStart, ClusterStep, CFault, CPatch, CProvision, CScan, CScanDone,
     CTeardown, CClose
<1>3. DupFree(crec'.before) /\ Distinct(crec'.array, crec'.len)
  <2>1. CASE crec' = NoClusterReconcile
    BY <2>1 DEF NoClusterReconcile, DupFree
  <2>2. CASE CStart
    <3>1. AddFinalizer(Seen.fins, ClusterFinalizer) \in Seq(Names)
      BY <1>0, AddFinalizerList
    <3>2. DupFree(AddFinalizer(Seen.fins, ClusterFinalizer))
      BY <1>0, AddFinalizerList
    <3>3. PICK list \in Seq(Names) :
            /\ DupFree(list)
            /\ crec'.before = Seen.fins
            /\ crec'.array = list /\ crec'.len = Len(list)
      BY <1>0, <2>2, <3>1, <3>2 DEF CStart
    <3> QED
      BY <1>0, <3>3 DEF DupFree
  <2>3. CASE /\ crec'.before = crec.before /\ crec'.array = crec.array
             /\ crec'.len = crec.len
    BY <2>3 DEF ListsDupFree
  <2>4. CASE \E name : /\ crec'.before = crec.before
                       /\ crec'.array = Array(name)
                       /\ crec'.len = Length(name)
    <3>1. PICK name : /\ crec'.before = crec.before
                      /\ crec'.array = Array(name)
                      /\ crec'.len = Length(name)
      BY <2>4
    <3>2. Distinct(Array(name), Length(name))
      BY <1>0, RemovedDupFree DEF ListsDupFree
    <3> QED
      BY <3>1, <3>2 DEF ListsDupFree
  <2>5. CASE CScan
    <3> DEFINE name == crec.array[crec.next]
    <3>1. \/ /\ crec'.before = crec.before /\ crec'.array = crec.array
             /\ crec'.len = crec.len
          \/ /\ crec'.before = crec.before /\ crec'.array = Array(name)
             /\ crec'.len = Length(name)
      BY <1>0, <2>5 DEF CScan, ClusterReconciles
    <3> QED
      BY <2>3, <2>4, <3>1
  <2>6. CASE CTeardown
    <3>1. /\ crec'.before = crec.before
          /\ crec'.array = Array(ClusterFinalizer)
          /\ crec'.len = Length(ClusterFinalizer)
      BY <1>0, <2>6 DEF CTeardown, ClusterReconciles
    <3> QED
      BY <2>4, <3>1
  <2> QED
    BY <1>0, <2>1, <2>2, <2>3, <2>5, <2>6 DEF ClusterStep, CFault, CPatch,
       CProvision, CScanDone, CClose, ClusterReconciles
<1> QED
  BY <1>1, <1>2, <1>3 DEF ListsDupFree

LEMMA ListsEnvironment ==
    ASSUME TypeOK, ListsDupFree,
           \/ \E m \in Machines : CreateMachine(m) \/ DeleteMachine(m)
           \/ Crash \/ Sync \/ DeleteCluster
    PROVE  ListsDupFree'
<1>1. CASE \E m \in Machines : CreateMachine(m) \/ DeleteMachine(m)
  BY <1>1 DEF CreateMachine, DeleteMachine, ListsDupFree
<1>2. CASE Crash
  BY <1>2 DEF Crash, ListsDupFree, NoMachineReconcile, NoClusterReconcile,
              DupFree
<1>3. CASE Sync
  BY <1>3 DEF Sync, ListsDupFree
<1>4. CASE DeleteCluster
  <2>1. cluster'.fins = cluster.fins
    BY <1>4 DEF DeleteCluster, TypeOK, Objects
  <2> QED
    BY <1>4, <2>1 DEF DeleteCluster, ListsDupFree
<1> QED
  BY <1>1, <1>2, <1>3, <1>4

LEMMA ListsStep == TypeOK /\ ListsDupFree /\ [Next]_vars => ListsDupFree'
<1> SUFFICES ASSUME TypeOK, ListsDupFree, [Next]_vars PROVE ListsDupFree'
  OBVIOUS
<1>1. CASE Next
  BY <1>1, ListsMachineStep, ListsClusterStep, ListsEnvironment DEF Next
<1>2. CASE UNCHANGED vars
  BY <1>2 DEF vars, ListsDupFree
<1> QED
  BY <1>1, <1>2

LEMMA ListsNoDuplicates == TypeOK /\ ListsDupFree => NoDuplicateFinalizers
<1> SUFFICES ASSUME TypeOK, ListsDupFree PROVE NoDuplicateFinalizers
  OBVIOUS
<1>1. DOMAIN cluster.fins = 1..Len(cluster.fins)
  BY DEF TypeOK, Objects
<1> QED
  BY <1>1 DEF ListsDupFree, DupFree, NoDuplicateFinalizers

\* AddFinalizer and RemoveFinalizer on copies, however stale, never put a
\* finalizer on the UCloudCluster twice, so one removal takes a claim away.
THEOREM NoDuplicates == Spec => []NoDuplicateFinalizers
<1>1. Init => TypeOK /\ ListsDupFree
  BY TypeInit, ListsInit
<1>2. TypeOK /\ ListsDupFree /\ [Next]_vars => (TypeOK /\ ListsDupFree)'
  BY TypeStep, ListsStep
<1> QED
  BY <1>1, <1>2, ListsNoDuplicates, PTL DEF Spec

-----------------------------------------------------------------------------
(* The finalizer of the cluster.                                           *)

\* The list holds the finalizer of the cluster.
Marked(fins) == ClusterFinalizer \in Range(fins)

\* A call that can never succeed ends a reconcile like a failed one, but is
\* no fault (see ClusterTeardown.tla).
Refused ==
    \/ /\ \E m \in Machines :
             /\ mrec[m].pc = "unwind"
             /\ mrec' = [mrec EXCEPT ![m].pc = "closeMachine"]
       /\ UNCHANGED <<cluster, cached, machine, machineFin, started, failed,
                      infra, crec, faults>>
    \/ /\ crec.pc = "teardown"
       /\ crec' = [crec EXCEPT !.pc = "close"]
       /\ UNCHANGED <<cluster, cached, machine, machineFin, started, failed,
                      infra, mrec, faults>>

Step == [Next]_vars \/ Refused

\* Refusals keep the types.
LEMMA TypeRefused == TypeOK /\ Step => TypeOK'
<1> SUFFICES ASSUME TypeOK, Refused PROVE TypeOK'
  BY TypeStep DEF Step
<1>1. ASSUME NEW m \in Machines, mrec[m].pc = "unwind",
             mrec' = [mrec EXCEPT ![m].pc = "closeMachine"],
             UNCHANGED <<cluster, cached, machine, machineFin, started,
                         failed, infra, crec, faults>>
      PROVE  TypeOK'
  <2>1. mrec[m] \in MachineReconciles
          /\ mrec \in [Machines -> MachineReconciles]
    BY DEF TypeOK
  <2>2. [mrec[m] EXCEPT !.pc = "closeMachine"] \in MachineReconciles
    BY <2>1 DEF MachineReconciles, MachineSteps
  <2>3. mrec' \in [Machines -> MachineReconciles]
    BY <1>1, <2>1, <2>2
  <2> QED
    BY <1>1, <2>3 DEF TypeOK
<1>2. ASSUME crec' = [crec EXCEPT !.pc = "close"],
             UNCHANGED <<cluster, cached, machine, machineFin, started,
                         failed, infra, mrec, faults>>
      PROVE  TypeOK'
  <2>1. crec' \in ClusterReconciles /\ crec'.len <= Len(crec'.array)
    BY <1>2 DEF TypeOK, ClusterReconciles, ClusterSteps
  <2> QED
    BY <1>2, <2>1 DEF TypeOK
<1> QED
  BY <1>1, <1>2 DEF Refused

\* Of the object: one that is gone was deleted and lists nothing; a ready one
\* lists the finalizer of the cluster until it is deleted, and before it is
\* ready there is no machine; what exists in UCloud exists under it.
ClusterInv ==
    /\ ~cluster.present => cluster.deleting /\ cluster.fins = <<>>
    /\ cluster.ready => cluster.deleting \/ Marked(cluster.fins)
    /\ ~cluster.ready => \A m \in Machines : machine[m] = "absent"
    /\ infra => Marked(cluster.fins)

\* Of the cluster reconcile: a copy without the finalizer is that of a deleted
\* cluster whose resources are gone, and resources are created only when the
\* finalizer is in the store.
ClusterCopyInv ==
    crec.pc # "idle" =>
        /\ crec.pc \in {"patch", "provision"} \/ crec.ready
              => Marked(Held(crec))
        /\ crec.ready => crec.pc = "close"
        /\ crec.pc \in {"scan", "teardown"} => cluster.deleting
        /\ ~Marked(Held(crec)) => cluster.deleting /\ ~infra
        /\ crec.pc = "patch" /\ Marked(crec.before) => Marked(cluster.fins)
        /\ crec.pc = "provision" \/ crec.ready => Marked(cluster.fins)

\* Of the machines' reconciles: a copy without the finalizer was read after it
\* was gone for good.
MachineCopiesInv ==
    \A m \in Machines : mrec[m].pc # "idle" =>
        /\ machine[m] # "absent"
        /\ ~Marked(mrec[m].after) => cluster.deleting /\ ~Marked(cluster.fins)

MarkInv == ClusterInv /\ ClusterCopyInv /\ MachineCopiesInv

\* What a patch leaves of the object.
LEMMA WrittenFacts ==
    ASSUME cluster \in Objects, NEW before \in Seq(Names),
           NEW after \in Seq(Names),
           NEW new, new = Patched(before, after)
    PROVE  /\ new \in Objects
           /\ new.fins \in {cluster.fins, after}
           /\ new.deleting = cluster.deleting /\ new.ready = cluster.ready
           /\ ~cluster.present => new = cluster
           /\ cluster.deleting => Range(new.fins) \subseteq Range(cluster.fins)
           /\ cluster.present /\ ~new.present
                 => cluster.deleting /\ new.fins = <<>>
           /\ before = after => new = cluster
           /\ before # after /\ PatchAllowed(after)
                 => new.fins = after /\ cluster.present
<1>1. CASE before = after \/ ~PatchAllowed(after)
  BY <1>1 DEF Patched, PatchAllowed
<1>2. CASE before # after /\ PatchAllowed(after)
  <2>1. new = [cluster EXCEPT !.fins = after,
                 !.present = ~(cluster.deleting /\ after = <<>>)]
    BY <1>2 DEF Patched
  <2>2. /\ new \in Objects /\ new.fins = after
        /\ new.deleting = cluster.deleting /\ new.ready = cluster.ready
        /\ new.present = ~(cluster.deleting /\ after = <<>>)
    BY <2>1 DEF Objects
  <2> QED
    BY <1>2, <2>2 DEF PatchAllowed
<1> QED
  BY <1>1, <1>2

\* What a step does to the object: one that is deleted only loses finalizers,
\* that of the cluster goes only by the last patch of a teardown, and the
\* cluster gets ready only under it.
LEMMA ClusterWrites ==
    ASSUME TypeOK, MarkInv, Step
    PROVE  /\ cluster' \in Objects
           /\ cluster.deleting => /\ cluster'.deleting
                                  /\ Range(cluster'.fins)
                                        \subseteq Range(cluster.fins)
           /\ Marked(cluster.fins) =>
                 \/ Marked(cluster'.fins)
                 \/ crec.pc = "close" /\ ~Marked(Held(crec))
           /\ ~cluster'.present => cluster'.deleting /\ cluster'.fins = <<>>
           /\ cluster.ready => cluster'.ready
           /\ cluster'.ready /\ ~cluster.ready
                 => CClose /\ crec.pc = "close" /\ crec.ready
<1>1. /\ cluster \in Objects /\ mrec \in [Machines -> MachineReconciles]
      /\ crec \in ClusterReconciles /\ crec.before \in Seq(Names)
      /\ Held(crec) \in Seq(Names)
      /\ ~cluster.present => cluster.deleting /\ cluster.fins = <<>>
  BY HeldList DEF TypeOK, ClusterReconciles, MarkInv, ClusterInv
<1>2. CASE UNCHANGED cluster
  BY <1>1, <1>2
<1>3. ASSUME NEW m \in Machines, MPatchCluster(m) \/ MCloseCluster(m)
      PROVE  /\ cluster' = Patched(mrec[m].before, mrec[m].after)
             /\ mrec[m].pc # "idle"
  BY <1>3 DEF MPatchCluster, MCloseCluster
<1>4. CASE \E m \in Machines : MPatchCluster(m) \/ MCloseCluster(m)
  <2>1. PICK m \in Machines :
          /\ cluster' = Patched(mrec[m].before, mrec[m].after)
                              /\ mrec[m].pc # "idle"
    BY <1>3, <1>4
  <2>2. mrec[m].before \in Seq(Names) /\ mrec[m].after \in Seq(Names)
    BY <1>1 DEF MachineReconciles
  <2>3. Marked(cluster.fins) => Marked(mrec[m].after)
    BY <2>1 DEF MarkInv, MachineCopiesInv
  <2> QED
    BY <1>1, <2>1, <2>2, <2>3, WrittenFacts
<1>5. CASE CPatch
  <2>1. cluster' = Patched(crec.before, Held(crec)) /\ Marked(Held(crec))
    BY <1>5 DEF CPatch, MarkInv, ClusterCopyInv
  <2> QED
    BY <1>1, <2>1, WrittenFacts
<1>6. CASE CClose
  <2> DEFINE after == Patched(crec.before, Held(crec))
  <2>1. /\ crec.pc = "close"
        /\ cluster' = [after EXCEPT !.ready = @ \/ (crec.ready
          /\ after.present)]
    BY <1>6 DEF CClose
  <2>2. after \in Objects
    BY <1>1, WrittenFacts
  <2>3. /\ cluster' \in Objects /\ cluster'.fins = after.fins
        /\ cluster'.present = after.present
        /\ cluster'.deleting = after.deleting
        /\ after.ready => cluster'.ready
        /\ cluster'.ready => after.ready \/ crec.ready
    BY <1>1, <2>1, <2>2 DEF Objects, ClusterReconciles
  <2> QED
    BY <1>1, <1>6, <2>1, <2>3, WrittenFacts
<1>7. CASE DeleteCluster
  BY <1>1, <1>7 DEF DeleteCluster, Objects
<1> QED
  BY <1>2, <1>4, <1>5, <1>6, <1>7 DEF Step, Next, vars, Refused, MStart,
     MachineStep, MPatchMachine, MWork, MUnwind, MCloseMachine, MFault,
     CStart, ClusterStep, CProvision, CScan, CScanDone, CTeardown, CFault,
     Crash, Sync, CreateMachine, DeleteMachine

\* How the reconcile of a machine goes on: it stays, ends, starts, takes a
\* step, or gives up.
LEMMA MachineMoves ==
    ASSUME TypeOK, Step, NEW m \in Machines
    PROVE  \/ mrec'[m] = mrec[m]
           \/ mrec'[m] = NoMachineReconcile
           \/ MStart(m) \/ MPatchMachine(m) \/ MPatchCluster(m) \/ MWork(m)
           \/ MUnwind(m) \/ MCloseMachine(m)
           \/ GivesUp(m)
<1>1. mrec \in [Machines -> MachineReconciles]
  BY DEF TypeOK
<1>2. CASE UNCHANGED mrec
  BY <1>2
<1>3. ASSUME NEW n \in Machines, MStart(n) \/ MachineStep(n) \/ MFault(n)
      PROVE  \/ mrec'[m] = mrec[m]
             \/ mrec'[m] = NoMachineReconcile
             \/ MStart(m) \/ MPatchMachine(m) \/ MPatchCluster(m) \/ MWork(m)
             \/ MUnwind(m) \/ MCloseMachine(m)
             \/ GivesUp(m)
  <2>1. CASE n # m
    BY <1>1, <1>3, <2>1 DEF MStart, MachineStep, MPatchMachine, MPatchCluster,
       MWork, MUnwind, MCloseMachine, MCloseCluster, MFault
  <2>2. CASE n = m /\ (MStart(m) \/ MachineStep(m))
    BY <1>1, <2>2 DEF MachineStep, MCloseCluster
  <2>3. CASE n = m /\ MFault(m)
    BY <1>1, <2>3 DEF MFault, GivesUp
  <2> QED
    BY <1>3, <2>1, <2>2, <2>3
<1>4. CASE Crash
  BY <1>4 DEF Crash
<1>5. CASE Refused
  BY <1>1, <1>5 DEF Refused, GivesUp
<1> QED
  BY <1>2, <1>3, <1>4, <1>5 DEF Step, Next, vars, CStart, ClusterStep, CPatch,
     CProvision, CScan, CScanDone, CTeardown, CClose, CFault, Sync,
     CreateMachine, DeleteMachine, DeleteCluster

\* How the reconcile of the cluster goes on.
LEMMA ClusterMoves ==
    ASSUME TypeOK, Step
    PROVE  \/ crec' = crec
           \/ crec' = NoClusterReconcile
           \/ CStart \/ CPatch \/ CProvision \/ CScan \/ CScanDone \/ CTeardown
           \/ crec.pc # "idle" /\ crec' = [crec EXCEPT !.pc = "close"]
BY DEF Step, Refused, Next, vars, MStart, MachineStep, MPatchMachine,
   MPatchCluster, MWork, MUnwind, MCloseMachine, MCloseCluster, MFault,
   ClusterStep, CClose, CFault, Crash, Sync, CreateMachine, DeleteMachine,
   DeleteCluster

\* Resources appear by a provision, or one that fails.
LEMMA InfraFacts ==
    ASSUME TypeOK, Step
    PROVE  infra' => infra \/ crec.pc = "provision"
<1>1. CASE CFault
  BY <1>1, Zenon DEF CFault
<1>2. CASE CProvision \/ CTeardown
  BY <1>2 DEF CProvision, CTeardown
<1>3. CASE UNCHANGED infra
  BY <1>3
<1> QED
  BY <1>1, <1>2, <1>3 DEF Step, Refused, Next, vars, MStart, MachineStep,
     MPatchMachine, MPatchCluster, MWork, MUnwind, MCloseMachine,
     MCloseCluster, MFault, CStart, ClusterStep, CPatch, CScan, CScanDone,
     CClose, Crash, Sync, CreateMachine, DeleteMachine, DeleteCluster

\* What happens to the objects of the machines.
LEMMA MachineFacts ==
    ASSUME TypeOK, Step, NEW m \in Machines
    PROVE  \/ machine'[m] = machine[m]
           \/ /\ machine[m] = "absent" /\ machine'[m] = "live"
              /\ CreateMachine(m)
           \/ /\ machine[m] = "live" /\ machine'[m] = "deleting"
              /\ DeleteMachine(m) /\ m \in machineFin
           \/ /\ machine[m] = "live" /\ machine'[m] = "gone"
              /\ DeleteMachine(m) /\ m \notin machineFin
           \/ /\ machine'[m] = "gone" /\ MCloseMachine(m)
              /\ mrec[m].goal = "unwound"
<1>1. machine \in [Machines -> {"absent", "live", "deleting", "gone"}]
  BY DEF TypeOK
<1>2. CASE UNCHANGED machine
  BY <1>2
<1>3. ASSUME NEW n \in Machines, MCloseMachine(n) PROVE
             \/ machine'[m] = machine[m]
             \/ n = m /\ mrec[m].goal = "unwound" /\ machine'[m] = "gone"
  BY <1>1, <1>3 DEF MCloseMachine
<1>4. ASSUME NEW n \in Machines, CreateMachine(n) PROVE
             \/ machine'[m] = machine[m]
             \/ n = m /\ machine[m] = "absent" /\ machine'[m] = "live"
  BY <1>1, <1>4 DEF CreateMachine
<1>5. ASSUME NEW n \in Machines, DeleteMachine(n) PROVE
             \/ machine'[m] = machine[m]
             \/ /\ n = m /\ machine[m] = "live"
                /\ machine'[m] = IF m \in machineFin THEN "deleting"
                                                     ELSE "gone"
  BY <1>1, <1>5 DEF DeleteMachine
<1> QED
  BY <1>2, <1>3, <1>4, <1>5
     DEF Step, Refused, Next, vars, MStart, MachineStep, MPatchMachine,
     MPatchCluster, MWork, MUnwind, MCloseCluster, MFault, CStart, ClusterStep,
     CPatch, CProvision, CScan, CScanDone, CTeardown, CClose, CFault, Crash,
     Sync, DeleteCluster

\* The finalizers of the copy are the first elements of the array.
LEMMA HeldNames ==
    ASSUME NEW rec \in ClusterReconciles, rec.len <= Len(rec.array)
    PROVE  Range(Held(rec)) = {rec.array[i] : i \in 1..rec.len}
<1>1. /\ Held(rec) \in Seq(Names) /\ Len(Held(rec)) = rec.len
      /\ \A i \in 1..rec.len : Held(rec)[i] = rec.array[i]
  BY HeldList
<1>2. Range(Held(rec)) = {Held(rec)[i] : i \in 1..rec.len}
  BY <1>1 DEF Range
<1> QED
  BY <1>1, <1>2

\* RemoveFinalizer keeps all other names, and adds none.
LEMMA RemovedRange ==
    ASSUME NEW rec \in ClusterReconciles, rec.len <= Len(rec.array), NEW name,
           NEW new \in ClusterReconciles, new.len <= Len(new.array),
           new.array = Shifted(rec.array, rec.len, name),
           new.len = IF Holds(rec.array, rec.len, name)
                     THEN rec.len - 1 ELSE rec.len
    PROVE  /\ Range(Held(new)) \subseteq Range(Held(rec))
           /\ Range(Held(rec)) \ {name} \subseteq Range(Held(new))
<1> DEFINE array == rec.array
           len == rec.len
           Before(k) == \E i \in 1..k : array[i] = name
<1>1. /\ array \in Seq(Names) /\ len \in Nat /\ len <= Len(array)
      /\ new.len \in Nat /\ new.len <= len
      /\ new.array \in Seq(Names) /\ Len(new.array) = Len(array)
  BY ShiftedList DEF ClusterReconciles, Holds
<1>2. /\ Held(rec) \in Seq(Names) /\ Len(Held(rec)) = len
      /\ \A i \in 1..len : Held(rec)[i] = array[i]
      /\ Held(new) \in Seq(Names) /\ Len(Held(new)) = new.len
      /\ \A i \in 1..new.len : Held(new)[i] = new.array[i]
  BY HeldList
<1>3. /\ Range(Held(rec)) = {array[i] : i \in 1..len}
      /\ Range(Held(new)) = {new.array[i] : i \in 1..new.len}
  BY HeldNames
<1>4. \A k \in 1..Len(array) :
         new.array[k] = IF k < len /\ Before(k) THEN array[k + 1] ELSE array[k]
  BY DEF Shifted
<1> HIDE DEF array, len
<1>5. CASE ~Holds(array, len, name)
  <2>1. new.len = len /\ \A i \in 1..len : array[i] # name
    BY <1>1, <1>5 DEF Holds, array, len
  <2>2. \A k \in 1..len : new.array[k] = array[k]
    BY <1>1, <1>4, <2>1
  <2> QED
    BY <1>3, <2>1, <2>2
<1>6. CASE Holds(array, len, name)
  <2>1. new.len = len - 1 /\ len >= 1
    BY <1>1, <1>6 DEF Holds, array, len
  <2>2. ASSUME NEW k \in 1..(len - 1)
        PROVE  \E i \in 1..len : new.array[k] = array[i]
    BY <1>1, <1>4
  <2>3. ASSUME NEW i \in 1..len, array[i] # name
        PROVE  \E k \in 1..(len - 1) : new.array[k] = array[i]
    <3>1. CASE Before(i)
      <4>1. i - 1 \in 1..(len - 1) /\ Before(i - 1)
        BY <1>1, <2>3, <3>1
      <4>2. new.array[i - 1] = array[i]
        BY <1>1, <1>4, <4>1
      <4> QED
        BY <4>1, <4>2
    <3>2. CASE ~Before(i)
      <4>1. i \in 1..(len - 1)
        BY <1>1, <1>6, <2>3, <3>2 DEF Holds
      <4>2. i \in 1..Len(array)
        BY <1>1
      <4>3. new.array[i] = array[i]
        BY <1>4, <3>2, <4>2
      <4> QED
        BY <4>1, <4>3
    <3> QED
      BY <3>1, <3>2
  <2> QED
    BY <1>3, <2>1, <2>2, <2>3
<1> QED
  BY <1>5, <1>6

\* AddFinalizer adds the name, and no other.
LEMMA AddedRange ==
    ASSUME NEW fins \in Seq(Names), NEW name \in Names
    PROVE  Range(AddFinalizer(fins, name)) = Range(fins) \cup {name}
<1>1. CASE name \in Range(fins)
  BY <1>1 DEF AddFinalizer
<1>2. CASE name \notin Range(fins)
  <2>1. /\ AddFinalizer(fins, name) = Append(fins, name)
        /\ Len(Append(fins, name)) = Len(fins) + 1
        /\ \A i \in 1..Len(fins) : Append(fins, name)[i] = fins[i]
        /\ Append(fins, name)[Len(fins) + 1] = name
        /\ Append(fins, name) \in Seq(Names)
    BY <1>2 DEF AddFinalizer
  <2>2. /\ Range(fins) = {fins[i] : i \in 1..Len(fins)}
        /\ Range(Append(fins, name)) =
              {Append(fins, name)[i] : i \in 1..(Len(fins) + 1)}
    BY <2>1 DEF Range
  <2>3. Len(fins) \in Nat
          /\ 1..(Len(fins) + 1) = 1..Len(fins) \cup {Len(fins) + 1}
    OBVIOUS
  <2> QED
    BY <2>1, <2>2, <2>3
<1> QED
  BY <1>1, <1>2

\* The three invariants hold at the start, and every step keeps them.
LEMMA MarkInit == Init => MarkInv
BY DEF Init, MarkInv, ClusterInv, ClusterCopyInv, MachineCopiesInv,
   NoMachineReconcile, NoClusterReconcile

LEMMA ClusterInvStep ==
    ASSUME MachinesAfterReady, TypeOK, MarkInv, Step
    PROVE  ClusterInv'
<1>1. Marked(cluster.fins) /\ ~Marked(cluster'.fins)
         => cluster'.deleting /\ crec.pc = "close" /\ ~infra
  BY ClusterWrites DEF MarkInv, ClusterCopyInv
<1>2. cluster'.ready => cluster'.deleting \/ Marked(cluster'.fins)
  BY <1>1, ClusterWrites DEF MarkInv, ClusterInv, ClusterCopyInv
<1>3. ASSUME ~cluster'.ready, NEW m \in Machines PROVE machine'[m] = "absent"
  <2>1. ~cluster.ready /\ machine[m] = "absent"
    BY <1>3, ClusterWrites DEF MarkInv, ClusterInv
  <2>2. ~CreateMachine(m) /\ ~MCloseMachine(m)
    BY <2>1 DEF CreateMachine, MCloseMachine, MarkInv, MachineCopiesInv
  <2> QED
    BY <2>1, <2>2, MachineFacts
<1>4. infra' => Marked(cluster'.fins)
  BY <1>1, InfraFacts DEF MarkInv, ClusterInv, ClusterCopyInv
<1> QED
  BY <1>2, <1>3, <1>4, ClusterWrites DEF ClusterInv

LEMMA ClusterCopyInvStep ==
    ASSUME ~InformerLag, TypeOK, MarkInv, Step
    PROVE  ClusterCopyInv'
<1> DEFINE Same == Held(crec') = Held(crec) /\ crec'.before = crec.before
<1>1. /\ crec \in ClusterReconciles /\ crec.len <= Len(crec.array)
      /\ crec' \in ClusterReconciles /\ crec'.len <= Len(crec'.array)
      /\ cluster \in Objects /\ cluster.fins \in Seq(Names)
      /\ Held(crec) \in Seq(Names) /\ crec.before \in Seq(Names)
      /\ ClusterFinalizer \in Names
  BY TypeRefused, HeldList DEF TypeOK, ClusterReconciles, Objects, Names
<1>2. \/ crec' = crec
      \/ crec' = NoClusterReconcile
      \/ CStart \/ CPatch \/ CProvision \/ CScan \/ CScanDone \/ CTeardown
      \/ crec.pc # "idle" /\ crec' = [crec EXCEPT !.pc = "close"]
  BY ClusterMoves
<1>3. CASE \/ crec' = crec
           \/ crec.pc # "idle" /\ crec' = [crec EXCEPT !.pc = "close"]
  <2>1. /\ Same /\ crec'.ready = crec.ready /\ crec'.pc \in {crec.pc, "close"}
        /\ crec'.pc # "idle" => crec.pc # "idle"
    BY <1>1, <1>3 DEF Held, ClusterReconciles
  <2> QED
    BY <2>1, ClusterWrites, InfraFacts DEF MarkInv, ClusterCopyInv
<1>4. CASE crec' = NoClusterReconcile
  BY <1>4 DEF NoClusterReconcile, ClusterCopyInv
<1>5. CASE CStart
  <2>1. Seen = cluster /\ UNCHANGED <<cluster, infra>>
    BY <1>5 DEF Seen, CStart
  <2>2. CASE cluster.deleting
    <3>1. /\ crec'.pc = "scan" /\ ~crec'.ready /\ crec'.before = cluster.fins
          /\ crec'.array = cluster.fins /\ crec'.len = Len(cluster.fins)
      BY <1>5, <2>1, <2>2 DEF CStart
    <3>2. Held(crec') = cluster.fins
      BY <1>1, <3>1 DEF Held
    <3> QED
      BY <2>1, <2>2, <3>1, <3>2 DEF MarkInv, ClusterInv, ClusterCopyInv
  <2>3. CASE ~cluster.deleting
    <3> DEFINE list == AddFinalizer(cluster.fins, ClusterFinalizer)
    <3>1. list \in Seq(Names) /\ Marked(list)
      BY <1>1, AddFinalizerList, AddedRange DEF Marked
    <3>2. /\ crec'.pc = "patch" /\ ~crec'.ready /\ crec'.before = cluster.fins
          /\ crec'.array = list /\ crec'.len = Len(list)
      BY <1>5, <2>1, <2>3 DEF CStart
    <3> HIDE DEF list
    <3>3. Held(crec') = list
      BY <3>1, <3>2 DEF Held
    <3> QED
      BY <2>1, <2>3, <3>1, <3>2, <3>3 DEF ClusterCopyInv
  <2> QED
    BY <2>2, <2>3
<1>6. CASE CPatch
  <2>1. /\ Same /\ crec'.ready = crec.ready /\ ~crec.ready
        /\ crec'.pc \in {"provision", "close"} /\ Marked(Held(crec))
        /\ crec'.pc = "provision" => PatchSucceeds(crec.before, Held(crec))
        /\ cluster' = Patched(crec.before, Held(crec)) /\ crec.pc = "patch"
    BY <1>1, <1>6 DEF CPatch, Held, ClusterReconciles, MarkInv, ClusterCopyInv
  <2>2. crec'.pc = "provision" => Marked(cluster'.fins)
    BY <1>1, <2>1, WrittenFacts DEF PatchSucceeds, MarkInv, ClusterCopyInv
  <2> QED
    BY <2>1, <2>2 DEF ClusterCopyInv
<1>7. CASE CProvision
  <2>1. /\ Same /\ crec'.pc = "close" /\ crec.pc = "provision"
        /\ cluster' = cluster
    BY <1>1, <1>7 DEF CProvision, Held, ClusterReconciles
  <2> QED
    BY <2>1 DEF MarkInv, ClusterCopyInv
<1>8. CASE CScan
  <2>1. /\ UNCHANGED <<cluster, infra>> /\ crec.pc = "scan"
        /\ crec'.ready = crec.ready /\ crec'.pc \in {"scan", "close"}
    BY <1>1, <1>8 DEF CScan, ClusterReconciles
  <2>2. Marked(Held(crec)) => Marked(Held(crec'))
    <3>1. CASE crec'.array = crec.array /\ crec'.len = crec.len
      BY <3>1 DEF Held
    <3>2. CASE \E name : /\ name # ClusterFinalizer
                         /\ crec'.array = Shifted(crec.array, crec.len, name)
                         /\ crec'.len = IF Holds(crec.array, crec.len, name)
                                        THEN crec.len - 1 ELSE crec.len
      BY <1>1, <3>2, RemovedRange DEF Marked
    <3> QED
      BY <1>1, <1>8, <3>1, <3>2 DEF CScan, ClusterReconciles
  <2> QED
    BY <2>1, <2>2 DEF MarkInv, ClusterCopyInv
<1>9. CASE CScanDone
  <2>1. /\ Same /\ crec'.pc = "teardown" /\ crec.pc = "scan"
        /\ UNCHANGED <<cluster, infra>> /\ crec'.ready = crec.ready
    BY <1>1, <1>9 DEF CScanDone, Held, ClusterReconciles
  <2> QED
    BY <2>1 DEF MarkInv, ClusterCopyInv
<1>10. CASE CTeardown
  <2>1. /\ crec'.pc = "close" /\ crec.pc = "teardown"
        /\ cluster' = cluster /\ ~infra' /\ crec'.ready = crec.ready
    BY <1>1, <1>10 DEF CTeardown, ClusterReconciles
  <2> QED
    BY <2>1 DEF MarkInv, ClusterCopyInv
<1> QED
  BY <1>2, <1>3, <1>4, <1>5, <1>6, <1>7, <1>8, <1>9, <1>10

LEMMA MachineCopiesInvStep ==
    ASSUME ~InformerLag, TypeOK, MarkInv, Step
    PROVE  MachineCopiesInv'
<1> SUFFICES ASSUME NEW m \in Machines, mrec'[m].pc # "idle"
             PROVE  /\ machine'[m] # "absent"
                    /\ ~Marked(mrec'[m].after)
                          => cluster'.deleting /\ ~Marked(cluster'.fins)
  BY DEF MachineCopiesInv
<1>1. /\ mrec \in [Machines -> MachineReconciles]
      /\ mrec[m].after \in Seq(Names) /\ m \in Names
  BY DEF TypeOK, MachineReconciles, Names
<1>2. \/ MStart(m)
      \/ mrec[m].pc # "idle" /\ mrec'[m].after \in
            {mrec[m].after, AddFinalizer(mrec[m].after, m)}
  <2>1. CASE mrec'[m] = mrec[m] \/ mrec'[m] = NoMachineReconcile
    BY <2>1 DEF NoMachineReconcile
  <2>2. CASE MPatchMachine(m)
    BY <1>1, <2>2 DEF MPatchMachine, MachineReconciles
  <2>3. CASE MPatchCluster(m) \/ MWork(m)
    BY <1>1, <2>3 DEF MPatchCluster, MWork, MachineReconciles
  <2>4. CASE MUnwind(m) \/ MCloseMachine(m)
    BY <1>1, <2>4 DEF MUnwind, MCloseMachine, MachineReconciles, AtClose
  <2>5. CASE GivesUp(m)
    BY <1>1, <2>5 DEF GivesUp, MachineReconciles, AtClose
  <2> QED
    BY <2>1, <2>2, <2>3, <2>4, <2>5, MachineMoves
<1>3. CASE MStart(m)
  <2>1. /\ machine[m] # "absent" /\ UNCHANGED <<machine, cluster>>
        /\ mrec'[m].after = cluster.fins
    BY <1>1, <1>3 DEF MStart, Seen, Exists
  <2> QED
    BY <2>1 DEF MarkInv, ClusterInv
<1>4. CASE mrec[m].pc # "idle" /\ mrec'[m].after \in
              {mrec[m].after, AddFinalizer(mrec[m].after, m)}
  <2>1. Marked(mrec[m].after) => Marked(mrec'[m].after)
    BY <1>1, <1>4, AddedRange DEF Marked
  <2>2. machine'[m] # "absent"
    BY <1>4, MachineFacts DEF MarkInv, MachineCopiesInv
  <2> QED
    BY <1>4, <2>1, <2>2, ClusterWrites DEF MarkInv, MachineCopiesInv, Marked
<1> QED
  BY <1>2, <1>3, <1>4

LEMMA MarkStep ==
    ASSUME ~InformerLag, MachinesAfterReady, TypeOK, MarkInv, Step
    PROVE  MarkInv'
BY ClusterInvStep, ClusterCopyInvStep, MachineCopiesInvStep DEF MarkInv

-----------------------------------------------------------------------------
(* The finalizer of a machine and its instance.                            *)

\* A reconcile that serves a machine, and an instance, has the finalizer of
\* the machine in the way of the machine's removal; an unwound machine has no
\* instance.
ServeInv ==
    \A m \in Machines :
        /\ mrec[m].pc \in {"patchMachine", "patchCluster", "work"}
              => mrec[m].goal = "serve"
        /\ mrec[m].pc \in {"patchCluster", "work"} \/ m \in started
              => m \in machineFin /\ Exists(m)
        /\ mrec[m].goal = "unwound" => m \notin started

\* When the cluster goes last, no machine is left once it is deleted.
LastInv == cluster.deleting => \A m \in Machines : ~Exists(m)

\* Who adds an instance, and who takes the finalizer of a machine away.
LEMMA StartedFacts ==
    ASSUME TypeOK, Step, NEW m \in Machines
    PROVE  /\ m \in started' => m \in started \/ MWork(m)
           /\ m \in machineFin /\ m \notin machineFin'
                 => MCloseMachine(m) /\ mrec[m].goal = "unwound"
           /\ MUnwind(m) => m \notin started'
<1>1. /\ machineFin \subseteq Machines /\ started \subseteq Machines
  BY DEF TypeOK
<1>2. ASSUME NEW n \in Machines, MWork(n) \/ MUnwind(n)
      PROVE  /\ m \in started' => m \in started \/ MWork(m)
             /\ machineFin' = machineFin
             /\ MUnwind(m) => m \notin started'
  BY <1>1, <1>2 DEF MWork, MUnwind
<1>3. ASSUME NEW n \in Machines, MPatchMachine(n) \/ MCloseMachine(n)
      PROVE  /\ started' = started /\ ~MUnwind(m)
             /\ m \in machineFin /\ m \notin machineFin'
                   => MCloseMachine(m) /\ mrec[m].goal = "unwound"
  <2>1. ~MUnwind(m)
    <3>1. /\ mrec \in [Machines -> MachineReconciles]
          /\ mrec'[n] # mrec[n]
      BY <1>3, ReconcileMoves DEF TypeOK
    <3>2. n # m => mrec'[m] = mrec[m]
      BY <1>3, <3>1 DEF MPatchMachine, MCloseMachine
    <3> QED
      BY <1>3, <3>1, <3>2, ReconcileMoves
  <2> QED
    BY <1>1, <1>3, <2>1 DEF MPatchMachine, MCloseMachine
<1>4. CASE UNCHANGED <<machineFin, started>>
  BY <1>4 DEF MUnwind
<1> QED
  BY <1>2, <1>3, <1>4
     DEF Step, Refused, Next, vars, MStart, MachineStep, MPatchCluster,
     MCloseCluster, MFault, CStart, ClusterStep, CPatch, CProvision, CScan,
     CScanDone, CTeardown, CClose, CFault, Crash, Sync, CreateMachine,
     DeleteMachine, DeleteCluster

\* So do the two about machines.
LEMMA ServeInit == Init => ServeInv /\ LastInv
BY DEF Init, ServeInv, LastInv, NoMachineReconcile

LEMMA ServeStep ==
    ASSUME TypeOK, ServeInv, Step
    PROVE  ServeInv'
<1> SUFFICES ASSUME NEW m \in Machines
             PROVE  /\ mrec'[m].pc \in {"patchMachine", "patchCluster", "work"}
                          => mrec'[m].goal = "serve"
                    /\ mrec'[m].pc \in {"patchCluster", "work"}
                       \/ m \in started' => m \in machineFin' /\ Exists(m)'
                    /\ mrec'[m].goal = "unwound" => m \notin started'
  BY DEF ServeInv
<1>1. /\ mrec \in [Machines -> MachineReconciles]
      /\ mrec[m] \in MachineReconciles
      /\ mrec[m].pc \in {"patchMachine", "patchCluster", "work"}
            => mrec[m].goal = "serve"
      /\ mrec[m].pc \in {"patchCluster", "work"} \/ m \in started
            => m \in machineFin /\ Exists(m)
      /\ mrec[m].goal = "unwound" => m \notin started
      /\ machineFin \subseteq Machines
  BY DEF TypeOK, ServeInv
<1>2. \/ mrec'[m] = mrec[m]
      \/ mrec'[m] = NoMachineReconcile
      \/ MStart(m) \/ MPatchMachine(m) \/ MPatchCluster(m) \/ MWork(m)
      \/ MUnwind(m) \/ MCloseMachine(m)
      \/ GivesUp(m)
  BY MachineMoves
<1>3. mrec'[m].pc \in {"patchMachine", "patchCluster", "work"}
         => mrec'[m].goal = "serve"
  BY <1>1, <1>2, ReconcileMoves DEF NoMachineReconcile
<1>4. mrec'[m].goal = "unwound" => mrec[m].goal = "unwound" \/ MUnwind(m)
  BY <1>1, <1>2, ReconcileMoves DEF NoMachineReconcile
<1>5. mrec'[m].goal = "unwound" => m \notin started'
  BY <1>1, <1>4, StartedFacts DEF MWork
<1>6. ASSUME mrec'[m].pc \in {"patchCluster", "work"} \/ m \in started'
      PROVE  m \in machineFin' /\ Exists(m)'
  <2>1. CASE MPatchMachine(m)
    BY <1>1, <1>6, <2>1 DEF MPatchMachine, Exists, MachineReconciles
  <2>2. CASE ~MPatchMachine(m)
    <3>1. mrec[m].pc \in {"patchCluster", "work"} \/ m \in started
      <4>1. mrec'[m].pc \in {"patchCluster", "work"}
               => mrec[m].pc \in {"patchCluster", "work"}
        BY <1>1, <1>2, <2>2, ReconcileMoves DEF NoMachineReconcile
      <4> QED
        BY <1>6, <4>1, StartedFacts DEF MWork
    <3>2. ~(MCloseMachine(m) /\ mrec[m].goal = "unwound")
      BY <1>1, <3>1 DEF MCloseMachine
    <3> QED
      BY <1>1, <3>1, <3>2, StartedFacts, MachineFacts DEF Exists
  <2> QED
    BY <2>1, <2>2
<1> QED
  BY <1>3, <1>5, <1>6

LEMMA LastStep ==
    ASSUME DeletedLast, TypeOK, LastInv, Step
    PROVE  LastInv'
<1> SUFFICES ASSUME cluster'.deleting, NEW m \in Machines
             PROVE  ~Exists(m)'
  BY DEF LastInv
<1>1. CASE cluster.deleting
  BY <1>1, MachineFacts DEF LastInv, Exists, CreateMachine
<1>2. CASE ~cluster.deleting
  <2>1. DeleteCluster
    <3>1. cluster \in Objects /\ mrec \in [Machines -> MachineReconciles]
          /\ crec.before \in Seq(Names) /\ Held(crec) \in Seq(Names)
      BY HeldList DEF TypeOK, ClusterReconciles
    <3>2. ASSUME NEW n \in Machines
          PROVE  ~MPatchCluster(n) /\ ~MCloseCluster(n)
      <4>1. mrec[n].before \in Seq(Names) /\ mrec[n].after \in Seq(Names)
        BY <3>1 DEF MachineReconciles
      <4> QED
        BY <1>2, <3>1, <4>1, WrittenFacts DEF MPatchCluster, MCloseCluster
    <3>3. ~CPatch /\ ~CClose
      <4> DEFINE after == Patched(crec.before, Held(crec))
      <4>1. after \in Objects /\ ~after.deleting
        BY <1>2, <3>1, WrittenFacts
      <4>2. CPatch => cluster' = after
        BY DEF CPatch
      <4>3. CClose => \E r : cluster' = [after EXCEPT !.ready = r]
        BY DEF CClose
      <4> HIDE DEF after
      <4> QED
        BY <4>1, <4>2, <4>3 DEF Objects
    <3> QED
      BY <1>2, <3>2, <3>3 DEF Step, Refused, Next, vars, MStart, MachineStep,
         MPatchMachine, MWork, MUnwind, MCloseMachine, MFault, CStart,
         ClusterStep, CProvision, CScan, CScanDone, CTeardown, CFault, Crash,
         Sync, CreateMachine, DeleteMachine
  <2> QED
    BY <2>1 DEF DeleteCluster, Exists
<1> QED
  BY <1>1, <1>2

-----------------------------------------------------------------------------
(* The registration of the machines.                                       *)

\* A list holds every machine that is registered and exists.
Kept(fins) ==
    \A m \in Machines : m \in Range(cluster.fins) /\ Exists(m)
                           => m \in Range(fins)

\* Only a machine that was created is in a list.
AbsentInv ==
    \A m \in Machines :
        machine[m] = "absent" =>
              /\ m \notin Range(cluster.fins)
              /\ m \notin Range(Held(crec))
              /\ \A n \in Machines : m \notin Range(mrec[n].after)

\* The reconcile of a machine takes nothing from the list it has read, and
\* adds nothing but the machine.
CopyInv ==
    \A m \in Machines :
        mrec[m].after \in {mrec[m].before, AddFinalizer(mrec[m].before, m)}

\* The cluster reconcile writes nothing, or writes before there is a machine,
\* or takes machines from the list that do not exist.
ScanInv ==
    crec.pc # "idle" =>
        \/ /\ crec.pc \notin {"scan", "teardown"}
           /\ Held(crec) = crec.before \/ ~cluster.ready
        \/ cluster.deleting /\ Kept(Held(crec))

RegInv == AbsentInv /\ CopyInv /\ ScanInv

\* Who writes which list.
LEMMA ListWrites ==
    ASSUME TypeOK, Step
    PROVE  \/ cluster'.fins = cluster.fins
           \/ \E n \in Machines : /\ MPatchCluster(n) \/ MCloseCluster(n)
                                  /\ mrec[n].pc # "idle"
                                  /\ mrec[n].before # mrec[n].after
                                  /\ cluster'.fins = mrec[n].after
           \/ /\ crec.pc # "idle" /\ Held(crec) # crec.before
              /\ cluster'.fins = Held(crec)
<1>1. /\ cluster \in Objects /\ mrec \in [Machines -> MachineReconciles]
      /\ crec \in ClusterReconciles /\ crec.before \in Seq(Names)
      /\ Held(crec) \in Seq(Names)
  BY HeldList DEF TypeOK, ClusterReconciles
<1>2. CASE UNCHANGED cluster
  BY <1>2
<1>3. CASE \E m \in Machines : MPatchCluster(m) \/ MCloseCluster(m)
  <2>1. PICK m \in Machines :
          /\ MPatchCluster(m) \/ MCloseCluster(m)
          /\ cluster' = Patched(mrec[m].before, mrec[m].after)
          /\ mrec[m].pc # "idle"
    BY <1>3 DEF MPatchCluster, MCloseCluster
  <2>2. mrec[m].before \in Seq(Names) /\ mrec[m].after \in Seq(Names)
    BY <1>1 DEF MachineReconciles
  <2> QED
    BY <1>1, <2>1, <2>2, WrittenFacts
<1>4. CASE CPatch
  <2>1. cluster' = Patched(crec.before, Held(crec)) /\ crec.pc # "idle"
    BY <1>4 DEF CPatch
  <2> QED
    BY <1>1, <2>1, WrittenFacts
<1>5. CASE CClose
  <2> DEFINE after == Patched(crec.before, Held(crec))
  <2>1. crec.pc # "idle" /\ \E r : cluster' = [after EXCEPT !.ready = r]
    BY <1>5 DEF CClose
  <2>2. /\ after \in Objects /\ after.fins \in {cluster.fins, Held(crec)}
        /\ crec.before = Held(crec) => after = cluster
    BY <1>1, WrittenFacts
  <2> HIDE DEF after
  <2>3. cluster'.fins = after.fins
    BY <2>1, <2>2 DEF Objects
  <2> QED
    BY <2>1, <2>2, <2>3
<1>6. CASE DeleteCluster
  BY <1>1, <1>6 DEF DeleteCluster, Objects
<1> QED
  BY <1>2, <1>3, <1>4, <1>5, <1>6 DEF Step, Next, vars, Refused, MStart,
     MachineStep, MPatchMachine, MWork, MUnwind, MCloseMachine, MFault,
     CStart, ClusterStep, CProvision, CScan, CScanDone, CTeardown, CFault,
     Crash, Sync, CreateMachine, DeleteMachine

\* A registration is taken away by the reconcile of another machine, which
\* read the list without it.
LEMMA UnregisteredBy ==
    ASSUME TypeOK, MarkInv, RegInv, Step, NEW m \in Machines, Unregistered(m)
    PROVE  \E n \in Machines \ {m} : Overwrites(n, m) /\ mrec[n].pc # "idle"
                                      /\ cluster'.fins = mrec[n].after
<1>1. CASE /\ crec.pc # "idle" /\ Held(crec) # crec.before
           /\ cluster'.fins = Held(crec)
  <2>1. cluster.ready
    BY DEF Unregistered, MarkInv, ClusterInv, Exists
  <2> QED
    BY <1>1, <2>1 DEF Unregistered, RegInv, ScanInv, Kept
<1>2. CASE \E n \in Machines : /\ MPatchCluster(n) \/ MCloseCluster(n)
                               /\ mrec[n].pc # "idle"
                               /\ mrec[n].before # mrec[n].after
                               /\ cluster'.fins = mrec[n].after
  <2>1. PICK n \in Machines : /\ MPatchCluster(n) \/ MCloseCluster(n)
                              /\ mrec[n].pc # "idle"
                              /\ mrec[n].before # mrec[n].after
                              /\ cluster'.fins = mrec[n].after
    BY <1>2
  <2>2. /\ mrec[n].before \in Seq(Names) /\ n \in Names
        /\ mrec[n].after = AddFinalizer(mrec[n].before, n)
    BY <2>1 DEF TypeOK, MachineReconciles, Names, RegInv, CopyInv
  <2>3. Range(mrec[n].after) = Range(mrec[n].before) \cup {n}
    BY <2>2, AddedRange
  <2>4. m # n /\ m \notin Range(mrec[n].before)
    BY <2>1, <2>3 DEF Unregistered
  <2> QED
    BY <2>1, <2>4 DEF Overwrites
<1> QED
  BY <1>1, <1>2, ListWrites DEF Unregistered

\* A machine that exists after a step existed before, or was not registered.
LEMMA ExistedBefore ==
    ASSUME TypeOK, Step, NEW m \in Machines, Exists(m)'
    PROVE  Exists(m) \/ machine[m] = "absent"
BY MachineFacts DEF Exists

\* And the three about registration.
LEMMA RegInit == Init => RegInv
BY DEF Init, RegInv, AbsentInv, CopyInv, ScanInv, Held, Range,
   NoMachineReconcile, NoClusterReconcile

LEMMA AbsentInvStep ==
    ASSUME ~InformerLag, TypeOK, MarkInv, RegInv, Step
    PROVE  AbsentInv'
<1> SUFFICES ASSUME NEW m \in Machines, machine'[m] = "absent"
             PROVE  /\ m \notin Range(cluster'.fins)
                    /\ m \notin Range(Held(crec'))
                    /\ \A n \in Machines : m \notin Range(mrec'[n].after)
  BY DEF AbsentInv
<1>1. /\ mrec \in [Machines -> MachineReconciles] /\ m # ClusterFinalizer
      /\ m \in Names /\ ClusterFinalizer \in Names
      /\ cluster \in Objects /\ cluster.fins \in Seq(Names)
      /\ crec \in ClusterReconciles /\ crec.len <= Len(crec.array)
      /\ crec' \in ClusterReconciles /\ crec'.len <= Len(crec'.array)
  BY ConstantsAssumption, TypeRefused DEF TypeOK, Names, Objects
<1>2. /\ machine[m] = "absent" /\ m \notin Range(cluster.fins)
      /\ m \notin Range(Held(crec))
      /\ \A n \in Machines : m \notin Range(mrec[n].after)
  BY MachineFacts DEF RegInv, AbsentInv
<1>3. m \notin Range(cluster'.fins)
  BY <1>2, ListWrites
<1>4. m \notin Range(Held(crec'))
  <2>1. CASE crec' = NoClusterReconcile
    BY <2>1 DEF NoClusterReconcile, Held, Range
  <2>2. CASE CStart
    <3> DEFINE added == AddFinalizer(cluster.fins, ClusterFinalizer)
    <3>0. /\ added \in Seq(Names)
          /\ Range(added) = Range(cluster.fins) \cup {ClusterFinalizer}
      BY <1>1, AddFinalizerList, AddedRange
    <3>1. PICK list \in {cluster.fins, added} :
            crec'.array = list /\ crec'.len = Len(list)
      BY <2>2 DEF CStart, Seen
    <3> HIDE DEF added
    <3>2. list \in Seq(Names) /\ m \notin Range(list)
      BY <1>1, <1>2, <3>0
    <3>3. Held(crec') = list
      BY <3>1, <3>2 DEF Held
    <3> QED
      BY <3>2, <3>3
  <2>3. CASE crec'.array = crec.array /\ crec'.len = crec.len
    BY <1>2, <2>3 DEF Held
  <2>4. CASE \E name : /\ crec'.array = Shifted(crec.array, crec.len, name)
                       /\ crec'.len = IF Holds(crec.array, crec.len, name)
                                      THEN crec.len - 1 ELSE crec.len
    BY <1>1, <1>2, <2>4, RemovedRange
  <2>5. CASE CPatch \/ CProvision \/ CScanDone \/ crec' = crec
             \/ crec' = [crec EXCEPT !.pc = "close"]
    BY <1>1, <2>3, <2>5 DEF CPatch, CProvision, CScanDone, ClusterReconciles
  <2>6. CASE CScan
    BY <1>1, <2>3, <2>4, <2>6 DEF CScan, ClusterReconciles
  <2>7. CASE CTeardown
    BY <1>1, <2>4, <2>7 DEF CTeardown, ClusterReconciles
  <2> QED
    BY <2>1, <2>2, <2>5, <2>6, <2>7, ClusterMoves
<1>5. ASSUME NEW n \in Machines PROVE m \notin Range(mrec'[n].after)
  <2>1. mrec[n] \in MachineReconciles /\ mrec[n].after \in Seq(Names)
        /\ n \in Names
    BY <1>1 DEF MachineReconciles, Names
  <2>2. CASE mrec'[n] = NoMachineReconcile
    BY <2>2 DEF NoMachineReconcile, Range
  <2>3. CASE MStart(n)
    BY <1>1, <1>2, <2>3 DEF MStart, Seen
  <2>4. CASE MPatchMachine(n)
    <3>1. mrec[n].pc # "idle" /\ n # m
      BY <1>2, <2>4 DEF MPatchMachine, MarkInv, MachineCopiesInv
    <3>2. mrec'[n].after \in {mrec[n].after, AddFinalizer(mrec[n].after, n)}
      BY <1>1, <2>1, <2>4 DEF MPatchMachine, MachineReconciles
    <3> QED
      BY <1>2, <2>1, <3>1, <3>2, AddedRange
  <2>5. CASE mrec'[n] = mrec[n] \/ MPatchCluster(n) \/ MWork(n)
             \/ MUnwind(n) \/ MCloseMachine(n) \/ GivesUp(n)
    <3>1. mrec'[n].after = mrec[n].after
      BY <1>1, <2>1, <2>5 DEF MPatchCluster, MWork, MUnwind, MCloseMachine,
         GivesUp, MachineReconciles, AtClose
    <3> QED
      BY <1>2, <3>1
  <2> QED
    BY <2>2, <2>3, <2>4, <2>5, MachineMoves
<1> QED
  BY <1>3, <1>4, <1>5

LEMMA CopyInvStep ==
    ASSUME TypeOK, RegInv, Step
    PROVE  CopyInv'
<1> SUFFICES ASSUME NEW m \in Machines
             PROVE  mrec'[m].after \in {mrec'[m].before,
                                        AddFinalizer(mrec'[m].before, m)}
  BY DEF CopyInv
<1>1. /\ mrec \in [Machines -> MachineReconciles] /\ m \in Names
      /\ mrec[m].before \in Seq(Names)
      /\ mrec[m].after \in {mrec[m].before, AddFinalizer(mrec[m].before, m)}
  BY DEF TypeOK, MachineReconciles, Names, RegInv, CopyInv
<1>2. CASE MPatchMachine(m)
  <2>1. m \in Range(AddFinalizer(mrec[m].before, m))
    BY <1>1, AddedRange
  <2>2. AddFinalizer(AddFinalizer(mrec[m].before, m), m)
           = AddFinalizer(mrec[m].before, m)
    BY <2>1 DEF AddFinalizer
  <2> QED
    BY <1>1, <1>2, <2>2, ReconcileMoves DEF SameLists
<1>3. CASE MStart(m)
  BY <1>1, <1>3, ReconcileMoves
<1>4. CASE MPatchCluster(m) \/ MWork(m) \/ MUnwind(m) \/ MCloseMachine(m)
           \/ GivesUp(m)
  BY <1>1, <1>4, ReconcileMoves DEF SameLists
<1>5. CASE mrec'[m] = mrec[m] \/ mrec'[m] = NoMachineReconcile
  BY <1>1, <1>5 DEF NoMachineReconcile
<1> QED
  BY <1>2, <1>3, <1>4, <1>5, MachineMoves

LEMMA ScanInvStep ==
    ASSUME ~InformerLag, MachinesAfterReady,
           DottedNames = {} \/ (DeletedLast /\ LastInv), TypeOK, MarkInv,
           RegInv, Step
    PROVE  ScanInv'
<1> DEFINE Same == Held(crec') = Held(crec) /\ crec'.before = crec.before
<1>1. /\ crec \in ClusterReconciles /\ crec.len <= Len(crec.array)
      /\ crec' \in ClusterReconciles /\ crec'.len <= Len(crec'.array)
      /\ cluster \in Objects /\ cluster.fins \in Seq(Names)
      /\ ClusterFinalizer \in Names /\ ClusterFinalizer \notin Machines
  BY ConstantsAssumption, TypeRefused
     DEF TypeOK, Objects, Names
<1>2. ASSUME cluster.deleting, Kept(Held(crec))
      PROVE  /\ cluster'.deleting
             /\ \A m \in Machines : m \in Range(cluster'.fins) /\ Exists(m)'
                   => m \in Range(Held(crec)) /\ Exists(m)
  <2>1. cluster'.deleting /\ Range(cluster'.fins) \subseteq Range(cluster.fins)
    BY <1>2, ClusterWrites
  <2> QED
    BY <1>2, <2>1, ExistedBefore DEF Kept, RegInv, AbsentInv
<1>3. ASSUME Same, crec.pc # "idle", crec'.pc # "idle",
             crec'.pc \in {"scan", "teardown"}
                => crec.pc \in {"scan", "teardown"}
      PROVE  ScanInv'
  <2>1. ~cluster.ready => ~cluster'.ready
    BY <1>3, ClusterWrites DEF CClose, NoClusterReconcile
  <2> QED
    BY <1>2, <1>3, <2>1 DEF RegInv, ScanInv, Kept
<1>4. CASE crec' = NoClusterReconcile
  BY <1>4 DEF NoClusterReconcile, ScanInv
<1>5. CASE crec' = crec
  BY <1>3, <1>5 DEF ScanInv
<1>6. CASE crec.pc # "idle" /\ crec' = [crec EXCEPT !.pc = "close"]
  <2>1. Same /\ crec'.pc = "close"
    BY <1>1, <1>6 DEF Held, ClusterReconciles
  <2> QED
    BY <1>3, <1>6, <2>1
<1>7. CASE CPatch \/ CProvision \/ CScanDone
  <2>1. PICK p \in {"provision", "close", "teardown"}, r \in BOOLEAN :
           /\ crec' = [crec EXCEPT !.pc = p, !.ready = r]
           /\ crec.pc # "idle"
           /\ p = "teardown" => crec.pc = "scan"
    <3>1. crec.ready \in BOOLEAN
      BY <1>1 DEF ClusterReconciles
    <3>2. CPatch \/ CScanDone =>
             /\ \E p \in {"provision", "close", "teardown"} :
                   /\ crec' = [crec EXCEPT !.pc = p]
                   /\ p = "teardown" => crec.pc = "scan"
             /\ crec.pc # "idle"
      BY DEF CPatch, CScanDone
    <3>3. \A p : [crec EXCEPT !.pc = p] = [crec EXCEPT !.pc = p,
                                                       !.ready = crec.ready]
      BY <1>1 DEF ClusterReconciles
    <3>4. CASE CProvision
      BY <3>4 DEF CProvision
    <3> QED
      BY <1>7, <3>1, <3>2, <3>3, <3>4
  <2>2. /\ crec'.pc = p /\ p # "idle" /\ crec.pc # "idle"
        /\ p = "teardown" => crec.pc = "scan"
        /\ crec'.array = crec.array /\ crec'.len = crec.len
        /\ crec'.before = crec.before
    BY <1>1, <2>1 DEF ClusterReconciles
  <2>3. Same
    BY <2>2 DEF Held
  <2> QED
    BY <1>3, <2>2, <2>3
<1>8. CASE CStart
  <2>1. Seen = cluster /\ UNCHANGED <<cluster, machine>>
    BY <1>8 DEF Seen, CStart
  <2>2. CASE cluster.deleting
    <3>1. crec'.array = cluster.fins /\ crec'.len = Len(cluster.fins)
      BY <1>8, <2>1, <2>2 DEF CStart
    <3>2. Held(crec') = cluster.fins
      BY <1>1, <3>1 DEF Held
    <3> QED
      BY <2>1, <2>2, <3>2 DEF ScanInv, Kept
  <2>3. CASE ~cluster.deleting
    <3> DEFINE list == AddFinalizer(cluster.fins, ClusterFinalizer)
    <3>1. /\ list \in Seq(Names)
          /\ Marked(cluster.fins) => list = cluster.fins
      BY <1>1, AddFinalizerList DEF Marked, AddFinalizer
    <3>2. /\ crec'.pc = "patch" /\ crec'.before = cluster.fins
          /\ crec'.array = list /\ crec'.len = Len(list)
      BY <1>8, <2>1, <2>3 DEF CStart
    <3> HIDE DEF list
    <3>3. Held(crec') = list
      BY <3>1, <3>2 DEF Held
    <3> QED
      BY <2>1, <2>3, <3>1, <3>2, <3>3 DEF ScanInv, MarkInv, ClusterInv
  <2> QED
    BY <2>2, <2>3
<1>9. ASSUME crec.pc \in {"scan", "teardown"}, NEW name,
             name \in Machines => ~Exists(name),
             crec'.array = Shifted(crec.array, crec.len, name),
             crec'.len = IF Holds(crec.array, crec.len, name)
                         THEN crec.len - 1 ELSE crec.len
      PROVE  ScanInv'
  <2>1. Range(Held(crec)) \ {name} \subseteq Range(Held(crec'))
    BY <1>1, <1>9, RemovedRange
  <2>2. cluster.deleting /\ Kept(Held(crec))
    BY <1>9 DEF RegInv, ScanInv
  <2> QED
    BY <1>2, <1>9, <2>1, <2>2 DEF ScanInv, Kept
<1>10. CASE CScan
  <2> DEFINE name == crec.array[crec.next]
  <2>1. \/ /\ Same /\ crec'.pc \in {"scan", "close"}
        \/ /\ name # ClusterFinalizer /\ ~Found(name)
           /\ crec'.array = Shifted(crec.array, crec.len, name)
           /\ crec'.len = IF Holds(crec.array, crec.len, name)
                          THEN crec.len - 1 ELSE crec.len
    BY <1>1, <1>10 DEF CScan, Held, ClusterReconciles
  <2>2. crec.pc = "scan" /\ cluster.deleting
    BY <1>10 DEF CScan, MarkInv, ClusterCopyInv
  <2>3. name \in Machines /\ ~Found(name) => ~Exists(name)
    BY <2>2 DEF Found, LastInv
  <2> QED
    BY <1>3, <1>9, <2>1, <2>2, <2>3
<1>11. CASE CTeardown
  <2>1. /\ crec.pc = "teardown"
        /\ crec'.array = Shifted(crec.array, crec.len, ClusterFinalizer)
        /\ crec'.len = IF Holds(crec.array, crec.len, ClusterFinalizer)
                       THEN crec.len - 1 ELSE crec.len
    BY <1>1, <1>11 DEF CTeardown, ClusterReconciles
  <2> QED
    BY <1>1, <1>9, <2>1
<1> QED
  BY <1>4, <1>5, <1>6, <1>7, <1>8, <1>10, <1>11, ClusterMoves

LEMMA RegStep ==
    ASSUME ~InformerLag, MachinesAfterReady,
           DottedNames = {} \/ (DeletedLast /\ LastInv),
           TypeOK, MarkInv, RegInv, Step
    PROVE  RegInv'
BY AbsentInvStep, CopyInvStep, ScanInvStep DEF RegInv

\* What holds of the objects whatever the names are.
LastIInv == TypeOK /\ MarkInv /\ ServeInv /\ (DeletedLast => LastInv)

LEMMA LastIInvInit == Init => LastIInv
BY TypeInit, MarkInit, ServeInit DEF LastIInv

LEMMA LastIInvStep ==
    ASSUME ~InformerLag, MachinesAfterReady
    PROVE  LastIInv /\ Step => LastIInv'
BY TypeRefused, MarkStep, ServeStep, LastStep DEF LastIInv

\* And what holds when no scan cuts a name.
RegIInv == LastIInv /\ RegInv

LEMMA RegIInvInit == Init => RegIInv
BY LastIInvInit, RegInit DEF RegIInv

LEMMA RegIInvStep ==
    ASSUME ~InformerLag, MachinesAfterReady, DottedNames = {} \/ DeletedLast
    PROVE  RegIInv /\ Step => RegIInv'
BY LastIInvStep, RegStep DEF RegIInv, LastIInv

\* What a step does to the registration of one machine.
KeptInStep ==
    \A m \in Machines :
        Unregistered(m) => \E n \in Machines \ {m} : Overwrites(n, m)

LEMMA RegIInvKept == RegIInv /\ Step => KeptInStep
BY UnregisteredBy DEF RegIInv, LastIInv, KeptInStep

\* Whatever the number of workers, the finalizer of a machine that exists goes
\* in one way only: another machine's reconcile writes a list it read before
\* the finalizer was on it.  The scan of a deletion, which shifts the list it
\* ranges over, the reconcile of the cluster and the failures never take it.
THEOREM RegistrationStays ==
    ASSUME ~InformerLag, MachinesAfterReady, DottedNames = {} \/ DeletedLast
    PROVE  Spec => RegistrationKept
<1>1. RegIInv /\ [Next]_vars => RegIInv'
  BY RegIInvStep DEF Step
<1>2. RegIInv /\ [Next]_vars => [KeptInStep]_vars
  BY RegIInvKept DEF Step
<1>3. RegistrationKept <=> [][KeptInStep]_vars
  BY DEF RegistrationKept, KeptInStep
<1> QED
  BY RegIInvInit, <1>1, <1>2, <1>3, PTL DEF Spec

-----------------------------------------------------------------------------
(* The instances of the machines.                                          *)

\* No reconcile takes the registration of another machine with the list it
\* writes.  With one worker it holds; with more, TLC has a counterexample.
NoOverwrite ==
    \A m \in Machines : \A n \in Machines \ {m} :
        ~(Unregistered(m) /\ Overwrites(n, m))

\* A machine that has an instance or is about to is registered, and a
\* reconcile creates one only after it wrote, or found, the registration.
StartInv ==
    \A m \in Machines :
        /\ m \in started \/ mrec[m].pc = "work" => m \in Range(cluster.fins)
        /\ mrec[m].pc \in {"patchCluster", "work"}
              => m \in Range(mrec[m].after)
        /\ /\ mrec[m].pc \in {"patchMachine", "patchCluster"} /\ Exists(m)
           /\ m \in Range(mrec[m].before)
           => m \in Range(cluster.fins)

LEMMA StartInit == Init => StartInv
BY DEF Init, StartInv, NoMachineReconcile

LEMMA StartStep ==
    ASSUME ~InformerLag, LastIInv, LastIInv', StartInv, Step,
           \A m \in Machines : ~Unregistered(m)
    PROVE  StartInv'
<1> SUFFICES ASSUME NEW m \in Machines
             PROVE  /\ m \in started' \/ mrec'[m].pc = "work"
                          => m \in Range(cluster'.fins)
                    /\ mrec'[m].pc \in {"patchCluster", "work"}
                          => m \in Range(mrec'[m].after)
                    /\ /\ mrec'[m].pc \in {"patchMachine", "patchCluster"}
                       /\ Exists(m)'
                       /\ m \in Range(mrec'[m].before)
                       => m \in Range(cluster'.fins)
  BY DEF StartInv
<1>1. /\ mrec \in [Machines -> MachineReconciles] /\ m \in Names
      /\ mrec[m] \in MachineReconciles /\ cluster \in Objects
      /\ mrec[m].before \in Seq(Names) /\ mrec[m].after \in Seq(Names)
      /\ TypeOK /\ MarkInv /\ ServeInv /\ ServeInv'
  BY DEF LastIInv, TypeOK, Names, MachineReconciles
<1>2. m \in Range(cluster.fins) /\ Exists(m) /\ Exists(m)'
         => m \in Range(cluster'.fins)
  BY DEF Unregistered
<1>3. CASE MStart(m)
  <2>1. /\ mrec'[m].before = cluster.fins /\ cluster' = cluster
        /\ mrec'[m].pc \notin {"patchCluster", "work"} /\ started' = started
    BY <1>1, <1>3, ReconcileMoves DEF MStart, Seen
  <2> QED
    BY <2>1 DEF StartInv
<1>4. CASE MPatchMachine(m)
  <2>1. /\ mrec[m].pc = "patchMachine" /\ mrec'[m].before = mrec[m].before
        /\ mrec'[m].pc # "work" /\ UNCHANGED <<cluster, machine, started>>
        /\ mrec'[m].pc = "patchCluster"
              => mrec'[m].after = AddFinalizer(mrec[m].after, m)
        /\ mrec'[m].pc \in {"patchCluster", "closeMachine"}
    BY <1>1, <1>4, ReconcileMoves DEF MPatchMachine
  <2> QED
    BY <1>1, <2>1, AddedRange DEF StartInv, Exists
<1>5. CASE MPatchCluster(m)
  <2>1. /\ mrec[m].pc = "patchCluster" /\ SameLists(m)
        /\ mrec'[m].pc \in {"work", "closeMachine"}
        /\ started' = started /\ machine' = machine
        /\ cluster' = Patched(mrec[m].before, mrec[m].after)
    BY <1>1, <1>5, ReconcileMoves DEF MPatchCluster
  <2>2. mrec'[m].pc = "work" => PatchSucceeds(mrec[m].before, mrec[m].after)
    BY <1>1, <1>5 DEF MPatchCluster
  <2>3. Exists(m) /\ Exists(m)' /\ m \in Range(mrec[m].after)
    BY <1>1, <2>1 DEF ServeInv, StartInv, Exists
  <2>4. m \in started => m \in Range(cluster'.fins)
    BY <1>2, <2>3 DEF StartInv
  <2>5. ASSUME mrec'[m].pc = "work" PROVE m \in Range(cluster'.fins)
    <3>1. CASE mrec[m].before = mrec[m].after
      BY <1>2, <2>1, <2>3, <3>1 DEF StartInv
    <3>2. CASE mrec[m].before # mrec[m].after
      <4>1. cluster'.fins = mrec[m].after
        BY <1>1, <2>1, <2>5, <2>2, <3>2, WrittenFacts DEF PatchSucceeds
      <4> QED
        BY <2>3, <4>1
    <3> QED
      BY <3>1, <3>2
  <2> QED
    BY <2>1, <2>3, <2>4, <2>5 DEF SameLists
<1>6. CASE MWork(m)
  <2>1. /\ mrec[m].pc = "work" /\ mrec'[m].pc = "closeMachine"
        /\ cluster' = cluster
    BY <1>1, <1>6, ReconcileMoves DEF MWork
  <2> QED
    BY <2>1 DEF StartInv
<1>7. CASE ~MStart(m) /\ ~MPatchMachine(m) /\ ~MPatchCluster(m) /\ ~MWork(m)
  <2>1. m \in started' => m \in started /\ Exists(m) /\ Exists(m)'
    BY <1>1, <1>7, StartedFacts DEF ServeInv
  <2>2. \/ mrec'[m] = mrec[m]
        \/ mrec'[m].pc \notin {"patchMachine", "patchCluster", "work"}
    BY <1>1, <1>7, MachineMoves, ReconcileMoves DEF NoMachineReconcile
  <2>3. CASE mrec'[m].pc \notin {"patchMachine", "patchCluster", "work"}
    BY <1>2, <2>1, <2>3 DEF StartInv
  <2>4. CASE mrec'[m] = mrec[m]
    <3>1. mrec[m].pc = "work" => Exists(m) /\ Exists(m)'
      BY <1>1, <2>4 DEF ServeInv
    <3>2. mrec[m].pc # "idle" /\ Exists(m)' => Exists(m)
      BY <1>1, ExistedBefore DEF MarkInv, MachineCopiesInv
    <3> QED
      BY <1>2, <2>1, <2>4, <3>1, <3>2 DEF StartInv
  <2> QED
    BY <2>2, <2>3, <2>4
<1> QED
  BY <1>3, <1>4, <1>5, <1>6, <1>7

\* The invariant of the behaviours without overwriting.
StartIInv == RegIInv /\ StartInv

LEMMA StartIInvInit == Init => StartIInv
BY RegIInvInit, StartInit DEF StartIInv

LEMMA StartIInvStep ==
    ASSUME ~InformerLag, MachinesAfterReady, DottedNames = {} \/ DeletedLast
    PROVE  StartIInv /\ Step /\ NoOverwrite => StartIInv'
<1> SUFFICES ASSUME StartIInv, Step, NoOverwrite PROVE StartIInv'
  OBVIOUS
<1>1. RegIInv'
  BY RegIInvStep DEF StartIInv
<1>2. \A m \in Machines : ~Unregistered(m)
  BY RegIInvKept DEF StartIInv, KeptInStep, NoOverwrite
<1> QED
  BY <1>1, <1>2, StartStep DEF StartIInv, RegIInv

\* What the invariant says of a state.
LEMMA StartIInvRegistered == StartIInv => StartedRegistered
<1> SUFFICES ASSUME StartIInv, NEW m \in started
             PROVE  cluster.present /\ m \in Range(cluster.fins)
  BY DEF StartedRegistered
<1>1. m \in Range(cluster.fins)
  BY DEF StartIInv, RegIInv, LastIInv, TypeOK, StartInv
<1>2. cluster.fins # <<>>
  BY <1>1 DEF Range
<1> QED
  BY <1>1, <1>2 DEF StartIInv, RegIInv, LastIInv, MarkInv, ClusterInv

\* Nothing is taken from the list when nothing happens.
LEMMA StutterOverwritesNothing ==
    (UNCHANGED vars) => NoOverwrite
BY DEF vars, NoOverwrite, Unregistered

\* However many workers there are, a machine that may have an instance is
\* registered with a cluster that is there, for as long as no reconcile has
\* overwritten the registration of another machine: neither the scan of a
\* deletion nor a failure or a crash takes a machine with an instance from
\* the list.
THEOREM Registered ==
    ASSUME ~InformerLag, MachinesAfterReady, DottedNames = {} \/ DeletedLast
    PROVE  Spec /\ [][NoOverwrite]_vars => []StartedRegistered
<1>1. StartIInv /\ [Next]_vars /\ [NoOverwrite]_vars => StartIInv'
  BY StartIInvStep, StutterOverwritesNothing DEF Step
<1> QED
  BY StartIInvInit, <1>1, StartIInvRegistered, PTL DEF Spec

-----------------------------------------------------------------------------
(* One worker.                                                             *)

\* There is one reconcile of a machine at a time, and its copy leaves out no
\* registration.
OneInv ==
    \A m \in Machines : mrec[m].pc # "idle" =>
        /\ \A n \in Machines : mrec[n].pc # "idle" => m = n
        /\ Kept(mrec[m].after)

LEMMA OneInit == Init => OneInv
BY DEF Init, OneInv, NoMachineReconcile

\* The copy of a reconcile in flight has every machine that exists.
LEMMA OneOverwritesNothing ==
    ASSUME TypeOK, MarkInv, RegInv, OneInv, Step, NEW m \in Machines
    PROVE  ~Unregistered(m)
<1> SUFFICES ASSUME Unregistered(m) PROVE FALSE
  OBVIOUS
<1>1. PICK n \in Machines :
        mrec[n].pc # "idle" /\ cluster'.fins = mrec[n].after
  BY UnregisteredBy
<1> QED
  BY <1>1 DEF OneInv, Kept, Unregistered

\* A step adds no names to the list but those of the machine in flight.
LEMMA AddedByStep ==
    ASSUME TypeOK, MarkInv, RegInv, OneInv, Step, NEW m \in Machines,
           mrec[m].pc # "idle"
    PROVE  Range(cluster'.fins) \subseteq
               Range(cluster.fins) \cup Range(mrec[m].after)
<1>1. CASE \E n \in Machines : /\ mrec[n].pc # "idle"
                               /\ cluster'.fins = mrec[n].after
  BY <1>1 DEF OneInv
<1>2. CASE /\ crec.pc # "idle" /\ Held(crec) # crec.before
           /\ cluster'.fins = Held(crec)
  <2>1. cluster.ready
    BY DEF MarkInv, ClusterInv, MachineCopiesInv
  <2>2. cluster.deleting
    BY <1>2, <2>1 DEF RegInv, ScanInv
  <2> QED
    BY <2>2, ClusterWrites
<1> QED
  BY <1>1, <1>2, ListWrites

LEMMA OneStep ==
    ASSUME ~InformerLag, Workers = 1, TypeOK, MarkInv, RegInv, OneInv, Step
    PROVE  OneInv'
<1> SUFFICES ASSUME NEW m \in Machines, mrec'[m].pc # "idle"
             PROVE  /\ \A n \in Machines : mrec'[n].pc # "idle" => m = n
                    /\ \A n \in Machines :
                          n \in Range(cluster'.fins) /\ Exists(n)'
                             => n \in Range(mrec'[m].after)
  BY DEF OneInv, Kept
<1>1. /\ mrec \in [Machines -> MachineReconciles] /\ m \in Names
      /\ mrec[m] \in MachineReconciles /\ mrec[m].after \in Seq(Names)
      /\ cluster \in Objects
  BY DEF TypeOK, Names, MachineReconciles
<1>2. ASSUME NEW n \in Machines, MStart(n)
      PROVE  \A k \in Machines : mrec[k].pc = "idle"
  <2>1. ASSUME NEW k \in Machines, mrec[k].pc # "idle" PROVE FALSE
    <3>1. InFlight = {k}
      BY <2>1 DEF InFlight, OneInv
    <3>2. Cardinality(InFlight) = 1
      BY <3>1, FS_Singleton
    <3> QED
      BY <1>2, <3>2 DEF MStart
  <2> QED
    BY <2>1
<1>3. ASSUME NEW n \in Machines, mrec'[n].pc # "idle"
      PROVE  mrec[n].pc # "idle" \/ MStart(n)
  BY <1>1, <1>3, MachineMoves, ReconcileMoves DEF NoMachineReconcile
<1>4. ASSUME NEW n \in Machines, MStart(n), NEW k \in Machines, k # n
      PROVE  mrec'[k] = mrec[k]
  BY <1>1, <1>4 DEF MStart
<1>5. \A n \in Machines : mrec'[n].pc # "idle" => m = n
  BY <1>2, <1>3, <1>4 DEF OneInv
<1>6. CASE MStart(m)
  <2>1. /\ UNCHANGED <<cluster, machine>>
        /\ mrec'[m].after = cluster.fins
    BY <1>1, <1>6, ReconcileMoves DEF MStart, Seen
  <2> QED
    BY <1>5, <2>1
<1>7. CASE mrec[m].pc # "idle"
  <2>1. ~MStart(m) /\ Kept(mrec[m].after)
    BY <1>7 DEF MStart, OneInv
  <2>2. mrec'[m].after \in {mrec[m].after, AddFinalizer(mrec[m].after, m)}
    BY <1>1, <2>1, MachineMoves, ReconcileMoves
       DEF SameLists, NoMachineReconcile
  <2>3. Range(mrec[m].after) \subseteq Range(mrec'[m].after)
    BY <1>1, <2>2, AddedRange
  <2>4. ASSUME NEW n \in Machines, n \in Range(cluster'.fins), Exists(n)'
        PROVE  n \in Range(mrec'[m].after)
    <3>1. \/ n \in Range(mrec[m].after)
          \/ n \in Range(cluster.fins) /\ Exists(n)
      BY <1>7, <2>4, AddedByStep, ExistedBefore DEF RegInv, AbsentInv
    <3> QED
      BY <2>1, <2>3, <3>1 DEF Kept
  <2> QED
    BY <1>5, <2>4
<1> QED
  BY <1>3, <1>6, <1>7

\* The invariant with one worker.
OneIInv == StartIInv /\ OneInv

LEMMA OneIInvInit == Init => OneIInv
BY StartIInvInit, OneInit DEF OneIInv

LEMMA OneIInvStep ==
    ASSUME ~InformerLag, MachinesAfterReady, Workers = 1,
           DottedNames = {} \/ DeletedLast
    PROVE  OneIInv /\ Step => OneIInv'
<1> SUFFICES ASSUME OneIInv, Step PROVE OneIInv'
  OBVIOUS
<1>1. TypeOK /\ MarkInv /\ RegInv /\ OneInv
  BY DEF OneIInv, StartIInv, RegIInv, LastIInv
<1>2. NoOverwrite
  BY <1>1, OneOverwritesNothing DEF NoOverwrite
<1> QED
  BY <1>1, <1>2, StartIInvStep, OneStep DEF OneIInv

\* The finalizer of the cluster outlives its resources.
LEMMA GoneHasNothing == LastIInv /\ ~cluster.present => ~infra
<1>1. ~Marked(<<>>)
  BY DEF Marked, Range
<1> QED
  BY <1>1 DEF LastIInv, MarkInv, ClusterInv

\* The UCloudCluster object is never removed before what it stands for: its
\* finalizer keeps its resources, and its machines are gone before it is
\* deleted or, with one worker and names without dots, keep it there.
THEOREM RemovedAfterAll ==
    ASSUME ~InformerLag, MachinesAfterReady,
           DeletedLast \/ (Workers = 1 /\ DottedNames = {})
    PROVE  Spec => []RemovedClean
<1>1. LastIInv /\ ~cluster.present => ~infra
  BY GoneHasNothing
<1>2. CASE DeletedLast
  <2>1. LastIInv /\ [Next]_vars => LastIInv'
    BY LastIInvStep DEF Step
  <2>2. LastIInv => RemovedClean
    BY <1>1, <1>2 DEF LastIInv, MarkInv, ClusterInv, LastInv, ServeInv,
       RemovedClean, TypeOK
  <2> QED
    BY LastIInvInit, <2>1, <2>2, PTL DEF Spec
<1>3. CASE Workers = 1 /\ DottedNames = {}
  <2>1. OneIInv /\ [Next]_vars => OneIInv'
    BY <1>3, OneIInvStep DEF Step
  <2>2. OneIInv => RemovedClean
    BY <1>1, StartIInvRegistered
       DEF OneIInv, StartIInv, RegIInv, RemovedClean, StartedRegistered
  <2> QED
    BY OneIInvInit, <2>1, <2>2, PTL DEF Spec
<1> QED
  BY <1>2, <1>3

=============================================================================
