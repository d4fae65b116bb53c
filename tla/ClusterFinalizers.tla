------------------------- MODULE ClusterFinalizers -------------------------
(***************************************************************************)
(* The finalizer protocol between the UCloudCluster reconciler and the     *)
(* UCloudMachine reconcilers.                                              *)
(*                                                                         *)
(* Every UCloudMachine lists "<name>.ucloudmachine" among the finalizers   *)
(* of its UCloudCluster before it creates an instance, and a deleted       *)
(* UCloudCluster is torn down only when the machines so listed are gone.   *)
(* The reconcilers share nothing but the object in the API server: each    *)
(* works on a copy and writes it back with a JSON merge patch.             *)
(*                                                                         *)
(* Simplifications                                                         *)
(*  - the name of a machine stands for its finalizer on the UCloudCluster; *)
(*  - the UCloud resources of a cluster are one Boolean (UCloudInfra.tla   *)
(*    has the detail) and the instance of a machine is the membership in   *)
(*    "started" (UCloudMachine.tla has the detail);                        *)
(*  - machine objects are read fresh, the UCloudCluster object as the      *)
(*    informer cache shows it; when InformerLag the cache may trail the    *)
(*    store, and each update brings it to the newest version;              *)
(*  - crashes of the process and failed calls share the bound MaxFaults.   *)
(***************************************************************************)
EXTENDS Naturals, FiniteSets, Sequences, SequencesExt

CONSTANTS
    Machines,            \* names of UCloudMachine objects, never reused
    DottedNames,         \* the names that contain a dot
    ClusterFinalizer,    \* infrav1.ClusterFinalizer
    Workers,             \* --ucloudmachine-concurrency
    MachinesAfterReady,  \* machines are created once the cluster is ready
    DeletedLast,         \* the cluster is deleted after its machines
    InformerLag,         \* cached reads may be stale
    MaxFaults            \* bound: crashes and failed calls

ASSUME ConstantsAssumption ==
    /\ DottedNames \subseteq Machines
    /\ ClusterFinalizer \notin Machines
    /\ Workers \in Nat \ {0}
    /\ MaxFaults \in Nat
    /\ {MachinesAfterReady, DeletedLast, InformerLag} \subseteq BOOLEAN

VARIABLES
    cluster,     \* the UCloudCluster object in the API server
    cached,      \* the copy of it in the informer cache
    machine,     \* life of each UCloudMachine object
    machineFin,  \* machines that carry infrav1.MachineFinalizer
    started,     \* machines that reached CreateInstance and are not unwound
    failed,      \* the live machines with a FailureReason
    infra,       \* do UCloud resources of the cluster exist?
    mrec,        \* the reconcile in flight of each machine
    crec,        \* the reconcile in flight of the cluster
    faults       \* crashes and failed calls so far

vars == <<cluster, cached, machine, machineFin, started, failed, infra, mrec,
          crec, faults>>

Names == Machines \cup {ClusterFinalizer}
Objects == [present : BOOLEAN, deleting : BOOLEAN, ready : BOOLEAN,
            fins : Seq(Names)]
MachineSteps == {"idle", "patchMachine", "patchCluster", "work", "unwind",
                 "closeMachine", "closeCluster"}
ClusterSteps == {"idle", "patch", "provision", "scan", "teardown", "close"}
MachineReconciles == [pc : MachineSteps, before : Seq(Names),
                      after : Seq(Names), ready : BOOLEAN,
                      goal : {"serve", "fail", "skip", "unwind", "unwound"}]
ClusterReconciles == [pc : ClusterSteps, before : Seq(Names),
                      array : Seq(Names), len : Nat, next : Nat,
                      ready : BOOLEAN]

NoMachineReconcile == [pc |-> "idle", before |-> <<>>, after |-> <<>>,
                       ready |-> FALSE, goal |-> "serve"]
NoClusterReconcile == [pc |-> "idle", before |-> <<>>, array |-> <<>>,
                       len |-> 0, next |-> 0, ready |-> FALSE]

Init ==
    /\ cluster = [present |-> TRUE, deleting |-> FALSE, ready |-> FALSE,
                  fins |-> <<>>]
    /\ cached = cluster
    /\ machine = [m \in Machines |-> "absent"]
    /\ machineFin = {}
    /\ started = {}
    /\ failed = {}
    /\ infra = FALSE
    /\ mrec = [m \in Machines |-> NoMachineReconcile]
    /\ crec = NoClusterReconcile
    /\ faults = 0

-----------------------------------------------------------------------------
(* The API server and the client.                                          *)

\* What a Get of the UCloudCluster returns.
Seen == IF InformerLag THEN cached ELSE cluster

Exists(m) == machine[m] \in {"live", "deleting"}

\* A patch may not add finalizers to an object that is being deleted.
PatchAllowed(new) ==
    /\ cluster.present
    /\ cluster.deleting => Range(new) \subseteq Range(cluster.fins)

\* No call is made when the copy did not change; a call either replaces the
\* whole list or fails.
MutErrorIgnored(before, after) == TRUE
PatchSucceeds(before, after) == before = after \/ PatchAllowed(after)

\* The object after the patch: the last finalizer of a deleted object takes
\* the object with it.
Patched(before, after) ==
    IF before = after \/ ~PatchAllowed(after) THEN cluster
    ELSE [cluster EXCEPT !.fins = after,
                         !.present = ~(cluster.deleting /\ after = <<>>)]

\* controllerutil.AddFinalizer
MutAddAlways(fins, name) == Append(fins, name)
MutAddNothing(fins, name) == fins
MutAddReplaces(fins, name) == IF name \in Range(fins) THEN fins ELSE <<name>>
AddFinalizer(fins, name) ==
    IF name \in Range(fins) THEN fins ELSE Append(fins, name)

\* controllerutil.RemoveFinalizer closes the gap in place: the elements after
\* the removed one move down within the first len cells, and the cells beyond
\* keep what they had.  The same array is under the loop of the scan.
Shifted(array, len, name) ==
    [k \in 1..Len(array) |->
        IF /\ k < len
           /\ \E i \in 1..k : array[i] = name
        THEN array[k + 1] ELSE array[k]]
MutAlwaysHolds(array, len, name) == TRUE
Holds(array, len, name) == \E i \in 1..len : i <= Len(array) /\ array[i] = name

\* The finalizers of the cluster reconcile's copy.
Held(rec) == SubSeq(rec.array, 1, rec.len)

-----------------------------------------------------------------------------
(* UCloudMachineReconciler: one reconcile per machine, Workers in all.     *)

InFlight == {m \in Machines : mrec[m].pc # "idle"}

\* Reconcile up to the dispatch: both objects are read, the patch helpers
\* keep what was read.  A missing UCloudCluster ends the reconcile here.  A
\* live machine that has failed is not served and not registered either; the
\* deferred functions run on copies that nothing changed.
Goal(m) == IF machine[m] = "deleting" THEN "unwind"
           ELSE IF m \in failed THEN "skip" ELSE "serve"
FirstStep(goal) == CASE goal = "serve"  -> "patchMachine"
                     [] goal = "skip"   -> "closeMachine"
                     [] goal = "unwind" -> "unwind"

MStart(m) ==
    /\ mrec[m].pc = "idle"
    /\ Cardinality(InFlight) < Workers
    /\ Exists(m)
    /\ Seen.present
    /\ mrec' = [mrec EXCEPT ![m] =
                  [pc |-> FirstStep(Goal(m)), goal |-> Goal(m),
                   before |-> Seen.fins, after |-> Seen.fins,
                   ready |-> cluster.ready]]
    /\ UNCHANGED <<cluster, cached, machine, machineFin, started, failed,
                   infra, crec, faults>>

\* As MPatchMachine, but a machine that has its finalizer does not register.
MutRegisterOnce(m) ==
    /\ mrec[m].pc = "patchMachine"
    /\ Exists(m)
    /\ machineFin' = machineFin \cup {m}
    /\ mrec' = [mrec EXCEPT
                  ![m].pc = "patchCluster",
                  ![m].after = IF m \in machineFin THEN @
                               ELSE AddFinalizer(@, m)]
    /\ UNCHANGED <<cluster, cached, machine, started, failed, infra, crec,
                   faults>>

\* AddFinalizer(ucloudMachine) and its patch, then AddFinalizer on the copy
\* of the UCloudCluster.
MPatchMachine(m) ==
    /\ mrec[m].pc = "patchMachine"
    /\ IF Exists(m)
       THEN /\ machineFin' = machineFin \cup {m}
            /\ mrec' = [mrec EXCEPT
                          ![m].pc = "patchCluster",
                          ![m].after = AddFinalizer(@, m)]
       ELSE /\ mrec' = [mrec EXCEPT ![m].pc = "closeMachine"]
            /\ UNCHANGED machineFin
    /\ UNCHANGED <<cluster, cached, machine, started, failed, infra, crec,
                   faults>>

MPatchCluster(m) ==
    /\ mrec[m].pc = "patchCluster"
    /\ LET rec == mrec[m] IN
       /\ cluster' = Patched(rec.before, rec.after)
       /\ mrec' = [mrec EXCEPT ![m].pc =
                     IF PatchSucceeds(rec.before, rec.after) /\ rec.ready
                     THEN "work" ELSE "closeMachine"]
    /\ UNCHANGED <<cached, machine, machineFin, started, failed, infra,
                   crec, faults>>

\* The instance is found or created, which takes minutes; without bootstrap
\* data the reconcile ends instead.  A recorded instance that is not found,
\* and one in an unexpected state, make the machine fail.
MWork(m) ==
    /\ mrec[m].pc = "work"
    /\ \E goal \in {"serve", "fail"} :
          /\ goal = "fail" => m \in started
          /\ mrec' = [mrec EXCEPT ![m].pc = "closeMachine", ![m].goal = goal]
    /\ started' \in {started, started \cup {m}}
    /\ UNCHANGED <<cluster, cached, machine, machineFin, failed, infra, crec,
                   faults>>

\* reconcileDelete: the instance is terminated if there is one.
MUnwind(m) ==
    /\ mrec[m].pc = "unwind"
    /\ started' = started \ {m}
    /\ mrec' = [mrec EXCEPT ![m].pc = "closeMachine", ![m].goal = "unwound"]
    /\ UNCHANGED <<cluster, cached, machine, machineFin, failed, infra,
                   crec, faults>>

\* The reconcile has set a FailureReason on its copy of a live machine.
FailsNow(m) == mrec[m].goal = "fail" /\ machine[m] = "live"

\* What is left of a reconcile when only its copy of the UCloudCluster is to
\* be closed.
AtClose(rec) == [rec EXCEPT !.pc = "closeCluster", !.goal = "serve",
                            !.ready = FALSE]

\* The deferred machineScope.Close, which runs before the clusterScope's.
MCloseMachine(m) ==
    /\ mrec[m].pc = "closeMachine"
    /\ \/ /\ mrec[m].goal \in {"serve", "fail"} /\ Exists(m)
          /\ machineFin' = machineFin \cup {m}
          /\ failed' = failed \cup {n \in {m} : FailsNow(n)}
          /\ UNCHANGED machine
       \/ /\ mrec[m].goal = "unwound"
          /\ machineFin' = machineFin \ {m}
          /\ machine' = [machine EXCEPT ![m] = "gone"]
          /\ UNCHANGED failed
       \/ /\ mrec[m].goal \in {"skip", "unwind"} \/ ~Exists(m)
          /\ UNCHANGED <<machine, machineFin, failed>>
    /\ mrec' = [mrec EXCEPT ![m] = AtClose(@)]
    /\ UNCHANGED <<cluster, cached, started, infra, crec, faults>>

\* The deferred clusterScope.Close patches against the same "before" again.
MCloseCluster(m) ==
    /\ mrec[m].pc = "closeCluster"
    /\ cluster' = Patched(mrec[m].before, mrec[m].after)
    /\ mrec' = [mrec EXCEPT ![m] = NoMachineReconcile]
    /\ UNCHANGED <<cached, machine, machineFin, started, failed, infra,
                   crec, faults>>

\* The call of the current step fails: the deferred functions still run.  Of
\* the two halves of the machine's patch that of the status, which has the
\* failure, may be the one that succeeds.
MFault(m) ==
    /\ faults < MaxFaults
    /\ faults' = faults + 1
    /\ \/ /\ mrec[m].pc \in {"patchMachine", "patchCluster", "unwind"}
          /\ mrec' = [mrec EXCEPT ![m].pc = "closeMachine"]
          /\ UNCHANGED failed
       \/ /\ mrec[m].pc = "closeMachine"
          /\ mrec' = [mrec EXCEPT ![m] = AtClose(@)]
          /\ \/ UNCHANGED failed
             \/ FailsNow(m) /\ failed' = failed \cup {m}
       \/ /\ mrec[m].pc = "closeCluster"
          /\ mrec' = [mrec EXCEPT ![m] = NoMachineReconcile]
          /\ UNCHANGED failed
    /\ UNCHANGED <<cluster, cached, machine, machineFin, started, infra,
                   crec>>

-----------------------------------------------------------------------------
(* UCloudClusterReconciler.                                                *)

\* Reconcile up to the dispatch; a live cluster gets its finalizer in the
\* copy, a deleted one starts to range over the list.
CStart ==
    /\ crec.pc = "idle"
    /\ Seen.present
    /\ LET list == IF Seen.deleting THEN Seen.fins
                   ELSE AddFinalizer(Seen.fins, ClusterFinalizer)
       IN crec' = [pc |-> IF Seen.deleting THEN "scan" ELSE "patch",
                   before |-> Seen.fins, array |-> list, len |-> Len(list),
                   next |-> 1, ready |-> FALSE]
    /\ UNCHANGED <<cluster, cached, machine, machineFin, started, failed,
                   infra, mrec, faults>>

CPatch ==
    /\ crec.pc = "patch"
    /\ cluster' = Patched(crec.before, Held(crec))
    /\ crec' = [crec EXCEPT !.pc =
                  IF PatchSucceeds(crec.before, Held(crec))
                  THEN "provision" ELSE "close"]
    /\ UNCHANGED <<cached, machine, machineFin, started, failed, infra,
                   mrec, faults>>

CProvision ==
    /\ crec.pc = "provision"
    /\ infra' = TRUE
    /\ crec' = [crec EXCEPT !.pc = "close", !.ready = TRUE]
    /\ UNCHANGED <<cluster, cached, machine, machineFin, started, failed,
                   mrec, faults>>

\* The Get behind one finalizer: the name is cut at its first dot.
MutNeverNotFound(name) == TRUE
MutLiveOnly(name) == name \notin DottedNames /\ machine[name] = "live"
Found(name) == name \notin DottedNames /\ Exists(name)

\* One turn of the loop over the finalizers, whose range expression was
\* evaluated once: as many turns as the list had elements.
CScan ==
    /\ crec.pc = "scan"
    /\ crec.next <= Len(crec.array)
    /\ LET name == crec.array[crec.next] IN
       \/ /\ name = ClusterFinalizer
          /\ crec' = [crec EXCEPT !.next = @ + 1]
       \/ /\ name # ClusterFinalizer /\ Found(name)
          /\ crec' = [crec EXCEPT !.pc = "close"]
       \/ /\ name # ClusterFinalizer /\ ~Found(name)
          /\ crec' = [crec EXCEPT
                        !.next = @ + 1,
                        !.array = Shifted(@, crec.len, name),
                        !.len = IF Holds(crec.array, @, name)
                                THEN @ - 1 ELSE @]
    /\ UNCHANGED <<cluster, cached, machine, machineFin, started, failed,
                   infra, mrec, faults>>

CScanDone ==
    /\ crec.pc = "scan"
    /\ crec.next > Len(crec.array)
    /\ crec' = [crec EXCEPT !.pc = "teardown"]
    /\ UNCHANGED <<cluster, cached, machine, machineFin, started, failed,
                   infra, mrec, faults>>

\* Every resource is deleted, then the cluster's own finalizer goes.
CTeardown ==
    /\ crec.pc = "teardown"
    /\ infra' = FALSE
    /\ crec' = [crec EXCEPT
                  !.pc = "close",
                  !.array = Shifted(@, crec.len, ClusterFinalizer),
                  !.len = IF Holds(crec.array, @, ClusterFinalizer)
                          THEN @ - 1 ELSE @]
    /\ UNCHANGED <<cluster, cached, machine, machineFin, started, failed,
                   mrec, faults>>

\* The deferred Close: finalizers first, then the status.
CClose ==
    /\ crec.pc = "close"
    /\ LET after == Patched(crec.before, Held(crec)) IN
       cluster' = [after EXCEPT !.ready = @ \/ (crec.ready /\ after.present)]
    /\ crec' = NoClusterReconcile
    /\ UNCHANGED <<cached, machine, machineFin, started, failed, infra,
                   mrec, faults>>

\* A failed call.  Part of the resources may exist after a failed provision
\* or a failed teardown.
CFault ==
    /\ faults < MaxFaults
    /\ faults' = faults + 1
    /\ \/ /\ crec.pc \in {"patch", "scan", "teardown"}
          /\ crec' = [crec EXCEPT !.pc = "close"]
          /\ UNCHANGED infra
       \/ /\ crec.pc = "provision"
          /\ crec' = [crec EXCEPT !.pc = "close"]
          /\ infra' = TRUE
       \/ /\ crec.pc = "close"
          /\ crec' = NoClusterReconcile
          /\ UNCHANGED infra
    /\ UNCHANGED <<cluster, cached, machine, machineFin, started, failed,
                   mrec>>

-----------------------------------------------------------------------------
(* The process, the cache, the users and the Cluster API controllers.      *)

\* The process dies: no deferred function runs, the next one lists afresh.
Crash ==
    /\ faults < MaxFaults
    /\ InFlight # {} \/ crec.pc # "idle"
    /\ faults' = faults + 1
    /\ mrec' = [m \in Machines |-> NoMachineReconcile]
    /\ crec' = NoClusterReconcile
    /\ cached' = cluster
    /\ UNCHANGED <<cluster, machine, machineFin, started, failed, infra>>

Sync ==
    /\ InformerLag
    /\ cached # cluster
    /\ cached' = cluster
    /\ UNCHANGED <<cluster, machine, machineFin, started, failed, infra,
                   mrec, crec, faults>>

CreateMachine(m) ==
    /\ machine[m] = "absent"
    /\ MachinesAfterReady => cluster.ready
    /\ DeletedLast => ~cluster.deleting
    /\ machine' = [machine EXCEPT ![m] = "live"]
    /\ UNCHANGED <<cluster, cached, machineFin, started, failed, infra,
                   mrec, crec, faults>>

\* An object without finalizers is removed at once.
DeleteMachine(m) ==
    /\ machine[m] = "live"
    /\ machine' = [machine EXCEPT ![m] =
                     IF m \in machineFin THEN "deleting" ELSE "gone"]
    /\ failed' = failed \ {m}
    /\ UNCHANGED <<cluster, cached, machineFin, started, infra, mrec, crec,
                   faults>>

DeleteCluster ==
    /\ cluster.present /\ ~cluster.deleting
    /\ DeletedLast => \A m \in Machines : ~Exists(m)
    /\ cluster' = [cluster EXCEPT !.deleting = TRUE,
                                  !.present = (cluster.fins # <<>>)]
    /\ UNCHANGED <<cached, machine, machineFin, started, failed, infra,
                   mrec, crec, faults>>

-----------------------------------------------------------------------------
MachineStep(m) ==
    \/ MPatchMachine(m) \/ MPatchCluster(m) \/ MWork(m) \/ MUnwind(m)
    \/ MCloseMachine(m) \/ MCloseCluster(m)

ClusterStep ==
    CPatch \/ CProvision \/ CScan \/ CScanDone \/ CTeardown \/ CClose

Next ==
    \/ \E m \in Machines :
          \/ MStart(m) \/ MachineStep(m) \/ MFault(m)
          \/ CreateMachine(m) \/ DeleteMachine(m)
    \/ CStart \/ ClusterStep \/ CFault
    \/ Crash \/ Sync \/ DeleteCluster

Spec == Init /\ [][Next]_vars

\* A reconcile that runs goes on.  The resync enqueues every object again and
\* again, and the work queue is first in, first out, so a key that waits for a
\* worker gets one although the workers are busy in between.
Fairness ==
    /\ \A m \in Machines : WF_vars(MachineStep(m)) /\ SF_vars(MStart(m))
    /\ WF_vars(ClusterStep) /\ WF_vars(CStart) /\ WF_vars(Sync)

FairSpec == Spec /\ Fairness

-----------------------------------------------------------------------------
TypeOK ==
    /\ cluster \in Objects
    /\ cached \in Objects
    /\ machine \in [Machines -> {"absent", "live", "deleting", "gone"}]
    /\ machineFin \subseteq Machines
    /\ started \subseteq Machines
    /\ failed \subseteq Machines
    /\ infra \in BOOLEAN
    /\ mrec \in [Machines -> MachineReconciles]
    /\ crec \in ClusterReconciles
    /\ crec.len <= Len(crec.array)
    /\ faults \in 0..MaxFaults

\* A finalizer is listed once, whoever wrote the list last: removing it by
\* name then removes the claim (AddFinalizer on copies that may be stale).
NoDuplicateFinalizers ==
    \A i, j \in DOMAIN cluster.fins :
        cluster.fins[i] = cluster.fins[j] => i = j

\* The reconcile of n writes a list it read when m was not on it.
Overwrites(n, m) ==
    /\ MPatchCluster(n) \/ MCloseCluster(n)
    /\ m \notin Range(mrec[n].before)

Unregistered(m) ==
    /\ m \in Range(cluster.fins) \ Range(cluster'.fins)
    /\ Exists(m) /\ Exists(m)'

\* The finalizer of a machine that exists goes from the UCloudCluster in one
\* way only: the reconcile of another machine, which read the list before the
\* finalizer was on it, writes that list back.  No scan of a deletion, no
\* reconcile of the cluster and no later reader takes it (comment in
\* UCloudMachineReconciler.reconcile: "Register the finalizer immediately to
\* avoid orphaning ucloud resources on delete").
RegistrationKept ==
    [][\A m \in Machines :
          Unregistered(m) => \E n \in Machines \ {m} : Overwrites(n, m)]_vars

\* A machine that has, or may have, an instance is registered with a
\* UCloudCluster that still exists.
StartedRegistered ==
    \A m \in started : cluster.present /\ m \in Range(cluster.fins)

\* The UCloudCluster object is gone only when nothing it stands for is left:
\* no UCloud resource of the cluster and no instance of a machine.
RemovedClean == ~cluster.present => ~infra /\ started = {}

\* Teardown waits for the machines ("Waiting on all machine deleted"): it
\* never runs while a machine listed at that moment exists.
TeardownWaits ==
    crec.pc = "teardown" =>
        \A m \in Range(cluster.fins) \cap Machines : ~Exists(m)

\* Lost registrations are repaired: from some point on the list of the
\* UCloudCluster holds every live machine that has not failed and, until it
\* is deleted, its own finalizer, although reconciles in flight overwrite each
\* other's lists.  (One that has failed does not come back: the early return
\* in UCloudMachineReconciler.reconcile is before its registration.)
RegistrationsSettle ==
    <>[](/\ \A m \in Machines \ failed :
               machine[m] = "live" /\ cluster.present
                   => m \in Range(cluster.fins)
         /\ ~cluster.deleting => ClusterFinalizer \in Range(cluster.fins))

\* A deleted UCloudCluster is removed in the end.
ClusterRemoved == cluster.deleting ~> ~cluster.present

\* A deleted UCloudMachine is removed in the end.
MachineRemoved ==
    \A m \in Machines : machine[m] = "deleting" ~> machine[m] = "gone"
=============================================================================
