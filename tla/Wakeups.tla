------------------------------- MODULE Wakeups -------------------------------
(***************************************************************************)
(* When the two reconcilers run: the watches, the predicates and the       *)
(* mapping functions of SetupWithManager, the work queues, and the early   *)
(* returns at the head of Reconcile, most of which ask for no other try.   *)
(*                                                                         *)
(* The objects are created by the user in any order, and the Cluster API   *)
(* controllers fill in owners, readiness and bootstrap data.  Each object  *)
(* reaches its informer's cache on its own; the event is handled with the  *)
(* caches as they are then.                                                *)
(*                                                                         *)
(* Simplifications                                                         *)
(*  - one cluster; a UCloudMachine and its Machine share their name;       *)
(*  - updates that a cache has not seen yet are merged into one event;     *)
(*  - a reconcile reads all caches at once, and then succeeds or fails;    *)
(*    its work is one step (see the other modules);                        *)
(*  - a reconcile that fails before it changed anything is queued again,   *)
(*    which is no step at all;                                             *)
(*  - of the annotations for pausing only those of UCloudMachines are      *)
(*    kept; a UCloudCluster is not deleted (see ClusterFinalizers.tla);    *)
(*  - a restarted process starts its workers when its caches are filled.   *)
(***************************************************************************)
EXTENDS Naturals, FiniteSets

CONSTANTS
    Machines,   \* names of UCloudMachines and of their Machines
    Cluster,    \* the key of the UCloudCluster
    MaxPauses,  \* bound: changes of the paused marks
    MaxFaults   \* bound: failed reconciles and crashes

ASSUME WakeupsAssumption ==
    /\ Cluster \notin Machines
    /\ MaxPauses \in Nat /\ MaxFaults \in Nat

VARIABLES
    store,   \* the objects in the API server
    cache,   \* the objects as the informers show them
    queue,   \* keys that wait for a worker, of both controllers
    rec,     \* what the reconcile in flight of each key goes on to do
    pauses,  \* changes of the paused marks so far
    faults   \* failed reconciles and crashes so far

vars == <<store, cache, queue, rec, pauses, faults>>

Keys == Machines \cup {Cluster}
Objects == [
    cluster : [present : BOOLEAN, paused : BOOLEAN, ready : BOOLEAN,
               deleting : BOOLEAN],
    ucloud : [present : BOOLEAN, owned : BOOLEAN, ready : BOOLEAN],
    machine : [Machines -> [present : BOOLEAN, bootstrap : BOOLEAN]],
    umachine : [Machines -> [life : {"absent", "live", "deleting", "gone"},
                             owned : BOOLEAN, paused : BOOLEAN,
                             fin : BOOLEAN, served : BOOLEAN]]]
NoObjects == [
    cluster |-> [present |-> FALSE, paused |-> FALSE, ready |-> FALSE,
                 deleting |-> FALSE],
    ucloud |-> [present |-> FALSE, owned |-> FALSE, ready |-> FALSE],
    machine |-> [m \in Machines |-> [present |-> FALSE, bootstrap |-> FALSE]],
    umachine |-> [m \in Machines |->
                    [life |-> "absent", owned |-> FALSE, paused |-> FALSE,
                     fin |-> FALSE, served |-> FALSE]]]

Init ==
    /\ store = NoObjects
    /\ cache = NoObjects
    /\ queue = {}
    /\ rec = [k \in Keys |-> "idle"]
    /\ pauses = 0
    /\ faults = 0

Exists(s, m) == s.umachine[m].life \in {"live", "deleting"}

-----------------------------------------------------------------------------
(* Events: the keys an update of a cache puts into the queues.  c is the    *)
(* state of all caches after the update.                                    *)

\* requestsForCluster: the Machines in the cache.
Listed(c) == {m \in Machines : c.machine[m].present}

\* pausePredicates look at the mark of the object of the event only.
OnUCloudMachine(c, m) == IF c.umachine[m].paused THEN {} ELSE {m}

\* util.MachineToInfrastructureMapFunc
OnMachine(m) == {m}

\* UCloudClusterToUCloudMachines needs the owner in the cache.
OnUCloudCluster(c) ==
    {Cluster} \cup
    IF c.ucloud.owned /\ c.cluster.present THEN Listed(c) ELSE {}

\* The Cluster wakes somebody when it appears unpaused and when it is
\* unpaused, unless it is being deleted; never when it becomes ready.
MutOnCreateOnly(old, c) ==
    IF ~old.present /\ ~c.cluster.paused /\ ~c.cluster.deleting
    THEN Listed(c) \cup {Cluster} ELSE {}
MutMachinesOnly(old, c) ==
    IF /\ ~old.present \/ old.paused
       /\ ~c.cluster.paused /\ ~c.cluster.deleting
    THEN Listed(c) ELSE {}
OnCluster(old, c) ==
    IF /\ ~old.present \/ old.paused
       /\ ~c.cluster.paused /\ ~c.cluster.deleting
    THEN Listed(c) \cup {Cluster} ELSE {}

\* The resync sends an update of every object in the caches that changes
\* nothing; a restarted process gets a create event for each.
MutNothingUnchanged(c) == {}
OnEverything(c) ==
    (UNION {OnUCloudMachine(c, m) : m \in {x \in Machines : Exists(c, x)}})
    \cup Listed(c)
    \cup IF c.ucloud.present THEN OnUCloudCluster(c) ELSE {}

-----------------------------------------------------------------------------
(* The informers.                                                          *)

Update(new, keys) ==
    /\ cache # new
    /\ cache' = new
    /\ queue' = queue \cup keys
    /\ UNCHANGED <<store, rec, pauses, faults>>

SyncCluster ==
    LET new == [cache EXCEPT !.cluster = store.cluster]
    IN  Update(new, OnCluster(cache.cluster, new))

SyncUCloudCluster ==
    LET new == [cache EXCEPT !.ucloud = store.ucloud]
    IN  Update(new, OnUCloudCluster(new))

SyncMachine(m) ==
    LET new == [cache EXCEPT !.machine[m] = store.machine[m]]
    IN  Update(new, OnMachine(m))

SyncUCloudMachine(m) ==
    LET new == [cache EXCEPT !.umachine[m] = store.umachine[m]]
    IN  Update(new, OnUCloudMachine(new, m))

Resync ==
    /\ queue' = queue \cup OnEverything(cache)
    /\ UNCHANGED <<store, cache, rec, pauses, faults>>

-----------------------------------------------------------------------------
(* The workers.  A key is not taken while its reconcile is in flight.       *)

\* The checks at the head of both Reconcile functions.  Without an owner, a
\* Cluster or a UCloudCluster, and when paused, they return without an error;
\* an owner that is not in the cache is an error.
OwnerFails(s, m) == Exists(s, m) /\ s.umachine[m].owned /\ ~s.machine[m].present
Admitted(s, m) ==
    /\ Exists(s, m) /\ s.umachine[m].owned /\ s.machine[m].present
    /\ s.cluster.present /\ ~s.cluster.paused /\ ~s.umachine[m].paused
    /\ s.ucloud.present

\* InfrastructureReady and bootstrap data, which a deletion does not need.
Complete(s, m) ==
    /\ Admitted(s, m)
    /\ \/ s.umachine[m].life = "deleting"
       \/ s.cluster.ready /\ s.machine[m].bootstrap

TakeMachine(m) ==
    /\ m \in queue /\ rec[m] = "idle"
    /\ ~OwnerFails(cache, m)
    /\ queue' = queue \ {m}
    /\ rec' = [rec EXCEPT ![m] =
                 IF ~Admitted(cache, m) THEN "idle"
                 ELSE IF cache.umachine[m].life = "deleting" THEN "unwind"
                 ELSE IF Complete(cache, m) THEN "serve" ELSE "register"]
    /\ UNCHANGED <<store, cache, pauses, faults>>

TakeCluster ==
    /\ Cluster \in queue /\ rec[Cluster] = "idle"
    /\ cache.ucloud.owned => cache.cluster.present
    /\ queue' = queue \ {Cluster}
    /\ rec' = [rec EXCEPT ![Cluster] =
                 IF cache.ucloud.owned /\ ~cache.cluster.paused
                 THEN "serve" ELSE "idle"]
    /\ UNCHANGED <<store, cache, pauses, faults>>

Finish(k) == rec' = [rec EXCEPT ![k] = "idle"]

MutServeUnregistered(m) ==
    /\ rec[m] # "idle"
    /\ IF Exists(store, m)
       THEN /\ store' = [store EXCEPT
                 !.umachine[m].life = IF rec[m] = "unwind" THEN "gone" ELSE @,
                 !.umachine[m].fin = @ \/ rec[m] = "register",
                 !.umachine[m].served = @ \/ rec[m] = "serve"]
            /\ UNCHANGED queue
       ELSE queue' = queue \cup {m} /\ UNCHANGED store
    /\ Finish(m)
    /\ UNCHANGED <<cache, pauses, faults>>

\* The work of a machine's reconcile; a patch of an object that is gone
\* fails, and the key is queued again.
WorkMachine(m) ==
    /\ rec[m] # "idle"
    /\ IF Exists(store, m)
       THEN /\ store' = [store EXCEPT
                 !.umachine[m].life = IF rec[m] = "unwind" THEN "gone" ELSE @,
                 !.umachine[m].fin =
                    rec[m] # "unwind" /\ (@ \/ store.umachine[m].life = "live"),
                 !.umachine[m].served = @ \/ rec[m] = "serve"]
            /\ UNCHANGED queue
       ELSE queue' = queue \cup {m} /\ UNCHANGED store
    /\ Finish(m)
    /\ UNCHANGED <<cache, pauses, faults>>

WorkCluster ==
    /\ rec[Cluster] # "idle"
    /\ store' = [store EXCEPT !.ucloud.ready = TRUE]
    /\ Finish(Cluster)
    /\ UNCHANGED <<cache, queue, pauses, faults>>

\* An error: the key is queued again.
Fault(k) ==
    /\ faults < MaxFaults
    /\ faults' = faults + 1
    /\ rec[k] # "idle"
    /\ queue' = queue \cup {k}
    /\ Finish(k)
    /\ UNCHANGED <<store, cache, pauses>>

Crash ==
    /\ faults < MaxFaults
    /\ faults' = faults + 1
    /\ rec' = [k \in Keys |-> "idle"]
    /\ cache' = store
    /\ queue' = OnEverything(store)
    /\ UNCHANGED <<store, pauses>>

-----------------------------------------------------------------------------
(* The user and the Cluster API controllers.                               *)

Others == UNCHANGED <<cache, queue, rec, pauses, faults>>

CreateCluster ==
    /\ ~store.cluster.present
    /\ store' = [store EXCEPT !.cluster.present = TRUE]
    /\ Others

CreateUCloudCluster ==
    /\ ~store.ucloud.present
    /\ store' = [store EXCEPT !.ucloud.present = TRUE]
    /\ Others

\* The bootstrap data may be named by the user.
CreateMachine(m) ==
    /\ ~store.machine[m].present
    /\ \E named \in BOOLEAN :
          store' = [store EXCEPT
                      !.machine[m] = [present |-> TRUE, bootstrap |-> named]]
    /\ Others

CreateUCloudMachine(m) ==
    /\ store.umachine[m].life = "absent"
    /\ store' = [store EXCEPT !.umachine[m].life = "live"]
    /\ Others

Unpaused == store.cluster.present /\ ~store.cluster.paused

SetClusterOwner ==
    /\ Unpaused
    /\ store.ucloud.present /\ ~store.ucloud.owned
    /\ store' = [store EXCEPT !.ucloud.owned = TRUE]
    /\ Others

SetMachineOwner(m) ==
    /\ Unpaused
    /\ store.machine[m].present /\ store.umachine[m].life = "live"
    /\ ~store.umachine[m].owned
    /\ store' = [store EXCEPT !.umachine[m].owned = TRUE]
    /\ Others

SetInfrastructureReady ==
    /\ Unpaused
    /\ store.ucloud.ready /\ ~store.cluster.ready
    /\ store' = [store EXCEPT !.cluster.ready = TRUE]
    /\ Others

SetBootstrap(m) ==
    /\ Unpaused
    /\ store.cluster.ready
    /\ store.machine[m].present /\ ~store.machine[m].bootstrap
    /\ store' = [store EXCEPT !.machine[m].bootstrap = TRUE]
    /\ Others

Pause ==
    /\ pauses < MaxPauses
    /\ pauses' = pauses + 1
    /\ \/ store.cluster.present
          /\ store' = [store EXCEPT !.cluster.paused = ~@]
       \/ \E m \in Machines :
             /\ Exists(store, m)
             /\ store' = [store EXCEPT !.umachine[m].paused = ~@]
    /\ UNCHANGED <<cache, queue, rec, faults>>

DeleteCluster ==
    /\ store.cluster.present /\ ~store.cluster.deleting
    /\ store' = [store EXCEPT !.cluster.deleting = TRUE]
    /\ Others

DeleteMachine(m) ==
    /\ store.umachine[m].life = "live"
    /\ store' = [store EXCEPT !.umachine[m].life =
                   IF store.umachine[m].fin THEN "deleting" ELSE "gone"]
    /\ Others

-----------------------------------------------------------------------------
Informers ==
    \/ SyncCluster \/ SyncUCloudCluster
    \/ \E m \in Machines : SyncMachine(m) \/ SyncUCloudMachine(m)

Environment ==
    \/ CreateCluster \/ CreateUCloudCluster \/ SetClusterOwner
    \/ SetInfrastructureReady \/ Pause \/ DeleteCluster
    \/ \E m \in Machines :
          \/ CreateMachine(m) \/ CreateUCloudMachine(m) \/ SetMachineOwner(m)
          \/ SetBootstrap(m) \/ DeleteMachine(m)

Next ==
    \/ Informers \/ Resync
    \/ TakeCluster \/ WorkCluster
    \/ \E m \in Machines : TakeMachine(m) \/ WorkMachine(m)
    \/ \E k \in Keys : Fault(k)
    \/ Crash \/ Environment

Spec == Init /\ [][Next]_vars

\* Every cache catches up and the workers get on with the queue.  Neither the
\* resync nor anything the user and the other controllers do is assumed here.
Fairness ==
    /\ WF_vars(SyncCluster) /\ WF_vars(SyncUCloudCluster)
    /\ WF_vars(TakeCluster) /\ WF_vars(WorkCluster)
    /\ \A m \in Machines :
          /\ WF_vars(SyncMachine(m)) /\ WF_vars(SyncUCloudMachine(m))
          /\ WF_vars(TakeMachine(m)) /\ WF_vars(WorkMachine(m))

FairSpec == Spec /\ Fairness

-----------------------------------------------------------------------------
\* Types; a machine is served only after its finalizer was written.
TypeOK ==
    /\ store \in Objects
    /\ cache \in Objects
    /\ queue \subseteq Keys
    /\ rec \in [Keys -> {"idle", "register", "serve", "unwind"}]
    /\ \A m \in Machines :
          store.umachine[m].served /\ Exists(store, m) => store.umachine[m].fin
    /\ pauses \in 0..MaxPauses
    /\ faults \in 0..MaxFaults

\* A machine that is served, or a deleted one that is removed.
Handled(m) ==
    \/ store.umachine[m].life = "gone"
    \/ store.umachine[m].life = "live" /\ store.umachine[m].served

\* Events alone, without the resync, provision a cluster: whatever the order
\* in which the Cluster, the UCloudCluster and its owner appear and however
\* often it is paused, the last one that was missing wakes the reconciler.
ClusterProvisioned ==
    store.ucloud.owned /\ ~store.cluster.paused
        ~> store.ucloud.ready \/ store.cluster.paused \/ store.cluster.deleting

\* Events alone get a machine served or removed once its prerequisites hold,
\* as long as the one the caches learn last is not the readiness of the
\* Cluster, whose updates wake nobody, nor the unpausing of a Cluster that is
\* being deleted.
WakeupDue(m) ==
    /\ Complete(store, m) /\ ~Complete(cache, m)
    /\ cache.cluster.ready \/ store.umachine[m].life = "deleting"
WokenByEvents ==
    \A m \in Machines :
        WakeupDue(m) ~> \/ Handled(m) \/ ~Complete(store, m)
                        \/ store.cluster.deleting

\* The resync makes up for every wake-up that was lost: a machine whose
\* prerequisites hold for good is served or removed in the end.
ResyncRepairs ==
    WF_vars(Resync) =>
        \A m \in Machines : <>[]Complete(store, m) => <>Handled(m)
=============================================================================
