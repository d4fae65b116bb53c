--------------------------- MODULE UCloudMachine ---------------------------
(***************************************************************************)
(* The life of one UCloudMachine: UCloudMachineReconciler and the uhost,   *)
(* real server and CAPU host calls it makes.                               *)
(*                                                                         *)
(* Simplifications                                                         *)
(*  - the UCloudCluster exists and is registered with (see                 *)
(*    ClusterFinalizers.tla), its ULB has its VServer and its ClusterId is *)
(*    set (see UCloudInfra.tla);                                           *)
(*  - of the object only the fields the control depends on are kept;       *)
(*    addresses, zone and instance status are written with them;           *)
(*  - terminating a stopped instance takes effect in the call (see         *)
(*    Terminator.tla), and each wait loop is a step enabled once its       *)
(*    condition holds, with a time-out as one of the faults;               *)
(*  - faults (failed calls, time-outs, crashes) and upsets (what happens   *)
(*    to an instance behind the controller's back) are bounded.            *)
(*  - a wait that would still succeed times out within that bound; Hosts   *)
(*    is the quota of the project.                                         *)
(***************************************************************************)
EXTENDS Naturals, FiniteSets

CONSTANTS
    Hosts,         \* instance ids the cloud may hand out
    None,          \* no instance id
    ControlPlane,  \* is it a control plane machine?
    StaleReads,    \* the informer cache may trail the store
    MaxFaults,     \* bound: failed calls, time-outs and crashes
    MaxUpsets      \* bound: reboots, manual stops and manual deletions

ASSUME MachineAssumption ==
    /\ None \notin Hosts
    /\ {ControlPlane, StaleReads} \subseteq BOOLEAN
    /\ MaxFaults \in Nat /\ MaxUpsets \in Nat

VARIABLES
    object,     \* the UCloudMachine in the API server
    cached,     \* the informer's copy of it
    rec,        \* the reconcile in flight
    uhost,      \* the instances, by id
    backends,   \* instances behind the VServer of the API server
    capuHosts,  \* instances registered with CreateCAPUHost
    owner,      \* is the owning Machine there? FALSE once r.Delete was called
    prepared,   \* are the infrastructure and the bootstrap data ready?
    faults,     \* faults so far
    upsets      \* upsets so far

vars == <<object, cached, rec, uhost, backends, capuHosts, owner, prepared,
          faults, upsets>>
envVars == <<cached, owner, prepared, faults, upsets>>

Objects == [life : {"live", "deleting", "gone"}, fin : BOOLEAN,
            id : Hosts \cup {None}, ready : BOOLEAN, failed : BOOLEAN,
            joined : BOOLEAN]
UHostStates == {"unborn", "Initializing", "Running", "Rebooting", "Stopping",
                "Stopped", "deleted"}
Steps == {"idle", "register", "lookup", "deleteOwner", "create", "await",
          "addBackend", "dropBackend", "join", "lookupDeleted", "drain",
          "leave", "poweroff", "terminate", "close"}

NoObject == [life |-> "live", fin |-> FALSE, id |-> None, ready |-> FALSE,
             failed |-> FALSE, joined |-> FALSE]
NoReconcile == [pc |-> "idle", before |-> NoObject, copy |-> NoObject,
                host |-> None]

Init ==
    /\ object = NoObject
    /\ cached = NoObject
    /\ rec = NoReconcile
    /\ uhost = [h \in Hosts |-> "unborn"]
    /\ backends = {}
    /\ capuHosts = {}
    /\ owner = TRUE
    /\ prepared = FALSE
    /\ faults = 0
    /\ upsets = 0

-----------------------------------------------------------------------------
(* The API server, the client and the cloud.                               *)

Seen == IF StaleReads THEN cached ELSE object

InCloud(h) == h \in Hosts /\ uhost[h] \notin {"unborn", "deleted"}

\* The resource half of a patch (metadata and spec) sends the fields that the
\* copy changed.  It fails when the object is gone.  Without its finalizer a
\* deleted object is removed.
ResourcePatched(obj, before, copy) ==
    IF obj.life = "gone" THEN obj
    ELSE LET fin == IF copy.fin # before.fin THEN copy.fin ELSE obj.fin IN
         [obj EXCEPT
            !.id   = IF copy.id # before.id THEN copy.id ELSE @,
            !.fin  = fin,
            !.life = IF @ = "deleting" /\ ~fin THEN "gone" ELSE @]

\* The status half, sent also when the resource half failed.
StatusPatched(obj, before, copy) ==
    IF obj.life = "gone" THEN obj
    ELSE [obj EXCEPT
            !.ready  = IF copy.ready # before.ready THEN copy.ready ELSE @,
            !.failed = IF copy.failed # before.failed THEN copy.failed ELSE @,
            !.joined = IF copy.joined # before.joined THEN copy.joined ELSE @]

Patched(obj, before, copy) ==
    StatusPatched(ResourcePatched(obj, before, copy), before, copy)

Goto(pc) == rec' = [rec EXCEPT !.pc = pc]

-----------------------------------------------------------------------------
(* UCloudMachineReconciler.Reconcile and reconcile.                        *)

\* A failed machine is left alone until it is deleted.
Start ==
    /\ rec.pc = "idle"
    /\ Seen.life # "gone"
    /\ Seen.life = "live" => ~Seen.failed
    /\ rec' = [pc |-> IF Seen.life = "live" THEN "register"
                                            ELSE "lookupDeleted",
               before |-> Seen, host |-> None,
               copy |-> [Seen EXCEPT !.fin = @ \/ Seen.life = "live"]]
    /\ UNCHANGED <<object, uhost, backends, capuHosts, envVars>>

\* machineScope.PatchObject with the finalizer; then the reconcile goes on, or
\* ends because infrastructure or bootstrap data is not ready yet.
MutRegisterAtClose ==
    /\ rec.pc = "register"
    /\ Goto(IF prepared THEN "lookup" ELSE "close")
    /\ UNCHANGED <<object, uhost, backends, capuHosts, envVars>>
Register ==
    /\ rec.pc = "register"
    /\ object' = Patched(object, rec.before, rec.copy)
    /\ Goto(IF prepared /\ (object.life # "gone" \/ rec.before.fin)
            THEN "lookup" ELSE "close")
    /\ UNCHANGED <<uhost, backends, capuHosts, envVars>>

\* What reconcile does with an instance in a given state: the fields of the
\* copy and the next step.
MutReadyStays(h, state, copy) ==
    [copy EXCEPT !.id = h,
                 !.ready  = @ \/ state = "Running",
                 !.failed = @ \/ state \notin {"Running", "Initializing", ""}]
Served(h, state, copy) ==
    [copy EXCEPT !.id = h,
                 !.ready  = (state = "Running")
                            \/ (@ /\ state \in {"Initializing", ""}),
                 !.failed = @ \/ state \notin {"Running", "Initializing", ""}]
StepFor(state) ==
    IF state = "" THEN "close"
    ELSE IF state = "Initializing" \/ ~ControlPlane THEN "join"
    ELSE IF state = "Running" THEN "addBackend" ELSE "dropBackend"

Serve(h, state) ==
    rec' = [rec EXCEPT !.pc = StepFor(state), !.host = h,
                       !.copy = Served(h, state, @)]

\* InstanceIfExists with a recorded id.
LookupFound ==
    /\ rec.pc = "lookup"
    /\ InCloud(rec.copy.id)
    /\ Serve(rec.copy.id, uhost[rec.copy.id])
    /\ UNCHANGED <<object, uhost, backends, capuHosts, envVars>>

\* The answer lacks the state: tried again later.
LookupStateless ==
    /\ rec.pc = "lookup"
    /\ InCloud(rec.copy.id)
    /\ faults < MaxFaults
    /\ faults' = faults + 1
    /\ Serve(rec.copy.id, "")
    /\ UNCHANGED <<object, cached, uhost, backends, capuHosts, owner, prepared,
                   upsets>>

\* The recorded instance is missing: terminal failure, the Machine must go.
MutStoppedIsMissing ==
    /\ rec.pc = "lookup"
    /\ rec.copy.id # None
    /\ uhost[rec.copy.id] # "Running"
    /\ rec' = [rec EXCEPT !.pc = "deleteOwner", !.copy.failed = TRUE,
                          !.copy.ready = FALSE]
    /\ UNCHANGED <<object, uhost, backends, capuHosts, envVars>>
LookupMissing ==
    /\ rec.pc = "lookup"
    /\ rec.copy.id # None
    /\ ~InCloud(rec.copy.id)
    /\ rec' = [rec EXCEPT !.pc = "deleteOwner", !.copy.failed = TRUE,
                          !.copy.ready = FALSE]
    /\ UNCHANGED <<object, uhost, backends, capuHosts, envVars>>

MutRecreate ==
    /\ rec.pc = "lookup"
    /\ ~InCloud(rec.copy.id)
    /\ Goto("create")
    /\ UNCHANGED <<object, uhost, backends, capuHosts, envVars>>
LookupNone ==
    /\ rec.pc = "lookup"
    /\ rec.copy.id = None
    /\ Goto("create")
    /\ UNCHANGED <<object, uhost, backends, capuHosts, envVars>>

DeleteOwner ==
    /\ rec.pc = "deleteOwner"
    /\ owner' = FALSE
    /\ Goto("close")
    /\ UNCHANGED <<object, cached, uhost, backends, capuHosts, prepared, faults,
                   upsets>>

\* CreateUHostInstance; the id stays in a local variable.
Create ==
    /\ rec.pc = "create"
    /\ \E h \in Hosts :
          /\ uhost[h] = "unborn"
          /\ uhost' = [uhost EXCEPT ![h] = "Initializing"]
          /\ rec' = [rec EXCEPT !.pc = "await", !.host = h]
    /\ UNCHANGED <<object, backends, capuHosts, envVars>>

\* The cloud refuses: no instance is left to hand out.
CreateRefused ==
    /\ rec.pc = "create"
    /\ \A h \in Hosts : uhost[h] # "unborn"
    /\ Goto("close")
    /\ UNCHANGED <<object, uhost, backends, capuHosts, envVars>>

\* The wait loop of CreateInstance.
AwaitRunning ==
    /\ rec.pc = "await"
    /\ uhost[rec.host] = "Running"
    /\ Serve(rec.host, "Running")
    /\ UNCHANGED <<object, uhost, backends, capuHosts, envVars>>

\* Its five minutes pass while the instance is stopped for good.
AwaitTimeout ==
    /\ rec.pc = "await"
    /\ uhost[rec.host] = "Stopped"
    /\ Goto("close")
    /\ UNCHANGED <<object, uhost, backends, capuHosts, envVars>>

MutAddOnlyOnce ==
    /\ rec.pc = "addBackend"
    /\ backends' = IF rec.before.ready THEN backends
                   ELSE backends \cup {rec.host}
    /\ Goto("join")
    /\ UNCHANGED <<object, uhost, capuHosts, envVars>>
AddRealServer ==
    /\ rec.pc = "addBackend"
    /\ IF InCloud(rec.host)
       THEN backends' = backends \cup {rec.host} /\ Goto("join")
       ELSE Goto("close") /\ UNCHANGED backends
    /\ UNCHANGED <<object, uhost, capuHosts, envVars>>

DelRealServer(pc, next) ==
    /\ rec.pc = pc
    /\ backends' = backends \ {rec.host}
    /\ Goto(next)
    /\ UNCHANGED <<object, uhost, capuHosts, envVars>>

CreateCAPUHost ==
    /\ rec.pc = "join"
    /\ capuHosts' = IF rec.copy.joined THEN capuHosts
                    ELSE capuHosts \cup {rec.host}
    /\ rec' = [rec EXCEPT !.pc = "close", !.copy.joined = TRUE]
    /\ UNCHANGED <<object, uhost, backends, envVars>>

-----------------------------------------------------------------------------
(* reconcileDelete.                                                        *)

\* The instance is gone or was never recorded: nothing to undo.
MutNeedsInstance ==
    /\ rec.pc = "lookupDeleted"
    /\ ~InCloud(rec.copy.id)
    /\ rec' = [rec EXCEPT !.pc = "close", !.copy.fin = rec.copy.id = None]
    /\ UNCHANGED <<object, uhost, backends, capuHosts, envVars>>
LookupDeletedNone ==
    /\ rec.pc = "lookupDeleted"
    /\ ~InCloud(rec.copy.id)
    /\ rec' = [rec EXCEPT !.pc = "close", !.copy.fin = FALSE]
    /\ UNCHANGED <<object, uhost, backends, capuHosts, envVars>>

MutDrainReadyOnly ==
    /\ rec.pc = "lookupDeleted"
    /\ InCloud(rec.copy.id)
    /\ rec' = [rec EXCEPT !.pc = IF ControlPlane /\ rec.copy.ready
                                 THEN "drain" ELSE "leave",
                          !.host = rec.copy.id]
    /\ UNCHANGED <<object, uhost, backends, capuHosts, envVars>>
LookupDeletedFound ==
    /\ rec.pc = "lookupDeleted"
    /\ InCloud(rec.copy.id)
    /\ rec' = [rec EXCEPT !.pc = IF ControlPlane THEN "drain" ELSE "leave",
                          !.host = rec.copy.id]
    /\ UNCHANGED <<object, uhost, backends, capuHosts, envVars>>

DeleteCAPUHost ==
    /\ rec.pc = "leave"
    /\ capuHosts' = capuHosts \ {rec.host}
    /\ Goto("poweroff")
    /\ UNCHANGED <<object, uhost, backends, envVars>>

\* terminateUHost: an instance that is gone meanwhile counts as terminated.
MutFireAndForget ==
    /\ rec.pc = "poweroff"
    /\ uhost' = [uhost EXCEPT ![rec.host] =
                   IF InCloud(rec.host) THEN "Stopping" ELSE @]
    /\ rec' = [rec EXCEPT !.pc = "close", !.copy.fin = FALSE]
    /\ UNCHANGED <<object, backends, capuHosts, envVars>>
PowerOff ==
    /\ rec.pc = "poweroff"
    /\ IF InCloud(rec.host)
       THEN /\ uhost' = [uhost EXCEPT ![rec.host] =
                          IF @ = "Stopped" THEN @ ELSE "Stopping"]
            /\ Goto("terminate")
       ELSE /\ rec' = [rec EXCEPT !.pc = "close", !.copy.fin = FALSE]
            /\ UNCHANGED uhost
    /\ UNCHANGED <<object, backends, capuHosts, envVars>>

\* The wait for Stopped is over: the instance goes, then the finalizer.
Terminate ==
    /\ rec.pc = "terminate"
    /\ uhost[rec.host] = "Stopped"
    /\ uhost' = [uhost EXCEPT ![rec.host] = "deleted"]
    /\ rec' = [rec EXCEPT !.pc = "close", !.copy.fin = FALSE]
    /\ UNCHANGED <<object, backends, capuHosts, envVars>>

\* The deferred machineScope.Close.
MutScopeKept ==
    /\ rec.pc = "close"
    /\ object' = Patched(object, rec.before, rec.copy)
    /\ rec' = [rec EXCEPT !.pc = "idle"]
    /\ UNCHANGED <<uhost, backends, capuHosts, envVars>>
Close ==
    /\ rec.pc = "close"
    /\ object' = Patched(object, rec.before, rec.copy)
    /\ rec' = NoReconcile
    /\ UNCHANGED <<uhost, backends, capuHosts, envVars>>

-----------------------------------------------------------------------------
(* What goes wrong.                                                        *)

\* A call fails or a wait times out: the reconcile returns the error and the
\* deferred Close persists what the copy holds by then.
Fault ==
    /\ rec.pc \notin {"idle", "close"}
    /\ rec.pc \in {"lookup", "lookupDeleted"} => rec.copy.id # None
    /\ faults < MaxFaults
    /\ faults' = faults + 1
    /\ Goto("close")
    /\ UNCHANGED <<object, cached, uhost, backends, capuHosts, owner, prepared,
                   upsets>>

\* A call takes effect and its answer, or a describe after it, fails.
LostAnswer ==
    /\ faults < MaxFaults
    /\ faults' = faults + 1
    /\ \/ /\ rec.pc = "create"
          /\ \E h \in Hosts : /\ uhost[h] = "unborn"
                              /\ uhost' = [uhost EXCEPT ![h] = "Initializing"]
          /\ UNCHANGED capuHosts
       \/ /\ rec.pc = "terminate" /\ uhost[rec.host] = "Stopped"
          /\ uhost' = [uhost EXCEPT ![rec.host] = "deleted"]
          /\ UNCHANGED capuHosts
       \/ /\ rec.pc = "join" /\ ~rec.copy.joined
          /\ capuHosts' = capuHosts \cup {rec.host}
          /\ UNCHANGED uhost
    /\ Goto("close")
    /\ UNCHANGED <<object, cached, backends, owner, prepared, upsets>>

\* Either half of the last patch, or both, may fail.
CloseFault ==
    /\ rec.pc = "close"
    /\ faults < MaxFaults
    /\ faults' = faults + 1
    /\ object' \in {object, ResourcePatched(object, rec.before, rec.copy),
                    StatusPatched(object, rec.before, rec.copy)}
    /\ rec' = NoReconcile
    /\ UNCHANGED <<cached, uhost, backends, capuHosts, owner, prepared, upsets>>

\* The process is killed; the informer of the next one lists afresh.
Crash ==
    /\ rec.pc # "idle"
    /\ faults < MaxFaults
    /\ faults' = faults + 1
    /\ rec' = NoReconcile
    /\ cached' = object
    /\ UNCHANGED <<object, uhost, backends, capuHosts, owner, prepared, upsets>>

\* Both wait loops index the first element of the answer: the process panics
\* when the instance it waits for has been deleted, the deferred Close runs.
Panic ==
    /\ rec.pc \in {"await", "terminate"}
    /\ uhost[rec.host] = "deleted"
    /\ object' = Patched(object, rec.before, rec.copy)
    /\ rec' = NoReconcile
    /\ cached' = object'
    /\ UNCHANGED <<uhost, backends, capuHosts, owner, prepared, faults, upsets>>

-----------------------------------------------------------------------------
(* The cloud, the cache and the users.                                     *)

\* An instance starts, reboots, or reaches the stop it was asked for.
CloudStep(h) ==
    /\ \/ uhost[h] \in {"Initializing", "Rebooting"}
          /\ uhost' = [uhost EXCEPT ![h] = "Running"]
       \/ uhost[h] = "Stopping"
          /\ uhost' = [uhost EXCEPT ![h] = "Stopped"]
    /\ UNCHANGED <<object, rec, backends, capuHosts, envVars>>

\* Somebody reboots, stops or deletes an instance; the VServer drops the
\* backend of a deleted one.
Upset(h) ==
    /\ InCloud(h)
    /\ upsets < MaxUpsets
    /\ upsets' = upsets + 1
    /\ \/ /\ uhost[h] = "Running"
          /\ \E state \in {"Rebooting", "Stopping"} :
                uhost' = [uhost EXCEPT ![h] = state]
          /\ UNCHANGED backends
       \/ /\ uhost' = [uhost EXCEPT ![h] = "deleted"]
          /\ backends' = backends \ {h}
    /\ UNCHANGED <<object, cached, rec, capuHosts, owner, prepared, faults>>

Sync ==
    /\ StaleReads
    /\ cached # object
    /\ cached' = object
    /\ UNCHANGED <<object, rec, uhost, backends, capuHosts, owner, prepared,
                   faults, upsets>>

\* The controllers of the Cluster and of the bootstrap data are done, and the
\* caches show it; neither is taken back.
Prepare ==
    /\ ~prepared
    /\ prepared' = TRUE
    /\ UNCHANGED <<object, cached, rec, uhost, backends, capuHosts, owner,
                   faults, upsets>>

\* The Machine is deleted, by a user or by the reconciler, and its controller
\* deletes the UCloudMachine.
DeleteMachine ==
    /\ object.life = "live"
    /\ object' = [object EXCEPT !.life = IF object.fin THEN "deleting"
                                                       ELSE "gone"]
    /\ UNCHANGED <<rec, uhost, backends, capuHosts, envVars>>

-----------------------------------------------------------------------------
Running ==
    \/ Register \/ LookupFound \/ LookupMissing \/ LookupNone \/ DeleteOwner
    \/ Create \/ CreateRefused \/ AwaitRunning \/ AwaitTimeout \/ AddRealServer
    \/ DelRealServer("dropBackend", "join") \/ CreateCAPUHost
    \/ LookupDeletedNone \/ LookupDeletedFound
    \/ DelRealServer("drain", "leave") \/ DeleteCAPUHost \/ PowerOff
    \/ Terminate \/ Panic \/ Close

Next ==
    \/ Start \/ Running
    \/ LookupStateless \/ Fault \/ LostAnswer \/ CloseFault \/ Crash
    \/ Sync \/ Prepare \/ DeleteMachine
    \/ \E h \in Hosts : CloudStep(h) \/ Upset(h)

Spec == Init /\ [][Next]_vars

\* A reconcile goes on, a queued key is taken (one key, many workers), the
\* cache catches up, and an instance finishes starting and stopping.
Fairness ==
    /\ WF_vars(Start) /\ WF_vars(Running) /\ WF_vars(Sync)
    /\ \A h \in Hosts : WF_vars(CloudStep(h))

FairSpec == Spec /\ Fairness

-----------------------------------------------------------------------------
TypeOK ==
    /\ object \in Objects
    /\ cached \in Objects
    /\ rec \in [pc : Steps, before : Objects, copy : Objects,
                host : Hosts \cup {None}]
    /\ rec.pc = "idle" => rec = NoReconcile
    /\ object.life = "deleting" => object.fin
    /\ uhost \in [Hosts -> UHostStates]
    /\ backends \subseteq Hosts
    /\ capuHosts \subseteq Hosts
    /\ owner \in BOOLEAN
    /\ prepared \in BOOLEAN
    /\ faults \in 0..MaxFaults
    /\ upsets \in 0..MaxUpsets

\* While the object is there an instance exists only under its finalizer.
FinalizerBeforeInstance ==
    (\E h \in Hosts : InCloud(h)) => object.fin \/ object.life = "gone"

\* The object is removed only when the instance it recorded has been
\* terminated and is no backend and no CAPU host any more, unless somebody
\* else deleted that instance.
RecordedUndone ==
    object.life = "gone" /\ object.id # None =>
        /\ uhost[object.id] = "deleted"
        /\ object.id \notin backends
        /\ object.id \in capuHosts => upsets > 0

\* With fresh reads the machine keeps the promise of an owned resource for
\* its instance, although creating it, recording it and removing the object
\* are far apart and each of them may fail.
Instance == INSTANCE OwnedResources WITH
    Kinds <- {"uhost"}, Ids <- Hosts, Unique <- FALSE,
    issued <- [k \in {"uhost"} |-> {h \in Hosts : uhost[h] # "unborn"}],
    existing <- [k \in {"uhost"} |-> {h \in Hosts : InCloud(h)}],
    recorded <- [k \in {"uhost"} |-> object.id],
    open <- (object.life # "gone")
InstanceOwned == Instance!Spec

\* A control plane instance leaves the load balancer before it is powered off
\* by the reconciler, whatever happened to earlier attempts.
DrainedBeforePowerOff ==
    rec.pc \in {"leave", "poweroff", "terminate"} => rec.host \notin backends

\* The owning Machine is deleted only when its instance really is gone.
OwnerOutlivesInstance ==
    ~owner => object.id # None /\ uhost[object.id] = "deleted"

\* A machine with a terminal failure is not reported as ready.
FailedNotReady == object.failed => ~object.ready

\* A control plane machine that is ready gets behind the load balancer in the
\* end: Ready is persisted also when AddRealServer failed, and only the next
\* reconciles can make up for it.  Unless the instance or the machine goes.
ReadyReachable ==
    ControlPlane =>
        \A h \in Hosts :
            object.ready /\ object.id = h
                ~> \/ h \in backends
                   \/ uhost[h] # "Running" \/ object.life # "live"
                   \/ object.failed \/ object.id # h

\* Every deleted UCloudMachine is removed in the end.
MachineRemoved == object.life = "deleting" ~> object.life = "gone"

\* "Instance is deleted so remove the finalizer": when the object is removed,
\* none of the instances created for it is left.
NoInstanceLeft ==
    object.life = "gone" => \A h \in Hosts : ~InCloud(h)

\* "This field should not be set for transitive errors ... expected to be
\* fixed automatically": no failure while the instance reboots.
FailureIsTerminal ==
    [][object'.failed /\ ~object.failed
          => \/ object'.id = None
             \/ uhost[object'.id] # "Rebooting"]_vars
=============================================================================
