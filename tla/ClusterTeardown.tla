--------------------------- MODULE ClusterTeardown ---------------------------
(***************************************************************************)
(* The finalizer protocol together with what it protects: the instances of *)
(* the machines live in the subnet and the business group of the cluster   *)
(* and behind its load balancer, and the teardown takes these away.        *)
(*                                                                         *)
(* Every action of ClusterFinalizers.tla is conjoined with its effect in   *)
(* UCloud; CTeardown becomes its calls.  There, teardown and unwinding     *)
(* fail by a fault only.  Here they also fail for good: DeleteSubnet while *)
(* an instance is in the subnet, and DelRealServer once the load balancer  *)
(* is gone.                                                                *)
(*                                                                         *)
(* Simplifications                                                         *)
(*  - of the resources the group, the subnet and the load balancer are     *)
(*    kept, and what exists is recorded (UCloudInfra.tla has the rest);    *)
(*  - at most one instance of a machine is lost, more change nothing;      *)
(*  - the teardown finds and terminates the instances of the group in one  *)
(*    step, and a machine's reconcile its instance (see Terminator.tla).   *)
(***************************************************************************)
EXTENDS ClusterFinalizers

CONSTANT ControlPlanes  \* the machines that are put behind the load balancer

ASSUME ControlPlanesAssumption == ControlPlanes \subseteq Machines

VARIABLES
    site,   \* the resources of the cluster that exist and are its own
    stage,  \* the next call of the teardown
    hosts,  \* machines whose instance, as far as its id is known, exists
    known,  \* who knows the id: no one, the reconcile's copy, the object
    lost,   \* are there instances whose ids were forgotten?
    given   \* does the spec name the subnet?  Then it is the user's

cloud == <<site, stage, hosts, known, lost, given>>
all == <<vars, cloud>>

Resources == {"group", "subnet", "ulb"}
Site == IF given THEN Resources \ {"subnet"} ELSE Resources
Stages == {"ulb", "hosts", "subnet", "group"}

InitAll ==
    /\ Init
    /\ site = {}
    /\ stage = "ulb"
    /\ hosts = {}
    /\ known = [m \in Machines |-> "no"]
    /\ lost = FALSE
    /\ given \in BOOLEAN

-----------------------------------------------------------------------------
(* Machines.                                                               *)

\* The instance is looked up when the object names one: it is found, or the
\* machine fails.  Without a name one is created if there is a subnet, and is
\* lost when the wait for it fails.
Work(m) ==
    /\ MWork(m)
    /\ mrec'[m].goal = "fail" => known[m] = "object"
    /\ \/ started' = started /\ UNCHANGED <<hosts, known, lost>>
       \/ /\ known[m] = "no" /\ (given \/ "subnet" \in site)
          /\ m \in started'
          /\ \/ /\ hosts' = hosts \cup {m}
                /\ known' = [known EXCEPT ![m] = "copy"]
                /\ UNCHANGED lost
             \/ lost' = TRUE /\ UNCHANGED <<hosts, known>>
    /\ UNCHANGED <<site, stage, given>>

\* DelRealServer comes first and needs the load balancer.
Drainable(m) == m \in hosts \cap ControlPlanes => "ulb" \in site

Unwind(m) ==
    /\ Drainable(m)
    /\ MUnwind(m)
    /\ hosts' = hosts \ {m}
    /\ UNCHANGED <<site, stage, known, lost, given>>

\* "vserver not exist"
UnwindRefused(m) ==
    /\ mrec[m].pc = "unwind"
    /\ ~Drainable(m)
    /\ mrec' = [mrec EXCEPT ![m].pc = "closeMachine"]
    /\ UNCHANGED <<cluster, cached, machine, machineFin, started, failed,
                   infra, crec, faults, cloud>>

MutIdNotPatched(m) ==
    /\ MCloseMachine(m)
    /\ known' = [known EXCEPT ![m] = IF machine'[m] = "gone" THEN "no" ELSE @]
    /\ UNCHANGED <<site, stage, hosts, lost, given>>
\* The patch writes the id to the object.
CloseMachine(m) ==
    /\ MCloseMachine(m)
    /\ known' = [known EXCEPT ![m] = IF machine'[m] = "gone" THEN "no"
                                     ELSE IF @ = "copy" THEN "object" ELSE @]
    /\ UNCHANGED <<site, stage, hosts, lost, given>>

\* The copies of the reconciles of ms are gone.
Forget(ms) ==
    LET forgotten == {m \in ms : known[m] = "copy"} IN
    /\ known' = [m \in Machines |-> IF m \in forgotten THEN "no" ELSE known[m]]
    /\ hosts' = hosts \ forgotten
    /\ lost' = (lost \/ hosts \cap forgotten # {})

\* A call that failed may have done its work.
MachineFault(m) ==
    /\ MFault(m)
    /\ \/ mrec[m].pc = "closeMachine" /\ Forget({m})
       \/ /\ mrec[m].pc = "unwind"
          /\ hosts' \in {hosts, IF Drainable(m) THEN hosts \ {m} ELSE hosts}
          /\ UNCHANGED <<known, lost>>
       \/ /\ mrec[m].pc \notin {"closeMachine", "unwind"}
          /\ UNCHANGED <<hosts, known, lost>>
    /\ UNCHANGED <<site, stage, given>>

-----------------------------------------------------------------------------
(* The cluster.                                                            *)

Provision ==
    /\ CProvision
    /\ site' = Site
    /\ UNCHANGED <<stage, hosts, known, lost, given>>

At(call) == crec.pc = "teardown" /\ stage = call

\* The protocol of the finalizers does not see the calls before the last.
Inner == UNCHANGED <<vars, known, given>>

DeleteULB ==
    /\ At("ulb")
    /\ site' = site \ {"ulb"}
    /\ stage' = "hosts"
    /\ Inner /\ UNCHANGED <<hosts, lost>>

MutKnownOnly ==
    /\ At("hosts")
    /\ hosts' = {}
    /\ stage' = "subnet"
    /\ Inner /\ UNCHANGED <<site, lost>>
\* CleanResourceInGroup terminates whatever carries the group's id, the
\* instances that nobody remembers included.  Of a group that an earlier
\* teardown has deleted it finds nothing.
CleanResourceInGroup ==
    /\ At("hosts")
    /\ IF "group" \in site THEN hosts' = {} /\ lost' = FALSE
                          ELSE UNCHANGED <<hosts, lost>>
    /\ stage' = "subnet"
    /\ Inner /\ UNCHANGED site

SubnetInUse == hosts # {} \/ lost

\* A subnet that is given in the spec stays, whatever is in it.
DeleteSubnet ==
    /\ At("subnet")
    /\ given \/ ~SubnetInUse
    /\ site' = site \ {"subnet"}
    /\ stage' = "group"
    /\ Inner /\ UNCHANGED <<hosts, lost>>

SubnetRefused ==
    /\ At("subnet")
    /\ ~given /\ SubnetInUse
    /\ crec' = [crec EXCEPT !.pc = "close"]
    /\ stage' = "ulb"
    /\ UNCHANGED <<cluster, cached, machine, machineFin, started, failed,
                   infra, mrec, faults, site, hosts, known, lost, given>>

\* DeleteGroup, and the finalizer of the cluster goes.
DeleteGroup ==
    /\ At("group")
    /\ CTeardown
    /\ site' = {}
    /\ stage' = "ulb"
    /\ UNCHANGED <<hosts, known, lost, given>>

\* A failed provision leaves what it created, in this order; a failed call of
\* the teardown may have done its work.
ClusterFault ==
    /\ CFault
    /\ stage' = "ulb"
    /\ \/ /\ crec.pc = "provision"
          /\ site' \in {site \cup (new \cap Site) : new \in
                          {{"group"}, {"group", "subnet"}, Resources}}
          /\ UNCHANGED <<hosts, lost>>
       \/ /\ At("hosts")
          /\ hosts' \in SUBSET hosts /\ lost' \in {FALSE, lost}
          /\ "group" \notin site => UNCHANGED <<hosts, lost>>
          /\ UNCHANGED site
       \/ /\ crec.pc = "teardown" /\ stage # "hosts"
          /\ \/ UNCHANGED site
             \/ /\ stage = "subnet" => given \/ ~SubnetInUse
                /\ site' = site \ {stage}
          /\ UNCHANGED <<hosts, lost>>
       \/ /\ crec.pc \notin {"provision", "teardown"}
          /\ UNCHANGED <<site, hosts, lost>>
    /\ UNCHANGED <<known, given>>

ProcessCrash ==
    /\ Crash
    /\ Forget(Machines)
    /\ stage' = "ulb"
    /\ UNCHANGED <<site, given>>

-----------------------------------------------------------------------------
MachineStepAll(m) ==
    \/ (MPatchMachine(m) \/ MPatchCluster(m) \/ MCloseCluster(m))
          /\ UNCHANGED cloud
    \/ Work(m) \/ Unwind(m) \/ UnwindRefused(m) \/ CloseMachine(m)

ClusterStepAll ==
    \/ (CPatch \/ CScan \/ CScanDone \/ CClose) /\ UNCHANGED cloud
    \/ Provision \/ DeleteULB \/ CleanResourceInGroup
    \/ DeleteSubnet \/ SubnetRefused \/ DeleteGroup

StartMachine(m) == MStart(m) /\ UNCHANGED cloud
StartCluster == CStart /\ UNCHANGED cloud

Environment ==
    /\ \/ DeleteCluster
       \/ \E m \in Machines : CreateMachine(m) \/ DeleteMachine(m)
    /\ UNCHANGED cloud

NextAll ==
    \/ \E m \in Machines :
          StartMachine(m) \/ MachineStepAll(m) \/ MachineFault(m)
    \/ StartCluster \/ ClusterStepAll \/ ClusterFault
    \/ ProcessCrash \/ Environment

SpecAll == InitAll /\ [][NextAll]_all

\* As in ClusterFinalizers: reconciles go on and are started again.
FairSpecAll ==
    /\ SpecAll
    /\ \A m \in Machines :
          WF_all(MachineStepAll(m)) /\ SF_all(StartMachine(m))
    /\ WF_all(ClusterStepAll) /\ WF_all(StartCluster)

-----------------------------------------------------------------------------
\* Types; an id is only in a copy while its reconcile is about to write it,
\* and the protocol takes no resource that exists for gone.
TeardownTypeOK ==
    /\ site \subseteq Site /\ (site # {} => infra)
    /\ stage \in Stages
    /\ hosts \subseteq {m \in Machines : known[m] # "no"}
    /\ known \in [Machines -> {"no", "copy", "object"}]
    /\ \A m \in Machines : known[m] = "copy" => mrec[m].pc = "closeMachine"
    /\ lost \in BOOLEAN /\ given \in BOOLEAN

\* When the UCloudCluster is gone nothing of it is left in UCloud.  That no
\* instance is left, one whose id was lost included, needs a subnet of the
\* cluster's own, which cannot be deleted while one is in it, or a cluster
\* that is deleted after its machines (DeleteGroup and the finalizer come
\* after CleanResourceInGroup).
NothingLeft ==
    ~cluster.present =>
        /\ site = {}
        /\ ~given \/ DeletedLast => hosts = {} /\ ~lost

\* Everything refused is refused because of a fault: the teardown and the
\* deletions of the machines follow the protocol, in which both get through.
\* No call that DelRealServer or DeleteSubnet cannot serve is ever made.
FollowsProtocol == Spec
=============================================================================
