---------------------------- MODULE UCloudInfra ----------------------------
(***************************************************************************)
(* The UCloud resources of one UCloudCluster: what                         *)
(* UCloudClusterReconciler.reconcile creates, in which order, what it      *)
(* records in the status, and what reconcileDelete removes.                *)
(*                                                                         *)
(* Simplifications                                                         *)
(*  - no UCloudMachine is left when the teardown starts and the finalizers *)
(*    of machines are left out (see ClusterFinalizers.tla);                *)
(*  - the object is read fresh and has no other writer of its status;      *)
(*  - an id stands for a resource; ids are handed out in order, up to the  *)
(*    quota; a resource given by id in the spec has the id UserId and is   *)
(*    found by its lookup, and a given NAT gateway or ULB lies in a given  *)
(*    VPC;                                                                 *)
(*  - the EIP of a ULB and of a NAT gateway is released with it            *)
(*    (ReleaseEip); the cloud refuses to delete a subnet in use and a VPC  *)
(*    in use;                                                              *)
(*  - calls fail and the process dies only at FaultSteps, MaxFaults times. *)
(***************************************************************************)
EXTENDS Naturals, FiniteSets

CONSTANTS
    Quota,         \* bound: resources that can be created
    Given,         \* kinds given by id in the spec
    GivenInGroup,  \* is a given ULB in the cluster's business group?
    Named,         \* of "nat" and "ulb": those with a name in the spec
    Bastion,       \* is a bastion asked for (sshPassword set)?
    MissingFails,  \* deleting a group or CAPU cluster that is gone fails
    FaultSteps,    \* steps that may fail
    MaxFaults      \* bound: failed calls and crashes

VARIABLES
    object,   \* the UCloudCluster in the API server
    rec,      \* the reconcile in flight: step, copy and local variables
    cloud,    \* existing resources, by kind
    bound,    \* ULBs with an EIP
    serving,  \* ULBs with a VServer
    last,     \* the last id handed out
    faults    \* failed calls and crashes so far

vars == <<object, rec, cloud, bound, serving, last, faults>>

Kinds == {"group", "vpc", "subnet", "nat", "ulb", "eip", "bastion", "capu"}
Recorded == Kinds \ {"eip"}
UserId == Quota + 1
Ids == 1..UserId
CreateSteps == {"register", "group", "vpc", "subnet", "nat", "natEIP",
                "natGW", "ulb", "ulbEIP", "ulbBind", "ulbVServer", "zones",
                "bastion", "capu"}
DeleteSteps == {"delBastion", "delULB", "delNat", "clean", "delSubnet",
                "delVPC", "delGroup", "delCAPU"}
Steps == CreateSteps \cup DeleteSteps \cup {"idle", "close"}

ASSUME InfraAssumption ==
    /\ Quota \in Nat /\ MaxFaults \in Nat
    /\ Given \subseteq {"vpc", "subnet", "nat", "ulb"}
    /\ Given # {} => "vpc" \in Given
    /\ Named \subseteq {"nat", "ulb"}
    /\ {GivenInGroup, Bastion, MissingFails} \subseteq BOOLEAN
    /\ FaultSteps \subseteq Steps \ {"idle"}

Nothing == [k \in Recorded |-> 0]
NewObject == [present |-> TRUE, deleting |-> FALSE, fin |-> FALSE,
              ready |-> FALSE, addr |-> FALSE, status |-> Nothing]
NoReconcile == [pc |-> "idle", status |-> Nothing, ready |-> FALSE,
                addr |-> FALSE, fin |-> FALSE, eip |-> 0, ulb |-> 0]

Init ==
    /\ object = NewObject
    /\ rec = NoReconcile
    /\ cloud = [k \in Kinds |-> IF k \in Given THEN {UserId} ELSE {}]
    /\ bound = cloud["ulb"]
    /\ serving = cloud["ulb"]
    /\ last = 0
    /\ faults = 0

-----------------------------------------------------------------------------
\* The resources a lookup can match.  The default names of the NAT gateway
\* and of the ULB are used to create them but not to look for them, and a
\* CAPU cluster is never looked for.
MutNothingMatches(k) == IF k \in Given THEN {UserId} ELSE {}
Matching(k) ==
    IF k \in Given THEN {UserId}
    ELSE IF k \in {"group", "vpc", "subnet"} \cup Named THEN cloud[k]
    ELSE {}

\* How each step goes on when it succeeds.
NextStep(pc) ==
    CASE pc = "register" -> "group"    [] pc = "group" -> "vpc"
      [] pc = "vpc" -> "subnet"        [] pc = "subnet" -> "nat"
      [] pc \in {"nat", "natGW"} -> "ulb"
      [] pc \in {"ulb", "ulbVServer"} -> "zones"
      [] pc = "zones" -> "bastion"     [] pc = "bastion" -> "capu"
      [] pc = "delBastion" -> "delULB" [] pc = "delULB" -> "delNat"
      [] pc = "delNat" -> "clean"      [] pc = "clean" -> "delSubnet"
      [] pc = "delSubnet" -> "delVPC"  [] pc = "delVPC" -> "delGroup"
      [] pc = "delGroup" -> "delCAPU"  [] OTHER -> "close"

Goto(pc) == rec' = [rec EXCEPT !.pc = pc]
Proceed == Goto(NextStep(rec.pc))
Record(k, id) ==
    rec' = [rec EXCEPT !.status[k] = id, !.pc = NextStep(rec.pc),
                       !.addr = @ \/ k = "ulb"]
NewResource(k) ==
    /\ last < Quota
    /\ last' = last + 1
    /\ cloud' = [cloud EXCEPT ![k] = @ \cup {last'}]

NoCloud == UNCHANGED <<cloud, bound, serving, last>>

-----------------------------------------------------------------------------
(* UCloudClusterReconciler.reconcile.                                      *)

Start ==
    /\ rec.pc = "idle"
    /\ object.present
    /\ rec' = [NoReconcile EXCEPT
                 !.pc = IF object.deleting THEN "delBastion" ELSE "register",
                 !.status = object.status, !.ready = object.ready,
                 !.addr = object.addr, !.fin = TRUE]
    /\ NoCloud /\ UNCHANGED <<object, faults>>

\* AddFinalizer and PatchObject; the object may have been deleted meanwhile.
Register ==
    /\ rec.pc = "register"
    /\ IF object.present /\ (object.deleting => object.fin)
       THEN object' = [object EXCEPT !.fin = TRUE] /\ Proceed
       ELSE Goto("close") /\ UNCHANGED object
    /\ NoCloud /\ UNCHANGED faults

\* The common head of the Reconcile functions: recorded already, or found.
Known(k) ==
    /\ rec.pc = k
    /\ rec.status[k] # 0
    /\ Proceed
    /\ NoCloud /\ UNCHANGED <<object, faults>>

MutPartialAdopted(k) ==
    /\ rec.pc = k
    /\ rec.status[k] = 0
    /\ \E id \in Matching(k) : Record(k, id)
    /\ NoCloud /\ UNCHANGED <<object, faults>>
Adopt(k) ==
    /\ rec.pc = k
    /\ rec.status[k] = 0
    /\ \E id \in Matching(k) :
          /\ k = "ulb" => id \in bound \cap serving
          /\ Record(k, id)
    /\ NoCloud /\ UNCHANGED <<object, faults>>

\* ReconcileULB records the id of the ULB it found and then indexes
\* VServerSet[0]: on a ULB without a VServer the process panics, and the
\* deferred Close persists the id without an address.
PanicOnPartialULB ==
    /\ rec.pc = "ulb"
    /\ rec.status["ulb"] = 0
    /\ \E id \in Matching("ulb") :
          /\ id \notin bound \cap serving
          /\ rec' = [rec EXCEPT !.pc = "close", !.status["ulb"] = id]
    /\ NoCloud /\ UNCHANGED <<object, faults>>

Missing(k) == rec.pc = k /\ rec.status[k] = 0 /\ Matching(k) = {}

\* ReconcileUGroup, ReconcileVPC, ReconcileSubnet, CreateCAPUCluster.
CreateSimple(k) ==
    /\ Missing(k)
    /\ NewResource(k)
    /\ Record(k, last')
    /\ UNCHANGED <<object, bound, serving, faults>>

\* ReconcileNat: an EIP, then the gateway that takes it.
NatMissing ==
    /\ Missing("nat")
    /\ Goto("natEIP")
    /\ NoCloud /\ UNCHANGED <<object, faults>>

AllocateEIP(pc, next) ==
    /\ rec.pc = pc
    /\ NewResource("eip")
    /\ rec' = [rec EXCEPT !.pc = next, !.eip = last']
    /\ UNCHANGED <<object, bound, serving, faults>>

CreateNATGW ==
    /\ rec.pc = "natGW"
    /\ last < Quota
    /\ last' = last + 1
    /\ cloud' = [cloud EXCEPT !["nat"] = @ \cup {last'},
                              !["eip"] = @ \ {rec.eip}]
    /\ Record("nat", last')
    /\ UNCHANGED <<object, bound, serving, faults>>

\* ReconcileULB: the ULB, an EIP, their binding, the VServer.
CreateULB ==
    /\ Missing("ulb")
    /\ NewResource("ulb")
    /\ rec' = [rec EXCEPT !.pc = "ulbEIP", !.ulb = last']
    /\ UNCHANGED <<object, bound, serving, faults>>

BindEIP ==
    /\ rec.pc = "ulbBind"
    /\ cloud' = [cloud EXCEPT !["eip"] = @ \ {rec.eip}]
    /\ bound' = bound \cup {rec.ulb}
    /\ Goto("ulbVServer")
    /\ UNCHANGED <<object, serving, last, faults>>

CreateVServer ==
    /\ rec.pc = "ulbVServer"
    /\ serving' = serving \cup {rec.ulb}
    /\ Record("ulb", rec.ulb)
    /\ UNCHANGED <<object, cloud, bound, last, faults>>

\* "Waiting on API server Global IP Address".
NoAddress ==
    /\ rec.pc = "zones"
    /\ ~rec.addr
    /\ Goto("close")
    /\ NoCloud /\ UNCHANGED <<object, faults>>

\* GetZones, then Status.Ready is set in the copy.
MutReadyWithBastion ==
    /\ rec.pc = "zones"
    /\ rec.addr
    /\ rec' = [rec EXCEPT !.pc = NextStep(@),
                          !.ready = @ \/ rec.status["bastion"] # 0]
    /\ NoCloud /\ UNCHANGED <<object, faults>>
SetReady ==
    /\ rec.pc = "zones"
    /\ rec.addr
    /\ rec' = [rec EXCEPT !.pc = NextStep(@), !.ready = TRUE]
    /\ NoCloud /\ UNCHANGED <<object, faults>>

\* CreateBastionInstance: not wanted, recorded, or found by its name, which
\* does not record it.
BastionDone ==
    /\ rec.pc = "bastion"
    /\ Bastion => rec.status["bastion"] # 0 \/ cloud["bastion"] # {}
    /\ Proceed
    /\ NoCloud /\ UNCHANGED <<object, faults>>

CreateBastion ==
    /\ rec.pc = "bastion"
    /\ Bastion /\ rec.status["bastion"] = 0 /\ cloud["bastion"] = {}
    /\ NewResource("bastion")
    /\ Record("bastion", last')
    /\ UNCHANGED <<object, bound, serving, faults>>

-----------------------------------------------------------------------------
(* reconcileDelete.                                                        *)

\* A resource is deleted when it is recorded and was not given.
MutOursAlways(k) == rec.status[k] # 0
Ours(k) == rec.status[k] # 0 /\ rec.status[k] # (IF k \in Given THEN UserId ELSE 0)

Skip(pc, k) ==
    /\ rec.pc = pc
    /\ ~Ours(k)
    /\ Proceed
    /\ NoCloud /\ UNCHANGED <<object, faults>>

Remove(k, id) == cloud' = [cloud EXCEPT ![k] = @ \ {id}]

TerminateBastion ==
    /\ rec.pc = "delBastion"
    /\ Ours("bastion")
    /\ Remove("bastion", rec.status["bastion"])
    /\ Record("bastion", 0)
    /\ UNCHANGED <<object, bound, serving, last, faults>>

\* DeleteULB and DeleteNat tolerate the code for "gone already".
Delete(pc, k) ==
    /\ rec.pc = pc
    /\ Ours(k)
    /\ Remove(k, rec.status[k])
    /\ Proceed
    /\ UNCHANGED <<object, bound, serving, last, faults>>

GroupExists == rec.status["group"] \in cloud["group"]

\* CleanResourceInGroup: every ULB and every instance of the group, a ULB
\* that the user gave and put into the group included.
ULBsInGroup == cloud["ulb"] \ (IF GivenInGroup THEN {} ELSE {UserId})
MutCleanNothing ==
    /\ rec.pc = "clean"
    /\ rec.status["group"] # 0
    /\ Proceed
    /\ NoCloud /\ UNCHANGED <<object, faults>>
CleanGroup ==
    /\ rec.pc = "clean"
    /\ rec.status["group"] # 0
    /\ IF GroupExists
       THEN /\ cloud' = [cloud EXCEPT !["ulb"] = @ \ ULBsInGroup,
                                      !["bastion"] = {}]
            /\ Proceed
       ELSE /\ IF MissingFails THEN Goto("close") ELSE Proceed
            /\ UNCHANGED cloud
    /\ UNCHANGED <<object, bound, serving, last, faults>>

\* A subnet with a NAT gateway, a VPC with a subnet or a ULB: the cloud
\* refuses and the reconcile returns the error.
InUse(k) ==
    IF k = "subnet" THEN cloud["nat"] \ {UserId} # {}
    ELSE (cloud["subnet"] \cup cloud["ulb"]) \ {UserId} # {}

MutRefusalIgnored(pc, k) ==
    /\ rec.pc = pc
    /\ Ours(k)
    /\ IF rec.status[k] \in cloud[k] /\ InUse(k)
       THEN UNCHANGED cloud
       ELSE Remove(k, rec.status[k])
    /\ Proceed
    /\ UNCHANGED <<object, bound, serving, last, faults>>
DeleteNetwork(pc, k) ==
    /\ rec.pc = pc
    /\ Ours(k)
    /\ IF rec.status[k] \in cloud[k] /\ InUse(k)
       THEN Goto("close") /\ UNCHANGED cloud
       ELSE Remove(k, rec.status[k]) /\ Proceed
    /\ UNCHANGED <<object, bound, serving, last, faults>>

\* DeleteGroup and DeleteCAPUCluster know no tolerated code.
DeleteStrict(pc, k) ==
    /\ rec.pc = pc
    /\ Ours(k)
    /\ IF rec.status[k] \notin cloud[k] /\ MissingFails
       THEN Goto("close") /\ UNCHANGED cloud
       ELSE /\ Remove(k, rec.status[k])
            /\ rec' = [rec EXCEPT !.pc = NextStep(pc),
                                  !.fin = (pc # "delCAPU")]
    /\ UNCHANGED <<object, bound, serving, last, faults>>

\* Nothing to do at the last step: the finalizer goes all the same.
MutReturnsEarly ==
    /\ rec.pc = "delCAPU"
    /\ ~Ours("capu")
    /\ Goto("close")
    /\ NoCloud /\ UNCHANGED <<object, faults>>
SkipLast ==
    /\ rec.pc = "delCAPU"
    /\ ~Ours("capu")
    /\ rec' = [rec EXCEPT !.pc = "close", !.fin = FALSE]
    /\ NoCloud /\ UNCHANGED <<object, faults>>

\* The deferred Close.
Persisted ==
    IF ~object.present THEN object
    ELSE [object EXCEPT !.status = rec.status, !.ready = rec.ready,
                        !.addr = rec.addr,
                        !.fin = IF object.deleting /\ ~object.fin
                                THEN FALSE ELSE rec.fin,
                        !.present = ~(object.deleting /\ ~rec.fin)]
MutScopeKept ==
    /\ rec.pc = "close"
    /\ object' = Persisted
    /\ rec' = [rec EXCEPT !.pc = "idle"]
    /\ NoCloud /\ UNCHANGED faults
Close ==
    /\ rec.pc = "close"
    /\ object' = Persisted
    /\ rec' = NoReconcile
    /\ NoCloud /\ UNCHANGED faults

-----------------------------------------------------------------------------
(* Faults and the environment.                                             *)

Faulty == rec.pc \in FaultSteps /\ faults < MaxFaults /\ faults' = faults + 1

\* A call fails: the reconcile ends with the error and the copy is persisted.
Fault ==
    /\ Faulty
    /\ rec.pc # "close"
    /\ Goto("close")
    /\ NoCloud /\ UNCHANGED object

\* A creating call succeeds and its answer, or the describe after it, fails.
LostAnswer ==
    /\ Faulty
    /\ \/ rec.pc \in {"group", "vpc", "subnet", "ulb", "capu"}
             /\ Missing(rec.pc) /\ NewResource(rec.pc)
       \/ rec.pc \in {"natEIP", "ulbEIP"} /\ NewResource("eip")
       \/ rec.pc = "natGW" /\ last < Quota /\ last' = last + 1
             /\ cloud' = [cloud EXCEPT !["nat"] = @ \cup {last'},
                                       !["eip"] = @ \ {rec.eip}]
       \/ rec.pc = "bastion" /\ Bastion /\ rec.status["bastion"] = 0
             /\ cloud["bastion"] = {} /\ NewResource("bastion")
    /\ Goto("close")
    /\ UNCHANGED <<object, bound, serving>>

\* The process dies, or Close fails: nothing of the copy is persisted.
Crash ==
    /\ Faulty
    /\ rec' = NoReconcile
    /\ NoCloud /\ UNCHANGED object

\* The quota is used up.
Refused ==
    /\ last = Quota
    /\ \/ rec.pc \in {"group", "vpc", "subnet", "ulb", "capu"} /\ Missing(rec.pc)
       \/ rec.pc \in {"natEIP", "natGW", "ulbEIP"}
       \/ rec.pc = "bastion" /\ Bastion /\ rec.status["bastion"] = 0
             /\ cloud["bastion"] = {}
    /\ Goto("close")
    /\ NoCloud /\ UNCHANGED <<object, faults>>

DeleteCluster ==
    /\ object.present /\ ~object.deleting
    /\ object' = [object EXCEPT !.deleting = TRUE, !.present = object.fin]
    /\ NoCloud /\ UNCHANGED <<rec, faults>>

-----------------------------------------------------------------------------
Creating ==
    \/ Register
    \/ \E k \in {"group", "vpc", "subnet", "nat", "ulb", "capu"} : Known(k)
    \/ \E k \in {"group", "vpc", "subnet", "nat", "ulb"} : Adopt(k)
    \/ \E k \in {"group", "vpc", "subnet", "capu"} : CreateSimple(k)
    \/ NatMissing \/ AllocateEIP("natEIP", "natGW") \/ CreateNATGW
    \/ CreateULB \/ AllocateEIP("ulbEIP", "ulbBind") \/ BindEIP
    \/ CreateVServer \/ PanicOnPartialULB \/ NoAddress \/ SetReady
    \/ BastionDone \/ CreateBastion \/ Refused

Deleting ==
    \/ Skip("delBastion", "bastion") \/ TerminateBastion
    \/ Skip("delULB", "ulb") \/ Delete("delULB", "ulb")
    \/ Skip("delNat", "nat") \/ Delete("delNat", "nat")
    \/ Skip("clean", "group") \/ CleanGroup
    \/ Skip("delSubnet", "subnet") \/ DeleteNetwork("delSubnet", "subnet")
    \/ Skip("delVPC", "vpc") \/ DeleteNetwork("delVPC", "vpc")
    \/ Skip("delGroup", "group") \/ DeleteStrict("delGroup", "group")
    \/ SkipLast \/ DeleteStrict("delCAPU", "capu")

Next ==
    \/ Start \/ Creating \/ Deleting \/ Close
    \/ Fault \/ LostAnswer \/ Crash \/ DeleteCluster

Spec == Init /\ [][Next]_vars

\* A reconcile goes on, and an object is reconciled again (an error requeues
\* it, the resync enqueues it anyway).
FairSpec == Spec /\ WF_vars(Start) /\ WF_vars(Creating \/ Deleting \/ Close)

-----------------------------------------------------------------------------
TypeOK ==
    /\ object \in [present : BOOLEAN, deleting : BOOLEAN, fin : BOOLEAN,
                   ready : BOOLEAN, addr : BOOLEAN,
                   status : [Recorded -> Ids \cup {0}]]
    /\ rec \in [pc : Steps, status : [Recorded -> Ids \cup {0}],
                ready : BOOLEAN, addr : BOOLEAN, fin : BOOLEAN,
                eip : Ids \cup {0}, ulb : Ids \cup {0}]
    /\ rec.pc = "idle" => rec = NoReconcile
    /\ cloud \in [Kinds -> SUBSET Ids]
    /\ bound \subseteq Ids /\ serving \subseteq Ids
    /\ last \in 0..Quota /\ faults \in 0..MaxFaults

\* Whatever fails or crashes and however often it is retried, there is one
\* group, one VPC and one subnet: their names are looked for before they are
\* created, so that a lost status entry is found again.
OneNetwork ==
    \A k \in {"group", "vpc", "subnet"} : Cardinality(cloud[k]) <= 1

\* What the status names exists until the cluster is deleted, so that a
\* recorded id never makes a reconcile skip a resource that is not there, and
\* an address is published only of a ULB that can serve.
StatusNamesExisting ==
    ~object.deleting =>
        /\ \A k \in Recorded :
              object.status[k] # 0 => object.status[k] \in cloud[k]
        /\ object.addr => object.status["ulb"] \in bound \cap serving

\* Of those that the user did not give, the cluster keeps the promise of owned
\* resources.  What was issued is what exists or is named somewhere.
Networks == {"group", "vpc", "subnet"}
Owned == Networks \ Given
Network == INSTANCE OwnedResources WITH
    Kinds <- Owned, None <- 0, Unique <- TRUE,
    issued <- [k \in Owned |->
                 cloud[k] \cup ({object.status[k], rec.status[k]} \ {0})],
    existing <- [k \in Owned |-> cloud[k]],
    recorded <- [k \in Owned |-> object.status[k]],
    open <- object.present
NetworkOwned == Network!Spec

\* A resource given by the user is not deleted ("was not created by
\* cluster-api-provider-ucloud, will not be deleted").  One is, against these
\* words: a given ULB that is in the business group goes with the resources
\* of the group, when the cluster is deleted and not before.
GivenKept ==
    \A k \in Given :
        \/ UserId \in cloud[k]
        \/ k = "ulb" /\ GivenInGroup /\ object.deleting

\* The object is removed only when everything its status ever recorded, and
\* every ULB and instance of a recorded group, is gone.
RecordedGone ==
    ~object.present =>
        /\ \A k \in Recorded : \/ object.status[k] \notin cloud[k]
                               \/ k \in Given
        /\ object.status["group"] # 0 =>
              (cloud["ulb"] \cup cloud["bastion"]) \subseteq {UserId}

\* A deleted cluster is removed in the end, however often a step of the
\* teardown fails or the process dies in it.
ClusterRemoved == object.deleting ~> ~object.present

\* A cluster that stays becomes ready, with all its resources recorded.
EventuallyReady ==
    <>(\/ object.deleting
       \/ /\ object.ready
          /\ \A k \in Recorded \ {"bastion"} : object.status[k] # 0)

\* "Waiting on API server Global IP Address": once the ULB is recorded the
\* address of the API server arrives in the end.
AddressArrives ==
    object.status["ulb"] # 0 ~> object.addr \/ object.deleting

\* "ClusterFinalizer allows ReconcileUCloudCluster to clean up UCLOUD
\* resources": nothing but what the user gave is left behind.
NothingLeft ==
    ~object.present => \A k \in Kinds : cloud[k] \subseteq {UserId}

\* "No errors, so mark us ready": a ready cluster has its CAPU cluster.
ReadyMeansDone == object.ready => object.status["capu"] # 0

\* A bastion that was launched can be read from status.bastion in the end.
BastionRecorded ==
    cloud["bastion"] # {} ~> object.status["bastion"] # 0 \/ object.deleting
=============================================================================
