# TLA+ models of cluster-api-provider-ucloud

The provider is a Kubernetes controller manager with two reconcilers that turn
`UCloudCluster` and `UCloudMachine` objects into resources of the UCloud
platform and remove them again.  The modules here model these reconcilers, TLC
checks them on small instances, and TLAPS proves theorems about them for every
instance.

## The system

| part | state it keeps | operations |
| --- | --- | --- |
| `UCloudClusterReconciler` (`controllers/ucloudcluster_controller.go`) | the UCloudCluster object: finalizers, status (ids of everything created, API address, `ready`) | `Reconcile`, `reconcile`, `reconcileDelete` |
| `UCloudMachineReconciler` (`controllers/ucloudmachine_controller.go`) | the UCloudMachine object: finalizer, `providerID`, `ready`, failure reason, `clusterId`; and an entry `<name>.ucloudmachine` in the finalizers of the UCloudCluster | `Reconcile`, `reconcile`, `reconcileDelete` |
| scopes (`cloud/scope`) | the copy a reconcile works on and the snapshot its patches are computed against | `NewClusterScope`, `NewMachineScope`, `PatchObject`, `Close` (deferred) |
| services (`cloud/services`) | nothing of their own; UCloud keeps the group, VPC, subnet, NAT gateway, EIPs, ULB with VServer and real servers, bastion, instances, CAPU cluster and hosts | `Reconcile*`, `Create*`, `Delete*`, `Terminate*`, `InstanceIfExists`, `AddRealServer`, `DelRealServer`, `CleanResourceInGroup` |
| informer cache, API server (external) | the objects and a copy that may trail | `Get`, merge patch, finalizer rules |
| event mapping (`SetupWithManager`, `helpers.go`) | the work queues | watches, pause predicates, mapping functions, resync |
| webhooks (`api/v1alpha3/*_webhook.go`) | none | `ValidateUpdate` |
| start-up (`main.go`), HTTP client (`general.go`), tables (`common/defaults.go`) | none of interest | wiring, signing, retries of one call |

The parts interact through two stores only.  The reconcilers read objects from
the informer cache and write them with JSON merge patches, which replace a list
as a whole; they find out what UCloud holds by describing it.  A reconcile of a
machine writes to the object of its cluster as well: that is how a cluster
learns for which machines it must wait.  No lock is taken anywhere; the work
queue only keeps two reconciles of the same object apart.

What is hard here:

- up to ten machine reconciles and a cluster reconcile write the same finalizer
  list from copies read minutes ago;
- the deferred `Close` persists whatever the copy holds, after success, after an
  error and while the process panics, but not after a crash;
- ids of created resources live in local variables until they are patched;
- every call to UCloud may fail, with or without having taken effect, and the
  whole reconcile is then repeated from its start on partly created or partly
  removed resources;
- instances are rebooted, stopped and deleted behind the controller's back;
- whatever was lost must be repaired by a later reconcile.

What must hold, per part: a machine that may have an instance is known to a
cluster object that still exists, and the object goes only after everything it
stands for; an instance is recorded, drained, terminated and only then
forgotten; the status names what exists, nothing of the user is deleted, one
network per cluster; and what is deleted is removed in the end, what stays
becomes ready.

## Modules

| module | models | its instance |
| --- | --- | --- |
| `ClusterFinalizers` | the finalizer protocol between the cluster reconciler and all machine reconcilers | `MC_ClusterFinalizers` |
| `ClusterTeardown` | that protocol composed with what it protects: subnet, load balancer, business group and instances | `MC_ClusterTeardown` |
| `UCloudMachine` | the life of one machine: lookup, creation, real servers, CAPU host, failure, termination | `MC_UCloudMachine` |
| `UCloudInfra` | the UCloud resources of one cluster: creation order, adoption, recording, teardown | `MC_UCloudInfra` |
| `Terminator` | `terminateUHost` with several callers on one instance | `MC_Terminator` |
| `Wakeups` | watches, predicates, mapping functions, work queues, pausing, resync | `MC_Wakeups` |
| `OwnedResources` | abstract: what a controller promises about the resources it owns for an object | - |
| `ClusterFinalizers_proofs` | theorems about `ClusterFinalizers` | - |
| `ClusterTeardown_proofs` | theorems about `ClusterTeardown`, from the lemmas of the former | - |
| `UCloudMachine_proofs` | theorems about `UCloudMachine` | - |
| `UCloudMachineFresh_proofs` | theorems about `UCloudMachine` when copies are read fresh | - |
| `UCloudInfra_proofs` | theorems about `UCloudInfra` | - |
| `OwnedResources_proofs` | what the abstract specification implies | - |
| `Terminator_proofs` | theorems about `Terminator` | - |
| `Wakeups_proofs` | theorem about `Wakeups` | - |

Each module shrinks what the others detail: `ClusterFinalizers` has one Boolean
for the resources of `UCloudInfra` and a set of started machines for
`UCloudMachine`; these two assume the finalizers, and take a termination for one
or two steps, which `Terminator` justifies; `ClusterTeardown` extends
`ClusterFinalizers` and adds as much of the two as can refuse a call.  In all of
them a reconcile is started again by fairness, which `Wakeups` replaces by the
events and the resync.  The headers of the modules list the simplifications.

### ClusterFinalizers

`cluster` and `cached` are the UCloudCluster in the API server and in the
informer cache, `machine` and `machineFin` the UCloudMachine objects, `mrec`
and `crec` the reconciles in flight with the copy of the finalizer list
(`after`, `array`) and the snapshot of the patch helper (`before`).  A reconcile
is split at every call, so that other reconciles, users, crashes and cache
updates come in between: `MStart` (both Gets), `MPatchMachine`, `MPatchCluster`,
`MWork` or `MUnwind` (the minutes at UCloud), `MCloseMachine`, `MCloseCluster`
(the two deferred functions, in this order); `CStart`, `CPatch`, `CProvision`
or `CScan`, `CScanDone`, `CTeardown`, and `CClose`.  `failed` are the live
machines with a `FailureReason`: `MWork` may set it on the copy of a machine with
an instance (not found, or in an unexpected state), `MCloseMachine` persists it,
and from then on `MStart` goes straight to the deferred functions (goal "skip"),
ahead of `AddFinalizer` and its patch (`ucloudmachine_controller.go:203`).

Two facts of the libraries matter.  `controllerutil.RemoveFinalizer` removes in
place, and `reconcileDelete` ranges over the slice it removes from; so `crec`
holds the array, its live length and the position of the loop (`Shifted`).  And
`patch.Helper` computes the merge patch against the object as it was when the
scope was made, so the last `Close` writes the list again if the copy differs
from that snapshot, whatever happened to the object since (`Patched`).

### UCloudMachine

`object` keeps the fields of the UCloudMachine the control depends on, `rec` the
reconcile with its snapshot and its copy, `uhost` the instances in UCloud,
`backends` and `capuHosts` where they are registered, `owner` whether the
owning Machine was left alone.  One action per call of `reconcile`,
`reconcileDelete`, `CreateInstance` and `terminateUHost`.  `Served` and
`StepFor` are the switch over the instance state.  `ResourcePatched` and
`StatusPatched` are the two halves of a patch, each sending only the fields
that the copy changed; `CloseFault` lets either fail.

`Panic` is the read of the first element of an empty answer in the wait loops;
the deferred `Close` runs and the process restarts.

### UCloudInfra

`cloud` holds the existing resources by kind, `bound` and `serving` which ULBs
have their EIP and their VServer, `object.status` the recorded ids (0: none),
`object.addr` whether the API address is recorded.  `Matching(k)` is what the
lookup of a kind can find: a group, VPC or subnet by its (default) name, a NAT
gateway or ULB only when the spec names it, since the default name is used to
create but not to look.  `NextStep` is the order of the calls.  A step that
succeeds moves on, a failing one goes to `Close`.  `CleanGroup` deletes every
ULB of the group, one that the spec gives included if it lies there
(`GivenInGroup`).

### ClusterTeardown

It EXTENDS `ClusterFinalizers` and conjoins each of its actions with the effect
in UCloud: `Work` creates an instance in the subnet, whose id goes from the copy
(`known = "copy"`) to the object at `CloseMachine` or is `lost` when the wait
fails, the patch fails or the process dies; `Unwind` drains and terminates.
`CTeardown` becomes the chain `DeleteULB`, `CleanResourceInGroup`,
`DeleteSubnet`, `DeleteGroup`, any of which may fail halfway (`ClusterFault`)
and is then repeated from the first.  Two calls can be refused without any
fault: `DelRealServer` once the load balancer is gone (`UnwindRefused`), and
`DeleteSubnet` while an instance is in the subnet (`SubnetRefused`).  `given`
says whether the spec names the subnet, and is chosen at the start: a given
subnet is not the cluster's (`Site`), is always there, and `DeleteSubnet` returns
before it asks UCloud (`subnet.go:105`).  `CleanResourceInGroup` finds what is in
the group by the group's id, so after an earlier `DeleteGroup` it finds nothing.

### Terminator

One instance and several callers, each with its step in `terminateUHost` and its
`time.Timer`: running, off, or with a value in its channel that nobody took.
`Stop` and `Reset` do not drain that value, so that the second wait may end at
its first turn.  `Panic` is the first element of an empty answer, and ends all
reconciles of the process.  How UCloud reports a missing instance (empty list or
code 8039) and whether it refuses to power off a stopped one is unknown to the
code, and is chosen once at the start (`service`).

### Wakeups

`store` holds the Cluster, UCloudCluster, Machines and UCloudMachines, `cache`
what the informers show, `queue` the keys that wait.  Each object reaches the
cache on its own (`SyncCluster`, ...), and the handler of the event computes the
keys from the caches as they are then (`OnCluster`, `OnUCloudCluster`, ...).
`TakeMachine` and `TakeCluster` are the head of `Reconcile`: an owner that is not
there yet, a missing cluster or a pause mark ends the reconcile without another
try, an error queues it again.  `WorkMachine` and `WorkCluster` are the rest,
with the early returns for infrastructure and bootstrap data.

### OwnedResources

The abstract specification: of each kind an object names at most one resource,
never swaps or forgets it, and goes only when what it names is gone.  Creating
and recording are two steps.  `UCloudMachine` implements it for its instance
(`InstanceOwned`, without `Unique`: a lost instance is created again) and
`UCloudInfra` for those of group, VPC and subnet that the spec does not give
(`NetworkOwned`, with `Unique`: they are found by name).  Both are `INSTANCE
OwnedResources WITH` the refinement mapping beside them, are checked as
properties and are proved.  The third refinement is `FollowsProtocol`:
`ClusterTeardown` implements `ClusterFinalizers`, the calls before the last
being stuttering steps.

## Runs

Passing runs.

| run | asks | bounds |
| --- | --- | --- |
| `teardown_skip` | cluster and machines deleted at any time, one worker, fresh reads, one fault, the subnet given or not: are claims unique and kept, is every started machine registered with a cluster that exists, and is nothing of the cluster left in UCloud when the object goes, nor an instance when the subnet was its own, although the scan skips machines and calls are refused? | three machines, symmetric, all behind the load balancer; 8.5 million states |
| `teardown_order` | the same with the cluster deleted after its machines: is every refusal due to a fault, that is, does the composition implement the protocol, and is no instance left, with a given subnet as well? | three machines, one fault; 3.3 million states |
| `fin_ordered` | two machines that may fail for good, two workers, one fault, cluster deleted after its machines: is it removed and clean, is a registration lost only when another machine's reconcile overwrites it (`RegistrationKept`), and do overwritten registrations of machines that have not failed come back for good (`RegistrationsSettle`)? | the order `clusterctl` and Cluster API keep; 980 thousand states |
| `fin_settle_lag` | one machine and the cluster itself, stale cache, one fault: do the two finalizers that overwrite each other both end up listed? | the machine may come before the cluster is ready |
| `machine_fresh` | control plane machine, three instance ids, two faults, two upsets, fresh reads: is a recorded instance never swapped, forgotten or blamed for nothing, and does the machine implement `OwnedResources`? | symmetry over the ids |
| `machine_stale` | the same with a stale cache, one fault, one upset: finalizer before instance, out of the load balancer before power off, removed in the end, and a machine that became ready behind the load balancer in the end (`ReadyReachable`) | |
| `infra_faults` | three faults at any step, a named ULB, a NAT gateway with its default name, deletes that fail when the target is gone: one network, true status, removal only after everything recorded is gone, and `NetworkOwned` | `Quota` 14 is above what three faults can create |
| `infra_live` | two faults at any step, VPC and NAT gateway given: they survive, the cluster becomes ready, a deleted one is removed | `Quota` 24 is never reached, so refusals do not hide a stuck retry; the ULB is not given, so that its creation is retried (see below for a given one) |
| `terminator_races` | a machine, the teardown and a later teardown on one instance, two faults, one manual start or deletion, each of the four ways UCloud may answer: does success mean that the instance is gone, and does everybody succeed in the end? | a refusal to power off a stopped instance is excluded from the liveness (see below) |
| `wakeups_events` | one machine; objects, owners, readiness and bootstrap data in any order, each cache on its own, two changes of pause marks, one fault or crash: do events alone wake the reconcilers, and does the resync make up for the rest? | one machine shows every pair of caches an event handler reads; 430 thousand states |

Runs that find the code in disagreement with what the repository says of it.

| run | property | what the trace shows |
| --- | --- | --- |
| `fin_scan` | `TeardownWaits` | list `[cluster, m1, m2, m3]`, `m1` and `m3` gone: removing `m1` moves `m2` under the loop's back, it is never looked at, and the teardown starts while `m2` exists ("Waiting on all machine deleted") |
| `machine_forgotten` | `NoInstanceLeft` | the instance is created and its id is lost before it is patched; the machine is deleted, `reconcileDelete` has no id to look for, terminates nothing and removes the finalizer ("Instance is deleted so remove the finalizer."): the instance stays |

### Further disagreements

They follow from the same models and have no configuration of their own; the
constants named here make TLC show them.

- What follows from `fin_scan`: `FollowsProtocol` fails in `teardown_order` with
  `DeletedLast = FALSE` and no fault.  The teardown deletes the load balancer
  under the skipped machine `m2`, whose own deletion is then refused by
  `DelRealServer` ("vserver not exist").  `CleanResourceInGroup` normally gets
  its instance, and `NothingLeft` holds; if the teardown is interrupted before
  it, the next scan finds `m2` and waits for it, while `m2` waits for a load
  balancer that is gone: both stay.
- `RemovedClean` fails with one machine, `Workers = 1`,
  `MachinesAfterReady = FALSE` and one fault: a machine reconcile overwrites the
  list without the cluster's finalizer, the teardown fails, the deferred `Close`
  writes the emptied list and the object goes with its resources left
  (`cloud/scope/cluster.go:161`, against `ucloudcluster_types.go:25`).
- `MachineRemoved` of `ClusterFinalizers` fails with one machine,
  `DeletedLast = FALSE` and one fault: the machine has its own finalizer, its
  registration fails, the UCloudCluster is deleted, and `Reconcile` returns
  before `reconcileDelete` forever (`ucloudmachine_controller.go:147`).
- `AddressArrives` of `UCloudInfra` fails with `Named = {"ulb"}` and one fault: a
  named ULB without EIP is found, its id is recorded, `VServerSet[0]` panics, the
  deferred `Close` persists the id; every later reconcile skips the ULB and
  waits for its address (`ulb.go:147`).  `EventuallyReady` fails with
  `Named = {"nat", "ulb"}` for the same reason.
- `MissingIsTolerated` of `Terminator` fails without any fault for
  `Services <- CodeAnswers`: `terminateUHost` takes code 8039 for "gone"
  (`uhost.go:373`), `InstanceIfExists` passes it on as an error (`uhost.go:50`),
  so the deletion of a machine whose instance is gone never ends, although
  `ucloudmachine_controller.go:315` provides for it.  With a `strict` service
  nobody gets over an instance that a failed attempt left stopped.
- Without its condition `cache.cluster.ready`, `WokenByEvents` fails: the
  machine's last event is handled while the cached Cluster is not ready, the
  early return (`ucloudmachine_controller.go:222`) asks for no other try, and
  the update that makes the Cluster ready wakes nobody; the machine waits up to
  ten minutes for the resync.  The same happens when a Cluster is unpaused while
  it is being deleted (`:395`).
- `StartedRegistered` fails in `ClusterFinalizers` with two workers and no fault:
  m1 and m2 register from the same copy, and the later patch takes the entry of
  the other, which goes on to create its instance
  (`ucloudmachine_controller.go:217`).
- `RegistrationKept` fails with `InformerLag = TRUE` or with
  `MachinesAfterReady = FALSE` for one machine and no fault: the cluster
  reconcile then adds its own finalizer to a list it read before the machine
  came.
- `RegistrationsSettle` fails without its exception for machines that have
  failed, with two workers and no fault: a reconcile that puts the machine's
  failure on the object is its last one to register
  (`ucloudmachine_controller.go:203`), and when another one overwrites that entry
  nothing brings it back.
- `NothingLeft` of `ClusterTeardown` fails without its condition on `given`, in
  `teardown_skip` without any fault: the scan skips m2, whose reconcile creates
  an instance after `CleanResourceInGroup`; a given subnet is not refused, the
  group goes, and of an instance whose id is lost nobody knows any more.
- `GivenKept` fails without its exception with `Given = {"vpc", "ulb"}` and
  `GivenInGroup = TRUE`: `CleanResourceInGroup` deletes the ULB that `DeleteULB`
  spared ("will not be deleted", `ulb.go:163`; `ugroup.go:134`).
- `RemovedClean` fails with `DottedNames = {m1}`, three machines and one worker:
  the scan cuts the name of the machine at its first dot.
- `FailureIsTerminal` of `UCloudMachine` fails without any fault and with one
  upset: a reboot sets `FailureReason` (`ucloudmachine_types.go:97`).
- `InstanceOwned`, `RecordedUndone` and `OwnerOutlivesInstance` fail with
  `StaleReads = TRUE`: a reconcile on a copy older than the recorded id creates
  a second instance.
- `NothingLeft` of `UCloudInfra` fails with one fault in the creation: an EIP
  whose NAT gateway or ULB did not come, a NAT gateway with its default name, or
  a CAPU cluster whose answer was lost is found by nobody.
- `ClusterRemoved` of `UCloudInfra` fails when the NAT gateway is not given: one
  that was created and not recorded keeps its subnet in use, and the teardown
  stops at `DeleteSubnet` forever.  It also fails with `MissingFails = TRUE`.
- `ReadyMeansDone` fails when `CreateCAPUCluster` fails: `Ready` is set before
  (`ucloudcluster_controller.go:201`).
- `BastionRecorded` fails after one lost answer: a bastion found by name is not
  written to the status (`README.md:67` of the repository reads it there).

### Bounds, and why they are enough

Two machine reconciles and a cluster reconcile are all the kinds of writers of
the finalizer list; the third machine matters to the scan only (a removed, a
skipped and a following entry).  A fault or a crash is followed by a reconcile
from the start, so that one fault shows every partial state, and a second or
third one shows failures in the repair.  Ids are bounded by `Quota` and `Hosts`;
when they are used up the cloud refuses, which is an error like others.  Of the
callers of a termination two interfere and a third one comes late; an instance
moves through its states once, so that one upset meets every step.  Two changes
of pause marks are a pause and its end.  The models have no time: a wait ends
when its condition holds, or as a fault; only `Terminator` has timers, which may
fire at any moment.

### Fairness

Weak fairness of the steps of a reconcile: a goroutine that runs goes on, and
every call returns.  Weak fairness of starting one: an error or `RequeueAfter`
puts the key back, and the informers' resync (`--sync-period`, ten minutes)
enqueues every object again.  Starting a machine reconcile is strongly fair in
`ClusterFinalizers`, because workers are shared and the queue is first in, first
out.  Weak fairness of `Sync` (watch events arrive) and of an instance that is
starting or stopping.  In `Terminator` also of a timer that runs.  Users, faults
and upsets have no fairness.

`Wakeups` does not take the start of a reconcile for granted: fair are the
informers and the workers only.  `ClusterProvisioned` and `WokenByEvents` hold
without any resync; `ResyncRepairs` assumes it in its own antecedent.

`CHECK_DEADLOCK FALSE` in every configuration: when the objects are gone and the
bounds are used up nothing is left to do.

## Proofs

Every safety property of the passing runs, invariants, action properties and
refinements alike, is also a theorem of the specification, for every set of
machines, number of workers, quota and bound on faults, upsets and pauses.
TLAPS checks the proofs.  The assumptions on the constants are
`ConstantsAssumption`, `ControlPlanesAssumption`, `MachineAssumption`,
`InfraAssumption`, `TerminatorAssumption` and `WakeupsAssumption`; each is about
the shape of the constants only, and TLC evaluates it in every run of its
module.  A theorem that needs more of the environment says so as a hypothesis:

| hypothesis | what it says of the code's environment | theorems |
| --- | --- | --- |
| `~StaleReads` | a machine's reconcile starts from the current object, not from a cache that trails | all of `UCloudMachineFresh_proofs` |
| `~InformerLag` | the same for the reconciles of the cluster protocol | `Registered`, `RegistrationStays`, `RemovedAfterAll`, `NothingIsLeft` |
| `MachinesAfterReady` | machines are created after the cluster became ready | the same |
| `[][NoOverwrite]_vars` | no reconcile of a machine takes the registration of another one with the list it writes; `RegistrationStays` says that there is no other way to lose one | `Registered` |
| `DottedNames = {}` or `DeletedLast` | no name of a machine has a dot, or the cluster is deleted after its machines | `Registered`, `RegistrationStays` |
| `DeletedLast`, or `Workers = 1` and `DottedNames = {}` | the order of deletions, or one machine reconcile at a time | `RemovedAfterAll` |
| `DeletedLast` | the cluster is deleted after its machines | `ProtocolFollowed` |

What is said of `Registered` and `RegistrationStays` goes for their twins in
`ClusterTeardown_proofs`.  Only `RemovedAfterAll` speaks of a single worker, and
only for clusters that are not deleted last: with the default of ten the
overwriting that `NoOverwrite` names does happen.  None of the hypotheses is
idle: for each of the properties TLC finds a violation on an instance of one to
three machines when one of its hypotheses is dropped, and that is where the code
breaks the property (see "Further disagreements").

`ClusterFinalizers_proofs`.  The steps of the protocol are extended by what the
teardown adds, a refusal that ends a deletion without any other effect (`Step ==
[Next]_vars \/ Refused`); so the same lemmas serve the composition.

- `TypeCorrect`: `Spec => []TypeOK`.  `TypeOK` is inductive.  The point is the
  scan: `Shifted` and the length stay within the array (`ShiftedList`,
  `RemovedReconcile`).
- `NoDuplicates`: `Spec => []NoDuplicateFinalizers`.  The invariant is not
  inductive, because a list without duplicates may be overwritten by any copy in
  flight.  The strengthening `ListsDupFree` says it of every list that may still
  be written: in the store, in the cache, the snapshots and copies of all
  reconciles, and the live part of the scan's array.  `AddFinalizerList` and
  `RemovedDupFree` show that the two library functions preserve it; then each
  action copies one of these lists.
- `RemovedAfterAll`: `Spec => []RemovedClean`.  An object that goes was written
  with an empty list by some copy, which may be old.  `MarkInv` therefore follows
  the cluster's own finalizer through all copies: it is on the object from
  before the first resource until after the last one; a copy without it is that
  of the finished teardown or was read after it, or is a first reconcile's, for
  which there are no resources yet.  `ServeInv` says the same of a machine's
  finalizer and its instance.  That no machine exists then is `LastInv` when the
  cluster is deleted last, and `StartInv` with `OneInv` with one worker.
- `RegistrationStays`: `Spec => RegistrationKept`, for any number of workers.
  `CopyInv`: the copy of a machine reconcile is what it read, or that with the
  machine itself added, so what it takes from the store was not on it when it
  read.  `ScanInv`: the cluster reconcile writes nothing, or writes before there
  are machines, or writes a list from which the scan took machines that do not
  exist; names without dots are used there.  `AbsentInv`: no list names a machine
  that was not created yet.  `UnregisteredBy` concludes who may take an entry.
- `Registered`: `Spec /\ [][NoOverwrite]_vars => []StartedRegistered`, for any
  number of workers.  `StartInv` is inductive over the steps that overwrite
  nothing: a reconcile gets to the creation of an instance only after it wrote,
  or found, the registration, and what is registered stays so by the former.
  `OneInv` says that one worker overwrites nothing, for `RemovedAfterAll`.

`ClusterTeardown_proofs`.  `NoDuplicatesAll`, `RegisteredAll` and
`RegistrationStaysAll` carry the above over: `NextIsStep` shows that every step
of the composition is a `Step`.

- `TeardownTypeCorrect`: `SpecAll => []TeardownTypeOK`, with `SiteInv`: whose id
  is known belongs to a machine that the protocol takes for started, and no
  instance is without its subnet, if that is the cluster's own.
- `NothingIsLeft`: `SpecAll => []NothingLeft`, for any number of workers and
  whatever the scan skips.  What the protocol does not ensure, `SiteInv` and the
  refusal of `DeleteSubnet` do when the subnet is the cluster's own: the group
  goes after the subnet, the subnet after the last instance, and no instance is
  created without the subnet.  A given subnet refuses nothing; then the order of
  the deletions has to do it (`ServedInv`: the group is there as long as an
  instance is, and none comes up behind the termination of all of them), and the
  property claims the instances only for a cluster that is deleted last.
- `ProtocolFollowed`: `SpecAll => FollowsProtocol`, step by step.  `ServedInv`:
  the load balancer is there as long as a machine may have to be drained, and no
  instance appears behind the termination of all of them; so neither of the two
  refusals happens when the cluster is deleted last.  `OrderInv` says why the
  age of the copies does not matter here: a deletion is not taken back, nor is
  the readiness of the cluster, without which no machine gets an instance.

`UCloudMachine_proofs`, control plane or not, with and without a stale cache:

- `TypeCorrect`: `Spec => []TypeOK`.  `TypeOK` alone is not inductive: a step
  that registers `rec.host` needs it to be an instance.  `HostNamed` says so of
  every step that uses the instance.  `PatchFacts` states what a patch may do to
  the object: a deleted object that stays keeps its finalizer, and the finalizer
  is what the copy says only if the copy changed it.
- `Drained`: `Spec => []DrainedBeforePowerOff`, inductive together with
  `BackendsByControlPlane`: only the drain step leads to "leave" on a control
  plane machine, the others never have a backend.
- `FinalizerFirst`: `Spec => []FinalizerBeforeInstance`.  The invariant says
  nothing of the copy that may take the finalizer away.  The strengthening
  `FinalizerInv` does: the cache and the snapshot of the reconcile in flight are
  old versions of the object (`OldVersion`: what they say of deletion and of the
  finalizer was not taken back since), only the snapshot of a deleted machine
  lets the copy drop the finalizer, and the steps that serve a live machine run
  after the finalizer was written (`FlightSafe`).  `ObjectStep` concludes that a
  patch never takes the finalizer from an object that stays.

`UCloudMachineFresh_proofs`, when copies are read fresh.  A patch sends only
what the copy changed, and its two halves fail on their own, so that what an
object says is the sum of several reconciles.  `FreshInv` makes it one: nobody
else writes what the reconcile in flight has read (`FlightInv`), its copy keeps a
recorded id and drops the finalizer only when that instance is undone, and every
id that is held was created (`IdsInv`); `CloudInv` says that a deleted instance
is registered nowhere unless somebody else deleted it.

- `RemovedUndone` (`RecordedUndone`), `OwnerLast` (`OwnerOutlivesInstance`) and
  `FailureReported` (`FailedNotReady`) follow.
- `InstanceKept`: `Spec => InstanceOwned`, the simulation: each step is of one of
  four forms (nothing, an instance is born, one is deleted, the object is
  written), and a write records, closes or stutters.

`UCloudInfra_proofs`, whatever is given or named:

- `TypeCorrect` (with `ULBNamed`: while a ULB is made its id is known),
  `NetworkOnce` (`OneNetwork`) and `GivenStay` (`GivenKept`, with the exception
  it states for a given ULB in the group).
- `StatusTrue`: `Spec => []StatusNamesExisting`.  `StatusInv` adds the copy in
  flight, which will be persisted wherever the reconcile fails, and the ULB that
  is being made.
- `RemovedLast`: `Spec => []RecordedGone`.  `RemovalInv` adds what lies behind
  each step of the teardown (`Progress`), that during it nothing is created
  (`Shrinking`), and that only a copy with everything behind it lacks the
  finalizer.
- `NetworksOwned`: `Spec => NetworkOwned`, the simulation.  `LinkInv` keeps a new
  id apart from all that were handed out, and says that the copy names what the
  object names, or something that exists where the object names nothing yet.

`OwnedResources_proofs`: `CleanForGood`, `OneOfAKind` and `NeverSwapped` are what
the two simulations buy.

`Terminator_proofs`, for every set of callers and every mix of answers:

- `TypeCorrect`: `Spec => []TypeOK`.  Its part about the timer, that a caller in
  one of the two waits has a timer that runs or has fired, is what the second
  wait owes to `Reset`, however the first one ended.
- `TerminationSucceeds`: `Spec => []SuccessMeansGone`.  Inductive together with
  `TypeOK`: a caller gets to "done" only over an answer that reports the
  instance missing, and no action, of whoever it is, brings a deleted instance
  back.

`Wakeups_proofs`:

- `TypeCorrect`: `Spec => []TypeOK`, whose point is that a machine is served only
  under its finalizer.  Inductive with `Good`: a deleted machine that exists has
  its finalizer, so that a reconcile which decided earlier to serve it still
  finds it there.

Only model-checked are the liveness properties (`ClusterRemoved`,
`RegistrationsSettle`, `MachineRemoved`, `ReadyReachable`, `EventuallyReady`,
`TeardownReturns`, `MachineReturns`, `ClusterProvisioned`, `WokenByEvents`,
`ResyncRepairs`), which rest on fairness and are beyond the prover here, and the
two properties that TLC refutes.

## Not modelled

- `ValidateUpdate` of the webhooks: one comparison of two specs without state;
  its specification would be the comparison again.
- Start-up (`main.go`): one-shot wiring.  Its flags appear as `Workers`, as the
  resync and as fairness.  With leader election one process works at a time.
- The HTTP client (`general.go`): signing and the retries of a single call are
  the success or failure of that call, with or without effect.
- Contents of requests, credentials, images, zones, user data, tables of
  defaults, generated deep copies: none decides about the state kept here.
- Pause marks of UCloudClusters, and Clusters that never get an owner: the
  mechanism is that of the marks `Wakeups` has.
- `deleteEIP` and `unbindEIP`, which nothing calls.
- The adoption by name of a NAT gateway or a ULB that the user made: deletion
  compares ids with the spec only, so it would be deleted.
- More than one cluster: clusters share no state.

## Plan

1. The variants for the stale cache of what `UCloudMachineFresh_proofs` proves:
   which part of `RecordedUndone` survives a copy that is one write behind.
2. The scan as a function on lists against its reference definition "remove the
   machines that are gone", over all small lists.
3. The parts of the status that no theorem covers, the bastion and the CAPU
   cluster, with what the code would have to do to find them again.
