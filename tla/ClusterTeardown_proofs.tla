----------------------- MODULE ClusterTeardown_proofs -----------------------
(***************************************************************************)
(* Theorems about ClusterTeardown: those of the finalizer protocol, whose  *)
(* inductive invariants the steps of this module keep, and those about     *)
(* what is in UCloud.                                                      *)
(***************************************************************************)
EXTENDS ClusterTeardown, ClusterFinalizers_proofs

-----------------------------------------------------------------------------
(* The protocol inside.                                                    *)

\* Every step is a step of the protocol, or a refusal, or invisible to it.
LEMMA StepOrRefusal ==
    ASSUME [NextAll]_all
    PROVE  \/ [Next]_vars
           \/ SubnetRefused \/ \E m \in Machines : UnwindRefused(m)
<1>1. DeleteULB \/ CleanResourceInGroup \/ DeleteSubnet => UNCHANGED vars
  BY DEF DeleteULB, CleanResourceInGroup, DeleteSubnet, Inner
<1>2. ASSUME NEW m \in Machines,
             StartMachine(m) \/ MachineStepAll(m) \/ MachineFault(m)
      PROVE  Next \/ UnwindRefused(m)
  BY <1>2 DEF StartMachine, MachineStepAll, Work, Unwind, CloseMachine,
     MachineFault, Next, MachineStep
<1>3. StartCluster \/ ClusterStepAll \/ ClusterFault
         => [Next]_vars \/ SubnetRefused
  BY <1>1 DEF StartCluster, ClusterStepAll, Provision, DeleteGroup,
     ClusterFault, Next, ClusterStep
<1>4. ProcessCrash \/ Environment => Next
  BY DEF ProcessCrash, Environment, Next
<1>5. UNCHANGED all => UNCHANGED vars
  BY DEF all
<1> QED
  BY <1>2, <1>3, <1>4, <1>5 DEF NextAll

\* So the lemmas about Step apply.
LEMMA NextIsStep == [NextAll]_all => Step
<1>1. ASSUME NEW m \in Machines, UnwindRefused(m) PROVE Refused
  BY <1>1 DEF UnwindRefused, Refused
<1>2. SubnetRefused => Refused
  BY DEF SubnetRefused, Refused, At
<1> QED
  BY StepOrRefusal, <1>1, <1>2 DEF Step

LEMMA InitIsInit == InitAll => Init
BY DEF InitAll

\* Refusals write no list.
LEMMA ListsRefused == TypeOK /\ ListsDupFree /\ Step => ListsDupFree'
<1> SUFFICES ASSUME TypeOK, ListsDupFree, Refused PROVE ListsDupFree'
  BY ListsStep DEF Step
<1>1. mrec \in [Machines -> MachineReconciles] /\ crec \in ClusterReconciles
  BY DEF TypeOK
<1>2. /\ UNCHANGED <<cluster, cached>>
      /\ \A m \in Machines : /\ mrec'[m].before = mrec[m].before
                             /\ mrec'[m].after = mrec[m].after
      /\ crec'.before = crec.before /\ crec'.array = crec.array
      /\ crec'.len = crec.len
  <2>1. CASE UNCHANGED crec
    <3>1. PICK m \in Machines : mrec' = [mrec EXCEPT ![m].pc = "closeMachine"]
      BY <1>1, <2>1 DEF Refused, ClusterReconciles
    <3>2. UNCHANGED <<cluster, cached>>
      BY DEF Refused
    <3> QED
      BY <1>1, <2>1, <3>1, <3>2 DEF MachineReconciles
  <2>2. CASE /\ crec' = [crec EXCEPT !.pc = "close"]
             /\ UNCHANGED <<cluster, cached, mrec>>
    BY <1>1, <2>2 DEF ClusterReconciles
  <2> QED
    BY <2>1, <2>2 DEF Refused
<1> QED
  BY <1>2 DEF ListsDupFree

\* The calls of the teardown and its refusals do not put a finalizer on the
\* UCloudCluster twice either.
THEOREM NoDuplicatesAll == SpecAll => []NoDuplicateFinalizers
<1>1. TypeOK /\ ListsDupFree /\ [NextAll]_all => (TypeOK /\ ListsDupFree)'
  BY NextIsStep, TypeRefused, ListsRefused
<1>2. TypeOK /\ ListsDupFree => NoDuplicateFinalizers
  BY ListsNoDuplicates
<1> QED
  BY InitIsInit, TypeInit, ListsInit, <1>1, <1>2, PTL DEF SpecAll

\* A machine with an instance stays registered when the teardown and the
\* deletions may be refused, until another machine's reconcile overwrites its
\* registration.
THEOREM RegisteredAll ==
    ASSUME ~InformerLag, MachinesAfterReady, DottedNames = {} \/ DeletedLast
    PROVE  SpecAll /\ [][NoOverwrite]_vars => []StartedRegistered
<1>1. StartIInv /\ [NextAll]_all /\ [NoOverwrite]_vars => StartIInv'
  BY NextIsStep, StartIInvStep, StutterOverwritesNothing
<1> QED
  BY InitIsInit, StartIInvInit, <1>1, StartIInvRegistered, PTL DEF SpecAll

\* And that is the only way a machine that exists loses its registration:
\* neither the calls of the teardown nor what they refuse takes it.
THEOREM RegistrationStaysAll ==
    ASSUME ~InformerLag, MachinesAfterReady, DottedNames = {} \/ DeletedLast
    PROVE  SpecAll => RegistrationKept
<1>1. RegIInv /\ [NextAll]_all => RegIInv'
  BY NextIsStep, RegIInvStep
<1>2. RegIInv /\ [NextAll]_all => [KeptInStep]_vars
  BY NextIsStep, RegIInvKept
<1>3. RegistrationKept <=> [][KeptInStep]_vars
  BY DEF RegistrationKept, KeptInStep
<1> QED
  BY InitIsInit, RegIInvInit, <1>1, <1>2, <1>3, PTL DEF SpecAll

-----------------------------------------------------------------------------
(* The resources, the instances and their ids.                             *)

\* Every instance of which the id is known belongs to a machine that started
\* one; the stage of the teardown is at its start while none runs; no instance
\* is without its subnet, if that is the cluster's own.
SiteInv ==
    /\ hosts \subseteq started
    /\ crec.pc # "teardown" => stage = "ulb"
    /\ At("group") => "subnet" \notin site
    /\ ~given /\ SubnetInUse => "subnet" \in site

\* The steps that do nothing in UCloud.
Quiet ==
    /\ UNCHANGED cloud
    /\ \/ \E m \in Machines :
             \/ MStart(m) \/ MPatchMachine(m) \/ MPatchCluster(m)
             \/ MCloseCluster(m) \/ UnwindRefused(m)
             \/ CreateMachine(m) \/ DeleteMachine(m)
       \/ CStart \/ CPatch \/ CScan \/ CScanDone \/ CClose
       \/ DeleteCluster \/ UNCHANGED vars

\* What the actions do, one by one.
LEMMA CloudMoves ==
    ASSUME [NextAll]_all
    PROVE  \/ Quiet
           \/ \E m \in Machines : Work(m) \/ Unwind(m) \/ CloseMachine(m)
                                  \/ MachineFault(m)
           \/ Provision \/ DeleteULB \/ CleanResourceInGroup \/ DeleteSubnet
           \/ SubnetRefused \/ DeleteGroup \/ ClusterFault \/ ProcessCrash
<1>1. ASSUME NEW m \in Machines,
             StartMachine(m) \/ MachineStepAll(m) \/ MachineFault(m)
      PROVE  \/ Quiet
             \/ Work(m) \/ Unwind(m) \/ CloseMachine(m) \/ MachineFault(m)
  <2>1. UnwindRefused(m) => UNCHANGED cloud
    BY DEF UnwindRefused
  <2> QED
    BY <1>1, <2>1 DEF StartMachine, MachineStepAll, Quiet
<1>2. StartCluster \/ Environment \/ UNCHANGED all => Quiet
  BY DEF StartCluster, Environment, all, Quiet
<1>3. ClusterStepAll =>
         \/ Quiet
         \/ Provision \/ DeleteULB \/ CleanResourceInGroup \/ DeleteSubnet
         \/ SubnetRefused \/ DeleteGroup
  BY DEF ClusterStepAll, Quiet
<1> QED
  BY <1>1, <1>2, <1>3 DEF NextAll

\* Such a step starts and unwinds no machine, and begins or awaits a teardown.
LEMMA QuietFacts ==
    ASSUME TypeOK, Quiet
    PROVE  /\ UNCHANGED <<started, infra>> /\ UNCHANGED cloud
           /\ \A n \in Machines : mrec[n].pc = "closeMachine"
                                     => mrec'[n].pc = "closeMachine"
           /\ crec'.pc = "teardown" => crec.pc \in {"scan", "teardown"}
           /\ crec.pc = "teardown" => crec' = crec
<1>1. /\ mrec \in [Machines -> MachineReconciles] /\ crec \in ClusterReconciles
      /\ UNCHANGED cloud
  BY DEF TypeOK, Quiet
<1>2. ASSUME NEW m \in Machines,
             \/ MStart(m) \/ MPatchMachine(m) \/ MPatchCluster(m)
             \/ MCloseCluster(m) \/ UnwindRefused(m)
      PROVE  /\ UNCHANGED <<started, infra, crec>>
             /\ \A n \in Machines : mrec[n].pc = "closeMachine"
                                       => mrec'[n].pc = "closeMachine"
  BY <1>1, <1>2 DEF MStart, MPatchMachine, MPatchCluster, MCloseCluster,
     UnwindRefused
<1>3. ASSUME NEW m \in Machines, CreateMachine(m) \/ DeleteMachine(m)
      PROVE  UNCHANGED <<started, infra, crec, mrec>>
  BY <1>3 DEF CreateMachine, DeleteMachine
<1>4. DeleteCluster \/ UNCHANGED vars
         => UNCHANGED <<started, infra, crec, mrec>>
  BY DEF DeleteCluster, vars
<1>5. CStart \/ CPatch \/ CClose =>
         /\ UNCHANGED <<started, infra, mrec>>
         /\ crec'.pc # "teardown" /\ crec.pc # "teardown"
  BY <1>1 DEF CStart, CPatch, CClose, NoClusterReconcile, ClusterReconciles
<1>6. CScan \/ CScanDone =>
         UNCHANGED <<started, infra, mrec>> /\ crec.pc = "scan"
  BY DEF CScan, CScanDone
<1> QED
  BY <1>1, <1>2, <1>3, <1>4, <1>5, <1>6 DEF Quiet

LEMMA TeardownInit == InitAll => TeardownTypeOK /\ SiteInv
BY DEF InitAll, Init, TeardownTypeOK, SiteInv, At, SubnetInUse, Site,
   Resources, Stages,
   NoClusterReconcile, NoMachineReconcile

\* A copy that is forgotten adds nothing to what is in use.
LEMMA ForgetFacts ==
    ASSUME TeardownTypeOK, NEW ms \in SUBSET Machines, Forget(ms)
    PROVE  /\ known' \in [Machines -> {"no", "copy", "object"}]
           /\ \A m \in Machines : known'[m] = "copy"
                 => known[m] = "copy" /\ m \notin ms
           /\ hosts' \subseteq hosts
           /\ \A m \in hosts' : known'[m] # "no"
           /\ lost' \in BOOLEAN
           /\ SubnetInUse' => SubnetInUse
<1> DEFINE forgotten == {m \in ms : known[m] = "copy"}
<1>1. /\ known' = [m \in Machines |->
                      IF m \in forgotten THEN "no" ELSE known[m]]
      /\ hosts' = hosts \ forgotten
      /\ lost' = (lost \/ hosts \cap forgotten # {})
  BY DEF Forget
<1>2. lost' \in BOOLEAN
  BY <1>1, Zenon
<1>3. SubnetInUse' => SubnetInUse
  <2>1. lost' => lost \/ hosts # {}
    <3>1. hosts \cap forgotten # {} => hosts # {}
      OBVIOUS
    <3> HIDE DEF forgotten
    <3> QED
      BY <1>1, <3>1, Zenon
  <2> QED
    BY <1>1, <2>1 DEF SubnetInUse
<1> QED
  BY <1>1, <1>2, <1>3 DEF TeardownTypeOK

\* What a failed call of a machine's reconcile leaves.
LEMMA MachineFaultFacts ==
    ASSUME TypeOK, TeardownTypeOK, NEW m \in Machines, MachineFault(m)
    PROVE  /\ UNCHANGED <<site, stage, given, crec, started, infra, cluster,
                          machine>>
           /\ known' \in [Machines -> {"no", "copy", "object"}]
           /\ \A n \in Machines : known'[n] = "copy"
                 => known[n] = "copy" /\ mrec'[n] = mrec[n]
           /\ hosts' \subseteq hosts
           /\ \A n \in hosts' : known'[n] # "no"
           /\ lost' \in BOOLEAN
           /\ SubnetInUse' => SubnetInUse
<1>1. /\ UNCHANGED <<site, stage, given, crec, started, infra, cluster,
                     machine>>
      /\ \A n \in Machines \ {m} : mrec'[n] = mrec[n]
  BY DEF MachineFault, MFault, TypeOK
<1>2. CASE mrec[m].pc = "closeMachine" /\ Forget({m})
  <2>1. {m} \in SUBSET Machines
    OBVIOUS
  <2> QED
    BY <1>1, <1>2, <2>1, ForgetFacts
<1>3. CASE mrec[m].pc # "closeMachine"
  <2>1. known' = known /\ lost' = lost /\ hosts' \subseteq hosts
    BY <1>3 DEF MachineFault
  <2>2. known[m] # "copy"
    BY <1>3 DEF TeardownTypeOK
  <2> QED
    BY <1>1, <2>1, <2>2 DEF TeardownTypeOK, SubnetInUse
<1> QED
  BY <1>2, <1>3 DEF MachineFault

\* And one of the cluster's.
LEMMA ClusterFaultFacts ==
    ASSUME TypeOK, TeardownTypeOK, ClusterFault
    PROVE  /\ UNCHANGED <<given, known, mrec, started, cluster, machine>>
           /\ site' \subseteq Site /\ stage' = "ulb"
           /\ site' # {} => infra'
           /\ hosts' \subseteq hosts
           /\ lost' \in BOOLEAN
           /\ SubnetInUse' => SubnetInUse
           /\ \A r \in site \ site' : At(r)
           /\ "subnet" \in site \ site' => given \/ ~SubnetInUse
           /\ crec'.pc # "teardown"
<1>1. /\ UNCHANGED <<given, known, mrec, started, cluster, machine>>
      /\ stage' = "ulb" /\ crec \in ClusterReconciles
      /\ infra' = infra \/ (crec.pc = "provision" /\ infra' = TRUE)
  BY DEF ClusterFault, CFault, TypeOK
<1>2. crec'.pc # "teardown"
  BY <1>1 DEF ClusterFault, CFault, NoClusterReconcile, ClusterReconciles
<1>3. CASE crec.pc = "provision"
  <2>1. infra' = TRUE
    BY <1>3 DEF ClusterFault, CFault
  <2>2. PICK new : site' = site \cup (new \cap Site)
    BY <1>3 DEF ClusterFault, At
  <2>3. hosts' = hosts /\ lost' = lost
    BY <1>3 DEF ClusterFault, At
  <2> QED
    BY <1>1, <1>2, <2>1, <2>2, <2>3 DEF TeardownTypeOK, SubnetInUse
<1>4. CASE crec.pc # "provision"
  <2>1. infra' = infra
    BY <1>4 DEF ClusterFault, CFault
  <2>2. CASE At("hosts")
    <3>1. /\ site' = site /\ hosts' \subseteq hosts
          /\ lost' = FALSE \/ lost' = lost
      BY <1>4, <2>2 DEF ClusterFault, At
    <3>2. SubnetInUse' => SubnetInUse
      BY <3>1 DEF SubnetInUse
    <3>3. lost' \in BOOLEAN
      BY <3>1 DEF TeardownTypeOK
    <3> QED
      BY <1>1, <1>2, <2>1, <3>1, <3>2, <3>3 DEF TeardownTypeOK
  <2>3. CASE ~At("hosts")
    <3>1. /\ hosts' = hosts /\ lost' = lost
          /\ \/ site' = site
             \/ /\ crec.pc = "teardown" /\ site' = site \ {stage}
                /\ stage = "subnet" => given \/ ~SubnetInUse
      BY <1>4, <2>3 DEF ClusterFault, At
    <3> QED
      BY <1>1, <1>2, <2>1, <3>1 DEF TeardownTypeOK, SubnetInUse, At
  <2> QED
    BY <2>2, <2>3
<1> QED
  BY <1>3, <1>4

\* Every step keeps the types and the order of the site.
LEMMA TeardownTypeStep ==
    ASSUME TypeOK, ServeInv, TeardownTypeOK, SiteInv, [NextAll]_all
    PROVE  TeardownTypeOK'
<1> USE DEF TeardownTypeOK, Site
<1>0. /\ mrec \in [Machines -> MachineReconciles] /\ crec \in ClusterReconciles
      /\ started \subseteq Machines
  BY DEF TypeOK
<1>1. CASE Quiet
  BY <1>1, QuietFacts DEF cloud
<1>2. ASSUME NEW m \in Machines, Work(m) PROVE TeardownTypeOK'
  <2>1. PICK goal \in {"serve", "fail"} :
          mrec' = [mrec EXCEPT ![m].pc = "closeMachine", ![m].goal = goal]
    BY <1>2 DEF Work, MWork
  <2>2. /\ UNCHANGED <<site, stage, given, infra>> /\ mrec[m].pc = "work"
        /\ \/ UNCHANGED <<hosts, known, lost>>
           \/ /\ hosts' = hosts \cup {m} /\ lost' = lost
              /\ known' = [known EXCEPT ![m] = "copy"]
           \/ lost' = TRUE /\ UNCHANGED <<hosts, known>>
    BY <1>2 DEF Work, MWork
  <2>3. \A n \in Machines : known'[n] = "copy" => mrec'[n].pc = "closeMachine"
    BY <1>0, <2>1, <2>2
  <2> QED
    BY <2>2, <2>3
<1>3. ASSUME NEW m \in Machines, Unwind(m) PROVE TeardownTypeOK'
  BY <1>0, <1>3 DEF Unwind, MUnwind
<1>4. ASSUME NEW m \in Machines, CloseMachine(m) PROVE TeardownTypeOK'
  <2>1. /\ mrec' = [mrec EXCEPT ![m] = AtClose(@)]
        /\ UNCHANGED <<infra, site, stage, hosts, lost, given>>
        /\ known' = [known EXCEPT ![m] = IF machine'[m] = "gone" THEN "no"
                                         ELSE IF @ = "copy" THEN "object"
                                         ELSE @]
    BY <1>4 DEF CloseMachine, MCloseMachine
  <2>2. machine'[m] = "gone" => m \notin hosts
    BY <1>4 DEF CloseMachine, MCloseMachine, ServeInv, SiteInv, Exists
  <2> QED
    BY <1>0, <2>1, <2>2
<1>5. ASSUME NEW m \in Machines, MachineFault(m) PROVE TeardownTypeOK'
  BY <1>0, <1>5, MachineFaultFacts
<1>6. CASE Provision
  BY <1>6 DEF Provision, CProvision
<1>7. CASE DeleteULB \/ CleanResourceInGroup \/ DeleteSubnet
  <2>1. /\ UNCHANGED <<known, given, infra, mrec>> /\ stage' \in Stages
        /\ site' \subseteq site /\ hosts' \subseteq hosts
    BY <1>7
       DEF DeleteULB, CleanResourceInGroup, DeleteSubnet, Inner, vars, Stages
  <2>2. lost' = lost \/ lost' = FALSE
    BY <1>7 DEF DeleteULB, CleanResourceInGroup, DeleteSubnet
  <2> QED
    BY <2>1, <2>2
<1>8. CASE SubnetRefused
  BY <1>8 DEF SubnetRefused, Stages
<1>9. CASE DeleteGroup
  BY <1>9 DEF DeleteGroup, CTeardown, Stages
<1>10. CASE ClusterFault
  BY <1>10, ClusterFaultFacts DEF Stages
<1>11. CASE ProcessCrash
  BY <1>11 DEF ProcessCrash, Crash, Forget, Stages
<1> QED
  BY <1>1, <1>2, <1>3, <1>4, <1>5, <1>6, <1>7, <1>8, <1>9, <1>10, <1>11,
     CloudMoves

LEMMA SiteStep ==
    ASSUME TypeOK, TeardownTypeOK, SiteInv, [NextAll]_all
    PROVE  SiteInv'
<1> USE DEF SiteInv, SubnetInUse, At
<1>0. /\ mrec \in [Machines -> MachineReconciles] /\ crec \in ClusterReconciles
      /\ started \subseteq Machines /\ hosts \subseteq Machines
  BY DEF TypeOK, TeardownTypeOK
<1>1. CASE Quiet
  BY <1>1, QuietFacts DEF cloud
<1>2. ASSUME NEW m \in Machines, Work(m) PROVE SiteInv'
  BY <1>0, <1>2 DEF Work, MWork
<1>3. ASSUME NEW m \in Machines, Unwind(m) PROVE SiteInv'
  BY <1>0, <1>3 DEF Unwind, MUnwind
<1>4. ASSUME NEW m \in Machines, CloseMachine(m) PROVE SiteInv'
  BY <1>4 DEF CloseMachine, MCloseMachine
<1>5. ASSUME NEW m \in Machines, MachineFault(m) PROVE SiteInv'
  BY <1>5, MachineFaultFacts
<1>6. CASE Provision
  BY <1>0, <1>6 DEF Provision, CProvision, ClusterReconciles, Site,
     Resources
<1>7. CASE DeleteULB \/ CleanResourceInGroup \/ DeleteSubnet
  BY <1>7 DEF DeleteULB, CleanResourceInGroup, DeleteSubnet, Inner, vars
<1>8. CASE SubnetRefused
  BY <1>0, <1>8 DEF SubnetRefused, ClusterReconciles
<1>9. CASE DeleteGroup
  BY <1>0, <1>9 DEF DeleteGroup, CTeardown, ClusterReconciles
<1>10. CASE ClusterFault
  BY <1>10, ClusterFaultFacts
<1>11. CASE ProcessCrash
  BY <1>11 DEF ProcessCrash, Crash, Forget, NoClusterReconcile
<1> QED
  BY <1>1, <1>2, <1>3, <1>4, <1>5, <1>6, <1>7, <1>8, <1>9, <1>10, <1>11,
     CloudMoves

\* Failures, refusals and crashes leave the ids where they can still be found,
\* a copy having one only until the next write, and UCloud never holds more
\* than the protocol takes it to hold.
THEOREM TeardownTypeCorrect == SpecAll => []TeardownTypeOK
<1> DEFINE Inv == TypeOK /\ ServeInv /\ TeardownTypeOK /\ SiteInv
<1>1. InitAll => Inv
  BY InitIsInit, TypeInit, ServeInit, TeardownInit
<1>2. Inv /\ [NextAll]_all => Inv'
  BY NextIsStep, TypeRefused, ServeStep, TeardownTypeStep, SiteStep
<1> QED
  BY <1>1, <1>2, PTL DEF SpecAll

-----------------------------------------------------------------------------
(* Nothing is refused when the cluster is deleted after its machines.      *)

\* A deletion is seen only after it was asked for, and a machine is served only
\* once the cluster became ready; this needs no order of the machines and no
\* fresh copies.
OrderInv ==
    /\ cached.deleting \/ crec.pc \in {"scan", "teardown"} => cluster.deleting
    /\ \A m \in Machines :
          mrec[m].ready \/ mrec[m].pc = "work" \/ m \in started
             => cluster.ready

\* While a machine may be served or unwound the load balancer and the group
\* are there, every instance is in the group, and none comes up behind the
\* termination of all of them.
ServedInv ==
    /\ cluster.ready \/ crec.ready
          => cluster.deleting \/ {"ulb", "group"} \subseteq site
    /\ SubnetInUse => "group" \in site
    /\ At("subnet") \/ At("group") => ~SubnetInUse

\* Neither a deletion nor that the cluster was ready is taken back.
LEMMA ObjectMoves ==
    ASSUME TypeOK, Step
    PROVE  /\ cluster.deleting => cluster'.deleting
           /\ cluster.ready => cluster'.ready
           /\ cluster'.ready /\ ~cluster.ready => crec.ready
<1>1. /\ cluster \in Objects /\ mrec \in [Machines -> MachineReconciles]
      /\ crec \in ClusterReconciles /\ crec.before \in Seq(Names)
      /\ Held(crec) \in Seq(Names)
  BY HeldList DEF TypeOK, ClusterReconciles
<1>2. CASE UNCHANGED cluster
  BY <1>2
<1>3. ASSUME NEW m \in Machines, MPatchCluster(m) \/ MCloseCluster(m)
      PROVE  cluster'.deleting = cluster.deleting
               /\ cluster'.ready = cluster.ready
  <2>1. mrec[m].before \in Seq(Names) /\ mrec[m].after \in Seq(Names)
    BY <1>1 DEF MachineReconciles
  <2> QED
    BY <1>1, <1>3, <2>1, WrittenFacts DEF MPatchCluster, MCloseCluster
<1>4. CASE CPatch
  BY <1>1, <1>4, WrittenFacts DEF CPatch
<1>5. CASE CClose
  <2> DEFINE after == Patched(crec.before, Held(crec))
  <2>1. /\ after \in Objects /\ after.deleting = cluster.deleting
        /\ after.ready = cluster.ready
    BY <1>1, WrittenFacts
  <2>2. cluster' = [after EXCEPT !.ready = @ \/ (crec.ready /\ after.present)]
    BY <1>5 DEF CClose
  <2> HIDE DEF after
  <2> QED
    BY <2>1, <2>2 DEF Objects
<1>6. CASE DeleteCluster
  BY <1>1, <1>6 DEF DeleteCluster, Objects
<1> QED
  BY <1>2, <1>3, <1>4, <1>5, <1>6 DEF Step, Next, vars, Refused, MStart,
     MachineStep, MPatchMachine, MWork, MUnwind, MCloseMachine, MFault,
     CStart, ClusterStep, CProvision, CScan, CScanDone, CTeardown, CFault,
     Crash, Sync, CreateMachine, DeleteMachine

\* So copies, however old, order the deletion and the machines right.
LEMMA OrderStep ==
    ASSUME TypeOK, OrderInv, Step
    PROVE  OrderInv'
<1>1. /\ mrec \in [Machines -> MachineReconciles] /\ crec \in ClusterReconciles
      /\ cluster.deleting => cluster'.deleting
      /\ cluster.ready => cluster'.ready
  BY ObjectMoves DEF TypeOK
<1>2. cached'.deleting => cluster.deleting
  <2>1. cached' \in {cached, cluster}
    BY DEF Step, Refused, Next, vars, MStart, MachineStep, MPatchMachine,
       MPatchCluster, MWork, MUnwind, MCloseMachine, MCloseCluster, MFault,
       CStart, ClusterStep, CPatch, CProvision, CScan, CScanDone, CTeardown,
       CClose, CFault, Crash, Sync, CreateMachine, DeleteMachine,
       DeleteCluster
  <2> QED
    BY <2>1 DEF OrderInv
<1>3. crec'.pc \in {"scan", "teardown"} => cluster.deleting
  <2>1. CASE CStart
    BY <2>1 DEF CStart, Seen, OrderInv
  <2>2. CASE ~CStart
    <3>1. CASE CPatch \/ CProvision
      BY <1>1, <3>1 DEF CPatch, CProvision, ClusterReconciles
    <3>2. CASE CScan \/ CScanDone \/ CTeardown \/ crec' = crec
      BY <3>2 DEF CScan, CScanDone, CTeardown, OrderInv
    <3>3. CASE \/ crec' = NoClusterReconcile
               \/ crec' = [crec EXCEPT !.pc = "close"]
      BY <1>1, <3>3 DEF NoClusterReconcile, ClusterReconciles
    <3> QED
      BY <2>2, <3>1, <3>2, <3>3, ClusterMoves
  <2> QED
    BY <2>1, <2>2
<1>4. ASSUME NEW m \in Machines,
             mrec'[m].ready \/ mrec'[m].pc = "work" \/ m \in started'
      PROVE  cluster.ready
  <2>1. mrec[m] \in MachineReconciles
    BY <1>1
  <2>2. CASE MStart(m)
    <3>1. /\ mrec'[m].ready = cluster.ready /\ mrec'[m].pc # "work"
          /\ started' = started
      BY <1>1, <2>2, ReconcileMoves DEF MStart
    <3> QED
      BY <1>4, <3>1 DEF OrderInv
  <2>3. CASE ~MStart(m)
    <3>0. \/ mrec'[m] = mrec[m] \/ mrec'[m] = NoMachineReconcile
          \/ MPatchMachine(m) \/ MPatchCluster(m) \/ MWork(m)
          \/ MUnwind(m) \/ MCloseMachine(m) \/ GivesUp(m)
      BY <2>3, MachineMoves
    <3>1. mrec'[m].ready => mrec[m].ready
      <4>1. CASE MPatchMachine(m) \/ MPatchCluster(m) \/ MWork(m)
                 \/ MUnwind(m)
        BY <1>1, <2>1, <4>1 DEF MPatchMachine, MPatchCluster, MWork, MUnwind,
           MachineReconciles
      <4>2. CASE MCloseMachine(m)
        BY <1>1, <2>1, <4>2 DEF MCloseMachine, AtClose, MachineReconciles
      <4>3. CASE GivesUp(m)
        BY <2>1, <4>3 DEF GivesUp, AtClose, MachineReconciles
      <4> QED
        BY <3>0, <4>1, <4>2, <4>3 DEF NoMachineReconcile
    <3>2. mrec'[m].pc = "work" => mrec[m].pc = "work" \/ mrec[m].ready
      <4>1. CASE MPatchCluster(m)
        BY <1>1, <2>1, <4>1 DEF MPatchCluster, MachineReconciles
      <4> QED
        BY <1>1, <3>0, <4>1, ReconcileMoves DEF NoMachineReconcile
    <3>3. m \in started' => m \in started \/ mrec[m].pc = "work"
      BY StartedFacts DEF MWork
    <3> QED
      BY <1>4, <3>1, <3>2, <3>3 DEF OrderInv
  <2> QED
    BY <2>2, <2>3
<1> QED
  BY <1>1, <1>2, <1>3, <1>4 DEF OrderInv

\* A reconcile that finds the cluster ready has just created all of the site.
LEMMA ReadyFacts ==
    ASSUME TypeOK, [NextAll]_all, crec'.ready, ~crec.ready
    PROVE  {"ulb", "group"} \subseteq site'
<1>0. crec \in ClusterReconciles
  BY DEF TypeOK
<1>1. CASE Quiet
  <2>1. ~UNCHANGED crec
    OBVIOUS
  <2>2. CStart \/ CPatch \/ CScan \/ CScanDone \/ CClose
    BY <1>1, <2>1 DEF Quiet, MStart, MPatchMachine, MPatchCluster,
       MCloseCluster, UnwindRefused, CreateMachine, DeleteMachine,
       DeleteCluster, vars
  <2>3. CStart \/ CClose => crec'.ready = FALSE
    BY DEF CStart, CClose, NoClusterReconcile
  <2>4. CPatch \/ CScan \/ CScanDone => crec'.ready = crec.ready
    BY <1>0 DEF CPatch, CScan, CScanDone, ClusterReconciles
  <2> QED
    BY <2>2, <2>3, <2>4
<1>2. CASE Provision
  BY <1>2 DEF Provision, Site, Resources
<1>3. ASSUME NEW m \in Machines,
             Work(m) \/ Unwind(m) \/ CloseMachine(m) \/ MachineFault(m)
      PROVE  UNCHANGED crec
  BY <1>3 DEF Work, MWork, Unwind, MUnwind, CloseMachine, MCloseMachine,
     MachineFault, MFault
<1>4. DeleteULB \/ CleanResourceInGroup \/ DeleteSubnet => UNCHANGED crec
  BY DEF DeleteULB, CleanResourceInGroup, DeleteSubnet, Inner, vars
<1>5. SubnetRefused \/ DeleteGroup \/ ClusterFault \/ ProcessCrash
         => crec'.ready \in {FALSE, crec.ready}
  <2>1. SubnetRefused \/ DeleteGroup => crec'.ready = crec.ready
    BY <1>0 DEF SubnetRefused, DeleteGroup, CTeardown, ClusterReconciles
  <2>2. ClusterFault \/ ProcessCrash
           => crec' \in {NoClusterReconcile, [crec EXCEPT !.pc = "close"]}
    BY DEF ClusterFault, CFault, ProcessCrash, Crash
  <2>3. /\ NoClusterReconcile.ready = FALSE
        /\ [crec EXCEPT !.pc = "close"].ready = crec.ready
    BY <1>0 DEF NoClusterReconcile, ClusterReconciles
  <2> QED
    BY <2>1, <2>2, <2>3
<1> QED
  BY <1>1, <1>2, <1>3, <1>4, <1>5, CloudMoves

\* The load balancer and the group are taken away by a teardown only.
LEMMA SiteShrinks ==
    ASSUME [NextAll]_all, NEW r \in {"ulb", "group"},
           r \in site, r \notin site'
    PROVE  crec.pc = "teardown"
<1>1. CASE Quiet
  BY <1>1 DEF Quiet, cloud
<1>2. ASSUME NEW m \in Machines,
             Work(m) \/ Unwind(m) \/ CloseMachine(m) \/ MachineFault(m)
      PROVE  UNCHANGED site
  BY <1>2 DEF Work, Unwind, CloseMachine, MachineFault
<1>3. Provision => r \in site'
  BY DEF Provision, Site, Resources
<1>4. CASE DeleteULB \/ CleanResourceInGroup \/ DeleteSubnet \/ SubnetRefused
           \/ DeleteGroup
  BY <1>4 DEF DeleteULB, CleanResourceInGroup, DeleteSubnet, SubnetRefused,
     DeleteGroup, At
<1>5. CASE ClusterFault
  BY <1>5 DEF ClusterFault
<1>6. CASE ProcessCrash
  BY <1>6 DEF ProcessCrash
<1> QED
  BY <1>1, <1>2, <1>3, <1>4, <1>5, <1>6, CloudMoves

LEMMA ServedStep ==
    ASSUME TypeOK, ServeInv, LastInv, OrderInv, TeardownTypeOK, SiteInv,
           ServedInv, [NextAll]_all
    PROVE  ServedInv'
<1>0. /\ Step
      /\ mrec \in [Machines -> MachineReconciles] /\ crec \in ClusterReconciles
      /\ crec.pc = "teardown" => cluster.deleting
  BY NextIsStep DEF TypeOK, OrderInv
<1>1. ASSUME cluster'.ready \/ crec'.ready, ~cluster'.deleting
      PROVE  {"ulb", "group"} \subseteq site'
  <2>1. ~cluster.deleting /\ crec.pc # "teardown"
    BY <1>0, <1>1, ObjectMoves
  <2>2. CASE cluster.ready \/ crec.ready
    BY <2>1, <2>2, SiteShrinks DEF ServedInv
  <2>3. CASE ~cluster.ready /\ ~crec.ready
    BY <1>0, <1>1, <2>3, ObjectMoves, ReadyFacts
  <2> QED
    BY <2>2, <2>3
<1>2. /\ SubnetInUse' => "group" \in site'
      /\ (At("subnet") \/ At("group"))' => ~SubnetInUse'
  <2> DEFINE Good == /\ SubnetInUse' => "group" \in site'
                     /\ (At("subnet") \/ At("group"))' => ~SubnetInUse'
  <2> USE DEF At, SubnetInUse
  <2>1. CASE Quiet
    BY <1>0, <2>1, QuietFacts DEF cloud, SiteInv, ServedInv
  <2>2. ASSUME NEW m \in Machines, Work(m) PROVE Good
    <3>1. Exists(m) /\ cluster.ready /\ UNCHANGED <<crec, site>>
      BY <1>0, <2>2 DEF Work, MWork, ServeInv, OrderInv
    <3>2. ~cluster.deleting /\ crec.pc # "teardown"
      BY <1>0, <3>1 DEF LastInv
    <3> QED
      BY <3>1, <3>2 DEF ServedInv
  <2>3. ASSUME NEW m \in Machines,
               Unwind(m) \/ CloseMachine(m) \/ MachineFault(m)
        PROVE  Good
    <3>1. CASE Unwind(m) \/ CloseMachine(m)
      BY <3>1 DEF Unwind, MUnwind, CloseMachine, MCloseMachine, ServedInv
    <3>2. CASE MachineFault(m)
      BY <3>2, MachineFaultFacts DEF ServedInv
    <3> QED
      BY <2>3, <3>1, <3>2
  <2>4. CASE CleanResourceInGroup
    BY <2>4 DEF CleanResourceInGroup, Inner, vars, ServedInv
  <2>5. CASE Provision
    BY <1>0, <2>5
       DEF Provision, CProvision, ClusterReconciles, Site, Resources
  <2>6. CASE DeleteULB \/ DeleteSubnet
    BY <2>6 DEF DeleteULB, DeleteSubnet, Inner, vars, ServedInv
  <2>7. CASE SubnetRefused \/ ProcessCrash
    BY <2>7 DEF SubnetRefused, ProcessCrash, Forget, ServedInv
  <2>8. CASE DeleteGroup
    BY <2>8 DEF DeleteGroup, ServedInv
  <2>9. CASE ClusterFault
    BY <2>9, ClusterFaultFacts DEF ServedInv
  <2> QED
    BY <2>1, <2>2, <2>3, <2>4, <2>5, <2>6, <2>7, <2>8, <2>9, CloudMoves
<1> QED
  BY <1>1, <1>2 DEF ServedInv

LEMMA OrderInit == InitAll => OrderInv /\ ServedInv
BY DEF InitAll, Init, OrderInv, ServedInv, At, SubnetInUse, NoClusterReconcile,
   NoMachineReconcile

\* When the cluster is deleted after its machines the teardown and the
\* deletions of the machines get through as the protocol has it: for any
\* number of workers, with machines made before the cluster is ready or after,
\* no call is made that UCloud refuses for good.
THEOREM ProtocolFollowed == ASSUME DeletedLast PROVE SpecAll => FollowsProtocol
<1> DEFINE Inv == /\ TypeOK /\ ServeInv /\ LastInv /\ OrderInv
                  /\ TeardownTypeOK /\ SiteInv /\ ServedInv
<1>1. InitAll => Inv
  BY InitIsInit, TypeInit, ServeInit, TeardownInit, OrderInit
<1>2. Inv /\ [NextAll]_all => Inv'
  BY NextIsStep, TypeRefused, ServeStep, LastStep, OrderStep, TeardownTypeStep,
     SiteStep, ServedStep
<1>3. Inv /\ [NextAll]_all => [Next]_vars
  <2> SUFFICES ASSUME Inv, [NextAll]_all PROVE [Next]_vars
    OBVIOUS
  <2>1. ~SubnetRefused
    BY DEF SubnetRefused, ServedInv
  <2>2. ASSUME NEW m \in Machines PROVE ~UnwindRefused(m)
    <3>1. SUFFICES ASSUME m \in hosts, "ulb" \notin site PROVE FALSE
      BY DEF UnwindRefused, Drainable
    <3>2. Exists(m) /\ cluster.ready
      BY <3>1 DEF SiteInv, ServeInv, OrderInv
    <3> QED
      BY <3>1, <3>2 DEF LastInv, ServedInv
  <2> QED
    BY <2>1, <2>2, StepOrRefusal
<1> QED
  BY <1>1, <1>2, <1>3, InitIsInit, PTL DEF SpecAll, Spec, FollowsProtocol

\* Whatever failed on the way, and although instances may be created while the
\* teardown runs, a UCloudCluster that is gone leaves nothing in UCloud: no
\* resource of its own, and no instance when its subnet is its own or it is
\* deleted after its machines.
THEOREM NothingIsLeft ==
    ASSUME ~InformerLag, MachinesAfterReady
    PROVE  SpecAll => []NothingLeft
<1> DEFINE Inv == /\ LastIInv /\ TeardownTypeOK /\ SiteInv
                  /\ DeletedLast => OrderInv /\ ServedInv
<1>1. InitAll => Inv
  BY InitIsInit, LastIInvInit, TeardownInit, OrderInit
<1>2. Inv /\ [NextAll]_all => Inv'
  BY NextIsStep, LastIInvStep, TeardownTypeStep, SiteStep, OrderStep,
     ServedStep DEF LastIInv
<1>3. Inv => NothingLeft
  <2>1. LastIInv /\ ~cluster.present => ~infra
    BY GoneHasNothing
  <2> QED
    BY <2>1 DEF TeardownTypeOK, SiteInv, ServedInv, SubnetInUse, NothingLeft
<1> QED
  BY <1>1, <1>2, <1>3, PTL DEF SpecAll
=============================================================================
