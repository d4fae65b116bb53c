------------------------- MODULE UCloudInfra_proofs -------------------------
(***************************************************************************)
(* Theorems about UCloudInfra, for every quota, every choice of given and  *)
(* named resources and any faults.                                         *)
(***************************************************************************)
EXTENDS UCloudInfra, FiniteSetTheorems, TLAPS

\* The shape of a status, of a reconcile in flight and of the object.
Statuses == [Recorded -> Ids \cup {0}]
Reconciles == [pc : Steps, status : Statuses, ready : BOOLEAN,
               addr : BOOLEAN, fin : BOOLEAN, eip : Ids \cup {0},
               ulb : Ids \cup {0}]
Objects == [present : BOOLEAN, deleting : BOOLEAN, fin : BOOLEAN,
            ready : BOOLEAN, addr : BOOLEAN, status : Statuses]

-----------------------------------------------------------------------------
(* Steps of the reconcile.                                                 *)

\* The fields that recording a resource changes.
LEMMA RecordFacts ==
    ASSUME rec \in Reconciles, NEW k \in Recorded, NEW id \in Ids \cup {0},
           Record(k, id)
    PROVE  /\ rec' \in Reconciles
           /\ rec'.pc = NextStep(rec.pc)
           /\ rec'.status = [rec.status EXCEPT ![k] = id]
           /\ rec'.addr = (rec.addr \/ k = "ulb")
           /\ rec'.ready = rec.ready /\ rec'.fin = rec.fin
           /\ rec'.eip = rec.eip /\ rec'.ulb = rec.ulb
<1>1. NextStep(rec.pc) \in Steps
  BY DEF NextStep, Steps, CreateSteps, DeleteSteps
<1> QED
  BY <1>1 DEF Record, Reconciles, Statuses

\* No step leads back to idle; the order of the steps, one by one.
LEMMA NextStepFacts ==
    \A pc \in Steps :
        NextStep(pc) \in Steps \ {"idle", "register", "natEIP", "natGW",
                                  "ulbEIP", "ulbBind", "ulbVServer",
                                  "delBastion"}
BY DEF NextStep, Steps, CreateSteps, DeleteSteps

\* The order of creation and of teardown, step by step.
LEMMA Order ==
    /\ NextStep("register") = "group" /\ NextStep("group") = "vpc"
    /\ NextStep("vpc") = "subnet" /\ NextStep("subnet") = "nat"
    /\ NextStep("nat") = "ulb" /\ NextStep("natGW") = "ulb"
    /\ NextStep("ulb") = "zones" /\ NextStep("ulbVServer") = "zones"
    /\ NextStep("zones") = "bastion" /\ NextStep("bastion") = "capu"
    /\ NextStep("capu") = "close" /\ NextStep("delBastion") = "delULB"
    /\ NextStep("delULB") = "delNat" /\ NextStep("delNat") = "clean"
    /\ NextStep("clean") = "delSubnet" /\ NextStep("delSubnet") = "delVPC"
    /\ NextStep("delVPC") = "delGroup" /\ NextStep("delGroup") = "delCAPU"
    /\ NextStep("delCAPU") = "close"
BY DEF NextStep

\* Going on changes the step only.
LEMMA GotoFacts ==
    ASSUME rec \in Reconciles, NEW pc \in Steps, Goto(pc)
    PROVE  /\ rec' \in Reconciles /\ rec'.pc = pc
           /\ rec'.status = rec.status
           /\ rec'.addr = rec.addr
           /\ rec'.ready = rec.ready /\ rec'.fin = rec.fin
           /\ rec'.eip = rec.eip /\ rec'.ulb = rec.ulb
BY DEF Goto, Reconciles

-----------------------------------------------------------------------------
(* Types.                                                                  *)

\* From the creation of the ULB to that of its VServer its id is at hand.
ULBNamed == rec.pc \in {"ulbEIP", "ulbBind", "ulbVServer"} => rec.ulb # 0

\* TypeOK in terms of the shapes above.
LEMMA TypeParts ==
    TypeOK <=> /\ object \in Objects
               /\ rec \in Reconciles
               /\ rec.pc = "idle" => rec = NoReconcile
               /\ cloud \in [Kinds -> SUBSET Ids]
               /\ bound \subseteq Ids /\ serving \subseteq Ids
               /\ last \in 0..Quota /\ faults \in 0..MaxFaults
BY DEF TypeOK, Objects, Reconciles, Statuses

\* 0 stands for no id; below the quota another id can be handed out.
LEMMA NumbersFacts ==
    /\ UserId \in Ids /\ 0 \notin Ids
    /\ \A l \in 0..Quota : l < Quota => l + 1 \in Ids /\ l + 1 \in 0..Quota
BY InfraAssumption DEF Ids, UserId

\* The empty status and the empty reconcile have their shapes.
LEMMA NothingTyped == Nothing \in Statuses /\ NoReconcile \in Reconciles
BY DEF Nothing, Statuses, NoReconcile, Reconciles, Steps

\* What a lookup matches: a resource that was given, or one that exists.
LEMMA MatchingFacts ==
    ASSUME cloud \in [Kinds -> SUBSET Ids], NEW k \in Kinds
    PROVE  /\ Matching(k) \subseteq Ids
           /\ k \notin Given => Matching(k) \subseteq cloud[k]
           /\ k \in Given => Matching(k) = {UserId}
           /\ k \in Networks \ Given => Matching(k) = cloud[k]
<1>1. CASE k \in Given
  BY <1>1, NumbersFacts DEF Matching
<1>2. CASE k \notin Given
  BY <1>2 DEF Matching, Networks
<1> QED
  BY <1>1, <1>2

\* What may happen to the resources of one kind: some are deleted, one that
\* was given only if it is a ULB in the group that is emptied; or one is
\* created, of the networks only when none is there.
Shrinks(k) ==
    /\ cloud'[k] \subseteq cloud[k]
    /\ k \in Given /\ UserId \in cloud[k]
          => UserId \in cloud'[k] \/ (k = "ulb" /\ GivenInGroup /\ CleanGroup)
Grows(k) ==
    /\ last < Quota /\ last' = last + 1
    /\ cloud'[k] = cloud[k] \cup {last'}
    /\ k \in Networks => Missing(k)

\* A creation adds one id to one kind.
LEMMA NewResourceFacts ==
    ASSUME cloud \in [Kinds -> SUBSET Ids], last \in 0..Quota,
           NEW k \in Kinds, NewResource(k), k \in Networks => Missing(k)
    PROVE  /\ cloud' \in [Kinds -> SUBSET Ids] /\ last' \in 0..Quota
           /\ last' \in Ids
           /\ \A j \in Kinds : Shrinks(j) \/ Grows(j)
BY NumbersFacts DEF NewResource, Shrinks, Grows

\* A deletion takes at most one id, and none that was given.
LEMMA RemoveFacts ==
    ASSUME cloud \in [Kinds -> SUBSET Ids], NEW k \in Kinds, NEW id,
           Remove(k, id), k \in Given => id # UserId
    PROVE  /\ cloud' \in [Kinds -> SUBSET Ids]
           /\ \A j \in Kinds : Shrinks(j)
BY DEF Remove, Shrinks

\* What any step does to the resources of each kind.
LEMMA CloudStep ==
    ASSUME TypeOK, [Next]_vars
    PROVE  /\ cloud' \in [Kinds -> SUBSET Ids] /\ last' \in 0..Quota
           /\ \A k \in Kinds : Shrinks(k) \/ Grows(k)
<1>1. /\ cloud \in [Kinds -> SUBSET Ids] /\ last \in 0..Quota
      /\ rec \in Reconciles
  BY TypeParts
<1> DEFINE Goal == /\ cloud' \in [Kinds -> SUBSET Ids] /\ last' \in 0..Quota
                   /\ \A k \in Kinds : Shrinks(k) \/ Grows(k)
<1>2. CASE UNCHANGED <<cloud, last>>
  BY <1>1, <1>2 DEF Shrinks
<1>3. CASE \/ \E k \in {"group", "vpc", "subnet", "capu"} : CreateSimple(k)
           \/ CreateULB \/ CreateBastion
           \/ AllocateEIP("natEIP", "natGW")
           \/ AllocateEIP("ulbEIP", "ulbBind")
  <2>1. \E k \in Kinds : NewResource(k) /\ (k \in Networks => Missing(k))
    BY <1>3 DEF CreateSimple, CreateULB, CreateBastion, AllocateEIP, Kinds,
       Networks
  <2> QED
    BY <1>1, <2>1, NewResourceFacts
<1>4. ASSUME last < Quota, last' = last + 1,
             cloud' = [cloud EXCEPT !["nat"] = @ \cup {last'},
                                    !["eip"] = @ \ {rec.eip}]
      PROVE  Goal
  <2>1. "eip" \notin Given /\ "nat" \notin Networks
    BY InfraAssumption DEF Networks
  <2> QED
    BY <1>1, <1>4, <2>1, NumbersFacts DEF Shrinks, Grows, Kinds
<1>5. CASE LostAnswer
  <2>1. CASE \E k \in Kinds : NewResource(k) /\ (k \in Networks => Missing(k))
    BY <1>1, <2>1, NewResourceFacts
  <2> QED
    BY <1>4, <1>5, <2>1 DEF LostAnswer, Kinds, Networks
<1>6. CASE BindEIP
  <2>1. "eip" \notin Given
    BY InfraAssumption
  <2> QED
    BY <1>1, <1>6, <2>1 DEF BindEIP, Shrinks, Kinds
<1>7. CASE \/ TerminateBastion \/ Delete("delULB", "ulb")
           \/ Delete("delNat", "nat")
  BY <1>1, <1>7, RemoveFacts DEF TerminateBastion, Delete, Ours, Kinds
<1>8. CASE \/ DeleteNetwork("delSubnet", "subnet")
           \/ DeleteNetwork("delVPC", "vpc")
           \/ DeleteStrict("delGroup", "group")
           \/ DeleteStrict("delCAPU", "capu")
  BY <1>1, <1>2, <1>8, RemoveFacts DEF DeleteNetwork, DeleteStrict, Ours, Kinds
<1>9. CASE CleanGroup
  <2>1. "bastion" \notin Given
    BY InfraAssumption
  <2> QED
    BY <1>1, <1>2, <1>9, <2>1 DEF CleanGroup, ULBsInGroup, Shrinks, Kinds
<1>10. CASE CreateNATGW
  BY <1>4, <1>10 DEF CreateNATGW
<1>11. CASE \/ Start \/ Close \/ Fault \/ Crash \/ DeleteCluster \/ Refused
            \/ Register \/ NatMissing \/ CreateVServer \/ PanicOnPartialULB
            \/ NoAddress \/ SetReady \/ BastionDone \/ SkipLast
            \/ \E k \in Kinds : Known(k) \/ Adopt(k)
            \/ \E pc \in Steps, k \in Kinds : Skip(pc, k)
  BY <1>2, <1>11 DEF Start, Close, Fault, Crash, DeleteCluster, Refused,
     Register, NatMissing, CreateVServer, PanicOnPartialULB, NoAddress,
     SetReady, BastionDone, SkipLast, Known, Adopt, Skip, NoCloud
<1> QED
  BY <1>2, <1>3, <1>5, <1>6, <1>7, <1>8, <1>9, <1>10, <1>11
     DEF Next, Creating, Deleting, vars, Kinds, Steps, DeleteSteps

\* The reconcile in flight keeps its shape.
LEMMA RecStep ==
    ASSUME TypeOK, [Next]_vars
    PROVE  /\ rec' \in Reconciles
           /\ rec'.pc = "idle" => rec' = NoReconcile
<1>1. /\ object \in Objects /\ rec \in Reconciles
      /\ rec.pc = "idle" => rec = NoReconcile
      /\ cloud \in [Kinds -> SUBSET Ids] /\ last \in 0..Quota
      /\ rec.pc \in Steps /\ rec.status \in Statuses
        /\ rec.ulb \in Ids \cup {0}
  BY TypeParts DEF Reconciles
<1> DEFINE Goal == rec' \in Reconciles
  /\ (rec'.pc = "idle" => rec' = NoReconcile)
<1>2. ASSUME NEW pc \in Steps \ {"idle"}, Goto(pc) PROVE Goal
  BY <1>1, <1>2, GotoFacts
<1>3. CASE Proceed \/ Goto("close")
  BY <1>1, <1>2, <1>3, NextStepFacts DEF Proceed, Steps
<1>4. ASSUME NEW k \in Recorded, NEW id \in Ids \cup {0}, Record(k, id)
      PROVE  Goal
  BY <1>1, <1>4, RecordFacts, NextStepFacts
<1>5. CASE rec' = NoReconcile \/ UNCHANGED rec
  BY <1>1, <1>5, NothingTyped
<1>6. CASE Start
  <2>1. rec' \in Reconciles
    BY <1>1, <1>6, NothingTyped
       DEF Start, Objects, Reconciles, NoReconcile, Steps, CreateSteps,
           DeleteSteps
  <2>2. rec'.pc # "idle"
    BY <1>6 DEF Start, NoReconcile
  <2> QED
    BY <2>1, <2>2
<1>7. CASE \/ Register \/ NatMissing \/ NoAddress \/ BastionDone \/ Refused
           \/ Fault \/ LostAnswer \/ CleanGroup \/ BindEIP
           \/ DeleteNetwork("delSubnet", "subnet")
           \/ DeleteNetwork("delVPC", "vpc")
           \/ \E k \in Kinds : Known(k)
           \/ \E pc \in Steps, k \in Kinds : Skip(pc, k) \/ Delete(pc, k)
  BY <1>2, <1>3, <1>7
     DEF Register, NatMissing, NoAddress, BastionDone, Refused, Fault,
         LostAnswer, CleanGroup, BindEIP, DeleteNetwork, Known, Skip, Delete,
         Steps, CreateSteps
<1>8. CASE \/ \E k \in {"group", "vpc", "subnet", "nat", "ulb"} : Adopt(k)
           \/ \E k \in {"group", "vpc", "subnet", "capu"} : CreateSimple(k)
           \/ CreateBastion \/ CreateNATGW \/ CreateVServer \/ TerminateBastion
  <2>1. \A k \in Kinds : Matching(k) \subseteq Ids
    BY <1>1, MatchingFacts
  <2>2. last < Quota => last + 1 \in Ids
    BY <1>1, NumbersFacts
  <2>3. \E k \in Recorded, id \in Ids \cup {0} : Record(k, id)
    BY <1>1, <1>8, <2>1, <2>2
       DEF Adopt, CreateSimple, CreateBastion, CreateNATGW, CreateVServer,
           TerminateBastion, NewResource, Recorded, Kinds
  <2> QED
    BY <1>4, <2>3
<1>9. CASE \/ CreateULB \/ AllocateEIP("natEIP", "natGW")
           \/ AllocateEIP("ulbEIP", "ulbBind")
  <2>1. last' \in Ids
    BY <1>1, <1>9, NumbersFacts DEF CreateULB, AllocateEIP, NewResource
  <2> QED
    BY <1>1, <1>9, <2>1
       DEF CreateULB, AllocateEIP, Reconciles, Steps, CreateSteps
<1>10. CASE SetReady
  BY <1>1, <1>10, NextStepFacts DEF SetReady, Reconciles
<1>11. CASE PanicOnPartialULB
  <2>1. Matching("ulb") \subseteq Ids
    BY <1>1, MatchingFacts DEF Kinds
  <2>2. PICK id \in Ids :
            rec' = [rec EXCEPT !.pc = "close", !.status["ulb"] = id]
    BY <1>11, <2>1 DEF PanicOnPartialULB
  <2> QED
    BY <1>1, <2>2 DEF Reconciles, Statuses, Steps
<1>12. CASE \/ SkipLast \/ DeleteStrict("delGroup", "group")
            \/ DeleteStrict("delCAPU", "capu")
  <2>1. CASE Goto("close")
    BY <1>3, <2>1
  <2>2. ASSUME NEW pc \in Steps \ {"idle"}, NEW fin \in BOOLEAN,
               rec' = [rec EXCEPT !.pc = pc, !.fin = fin]
        PROVE  Goal
    BY <1>1, <2>2 DEF Reconciles
  <2>3. /\ NextStep("delGroup") \in Steps \ {"idle"}
        /\ NextStep("delCAPU") \in Steps \ {"idle"}
        /\ "close" \in Steps \ {"idle"}
    BY NextStepFacts DEF Steps, DeleteSteps
  <2> QED
    BY <1>12, <2>1, <2>2, <2>3 DEF SkipLast, DeleteStrict
<1>13. CASE Close \/ Crash \/ DeleteCluster \/ UNCHANGED vars
  BY <1>5, <1>13 DEF Close, Crash, DeleteCluster, vars
<1> QED
  BY <1>6, <1>7, <1>8, <1>9, <1>10, <1>11, <1>12, <1>13
     DEF Next, Creating, Deleting, Kinds, Steps, DeleteSteps

\* So does the object.
LEMMA ObjectStep ==
    ASSUME TypeOK, [Next]_vars
    PROVE  object' \in Objects
<1>1. object \in Objects /\ rec \in Reconciles
  BY TypeParts
<1>2. CASE Register \/ DeleteCluster \/ Close
  BY <1>1, <1>2
     DEF Register, DeleteCluster, Close, Persisted, Objects, Reconciles
<1>3. CASE UNCHANGED object
  BY <1>1, <1>3
<1> QED
  BY <1>2, <1>3
     DEF Next, Creating, Deleting, vars, Start, Known, Adopt, CreateSimple,
         NatMissing, AllocateEIP, CreateNATGW, CreateULB, BindEIP,
         CreateVServer, PanicOnPartialULB, NoAddress, SetReady, BastionDone,
         CreateBastion, Refused, Skip, TerminateBastion, Delete, CleanGroup,
         DeleteNetwork, DeleteStrict, SkipLast, Fault, LostAnswer, Crash

\* The id of a ULB in the making is known to the reconcile.
LEMMA ULBNamedStep ==
    ASSUME TypeOK, ULBNamed, [Next]_vars
    PROVE  ULBNamed'
<1>1. rec \in Reconciles /\ rec' \in Reconciles /\ rec.pc \in Steps
  BY TypeParts, RecStep DEF Reconciles
<1>2. CASE CreateULB
  <2>1. last' # 0
    BY <1>2, TypeParts DEF CreateULB, NewResource
  <2> QED
    BY <1>1, <1>2, <2>1 DEF CreateULB, ULBNamed, Reconciles
<1>3. CASE AllocateEIP("ulbEIP", "ulbBind") \/ BindEIP
  BY <1>1, <1>3 DEF AllocateEIP, BindEIP, Goto, ULBNamed, Reconciles
<1>4. CASE UNCHANGED rec
  BY <1>4 DEF ULBNamed
<1>5. ASSUME rec'.pc \notin {"ulbEIP", "ulbBind", "ulbVServer"}
      PROVE  ULBNamed'
  BY <1>5 DEF ULBNamed
<1>6. CASE \/ Proceed \/ Goto("close") \/ Goto("natEIP") \/ rec' = NoReconcile
           \/ \E k, id : Record(k, id)
  <2>1. CASE Goto("close") \/ Goto("natEIP") \/ rec' = NoReconcile
    BY <1>1, <1>5, <2>1 DEF Goto, NoReconcile, Reconciles
  <2>2. CASE Proceed \/ \E k, id : Record(k, id)
    <3>1. rec'.pc = NextStep(rec.pc)
      BY <1>1, <2>2 DEF Proceed, Goto, Record, Reconciles
    <3> QED
      BY <1>1, <1>5, <3>1, NextStepFacts
  <2> QED
    BY <1>6, <2>1, <2>2
<1>7. CASE \/ Start \/ SetReady \/ PanicOnPartialULB
           \/ AllocateEIP("natEIP", "natGW")
  BY <1>1, <1>5, <1>7, NextStepFacts
     DEF Start, SetReady, PanicOnPartialULB, AllocateEIP, NoReconcile,
         Reconciles
<1>8. CASE \/ SkipLast \/ DeleteStrict("delGroup", "group")
           \/ DeleteStrict("delCAPU", "capu")
  <2>1. "delGroup" \in Steps /\ "delCAPU" \in Steps
    BY DEF Steps, DeleteSteps
  <2> QED
    BY <1>1, <1>5, <1>6, <1>8, <2>1, NextStepFacts
       DEF SkipLast, DeleteStrict, Reconciles
<1> QED
  BY <1>2, <1>3, <1>4, <1>6, <1>7, <1>8
     DEF Next, Creating, Deleting, vars, Register, Known, Adopt, CreateSimple,
         NatMissing, CreateNATGW, CreateVServer, NoAddress, BastionDone,
         CreateBastion, Refused, Skip, TerminateBastion, Delete, CleanGroup,
         DeleteNetwork, Fault, LostAnswer, Crash, Close, DeleteCluster

\* Every step keeps the types.
LEMMA TypeStep == TypeOK /\ ULBNamed /\ [Next]_vars => TypeOK'
<1> SUFFICES ASSUME TypeOK, ULBNamed, [Next]_vars PROVE TypeOK'
  OBVIOUS
<1>1. /\ object' \in Objects /\ rec' \in Reconciles
      /\ rec'.pc = "idle" => rec' = NoReconcile
      /\ cloud' \in [Kinds -> SUBSET Ids] /\ last' \in 0..Quota
  BY ObjectStep, RecStep, CloudStep
<1>2. /\ bound \subseteq Ids /\ serving \subseteq Ids /\ rec \in Reconciles
      /\ faults \in 0..MaxFaults
  BY TypeParts
<1>3. bound' \subseteq Ids /\ serving' \subseteq Ids
  <2>1. CASE BindEIP \/ CreateVServer
    <3>1. rec.ulb \in Ids
      BY <1>2, <2>1 DEF BindEIP, CreateVServer, ULBNamed, Reconciles
    <3> QED
      BY <1>2, <2>1, <3>1 DEF BindEIP, CreateVServer
  <2>2. CASE UNCHANGED <<bound, serving>>
    BY <1>2, <2>2
  <2> QED
    BY <2>1, <2>2
       DEF Next, Creating, Deleting, vars, Start, Known, Adopt, CreateSimple,
           NatMissing, AllocateEIP, CreateNATGW, CreateULB, PanicOnPartialULB,
           NoAddress, SetReady, BastionDone, CreateBastion, Refused, Skip,
           TerminateBastion, Delete, CleanGroup, DeleteNetwork, DeleteStrict,
           SkipLast, Fault, LostAnswer, Crash, Register, DeleteCluster, Close,
           NoCloud
<1>4. faults' \in 0..MaxFaults
  <2>1. CASE Fault \/ LostAnswer \/ Crash
    BY <1>2, <2>1, InfraAssumption DEF Fault, LostAnswer, Crash, Faulty
  <2>2. CASE UNCHANGED faults
    BY <1>2, <2>2
  <2> QED
    BY <2>1, <2>2
       DEF Next, Creating, Deleting, vars, Start, Known, Adopt, CreateSimple,
           NatMissing, AllocateEIP, CreateNATGW, CreateULB, BindEIP,
           CreateVServer, PanicOnPartialULB, NoAddress, SetReady, BastionDone,
           CreateBastion, Refused, Skip, TerminateBastion, Delete, CleanGroup,
           DeleteNetwork, DeleteStrict, SkipLast, Register, DeleteCluster,
           Close
<1> QED
  BY <1>1, <1>3, <1>4, TypeParts DEF Objects, Reconciles, Statuses, TypeOK

\* For every quota, whatever is given and whatever fails the state keeps its
\* shape; while the ULB is made its id is known, so that only existing ids are
\* bound to an EIP.
THEOREM TypeCorrect == Spec => []TypeOK
<1>1. Init => TypeOK /\ ULBNamed
  <2> SUFFICES ASSUME Init PROVE TypeOK /\ ULBNamed
    OBVIOUS
  <2>1. NewObject \in Objects
    BY NothingTyped DEF NewObject, Objects
  <2>2. cloud \in [Kinds -> SUBSET Ids] /\ bound \subseteq Ids
          /\ serving \subseteq Ids
    BY NumbersFacts DEF Init, Kinds
  <2>3. 0 \in 0..Quota /\ 0 \in 0..MaxFaults
    BY InfraAssumption
  <2> QED
    BY <2>1, <2>2, <2>3, NothingTyped, TypeParts
       DEF Init, ULBNamed, NoReconcile
<1>2. TypeOK /\ ULBNamed /\ [Next]_vars => (TypeOK /\ ULBNamed)'
  BY TypeStep, ULBNamedStep
<1> QED
  BY <1>1, <1>2, PTL DEF Spec

-----------------------------------------------------------------------------
(* One network, and what the user gave.                                    *)

\* A network is created only when its lookup finds none, and the lookup finds
\* whatever exists: at most one, however often the creation is repeated.
THEOREM NetworkOnce == Spec => []OneNetwork
<1>1. Init => OneNetwork
  <2> SUFFICES ASSUME Init, NEW k \in Networks PROVE Cardinality(cloud[k]) <= 1
    BY DEF OneNetwork, Networks
  <2>1. cloud[k] = {} \/ cloud[k] = {UserId}
    BY DEF Init, Networks, Kinds
  <2>2. Cardinality({}) = 0 /\ Cardinality({UserId}) = 1
    BY FS_EmptySet, FS_Singleton
  <2> QED
    BY <2>1, <2>2
<1>2. TypeOK /\ OneNetwork /\ [Next]_vars => OneNetwork'
  <2> SUFFICES ASSUME TypeOK, OneNetwork, [Next]_vars, NEW k \in Networks
               PROVE  Cardinality(cloud'[k]) <= 1
    BY DEF OneNetwork, Networks
  <2>1. k \in Kinds /\ Cardinality(cloud[k]) <= 1 /\ cloud[k] \subseteq Ids
    BY TypeParts DEF OneNetwork, Networks, Kinds
  <2>2. IsFiniteSet(cloud[k])
    <3>1. 1 \in Int /\ UserId \in Int
      BY InfraAssumption DEF UserId
    <3>2. IsFiniteSet(Ids)
      BY <3>1, FS_Interval DEF Ids
    <3> QED
      BY <2>1, <3>2, FS_Subset
  <2>3. CASE Shrinks(k)
    BY <2>1, <2>2, <2>3, FS_Subset, FS_CardinalityType DEF Shrinks
  <2>4. CASE Grows(k)
    <3>1. Matching(k) = {}
      BY <2>4 DEF Grows, Missing
    <3>2. cloud[k] = {}
      BY <2>1, <3>1, MatchingFacts, TypeParts
    <3> QED
      BY <2>4, <3>2, FS_Singleton DEF Grows
  <2> QED
    BY <2>1, <2>3, <2>4, CloudStep
<1> QED
  BY <1>1, <1>2, TypeCorrect, PTL DEF Spec

-----------------------------------------------------------------------------
(* What the status names exists.                                           *)

\* A status and its address tell the truth about the cloud.
NamesExisting(status, addr) ==
    /\ \A k \in Recorded : status[k] # 0 => status[k] \in cloud[k]
    /\ addr => status["ulb"] \in bound \cap serving

\* The inductive strengthening of StatusNamesExisting: until the deletion the
\* copy in flight, which will be persisted, names only what exists, and a ULB
\* in the making is there and gets what it needs.
StatusInv ==
    ~object.deleting =>
        /\ rec.pc \notin DeleteSteps
        /\ NamesExisting(object.status, object.addr)
        /\ NamesExisting(rec.status, rec.addr)
        /\ rec.pc \in {"ulbEIP", "ulbBind", "ulbVServer"}
              => rec.ulb \in cloud["ulb"]
        /\ rec.pc = "ulbVServer" => rec.ulb \in bound

\* A deletion is not taken back.
LEMMA DeletingStays == TypeOK /\ object.deleting
  /\ [Next]_vars => object'.deleting
<1> SUFFICES ASSUME TypeOK, object.deleting, [Next]_vars PROVE object'.deleting
  OBVIOUS
<1>1. object \in Objects
  BY TypeParts
<1>2. CASE Register \/ DeleteCluster \/ Close
  BY <1>1, <1>2 DEF Register, DeleteCluster, Close, Persisted, Objects
<1>3. CASE UNCHANGED object
  BY <1>3
<1> QED
  BY <1>2, <1>3
     DEF Next, Creating, Deleting, vars, Start, Known, Adopt, CreateSimple,
         NatMissing, AllocateEIP, CreateNATGW, CreateULB, BindEIP,
         CreateVServer, PanicOnPartialULB, NoAddress, SetReady, BastionDone,
         CreateBastion, Refused, Skip, TerminateBastion, Delete, CleanGroup,
         DeleteNetwork, DeleteStrict, SkipLast, Fault, LostAnswer, Crash

\* Outside the teardown nothing that may be recorded is deleted.
LEMMA NothingLost ==
    ASSUME TypeOK, rec.pc \notin DeleteSteps, [Next]_vars
    PROVE  /\ \A k \in Recorded : cloud[k] \subseteq cloud'[k]
           /\ bound \subseteq bound' /\ serving \subseteq serving'
<1>1. cloud \in [Kinds -> SUBSET Ids]
  BY TypeParts
<1>2. CASE CreateNATGW \/ LostAnswer
  BY <1>1, <1>2 DEF CreateNATGW, LostAnswer, NewResource, Recorded, Kinds
<1>3. CASE BindEIP
  BY <1>1, <1>3 DEF BindEIP, Recorded
<1>4. CASE \/ CreateVServer \/ CreateULB \/ CreateBastion
           \/ \E k \in {"group", "vpc", "subnet", "capu"} : CreateSimple(k)
           \/ AllocateEIP("natEIP", "natGW")
           \/ AllocateEIP("ulbEIP", "ulbBind")
  BY <1>1, <1>4
     DEF CreateVServer, CreateULB, CreateBastion, CreateSimple, AllocateEIP,
         NewResource, Recorded
<1>5. CASE UNCHANGED <<cloud, bound, serving>>
  BY <1>5
<1> QED
  BY <1>2, <1>3, <1>4, <1>5
     DEF Next, Creating, Deleting, vars, Start, Known, Adopt, NatMissing,
         PanicOnPartialULB, NoAddress, SetReady, BastionDone, Refused, Skip,
         TerminateBastion, Delete, CleanGroup, DeleteNetwork, DeleteStrict,
         SkipLast, Fault, Crash, Register, DeleteCluster, Close, NoCloud,
         DeleteSteps

\* A lookup only finds what exists.
LEMMA MatchingExists ==
    ASSUME TypeOK, GivenKept, ~object.deleting, NEW k \in Kinds
    PROVE  Matching(k) \subseteq cloud[k]
BY TypeParts, MatchingFacts DEF GivenKept

\* StatusInv is kept: creations record what they made, lookups what they found,
\* and what is persisted is the copy, which tells the truth.
LEMMA StatusStep ==
    ASSUME TypeOK, GivenKept, StatusInv, [Next]_vars
    PROVE  StatusInv'
<1> SUFFICES ASSUME ~object'.deleting
             PROVE  /\ rec'.pc \notin DeleteSteps
                    /\ NamesExisting(object.status, object.addr)'
                    /\ NamesExisting(rec.status, rec.addr)'
                    /\ rec'.pc \in {"ulbEIP", "ulbBind", "ulbVServer"}
                          => rec'.ulb \in cloud'["ulb"]
                    /\ rec'.pc = "ulbVServer" => rec'.ulb \in bound'
  BY DEF StatusInv
<1>1. /\ object \in Objects /\ rec \in Reconciles /\ rec.pc \in Steps
      /\ rec.status \in Statuses /\ object.status \in Statuses
      /\ rec.addr \in BOOLEAN
      /\ cloud \in [Kinds -> SUBSET Ids] /\ bound \subseteq Ids
  BY TypeParts DEF Objects, Reconciles
<1>2. /\ ~object.deleting /\ rec.pc \notin DeleteSteps
      /\ NamesExisting(object.status, object.addr)
      /\ NamesExisting(rec.status, rec.addr)
      /\ rec.pc \in {"ulbEIP", "ulbBind", "ulbVServer"}
            => rec.ulb \in cloud["ulb"]
      /\ rec.pc = "ulbVServer" => rec.ulb \in bound
  BY DeletingStays DEF StatusInv
<1>3. ASSUME NEW s \in Statuses, NEW a, NamesExisting(s, a)
      PROVE  NamesExisting(s, a)'
  BY <1>2, <1>3, NothingLost DEF NamesExisting, Statuses, Recorded, Kinds
<1>4. NamesExisting(object.status, object.addr)'
  <2>1. CASE object'.status = object.status /\ object'.addr = object.addr
    BY <1>1, <1>2, <1>3, <2>1 DEF NamesExisting
  <2>2. CASE object'.status = rec.status /\ object'.addr = rec.addr
    BY <1>1, <1>2, <1>3, <2>2 DEF NamesExisting
  <2>3. CASE Register \/ DeleteCluster \/ Close
    BY <1>1, <2>1, <2>2, <2>3
       DEF Register, DeleteCluster, Close, Persisted, Objects
  <2> QED
    BY <2>1, <2>3 DEF Next, Creating, Deleting, vars, Start, Known, Adopt,
       CreateSimple, NatMissing, AllocateEIP, CreateNATGW, CreateULB, BindEIP,
       CreateVServer, PanicOnPartialULB, NoAddress, SetReady, BastionDone,
       CreateBastion, Refused, Skip, TerminateBastion, Delete, CleanGroup,
       DeleteNetwork, DeleteStrict, SkipLast, Fault, LostAnswer, Crash
<1> DEFINE Plain == Steps \ (DeleteSteps \cup
                                {"ulbEIP", "ulbBind", "ulbVServer"})
           Goal == /\ rec'.pc \notin DeleteSteps
                   /\ NamesExisting(rec.status, rec.addr)'
                   /\ rec'.pc \in {"ulbEIP", "ulbBind", "ulbVServer"}
                         => rec'.ulb \in cloud'["ulb"]
                   /\ rec'.pc = "ulbVServer" => rec'.ulb \in bound'
<1> SUFFICES Goal
  BY <1>4
<1>5. ASSUME rec'.pc \in Plain, rec'.status = rec.status, rec'.addr = rec.addr
      PROVE  Goal
  BY <1>1, <1>2, <1>3, <1>5 DEF NamesExisting
<1>6. NextStep(rec.pc) \in Plain
  BY <1>1, <1>2 DEF NextStep, Steps, CreateSteps, DeleteSteps
<1>7. CASE Proceed \/ Goto("close") \/ Goto("natEIP")
  BY <1>1, <1>5, <1>6, <1>7, GotoFacts
     DEF Proceed, Steps, CreateSteps, DeleteSteps
<1>8. ASSUME NEW k \in Recorded, NEW id \in Ids,
             Record(k, id), id \in cloud'[k],
             k = "ulb" => id \in bound' \cap serving'
      PROVE  Goal
  <2>1. /\ rec'.pc \in Plain /\ rec'.status = [rec.status EXCEPT ![k] = id]
        /\ rec'.addr = (rec.addr \/ k = "ulb")
    BY <1>1, <1>6, <1>8, RecordFacts
  <2>2. NamesExisting(rec.status, rec.addr)'
    BY <1>1, <1>2, <1>3, <1>8, <2>1
       DEF NamesExisting, Statuses, Recorded, Kinds
  <2> QED
    BY <2>1, <2>2
<1>9. CASE rec' = NoReconcile
  BY <1>9 DEF NoReconcile, NamesExisting, Nothing, DeleteSteps, Recorded
<1>10. CASE Start
  <2>1. rec'.pc = "register" /\ rec'.status = object.status
          /\ rec'.addr = object.addr
        /\ UNCHANGED <<cloud, bound, serving>>
    BY <1>1, <1>2, <1>10 DEF Start, NoReconcile, NoCloud
  <2> QED
    BY <1>2, <2>1 DEF NamesExisting, DeleteSteps
<1>11. CASE \E k \in {"group", "vpc", "subnet", "nat", "ulb"} : Adopt(k)
  <2>1. PICK k \in {"group", "vpc", "subnet", "nat", "ulb"} : Adopt(k)
    BY <1>11
  <2>2. PICK id \in Matching(k) : Record(k, id)
          /\ (k = "ulb" => id \in bound \cap serving)
    BY <2>1 DEF Adopt
  <2>3. k \in Recorded /\ k \in Kinds
    BY DEF Recorded, Kinds
  <2>4. id \in cloud[k] /\ id \in Ids
    BY <1>1, <1>2, <2>3, MatchingExists, MatchingFacts
  <2> QED
    BY <1>8, <2>1, <2>2, <2>3, <2>4 DEF Adopt, NoCloud
<1>12. CASE PanicOnPartialULB
  <2>1. PICK id \in Matching("ulb") :
            rec' = [rec EXCEPT !.pc = "close", !.status["ulb"] = id]
    BY <1>12 DEF PanicOnPartialULB
  <2>2. id \in cloud["ulb"] /\ UNCHANGED <<cloud, bound, serving>>
    BY <1>2, <1>12, MatchingExists DEF PanicOnPartialULB, NoCloud, Kinds
  <2>3. ~rec.addr
    BY <1>1, <1>2, <1>12, NumbersFacts DEF PanicOnPartialULB, NamesExisting
  <2>4. rec'.pc = "close" /\ rec'.status = [rec.status EXCEPT !["ulb"] = id]
        /\ rec'.addr = rec.addr
    BY <1>1, <2>1 DEF Reconciles
  <2> QED
    BY <1>1, <1>2, <2>2, <2>3, <2>4
       DEF NamesExisting, DeleteSteps, Statuses, Recorded
<1>13. CASE \/ CreateBastion \/ CreateNATGW
            \/ \E k \in {"group", "vpc", "subnet", "capu"} : CreateSimple(k)
  <2>1. PICK k \in {"group", "vpc", "subnet", "capu", "bastion", "nat"} :
            Record(k, last') /\ last' \in cloud'[k] /\ last < Quota
              /\ last' = last + 1
    BY <1>1, <1>13
       DEF CreateSimple, CreateBastion, CreateNATGW, NewResource, Kinds
  <2>2. last' \in Ids
    BY <2>1, NumbersFacts, TypeParts
  <2> QED
    BY <1>8, <2>1, <2>2 DEF Recorded, Kinds
<1>14. CASE CreateVServer
  <2>1. rec.ulb \in Ids /\ rec.ulb \in cloud'["ulb"]
          /\ rec.ulb \in bound' \cap serving'
        /\ Record("ulb", rec.ulb)
    BY <1>1, <1>2, <1>14 DEF CreateVServer
  <2> QED
    BY <1>8, <2>1 DEF Recorded, Kinds
<1>15. CASE CreateULB
  <2>1. /\ rec'.pc = "ulbEIP" /\ rec'.status = rec.status
          /\ rec'.addr = rec.addr
        /\ rec'.ulb = last' /\ last' \in cloud'["ulb"]
    BY <1>1, <1>15 DEF CreateULB, NewResource, Reconciles, Kinds
  <2> QED
    BY <1>1, <1>2, <1>3, <2>1 DEF NamesExisting, DeleteSteps
<1>16. CASE AllocateEIP("ulbEIP", "ulbBind") \/ BindEIP
  <2>1. /\ rec'.pc \in {"ulbBind", "ulbVServer"} /\ rec'.status = rec.status
        /\ rec'.addr = rec.addr /\ rec'.ulb = rec.ulb
        /\ rec'.pc = "ulbVServer" => rec.ulb \in bound'
        /\ rec.pc \in {"ulbEIP", "ulbBind"}
    BY <1>1, <1>16 DEF AllocateEIP, BindEIP, Goto, Reconciles
  <2>2. rec.ulb \in cloud'["ulb"]
    BY <1>2, <2>1, NothingLost DEF Recorded, Kinds
  <2> QED
    BY <1>1, <1>2, <1>3, <2>1, <2>2 DEF NamesExisting, DeleteSteps
<1>17. CASE AllocateEIP("natEIP", "natGW") \/ SetReady
  <2>1. rec'.pc \in Plain /\ rec'.status = rec.status /\ rec'.addr = rec.addr
    BY <1>1, <1>6, <1>17
       DEF AllocateEIP, SetReady, Reconciles, Steps, CreateSteps, DeleteSteps
  <2> QED
    BY <1>5, <2>1
<1>18. CASE UNCHANGED rec
  <2>1. NamesExisting(rec.status, rec.addr)'
    BY <1>1, <1>2, <1>3, <1>18 DEF NamesExisting
  <2>2. cloud["ulb"] \subseteq cloud'["ulb"] /\ bound \subseteq bound'
    BY <1>2, NothingLost DEF Recorded, Kinds
  <2> QED
    BY <1>2, <1>18, <2>1, <2>2
<1> QED
  BY <1>2, <1>7, <1>9, <1>10, <1>11, <1>12, <1>13, <1>14, <1>15, <1>16, <1>17,
     <1>18
     DEF Next, Creating, Deleting, vars, Register, Known, NatMissing,
         NoAddress, BastionDone, Refused, Skip, TerminateBastion, Delete,
         CleanGroup, DeleteNetwork, DeleteStrict, SkipLast, Fault, LostAnswer,
         Crash, Close, DeleteCluster, DeleteSteps

\* What the user gave is kept: the one exception is met in a teardown.
LEMMA GivenStep ==
    ASSUME TypeOK, GivenKept, StatusInv, [Next]_vars
    PROVE  GivenKept'
<1> SUFFICES ASSUME NEW k \in Given
             PROVE  \/ UserId \in cloud'[k]
                    \/ k = "ulb" /\ GivenInGroup /\ object'.deleting
  BY DEF GivenKept
<1>1. k \in Kinds
  BY InfraAssumption DEF Kinds
<1>2. CleanGroup => object.deleting
  BY DEF CleanGroup, StatusInv, DeleteSteps
<1> QED
  BY <1>1, <1>2, CloudStep, DeletingStays DEF GivenKept, Shrinks, Grows

\* Both are inductive together.
LEMMA GivenAndStatus == Spec => [](GivenKept /\ StatusInv)
<1>1. Init => GivenKept /\ StatusInv
  BY InfraAssumption
     DEF Init, NewObject, GivenKept, StatusInv, NoReconcile, Nothing,
         NamesExisting, Kinds, Recorded, DeleteSteps
<1>2. TypeOK /\ (GivenKept /\ StatusInv) /\ [Next]_vars
         => (GivenKept /\ StatusInv)'
  BY GivenStep, StatusStep
<1> QED
  BY <1>1, <1>2, TypeCorrect, PTL DEF Spec

\* No deletion of the teardown takes a resource that the spec gave by id, but
\* for a ULB that the user put into the group of the cluster.
THEOREM GivenStay == Spec => []GivenKept
<1> QED
  BY GivenAndStatus, PTL

\* An id in the status is never stale before the deletion, although calls fail
\* at any step and the copy is persisted as it is then; so no reconcile skips a
\* resource that is missing, and the address is that of a ULB that serves.
THEOREM StatusTrue == Spec => []StatusNamesExisting
<1>1. StatusInv => StatusNamesExisting
  BY DEF StatusInv, NamesExisting, StatusNamesExisting
<1> QED
  BY <1>1, GivenAndStatus, PTL

-----------------------------------------------------------------------------
(* The object goes last.                                                   *)

\* What the copy in flight records of a kind is deleted, or was given.
Gone(k) == rec.status[k] \notin cloud[k] \/ k \in Given
\* The group that the copy records has no ULB and no instance left.
GroupEmpty ==
    rec.status["group"] # 0
        => cloud["ulb"] \cup cloud["bastion"] \subseteq {UserId}

\* A group that a status names is there, or nothing is left in it.
Intact(status) ==
    status["group"] # 0 => status["group"] \in cloud["group"]
Emptied == cloud["ulb"] \cup cloud["bastion"] \subseteq {UserId}

\* Nothing is created in a group that is gone.
GroupInv ==
    /\ Intact(object.status) \/ Emptied
    /\ Intact(rec.status) \/ Emptied
    /\ rec.pc \in CreateSteps => Intact(object.status) /\ Intact(rec.status)

\* What the teardown has behind it at each of its steps.
Progress ==
    /\ rec.pc \in DeleteSteps \ {"delBastion"} => Gone("bastion")
    /\ rec.pc \in DeleteSteps \ {"delBastion", "delULB"} => Gone("ulb")
    /\ rec.pc \in {"clean", "delSubnet", "delVPC", "delGroup", "delCAPU"}
          => Gone("nat")
    /\ rec.pc \in {"delSubnet", "delVPC", "delGroup", "delCAPU"} => GroupEmpty
    /\ rec.pc \in {"delVPC", "delGroup", "delCAPU"} => Gone("subnet")
    /\ rec.pc \in {"delGroup", "delCAPU"} => Gone("vpc")
    /\ rec.pc = "delCAPU" => Gone("group")

\* The inductive strengthening of RecordedGone: an object has its finalizer
\* from the first step that creates something, the teardown has deleted what
\* lies before its step, and only a copy that has everything behind it drops
\* the finalizer.
RemovalInv ==
    /\ object.present =>
          object.fin \/ (object.status = Nothing /\ ~object.deleting)
    /\ ~object.present \/ ~object.fin
          => rec.pc \in {"idle", "register", "close"}
    /\ rec.pc # "idle" /\ ~rec.fin =>
          /\ rec.pc = "close" /\ object.deleting /\ GroupEmpty
          /\ \A k \in Recorded : Gone(k)
    /\ rec.pc \in DeleteSteps => object.deleting /\ Progress
    /\ RecordedGone

\* During the teardown, and at its edges, nothing is created.
LEMMA Shrinking ==
    ASSUME TypeOK, [Next]_vars,
           rec.pc \in DeleteSteps \cup {"idle", "register", "close"}
    PROVE  \A k \in Kinds : cloud'[k] \subseteq cloud[k]
<1>1. cloud \in [Kinds -> SUBSET Ids]
  BY TypeParts
<1>2. CASE \/ TerminateBastion
           \/ \E pc \in Steps, k \in Kinds :
                 Delete(pc, k) \/ DeleteNetwork(pc, k) \/ DeleteStrict(pc, k)
  <2>1. ASSUME NEW k \in Kinds, NEW id, Remove(k, id)
        PROVE  \A j \in Kinds : cloud'[j] \subseteq cloud[j]
    BY <1>1, <2>1 DEF Remove
  <2> QED
    BY <1>2, <2>1
       DEF TerminateBastion, Delete, DeleteNetwork, DeleteStrict, Kinds
<1>3. CASE CleanGroup
  BY <1>1, <1>3 DEF CleanGroup, Kinds
<1>4. CASE UNCHANGED cloud
  BY <1>4
<1> QED
  BY <1>2, <1>3, <1>4 DEF Next, Creating, Deleting, vars, Start, Close, Fault,
     LostAnswer, Crash, DeleteCluster, Register, Known, Adopt, CreateSimple,
     NatMissing, AllocateEIP, CreateNATGW, CreateULB, BindEIP, CreateVServer,
     PanicOnPartialULB, NoAddress, SetReady, BastionDone, CreateBastion,
     Refused, Skip, SkipLast, NoCloud, Missing, DeleteSteps, Steps, Kinds

\* What is gone stays gone while nothing is created and nothing recorded.
LEMMA GoneKept ==
    ASSUME TypeOK, \A k \in Kinds : cloud'[k] \subseteq cloud[k],
           \/ rec'.status = rec.status
           \/ rec'.status = [rec.status EXCEPT !["bastion"] = 0],
           cloud' \in [Kinds -> SUBSET Ids]
    PROVE  /\ \A k \in Recorded : Gone(k) => Gone(k)'
           /\ GroupEmpty => GroupEmpty'
<1>1. rec.status \in Statuses
  BY TypeParts DEF Reconciles
<1>2. 0 \notin Ids
  BY NumbersFacts
<1> QED
  BY <1>1, <1>2 DEF Gone, GroupEmpty, Statuses, Recorded, Kinds

\* How a step of the teardown leaves it: with an error, or having removed what
\* it is there for, the last step also the finalizer.
Removed(k) == rec'.pc = NextStep(rec.pc) /\ rec'.fin = rec.fin /\ Gone(k)'

\* Every step of the teardown deletes its kind or ends the reconcile.
LEMMA RemovedFacts ==
    ASSUME TypeOK, Deleting
    PROVE  /\ rec.pc \in DeleteSteps
           /\ \/ rec'.status = rec.status
              \/ /\ rec'.status = [rec.status EXCEPT !["bastion"] = 0]
                 /\ rec.pc = "delBastion"
           /\ \/ rec'.pc = "close" /\ rec'.fin = rec.fin
              \/ rec.pc = "delBastion" /\ Removed("bastion")
              \/ rec.pc = "delULB" /\ Removed("ulb")
              \/ rec.pc = "delNat" /\ Removed("nat")
              \/ /\ rec.pc = "clean" /\ rec'.pc = "delSubnet"
                 /\ rec'.fin = rec.fin
                 /\ Intact(rec.status) \/ Emptied => GroupEmpty'
              \/ rec.pc = "delSubnet" /\ Removed("subnet")
              \/ rec.pc = "delVPC" /\ Removed("vpc")
              \/ rec.pc = "delGroup" /\ rec'.pc = "delCAPU"
                    /\ rec'.fin \in {TRUE, rec.fin} /\ Gone("group")'
              \/ rec.pc = "delCAPU" /\ rec'.pc = "close" /\ ~rec'.fin
                    /\ Gone("capu")'
<1>1. /\ rec \in Reconciles /\ rec.status \in Statuses
      /\ cloud \in [Kinds -> SUBSET Ids] /\ 0 \notin Ids
  BY TypeParts, NumbersFacts DEF Reconciles
<1>2. ASSUME NEW pc \in DeleteSteps, NEW k \in Recorded, Skip(pc, k)
      PROVE  /\ rec.pc = pc /\ rec'.pc = NextStep(pc) /\ rec'.fin = rec.fin
             /\ rec'.status = rec.status
             /\ Gone(k)' /\ (k = "group" => rec.status[k] = 0)
  <2>1. rec' = [rec EXCEPT !.pc = NextStep(pc)] /\ cloud' = cloud /\ ~Ours(k)
    BY <1>2 DEF Skip, Proceed, Goto, NoCloud
  <2>2. "group" \notin Given
    BY InfraAssumption
  <2> QED
    BY <1>1, <1>2, <2>1, <2>2
       DEF Skip, Ours, Gone, Reconciles, Statuses, Recorded
<1>3. ASSUME NEW pc \in DeleteSteps, NEW k \in Recorded,
             Delete(pc, k) \/ DeleteNetwork(pc, k)
      PROVE  /\ rec.pc = pc /\ rec'.fin = rec.fin /\ rec'.status = rec.status
             /\ \/ rec'.pc = "close"
                \/ rec'.pc = NextStep(pc) /\ Gone(k)'
  <2>1. CASE Goto("close") /\ rec.pc = pc
    BY <1>1, <2>1 DEF Goto, Reconciles
  <2>2. CASE rec.pc = pc /\ Proceed /\ Remove(k, rec.status[k])
    BY <1>1, <2>2 DEF Proceed, Goto, Remove, Gone, Reconciles, Kinds, Recorded
  <2> QED
    BY <1>3, <2>1, <2>2 DEF Delete, DeleteNetwork
<1>4. ASSUME NEW pc \in {"delGroup", "delCAPU"}, NEW k \in Recorded,
             DeleteStrict(pc, k)
      PROVE  /\ rec.pc = pc /\ rec'.status = rec.status
             /\ \/ rec'.pc = "close" /\ rec'.fin = rec.fin
                \/ /\ rec'.pc = NextStep(pc) /\ Gone(k)'
                   /\ rec'.fin = (pc # "delCAPU")
  <2>1. CASE Goto("close") /\ rec.pc = pc
    BY <1>1, <2>1 DEF Goto, Reconciles
  <2>2. CASE /\ rec.pc = pc /\ Remove(k, rec.status[k])
             /\ rec' = [rec EXCEPT !.pc = NextStep(pc),
                                   !.fin = (pc # "delCAPU")]
    <3>1. rec'.pc = NextStep(pc) /\ rec'.status = rec.status
      BY <1>1, <2>2 DEF Reconciles
    <3>2. rec'.fin = (pc # "delCAPU")
      BY <1>1, <2>2 DEF Reconciles
    <3>3. cloud'[k] = cloud[k] \ {rec.status[k]}
      BY <1>1, <2>2 DEF Remove, Kinds, Recorded
    <3> QED
      BY <2>2, <3>1, <3>2, <3>3 DEF Gone
  <2> QED
    BY <1>4, <2>1, <2>2 DEF DeleteStrict
<1>5. CASE TerminateBastion
  <2>1. rec' = [rec EXCEPT !.status["bastion"] = 0, !.pc = NextStep(rec.pc),
                           !.addr = @ \/ "bastion" = "ulb"]
        /\ cloud' = [cloud EXCEPT !["bastion"] = @ \ {rec.status["bastion"]}]
        /\ rec.pc = "delBastion"
    BY <1>5 DEF TerminateBastion, Record, Remove
  <2> QED
    BY <1>1, <2>1
       DEF Removed, Gone, Reconciles, Statuses, Recorded, Kinds, DeleteSteps
<1>6. CASE CleanGroup
  <2>1. CASE Goto("close")
    BY <1>1, <1>6, <2>1 DEF CleanGroup, Goto, Reconciles, DeleteSteps
  <2>2. CASE Proceed
    <3>1. /\ rec.pc = "clean" /\ rec'.pc = "delSubnet" /\ rec'.fin = rec.fin
          /\ rec'.status = rec.status
      BY <1>1, <1>6, <2>2, Order DEF CleanGroup, Proceed, Goto, Reconciles
    <3>2. GroupExists => Emptied'
      BY <1>1, <1>6 DEF CleanGroup, ULBsInGroup, Emptied, Kinds
    <3>3. ~GroupExists => cloud' = cloud /\ ~Intact(rec.status)
      BY <1>6 DEF CleanGroup, GroupExists, Intact
    <3> QED
      BY <3>1, <3>2, <3>3 DEF GroupEmpty, Emptied, DeleteSteps
  <2> QED
    BY <1>6, <2>1, <2>2 DEF CleanGroup
<1>7. CASE SkipLast
  <2>1. "capu" \notin Given
    BY InfraAssumption
  <2>2. /\ rec.pc = "delCAPU" /\ rec'.pc = "close" /\ ~rec'.fin
        /\ rec'.status = rec.status /\ cloud' = cloud
    BY <1>1, <1>7 DEF SkipLast, NoCloud, Reconciles
  <2>3. rec.status["capu"] = 0
    BY <1>7, <2>1 DEF SkipLast, Ours
  <2>4. Gone("capu")'
    BY <1>1, <2>2, <2>3 DEF Gone, Kinds
  <2> QED
    BY <2>2, <2>4 DEF DeleteSteps
<1>8. CASE Skip("clean", "group")
  <2>1. rec.status["group"] = 0 /\ rec'.pc = "delSubnet"
          /\ rec'.status = rec.status
        /\ rec'.fin = rec.fin /\ rec.pc = "clean"
    BY <1>2, <1>8, Order DEF Recorded, Kinds, DeleteSteps
  <2> QED
    BY <2>1 DEF GroupEmpty, DeleteSteps
<1>9. CASE \/ Skip("delBastion", "bastion") \/ Skip("delULB", "ulb")
           \/ Skip("delNat", "nat") \/ Skip("delSubnet", "subnet")
           \/ Skip("delVPC", "vpc") \/ Skip("delGroup", "group")
  BY <1>2, <1>9, Order DEF Removed, Recorded, Kinds, DeleteSteps
<1>10. CASE \/ Delete("delULB", "ulb") \/ Delete("delNat", "nat")
            \/ DeleteNetwork("delSubnet", "subnet")
            \/ DeleteNetwork("delVPC", "vpc")
  BY <1>3, <1>10 DEF Removed, Recorded, Kinds, DeleteSteps
<1>11. CASE \/ DeleteStrict("delGroup", "group")
            \/ DeleteStrict("delCAPU", "capu")
  BY <1>4, <1>11, Order DEF Recorded, Kinds, DeleteSteps
<1> QED
  BY <1>5, <1>6, <1>7, <1>8, <1>9, <1>10, <1>11 DEF Deleting

\* A step of the teardown keeps what it has behind it; the finalizer is dropped
\* with everything behind it.
LEMMA ProgressStep ==
    ASSUME TypeOK, [Next]_vars, Deleting, Progress, rec.fin,
           Intact(rec.status) \/ Emptied, cloud' \in [Kinds -> SUBSET Ids]
    PROVE  \/ rec'.pc = "close" /\ rec'.fin
           \/ rec'.pc \in DeleteSteps /\ rec'.fin /\ Progress'
           \/ /\ rec'.pc = "close" /\ ~rec'.fin /\ GroupEmpty'
              /\ \A k \in Recorded : Gone(k)'
<1>1. rec.pc \in DeleteSteps
  BY RemovedFacts
<1>2. \A k \in Kinds : cloud'[k] \subseteq cloud[k]
  BY <1>1, Shrinking
<1>3. /\ \A k \in Recorded : Gone(k) => Gone(k)'
      /\ GroupEmpty => GroupEmpty'
  BY <1>2, GoneKept, RemovedFacts
<1>4. rec \in Reconciles /\ rec'.fin \in BOOLEAN
  BY TypeParts, RecStep DEF Reconciles
<1>5. CASE rec'.pc = "close" /\ rec'.fin = rec.fin
  BY <1>5
<1>6. CASE rec.pc = "delCAPU" /\ rec'.pc = "close" /\ ~rec'.fin
             /\ Gone("capu")'
  <2>1. /\ Gone("bastion") /\ Gone("ulb") /\ Gone("nat") /\ GroupEmpty
        /\ Gone("subnet") /\ Gone("vpc") /\ Gone("group")
    BY <1>6 DEF Progress, DeleteSteps
  <2> QED
    BY <1>3, <1>6, <2>1 DEF Recorded, Kinds
<1>7. CASE rec.pc = "delGroup" /\ rec'.pc = "delCAPU" /\ rec'.fin
             /\ Gone("group")'
  <2>1. /\ Gone("bastion") /\ Gone("ulb") /\ Gone("nat") /\ GroupEmpty
        /\ Gone("subnet") /\ Gone("vpc")
    BY <1>7 DEF Progress, DeleteSteps
  <2>2. Progress'
    BY <1>3, <1>7, <2>1 DEF Recorded, Kinds, Progress
  <2> QED
    BY <1>7, <2>2 DEF DeleteSteps
<1>8. CASE rec.pc = "delVPC" /\ rec'.pc = "delGroup" /\ rec'.fin
             /\ Gone("vpc")'
  <2>1. /\ Gone("bastion") /\ Gone("ulb") /\ Gone("nat") /\ GroupEmpty
        /\ Gone("subnet")
    BY <1>8 DEF Progress, DeleteSteps
  <2>2. Progress'
    BY <1>3, <1>8, <2>1 DEF Recorded, Kinds, Progress
  <2> QED
    BY <1>8, <2>2 DEF DeleteSteps
<1>9. CASE rec.pc = "delSubnet" /\ rec'.pc = "delVPC" /\ rec'.fin
             /\ Gone("subnet")'
  <2>1. Gone("bastion") /\ Gone("ulb") /\ Gone("nat") /\ GroupEmpty
    BY <1>9 DEF Progress, DeleteSteps
  <2>2. Progress'
    BY <1>3, <1>9, <2>1 DEF Recorded, Kinds, Progress
  <2> QED
    BY <1>9, <2>2 DEF DeleteSteps
<1>10. CASE rec.pc = "clean" /\ rec'.pc = "delSubnet" /\ rec'.fin
              /\ GroupEmpty'
  <2>1. Gone("bastion") /\ Gone("ulb") /\ Gone("nat")
    BY <1>10 DEF Progress, DeleteSteps
  <2>2. Progress'
    BY <1>3, <1>10, <2>1 DEF Recorded, Kinds, Progress
  <2> QED
    BY <1>10, <2>2 DEF DeleteSteps
<1>11. CASE rec.pc = "delNat" /\ rec'.pc = "clean" /\ rec'.fin /\ Gone("nat")'
  <2>1. Gone("bastion") /\ Gone("ulb")
    BY <1>11 DEF Progress, DeleteSteps
  <2>2. Progress'
    BY <1>3, <1>11, <2>1 DEF Recorded, Kinds, Progress
  <2> QED
    BY <1>11, <2>2 DEF DeleteSteps
<1>12. CASE rec.pc = "delULB" /\ rec'.pc = "delNat" /\ rec'.fin /\ Gone("ulb")'
  <2>1. Gone("bastion")
    BY <1>12 DEF Progress, DeleteSteps
  <2>2. Progress'
    BY <1>3, <1>12, <2>1 DEF Recorded, Kinds, Progress
  <2> QED
    BY <1>12, <2>2 DEF DeleteSteps
<1>13. CASE rec'.pc = "delULB" /\ rec'.fin /\ Gone("bastion")'
  BY <1>13 DEF Progress, DeleteSteps
<1> QED
  <2>1. CASE rec.pc = "delBastion" /\ Removed("bastion")
    BY <1>13, <2>1, Order DEF Removed
  <2>2. CASE rec.pc = "delULB" /\ Removed("ulb")
    BY <1>12, <2>2, Order DEF Removed
  <2>3. CASE rec.pc = "delNat" /\ Removed("nat")
    BY <1>11, <2>3, Order DEF Removed
  <2>4. CASE rec.pc = "delSubnet" /\ Removed("subnet")
    BY <1>9, <2>4, Order DEF Removed
  <2>5. CASE rec.pc = "delVPC" /\ Removed("vpc")
    BY <1>8, <2>5, Order DEF Removed
  <2>6. CASE /\ rec.pc = "delGroup" /\ rec'.pc = "delCAPU"
             /\ rec'.fin \in {TRUE, rec.fin} /\ Gone("group")'
    BY <1>7, <2>6
  <2>7. CASE /\ rec.pc = "clean" /\ rec'.pc = "delSubnet"
             /\ rec'.fin = rec.fin /\ GroupEmpty'
    BY <1>10, <2>7
  <2> QED
    BY <1>5, <1>6, <2>1, <2>2, <2>3, <2>4, <2>5, <2>6, <2>7, RemovedFacts

\* While resources are created the finalizer stays in the copy, the object is
\* left alone and no step leads into the teardown.
LEMMA CreatingFacts ==
    ASSUME TypeOK, [Next]_vars, rec.pc \in CreateSteps \ {"register"}
    PROVE  \/ DeleteCluster
           \/ /\ object' = object /\ rec'.pc \notin DeleteSteps
              /\ rec'.pc = "idle" \/ rec'.fin = rec.fin
<1>1. rec \in Reconciles /\ rec.pc \in Steps
  BY TypeParts DEF Reconciles
<1>2. /\ NextStep(rec.pc) \notin DeleteSteps /\ rec.pc \notin DeleteSteps
      /\ rec.pc \notin {"idle", "close"}
  BY DEF NextStep, CreateSteps, DeleteSteps
<1> DEFINE Goal == rec'.pc \notin DeleteSteps
  /\ (rec'.pc = "idle" \/ rec'.fin = rec.fin)
<1>3. ASSUME Proceed \/ Goto("close") \/ Goto("natEIP") \/ Goto("ulbVServer")
      PROVE  Goal
  <2>1. PICK pc \in {NextStep(rec.pc), "close", "natEIP", "ulbVServer"} :
            Goto(pc)
    BY <1>3 DEF Proceed
  <2>2. rec'.pc = pc /\ rec'.fin = rec.fin
    BY <1>1, <2>1 DEF Goto, Reconciles
  <2>3. {"close", "natEIP", "ulbVServer"} \cap DeleteSteps = {}
    BY DEF DeleteSteps
  <2> QED
    BY <1>2, <2>2, <2>3
<1>4. ASSUME NEW k \in Recorded, NEW id, Record(k, id) PROVE Goal
  <2>1. rec'.pc = NextStep(rec.pc) /\ rec'.fin = rec.fin
    BY <1>1, <1>4 DEF Record, Reconciles
  <2> QED
    BY <1>2, <2>1
<1>5. ASSUME \/ PanicOnPartialULB \/ CreateULB \/ SetReady
             \/ AllocateEIP("natEIP", "natGW")
             \/ AllocateEIP("ulbEIP", "ulbBind")
      PROVE  Goal
  BY <1>1, <1>2, <1>5 DEF PanicOnPartialULB, CreateULB, SetReady, AllocateEIP,
     Reconciles, DeleteSteps
<1>6. CASE Crash
  BY <1>6 DEF Crash, NoReconcile, DeleteSteps
<1>7. CASE UNCHANGED vars
  BY <1>2, <1>7 DEF vars
<1>8. CASE Creating \/ Fault \/ LostAnswer
  <2>1. ~Register
    BY DEF Register
  <2> HIDE DEF Goal
  <2>3. Goal
    BY <1>3, <1>4, <1>5, <1>8, <2>1
       DEF Creating, Fault, LostAnswer, Known, Adopt, CreateSimple, NatMissing,
           CreateNATGW, BindEIP, CreateVServer, NoAddress, BastionDone,
           CreateBastion, Refused, Recorded, Kinds
  <2>2. object' = object
    BY <1>8
       DEF Creating, Fault, LostAnswer, Register, Known, Adopt, CreateSimple,
           NatMissing, AllocateEIP, CreateNATGW, CreateULB, BindEIP,
           CreateVServer, PanicOnPartialULB, NoAddress, SetReady, BastionDone,
           CreateBastion, Refused
  <2> QED
    BY <2>2, <2>3 DEF Goal
<1>9. ~Deleting /\ ~Start /\ ~Close
  BY <1>2, RemovedFacts DEF Start, Close
<1> QED
  BY <1>6, <1>7, <1>8, <1>9 DEF Next, Crash, vars

\* RemovalInv is kept by every step.
LEMMA RemovalStep ==
    ASSUME TypeOK, RemovalInv, GroupInv, [Next]_vars
    PROVE  RemovalInv'
<1>1. /\ object \in Objects /\ rec \in Reconciles /\ rec.pc \in Steps
      /\ object.status \in Statuses /\ rec.status \in Statuses
      /\ cloud' \in [Kinds -> SUBSET Ids] /\ 0 \notin Ids
      /\ rec.pc = "idle" => rec = NoReconcile
  BY TypeParts, CloudStep, NumbersFacts DEF Objects, Reconciles
<1>2. CASE DeleteCluster
  <2>1. /\ object' = [object EXCEPT !.deleting = TRUE, !.present = object.fin]
        /\ object.present /\ ~object.deleting
        /\ UNCHANGED <<rec, cloud>>
    BY <1>2 DEF DeleteCluster, NoCloud
  <2>2. /\ object'.deleting /\ object'.present = object.fin
        /\ object'.fin = object.fin /\ object'.status = object.status
    BY <1>1, <2>1 DEF Objects
  <2>3. rec.pc \notin DeleteSteps /\ (rec.pc # "idle" => rec.fin)
    BY <2>1 DEF RemovalInv
  <2>4. CASE object.fin
    BY <2>1, <2>2, <2>3, <2>4 DEF RemovalInv, RecordedGone
  <2>5. CASE ~object.fin
    <3>1. object'.status = Nothing /\ ~object'.present
      BY <2>1, <2>2, <2>5 DEF RemovalInv
    <3>2. RecordedGone'
      BY <1>1, <3>1 DEF RecordedGone, Nothing, Kinds, Recorded
    <3> QED
      BY <2>1, <2>2, <2>3, <2>5, <3>1, <3>2 DEF RemovalInv
  <2> QED
    BY <1>1, <2>4, <2>5 DEF Objects
<1>3. CASE rec.pc \in CreateSteps \ {"register"} /\ ~DeleteCluster
  <2>1. rec.pc \notin {"idle", "register", "close"} \cup DeleteSteps
    BY <1>3 DEF CreateSteps, DeleteSteps
  <2>2. object.present /\ object.fin /\ rec.fin
    BY <2>1 DEF RemovalInv
  <2>3. object' = object /\ rec'.pc \notin DeleteSteps
        /\ (rec'.pc = "idle" \/ rec'.fin)
    BY <1>3, <2>2, CreatingFacts
  <2> QED
    BY <2>2, <2>3 DEF RemovalInv, RecordedGone
<1>4. CASE rec.pc \in DeleteSteps
  <2>1. object.present /\ object.fin /\ object.deleting /\ Progress /\ rec.fin
    BY <1>4 DEF RemovalInv, DeleteSteps
  <2>2. rec.pc \notin CreateSteps /\ rec.pc # "close" /\ rec.pc # "idle"
    BY <1>4 DEF CreateSteps, DeleteSteps
  <2>3. CASE Deleting
    <3>1. object' = object
      BY <2>3 DEF Deleting, Skip, TerminateBastion, Delete, CleanGroup,
         DeleteNetwork, DeleteStrict, SkipLast
    <3> QED
      BY <1>1, <2>1, <2>3, <3>1, ProgressStep
         DEF RemovalInv, GroupInv, RecordedGone, DeleteSteps
  <2>4. CASE Fault \/ Crash \/ UNCHANGED vars
    <3>1. object' = object /\ cloud' = cloud
      BY <2>4 DEF Fault, Crash, NoCloud, vars
    <3>2. CASE rec'.pc \notin DeleteSteps /\ (rec'.pc = "idle" \/ rec'.fin)
      BY <2>1, <3>1, <3>2 DEF RemovalInv, RecordedGone
    <3>3. CASE rec' = rec
      <4>1. Progress'
        BY <2>1, <3>1, <3>3 DEF Progress, Gone, GroupEmpty
      <4> QED
        BY <2>1, <3>1, <3>3, <4>1 DEF RemovalInv, RecordedGone
    <3>4. CASE Goto("close") \/ rec' = NoReconcile
      BY <1>1, <2>1, <3>2, <3>4 DEF Goto, NoReconcile, Reconciles, DeleteSteps
    <3> QED
      BY <2>4, <3>3, <3>4 DEF Fault, Crash, vars
  <2>5. ~DeleteCluster /\ ~Start /\ ~Close /\ ~Creating /\ ~LostAnswer
    BY <1>4, <2>1, <2>2
       DEF DeleteCluster, Start, Close, Creating, LostAnswer, Register, Known,
           Adopt, CreateSimple, NatMissing, AllocateEIP, CreateNATGW,
           CreateULB, BindEIP, CreateVServer, PanicOnPartialULB, NoAddress,
           SetReady, BastionDone, CreateBastion, Refused, Missing, CreateSteps
  <2> QED
    BY <2>3, <2>4, <2>5 DEF Next
<1>5. ASSUME rec.pc \in {"idle", "register", "close"},
             UNCHANGED <<object, cloud>>,
             rec'.pc \in {"idle", "register", "close"},
             rec'.pc = "idle" \/ rec'.fin
      PROVE  RemovalInv'
  BY <1>5 DEF RemovalInv, RecordedGone, DeleteSteps
<1>6. CASE Start
  <2>1. /\ UNCHANGED <<object, cloud>> /\ object.present /\ rec'.fin
        /\ rec'.pc = IF object.deleting THEN "delBastion" ELSE "register"
        /\ rec.pc = "idle"
    BY <1>6 DEF Start, NoCloud, NoReconcile
  <2>2. CASE ~object.deleting
    BY <1>5, <2>1, <2>2
  <2>3. CASE object.deleting
    <3>1. Progress' /\ object.fin
      BY <2>1, <2>3 DEF Progress, RemovalInv
    <3> QED
      BY <2>1, <2>3, <3>1 DEF RemovalInv, RecordedGone
  <2> QED
    BY <2>2, <2>3
<1>7. CASE Register
  <2>1. rec.pc = "register" /\ UNCHANGED cloud /\ rec.fin
    BY <1>7 DEF Register, NoCloud, RemovalInv
  <2>2. CASE object.present /\ (object.deleting => object.fin)
    <3>1. /\ rec' = [rec EXCEPT !.pc = NextStep("register")]
          /\ object' = [object EXCEPT !.fin = TRUE]
      BY <1>7, <2>2 DEF Register, Proceed, Goto
    <3>2. rec'.pc = "group" /\ rec'.fin
      BY <1>1, <2>1, <3>1, Order DEF Reconciles
    <3>3. object'.present /\ object'.fin
      BY <1>1, <2>2, <3>1 DEF Objects
    <3> QED
      BY <3>2, <3>3 DEF RemovalInv, RecordedGone, DeleteSteps
  <2>3. CASE Goto("close") /\ UNCHANGED object
    <3>1. rec'.pc = "close" /\ rec'.fin
      BY <1>1, <2>1, <2>3 DEF Goto, Reconciles
    <3> QED
      BY <1>5, <2>1, <2>3, <3>1
  <2> QED
    BY <1>7, <2>2, <2>3 DEF Register
<1>8. CASE Close
  <2>1. /\ rec.pc = "close" /\ UNCHANGED cloud /\ object' = Persisted
        /\ rec'.pc = "idle"
    BY <1>8 DEF Close, NoCloud, NoReconcile
  <2>2. CASE ~object.present
    BY <1>5, <2>1, <2>2 DEF Persisted
  <2>3. CASE object.present
    <3>1. /\ object'.status = rec.status /\ object'.deleting = object.deleting
          /\ object'.fin = IF object.deleting /\ ~object.fin
                           THEN FALSE ELSE rec.fin
          /\ object'.present = ~(object.deleting /\ ~rec.fin)
      BY <1>1, <2>1, <2>3 DEF Persisted, Objects
    <3>2. object.deleting => object.fin
      BY <2>3 DEF RemovalInv
    <3>3. CASE rec.fin
      BY <2>1, <3>1, <3>2, <3>3 DEF RemovalInv, RecordedGone, DeleteSteps
    <3>4. CASE ~rec.fin
      <4>1. object.deleting /\ GroupEmpty /\ \A k \in Recorded : Gone(k)
        BY <2>1, <3>4 DEF RemovalInv
      <4>2. RecordedGone'
        BY <2>1, <3>1, <4>1 DEF RecordedGone, Gone, GroupEmpty
      <4> QED
        BY <2>1, <3>1, <3>4, <4>1, <4>2 DEF RemovalInv, DeleteSteps
    <3> QED
      BY <1>1, <3>3, <3>4 DEF Reconciles
  <2> QED
    BY <1>1, <2>2, <2>3 DEF Objects
<1>9. CASE rec.pc = "register" /\ (Fault \/ Crash)
  <2>1. UNCHANGED <<object, cloud>> /\ rec.fin
    BY <1>9 DEF Fault, Crash, NoCloud, RemovalInv
  <2>2. rec'.pc = "idle" \/ (rec'.pc = "close" /\ rec'.fin)
    BY <1>1, <1>9, <2>1 DEF Fault, Crash, Goto, NoReconcile, Reconciles
  <2> QED
    BY <1>5, <1>9, <2>1, <2>2
<1>10. CASE rec.pc = "close" /\ Crash
  BY <1>5, <1>10 DEF Crash, NoCloud, NoReconcile
<1>11. CASE UNCHANGED vars
  BY <1>11 DEF vars, RemovalInv, RecordedGone, Progress, Gone, GroupEmpty
<1>12. CASE rec.pc \in {"idle", "register", "close"}
  <2>1. ~Deleting /\ ~LostAnswer /\ (Creating => Register)
        /\ (Fault \/ Crash => rec.pc # "idle")
        /\ (Fault => rec.pc # "close")
    BY <1>12, InfraAssumption, RemovedFacts
       DEF Fault, Faulty, Crash, Creating, LostAnswer, Register, Known, Adopt,
       CreateSimple, NatMissing, AllocateEIP, CreateNATGW, CreateULB, BindEIP,
       CreateVServer, PanicOnPartialULB, NoAddress, SetReady, BastionDone,
       CreateBastion, Refused, Missing, DeleteSteps
  <2> QED
    BY <1>2, <1>6, <1>7, <1>8, <1>9, <1>10, <1>11, <1>12, <2>1 DEF Next
<1> QED
  BY <1>1, <1>2, <1>3, <1>4, <1>12 DEF Steps

\* GroupInv is kept: the creating steps only name groups that exist, and the
\* teardown deletes the group when nothing is left in it.
LEMMA GroupStep ==
    ASSUME TypeOK, StatusInv, RemovalInv, GroupInv, [Next]_vars
    PROVE  GroupInv'
<1>1. /\ object \in Objects /\ rec \in Reconciles /\ rec.pc \in Steps
      /\ object.status \in Statuses /\ rec.status \in Statuses
      /\ cloud \in [Kinds -> SUBSET Ids] /\ cloud' \in [Kinds -> SUBSET Ids]
      /\ rec.pc = "idle" => rec = NoReconcile
  BY TypeParts, CloudStep DEF Objects, Reconciles
<1>2. CASE rec.pc \in CreateSteps
  <2>1. cloud["group"] \subseteq cloud'["group"] /\ rec.pc \notin DeleteSteps
    BY <1>2, NothingLost DEF CreateSteps, DeleteSteps, Recorded, Kinds
  <2>2. Intact(object.status) /\ Intact(rec.status)
    BY <1>2 DEF GroupInv
  <2>3. ~Deleting /\ ~Start /\ ~Close
    BY <1>2, <2>1, RemovedFacts DEF Start, Close, CreateSteps
  <2>4. object'.status = object.status
    BY <1>1, <2>3
       DEF Next, Creating, vars, Register, DeleteCluster, Objects, Known,
           Adopt, CreateSimple, NatMissing, AllocateEIP, CreateNATGW,
           CreateULB, BindEIP, CreateVServer, PanicOnPartialULB, NoAddress,
           SetReady, BastionDone, CreateBastion, Refused, Fault, LostAnswer,
           Crash
  <2>5. Intact(rec.status)'
    <3>1. ASSUME NEW k \in Recorded, NEW id, Record(k, id),
                 k = "group" => id \in cloud'["group"]
          PROVE  Intact(rec.status)'
      <4>1. rec'.status = [rec.status EXCEPT ![k] = id]
        BY <1>1, <3>1 DEF Record, Reconciles
      <4> QED
        BY <1>1, <2>1, <2>2, <3>1, <4>1
           DEF Intact, Statuses, Recorded, Kinds
    <3>2. CASE rec'.status["group"] = rec.status["group"]
      BY <2>1, <2>2, <3>2 DEF Intact
    <3>3. CASE \E k \in {"group", "vpc", "subnet", "nat", "ulb"} : Adopt(k)
      <4>1. PICK k \in {"group", "vpc", "subnet", "nat", "ulb"} : Adopt(k)
        BY <3>3
      <4>2. PICK id \in Matching(k) : Record(k, id)
        BY <4>1 DEF Adopt
      <4>3. k = "group" => id \in cloud'["group"]
        BY <1>1, <2>1, <4>2, MatchingFacts, InfraAssumption DEF Networks, Kinds
      <4> QED
        BY <3>1, <4>2, <4>3 DEF Recorded, Kinds
    <3>4. CASE \/ CreateBastion \/ CreateNATGW \/ CreateVServer
               \/ \E k \in {"group", "vpc", "subnet", "capu"} :
                     CreateSimple(k)
      <4>1. PICK k \in Recorded, id \in {last', rec.ulb} :
                Record(k, id) /\ (k = "group" => id \in cloud'["group"])
        BY <1>1, <3>4
           DEF CreateBastion, CreateNATGW, CreateVServer, CreateSimple,
               NewResource, Recorded, Kinds
      <4> QED
        BY <3>1, <4>1
    <3>5. CASE \/ CreateULB \/ PanicOnPartialULB \/ SetReady
               \/ AllocateEIP("natEIP", "natGW")
               \/ AllocateEIP("ulbEIP", "ulbBind")
      <4>1. CASE PanicOnPartialULB
        <5>1. PICK id \in Matching("ulb") :
                  rec' = [rec EXCEPT !.pc = "close", !.status["ulb"] = id]
          BY <4>1 DEF PanicOnPartialULB
        <5>2. rec'.status = [rec.status EXCEPT !["ulb"] = id]
          BY <1>1, <5>1 DEF Reconciles
        <5> QED
          BY <1>1, <3>2, <5>2 DEF Statuses, Recorded, Kinds
      <4>2. CASE ~PanicOnPartialULB
        <5>1. rec'.status = rec.status
          BY <1>1, <3>5, <4>2
             DEF CreateULB, SetReady, AllocateEIP, Reconciles
        <5> QED
          BY <3>2, <5>1
      <4> QED
        BY <4>1, <4>2
    <3>6. CASE \E pc : Goto(pc)
      BY <1>1, <3>2, <3>6 DEF Goto, Reconciles
    <3>7. CASE rec' = NoReconcile
      BY <3>7 DEF NoReconcile, Nothing, Intact, Recorded, Kinds
    <3>8. CASE rec' = rec
      BY <3>2, <3>8
    <3> QED
      BY <2>3, <3>3, <3>4, <3>5, <3>6, <3>7, <3>8
         DEF Next, Creating, vars, Register, DeleteCluster, Known, NatMissing,
             BindEIP, NoAddress, BastionDone, Refused, Fault, LostAnswer,
             Crash, Proceed, NoCloud
  <2>6. Intact(object.status)'
    BY <2>1, <2>2, <2>4 DEF Intact
  <2> QED
    BY <2>5, <2>6 DEF GroupInv
<1>3. CASE rec.pc \in DeleteSteps \cup {"idle", "close"}
  <2>1. \A k \in Kinds : cloud'[k] \subseteq cloud[k]
    BY <1>3, Shrinking
  <2>2. Emptied => Emptied'
    BY <2>1 DEF Emptied, Kinds
  <2>3. cloud'["group"] = cloud["group"] \/ Emptied
    <3>1. CASE DeleteStrict("delGroup", "group")
      <4>1. GroupEmpty /\ rec.status["group"] # 0
        BY <3>1 DEF DeleteStrict, Ours, RemovalInv, Progress, DeleteSteps
      <4> QED
        BY <4>1 DEF GroupEmpty, Emptied
    <3>2. CASE Deleting /\ ~DeleteStrict("delGroup", "group")
      BY <1>1, <3>2
         DEF Deleting, Skip, TerminateBastion, Delete, CleanGroup,
             DeleteNetwork, DeleteStrict, SkipLast, Remove, NoCloud, Kinds
    <3>3. ~Creating \/ Register
      BY <1>3
         DEF Creating, Known, Adopt, CreateSimple, NatMissing, AllocateEIP,
             CreateNATGW, CreateULB, BindEIP, CreateVServer,
             PanicOnPartialULB, NoAddress, SetReady, BastionDone,
             CreateBastion, Refused, Missing, DeleteSteps
    <3>4. ~LostAnswer
      BY <1>3 DEF LostAnswer, Missing, DeleteSteps
    <3> QED
      BY <3>1, <3>2, <3>3, <3>4
         DEF Next, vars, Register, Start, Close, Fault, Crash, DeleteCluster,
             NoCloud
  <2>4. object'.status \in {object.status, rec.status}
    BY <1>1
       DEF Next, Creating, Deleting, vars, Register, DeleteCluster, Close,
           Persisted, Objects, Start, Known, Adopt, CreateSimple, NatMissing,
           AllocateEIP, CreateNATGW, CreateULB, BindEIP, CreateVServer,
           PanicOnPartialULB, NoAddress, SetReady, BastionDone, CreateBastion,
           Refused, Skip, TerminateBastion, Delete, CleanGroup, DeleteNetwork,
           DeleteStrict, SkipLast, Fault, LostAnswer, Crash
  <2>5. Intact(object.status)' \/ Emptied'
    BY <2>2, <2>3, <2>4 DEF GroupInv, Intact
  <2>6. CASE Start
    <3>1. /\ rec'.status = object.status /\ cloud' = cloud
          /\ object' = object
          /\ rec'.pc = IF object.deleting THEN "delBastion" ELSE "register"
      BY <2>6 DEF Start, NoCloud, NoReconcile
    <3>2. ~object.deleting => Intact(object.status)
      BY DEF StatusInv, NamesExisting, Intact, Recorded, Kinds
    <3> QED
      BY <3>1, <3>2 DEF GroupInv, Intact, Emptied, CreateSteps
  <2>7. CASE ~Start
    <3>1. /\ rec'.pc \notin CreateSteps
          /\ \/ rec'.status["group"] = rec.status["group"]
             \/ rec'.status["group"] = 0
      <4>1. CASE Deleting
        <5>1. rec'.pc \in DeleteSteps \cup {"close"}
          <6>1. /\ rec.pc \in DeleteSteps
                /\ rec'.pc \in {"close", "delSubnet", "delCAPU",
                               NextStep(rec.pc)}
            BY <4>1, RemovedFacts DEF Removed
          <6>2. NextStep(rec.pc) \in DeleteSteps \cup {"close"}
            BY <6>1, Order DEF DeleteSteps
          <6> QED
            BY <6>1, <6>2 DEF DeleteSteps
        <5> QED
          BY <1>1, <4>1, <5>1, RemovedFacts
             DEF Statuses, Recorded, Kinds, DeleteSteps, CreateSteps
      <4>2. CASE Close \/ Crash
        BY <4>2 DEF Close, Crash, NoReconcile, Nothing, CreateSteps, Recorded,
           Kinds
      <4>3. CASE Fault
        BY <1>1, <4>3 DEF Fault, Goto, Reconciles, CreateSteps
      <4>4. CASE DeleteCluster \/ UNCHANGED vars
        BY <1>3, <4>4 DEF DeleteCluster, vars, CreateSteps, DeleteSteps
      <4>5. ~Creating /\ ~LostAnswer
        BY <1>3
           DEF Creating, LostAnswer, Register, Known, Adopt, CreateSimple,
               NatMissing, AllocateEIP, CreateNATGW, CreateULB, BindEIP,
               CreateVServer, PanicOnPartialULB, NoAddress, SetReady,
               BastionDone, CreateBastion, Refused, Missing, DeleteSteps
      <4> QED
        BY <2>7, <4>1, <4>2, <4>3, <4>4, <4>5 DEF Next
    <3> QED
      BY <2>2, <2>3, <2>5, <3>1 DEF GroupInv, Intact
  <2> QED
    BY <2>6, <2>7
<1> QED
  BY <1>1, <1>2, <1>3 DEF Steps

\* The two are inductive together, from the truth of the status.
LEMMA RemovalAndGroup == Spec => [](RemovalInv /\ GroupInv)
<1>1. Init => RemovalInv /\ GroupInv
  BY DEF Init, NewObject, NoReconcile, Nothing, RemovalInv, RecordedGone,
     GroupInv, Intact, Recorded, Kinds, DeleteSteps, CreateSteps
<1>2. TypeOK /\ (GivenKept /\ StatusInv) /\ (RemovalInv /\ GroupInv)
         /\ [Next]_vars => (RemovalInv /\ GroupInv)'
  BY RemovalStep, GroupStep
<1> QED
  BY <1>1, <1>2, TypeCorrect, GivenAndStatus, PTL DEF Spec

\* Whatever fails or crashes in the teardown, the finalizer is dropped only
\* after all that the status records is deleted, and the group emptied.
THEOREM RemovedLast == Spec => []RecordedGone
<1>1. RemovalInv => RecordedGone
  BY DEF RemovalInv
<1> QED
  BY <1>1, RemovalAndGroup, PTL

-----------------------------------------------------------------------------
(* The cluster's networks are owned resources.                             *)

\* The ids of networks are among those handed out, so that a new one is none
\* of them; the copy in flight names what the object names, or a network that
\* exists where the object still names none.
LinkInv ==
    \A k \in Owned :
        /\ cloud[k] \cup {object.status[k], rec.status[k]} \subseteq 0..last
        /\ rec.pc # "idle" =>
              \/ rec.status[k] = object.status[k]
              \/ /\ object.status[k] = 0 /\ rec.status[k] \in cloud[k]
                 /\ rec.pc \notin DeleteSteps

\* What a step may do to the owned networks.
Quiet ==
    /\ \A k \in Owned :
          cloud'[k] = cloud[k] /\ rec'.status[k] = rec.status[k]
    /\ object'.status = object.status /\ object'.present = object.present
    /\ rec'.pc \in DeleteSteps => rec.pc \in DeleteSteps
    /\ rec.pc = "idle" => rec'.pc = "idle"
Changed(k, id) ==
    /\ rec.pc = k /\ rec.status[k] = 0
    /\ rec'.status \in {rec.status, [rec.status EXCEPT ![k] = id]}
    /\ rec'.pc \notin DeleteSteps
    /\ object' = object
Adopted(k) == \E id \in cloud[k] : Changed(k, id) /\ cloud' = cloud
Created(k) == Missing(k) /\ NewResource(k) /\ Changed(k, last')
Deleted(k) ==
    /\ rec.pc \in DeleteSteps
    /\ cloud' = [cloud EXCEPT ![k] = @ \ {rec.status[k]}]
    /\ rec'.status = rec.status
    /\ object' = object

\* The owned networks are recorded and were not given.
LEMMA OwnedKinds ==
    Owned \subseteq Recorded /\ Owned \subseteq Kinds /\ Owned \cap Given = {}
BY DEF Owned, Networks, Recorded, Kinds

\* Every step is of one of these forms.
LEMMA NetworkCases ==
    ASSUME TypeOK, [Next]_vars
    PROVE  \/ Quiet \/ Start \/ Crash \/ Close \/ DeleteCluster
           \/ \E k \in Owned : Adopted(k) \/ Created(k) \/ Deleted(k)
<1>1. /\ object \in Objects /\ rec \in Reconciles /\ rec.pc \in Steps
      /\ rec.status \in Statuses /\ cloud \in [Kinds -> SUBSET Ids]
      /\ last \in 0..Quota
  BY TypeParts DEF Reconciles
<1>2. CASE Deleting
  <2>1. rec.pc \in DeleteSteps /\ rec.pc # "idle" /\ object' = object
    BY <1>2, RemovedFacts
       DEF Deleting, Skip, TerminateBastion, Delete, CleanGroup, DeleteNetwork,
           DeleteStrict, SkipLast, DeleteSteps
  <2>2. \A k \in Owned : rec'.status[k] = rec.status[k]
    BY <1>1, <1>2, RemovedFacts DEF Owned, Networks, Statuses, Recorded, Kinds
  <2>3. ASSUME \A k \in Owned : cloud'[k] = cloud[k] PROVE Quiet
    BY <2>1, <2>2, <2>3 DEF Quiet
  <2>4. CASE \/ TerminateBastion \/ Delete("delULB", "ulb")
             \/ Delete("delNat", "nat") \/ CleanGroup
             \/ DeleteStrict("delCAPU", "capu")
    BY <1>1, <2>3, <2>4 DEF TerminateBastion, Delete, CleanGroup, DeleteStrict,
       Remove, Owned, Networks, Kinds
  <2>5. ASSUME NEW k \in Networks,
               NEW pc \in {"delSubnet", "delVPC", "delGroup"},
               DeleteNetwork(pc, k) \/ DeleteStrict(pc, k)
        PROVE  Quiet \/ \E j \in Owned : Deleted(j)
    <3>1. CASE UNCHANGED cloud
      BY <2>3, <3>1
    <3>2. CASE k \in Owned /\ Remove(k, rec.status[k])
      <4>1. rec'.status = rec.status
        BY <1>2, <2>1, <2>5, RemovedFacts DEF DeleteNetwork, DeleteStrict
      <4> QED
        BY <2>1, <3>2, <4>1 DEF Deleted, Remove
    <3>3. CASE k \notin Owned /\ Remove(k, rec.status[k])
      BY <1>1, <2>3, <3>3, OwnedKinds DEF Remove, Owned, Networks, Kinds
    <3> QED
      BY <2>5, <3>1, <3>2, <3>3 DEF DeleteNetwork, DeleteStrict
  <2>6. CASE UNCHANGED cloud
    BY <2>3, <2>6
  <2> QED
    BY <1>2, <2>4, <2>5, <2>6 DEF Deleting, Skip, SkipLast, NoCloud, Networks
<1>3. CASE Register
  <2>1. UNCHANGED cloud /\ rec.pc = "register"
        /\ object'.status = object.status /\ object'.present = object.present
    BY <1>1, <1>3 DEF Register, NoCloud, Objects
  <2>2. rec'.status = rec.status /\ rec'.pc \in {"group", "close"}
    BY <1>1, <1>3, <2>1, Order DEF Register, Proceed, Goto, Reconciles
  <2> QED
    BY <2>1, <2>2 DEF Quiet, DeleteSteps
<1>4. CASE UNCHANGED vars
  BY <1>4 DEF vars, Quiet
<1>5. CASE Fault
  <2>1. rec'.pc = "close" /\ rec'.status = rec.status /\ rec.pc # "idle"
        /\ UNCHANGED <<object, cloud>>
    BY <1>1, <1>5, InfraAssumption DEF Fault, Faulty, Goto, NoCloud, Reconciles
  <2> QED
    BY <2>1 DEF Quiet, DeleteSteps
<1>6. CASE (Creating \/ LostAnswer) /\ ~Register
  <2>1. rec.pc \in CreateSteps \ {"register"}
    BY <1>6
       DEF Creating, LostAnswer, Known, Adopt, CreateSimple, NatMissing,
           AllocateEIP, CreateNATGW, CreateULB, BindEIP, CreateVServer,
           PanicOnPartialULB, NoAddress, SetReady, BastionDone, CreateBastion,
           Refused, Missing, CreateSteps
  <2>2. CASE DeleteCluster
    BY <2>2
  <2>3. CASE object' = object /\ rec'.pc \notin DeleteSteps
    <3>1. ASSUME /\ \A k \in Owned : cloud'[k] = cloud[k]
                 /\ \A k \in Owned : rec'.status[k] = rec.status[k]
          PROVE  Quiet
      BY <2>1, <2>3, <3>1 DEF Quiet, CreateSteps
    <3>2. ASSUME NEW k \in Recorded \ Owned, NEW id, Record(k, id)
          PROVE  \A j \in Owned : rec'.status[j] = rec.status[j]
      BY <1>1, <3>2, OwnedKinds DEF Record, Reconciles, Statuses
    <3>3. ASSUME NEW k \in Recorded \cup {"eip"}, k \notin Owned,
                 NewResource(k)
          PROVE  \A j \in Owned : cloud'[j] = cloud[j]
      BY <1>1, <3>3, OwnedKinds DEF NewResource, Recorded, Kinds
    <3>4. CASE \E k \in {"group", "vpc", "subnet", "nat", "ulb"} : Adopt(k)
      <4>1. PICK k \in {"group", "vpc", "subnet", "nat", "ulb"} : Adopt(k)
        BY <3>4
      <4>2. PICK id \in Matching(k) : Record(k, id)
        BY <4>1 DEF Adopt
      <4>3. cloud' = cloud /\ k \in Recorded /\ rec.pc = k /\ rec.status[k] = 0
        BY <4>1 DEF Adopt, NoCloud, Recorded, Kinds
      <4>4. CASE k \in Owned
        <5>1. id \in cloud[k]
          BY <1>1, <4>4, MatchingFacts, OwnedKinds
        <5>2. rec'.status = [rec.status EXCEPT ![k] = id]
          BY <1>1, <4>2, <4>3 DEF Record, Reconciles
        <5> QED
          BY <2>3, <4>3, <4>4, <5>1, <5>2 DEF Adopted, Changed
      <4>5. CASE k \notin Owned
        BY <3>1, <3>2, <4>2, <4>3, <4>5
      <4> QED
        BY <4>4, <4>5
    <3>5. CASE \E k \in {"group", "vpc", "subnet", "capu"} : CreateSimple(k)
      <4>1. PICK k \in {"group", "vpc", "subnet", "capu"} : CreateSimple(k)
        BY <3>5
      <4>2. Missing(k) /\ NewResource(k) /\ Record(k, last') /\ k \in Recorded
        BY <4>1 DEF CreateSimple, Recorded, Kinds
      <4>3. CASE k \in Owned
        <5>1. rec'.status = [rec.status EXCEPT ![k] = last']
          BY <1>1, <4>2 DEF Record, Reconciles
        <5> QED
          BY <2>3, <4>2, <4>3, <5>1 DEF Created, Changed, Missing
      <4>4. CASE k \notin Owned
        BY <3>1, <3>2, <3>3, <4>2, <4>4
      <4> QED
        BY <4>3, <4>4
    <3>6. CASE LostAnswer
      <4>1. rec'.status = rec.status
        BY <1>1, <3>6 DEF LostAnswer, Goto, Reconciles
      <4>2. ASSUME NEW k \in Recorded, rec.pc = k, Missing(k), NewResource(k)
            PROVE  Quiet \/ \E j \in Owned : Created(j)
        <5>1. CASE k \in Owned
          BY <2>3, <4>1, <4>2, <5>1 DEF Created, Changed, Missing
        <5>2. CASE k \notin Owned
          BY <3>1, <3>3, <4>1, <4>2, <5>2
        <5> QED
          BY <5>1, <5>2
      <4>3. CASE NewResource("eip") \/ NewResource("bastion")
        BY <3>1, <3>3, <4>1, <4>3 DEF Owned, Networks, Recorded, Kinds
      <4>4. CASE cloud' = [cloud EXCEPT !["nat"] = @ \cup {last'},
                                        !["eip"] = @ \ {rec.eip}]
        BY <1>1, <3>1, <4>1, <4>4 DEF Owned, Networks, Kinds
      <4> QED
        BY <3>6, <4>2, <4>3, <4>4 DEF LostAnswer, Recorded, Kinds
    <3>7. CASE CreateNATGW \/ CreateBastion \/ CreateVServer
      <4>1. \A k \in Owned : cloud'[k] = cloud[k]
        BY <1>1, <3>7
           DEF CreateNATGW, CreateBastion, CreateVServer, NewResource, Owned,
               Networks, Kinds
      <4>2. \E k \in {"nat", "bastion", "ulb"} : \E id : Record(k, id)
        BY <3>7 DEF CreateNATGW, CreateBastion, CreateVServer
      <4> QED
        BY <3>1, <3>2, <4>1, <4>2 DEF Owned, Networks, Recorded, Kinds
    <3>8. CASE \/ CreateULB \/ BindEIP
               \/ AllocateEIP("natEIP", "natGW")
               \/ AllocateEIP("ulbEIP", "ulbBind")
      <4>1. \A k \in Owned : cloud'[k] = cloud[k]
        BY <1>1, <3>8
           DEF CreateULB, BindEIP, AllocateEIP, NewResource, Owned, Networks,
               Kinds
      <4>2. rec'.status = rec.status
        BY <1>1, <3>8 DEF CreateULB, BindEIP, AllocateEIP, Goto, Reconciles
      <4> QED
        BY <3>1, <4>1, <4>2
    <3>9. CASE PanicOnPartialULB
      <4>1. cloud' = cloud /\ \E id : rec' = [rec EXCEPT !.pc = "close",
                                                        !.status["ulb"] = id]
        BY <3>9 DEF PanicOnPartialULB, NoCloud
      <4> QED
        BY <1>1, <3>1, <4>1 DEF Owned, Networks, Reconciles, Statuses
    <3>10. CASE \/ NatMissing \/ NoAddress \/ SetReady \/ BastionDone
                \/ Refused
                \/ \E k \in Kinds : Known(k)
      <4>1. cloud' = cloud /\ rec'.status = rec.status
        BY <1>1, <3>10
           DEF NatMissing, NoAddress, SetReady, BastionDone, Refused, Known,
               NoCloud, Proceed, Goto, Reconciles
      <4> QED
        BY <3>1, <4>1
    <3> QED
      BY <1>6, <3>4, <3>5, <3>6, <3>7, <3>8, <3>9, <3>10 DEF Creating, Kinds
  <2> QED
    BY <2>1, <2>2, <2>3, CreatingFacts
<1> QED
  BY <1>2, <1>3, <1>4, <1>5, <1>6 DEF Next

\* LinkInv is kept by every step.
LEMMA LinkStep ==
    ASSUME TypeOK, RemovalInv, LinkInv, [Next]_vars
    PROVE  LinkInv'
<1> SUFFICES ASSUME NEW k \in Owned
             PROVE  /\ cloud'[k] \cup {object'.status[k], rec'.status[k]}
                           \subseteq 0..last'
                    /\ rec'.pc # "idle" =>
                          \/ rec'.status[k] = object'.status[k]
                          \/ /\ object'.status[k] = 0
                             /\ rec'.status[k] \in cloud'[k]
                             /\ rec'.pc \notin DeleteSteps
  BY DEF LinkInv
<1>1. /\ rec \in Reconciles /\ rec' \in Reconciles
      /\ object \in Objects /\ object' \in Objects
      /\ rec.status \in Statuses /\ cloud \in [Kinds -> SUBSET Ids]
      /\ last \in Nat /\ last' \in Nat
      /\ k \in Recorded /\ k \in Kinds /\ k \notin Given
      /\ rec.pc = "idle" => rec = NoReconcile
  BY TypeParts, ObjectStep, RecStep, CloudStep, OwnedKinds, InfraAssumption
     DEF Reconciles
<1>2. /\ cloud[k] \cup {object.status[k], rec.status[k]} \subseteq 0..last
      /\ rec.pc # "idle" =>
            \/ rec.status[k] = object.status[k]
            \/ /\ object.status[k] = 0 /\ rec.status[k] \in cloud[k]
               /\ rec.pc \notin DeleteSteps
  BY DEF LinkInv
<1>3. last' \in {last, last + 1}
  BY DEF Next, Creating, Deleting, vars, Start, Known, Adopt, CreateSimple,
     NatMissing, AllocateEIP, CreateNATGW, CreateULB, BindEIP, CreateVServer,
     PanicOnPartialULB, NoAddress, SetReady, BastionDone, CreateBastion,
     Refused, Skip, TerminateBastion, Delete, CleanGroup, DeleteNetwork,
     DeleteStrict, SkipLast, Fault, LostAnswer, Crash, Register, DeleteCluster,
     Close, NewResource, NoCloud
<1>4. 0..last \subseteq 0..last' /\ 0 \in 0..last'
  BY <1>1, <1>3
<1>5. CASE Quiet
  BY <1>2, <1>4, <1>5 DEF Quiet
<1>6. CASE \E j \in Owned : Adopted(j)
  <2>0. PICK j \in Owned : Adopted(j)
    BY <1>6
  <2>1. PICK id \in cloud[j] : Changed(j, id) /\ cloud' = cloud
    BY <2>0 DEF Adopted
  <2>2. CASE j = k
    <3>1. object.status[k] = 0
      BY <1>2, <2>1, <2>2, NumbersFacts, OwnedKinds
         DEF Changed, Owned, Networks
    <3>2. rec'.status[k] \in {0, id}
      BY <1>1, <2>1, <2>2 DEF Changed, Statuses
    <3> QED
      BY <1>2, <1>4, <2>1, <2>2, <3>1, <3>2 DEF Changed
  <2>3. CASE j # k
    <3>1. rec'.status[k] = rec.status[k]
      BY <1>1, <2>1, <2>3 DEF Changed, Statuses
    <3> QED
      BY <1>2, <1>4, <2>1, <3>1 DEF Changed, Owned, Networks
  <2> QED
    BY <2>2, <2>3
<1>7. CASE \E j \in Owned : Created(j)
  <2>1. PICK j \in Owned : Created(j)
    BY <1>7
  <2>2. /\ Changed(j, last') /\ last' = last + 1
        /\ cloud' = [cloud EXCEPT ![j] = @ \cup {last'}]
    BY <2>1 DEF Created, NewResource
  <2>3. last' \in 0..last'
    BY <1>1
  <2>4. CASE j = k
    <3>1. object.status[k] = 0
      BY <1>2, <2>2, <2>4 DEF Changed, Owned, Networks
    <3>2. rec'.status[k] \in {0, last'}
      BY <1>1, <2>2, <2>4 DEF Changed, Statuses
    <3>3. cloud'[k] = cloud[k] \cup {last'}
      BY <1>1, <2>2, <2>4
    <3> QED
      BY <1>2, <1>4, <2>2, <2>3, <3>1, <3>2, <3>3 DEF Changed
  <2>5. CASE j # k
    <3>1. rec'.status[k] = rec.status[k] /\ cloud'[k] = cloud[k]
      BY <1>1, <2>2, <2>5 DEF Changed, Statuses
    <3> QED
      BY <1>2, <1>4, <2>2, <3>1 DEF Changed, Owned, Networks
  <2> QED
    BY <2>4, <2>5
<1>8. CASE \E j \in Owned : Deleted(j)
  <2>1. rec.pc \in DeleteSteps /\ rec'.status = rec.status /\ object' = object
        /\ cloud'[k] \subseteq cloud[k]
    BY <1>1, <1>8 DEF Deleted
  <2>2. rec.status[k] = object.status[k]
    BY <1>2, <2>1 DEF DeleteSteps
  <2> QED
    BY <1>2, <1>4, <2>1, <2>2
<1>9. CASE Start
  BY <1>1, <1>2, <1>4, <1>9 DEF Start, NoCloud, NoReconcile
<1>10. CASE Close
  <2>1. cloud' = cloud /\ rec' = NoReconcile
        /\ object'.status[k] \in {object.status[k], rec.status[k]}
    BY <1>1, <1>10 DEF Close, NoCloud, Persisted, Objects
  <2> QED
    BY <1>1, <1>2, <1>4, <2>1 DEF NoReconcile, Nothing
<1>11. CASE Crash
  BY <1>1, <1>2, <1>4, <1>11 DEF Crash, NoCloud, NoReconcile, Nothing
<1>12. CASE DeleteCluster
  <2>1. object'.status = object.status /\ rec' = rec /\ cloud' = cloud
    BY <1>1, <1>12 DEF DeleteCluster, NoCloud, Objects
  <2> QED
    BY <1>2, <1>4, <2>1
<1> QED
  BY <1>5, <1>6, <1>7, <1>8, <1>9, <1>10, <1>11, <1>12, NetworkCases

\* A step of the reconcile is one of the promise, or changes nothing of it.
LEMMA NetworkStep ==
    ASSUME TypeOK, RemovalInv, LinkInv, [Next]_vars
    PROVE  [Network!Next]_(Network!vars)
<1> DEFINE issued == [k \in Owned |-> cloud[k] \cup
                         ({object.status[k], rec.status[k]} \ {0})]
           existing == [k \in Owned |-> cloud[k]]
           recorded == [k \in Owned |-> object.status[k]]
           open == object.present
<1>1. /\ rec \in Reconciles /\ object \in Objects
      /\ rec.status \in Statuses /\ cloud \in [Kinds -> SUBSET Ids]
      /\ object.status \in Statuses /\ object'.status \in Statuses
      /\ last \in Nat /\ 0 \notin Ids
      /\ rec.pc = "idle" => rec = NoReconcile
  BY TypeParts, ObjectStep, NumbersFacts, InfraAssumption
     DEF Reconciles, Objects
<1>2. \A k \in Owned :
        /\ k \in Recorded /\ k \in Kinds /\ k \notin Given
        /\ cloud[k] \cup {object.status[k], rec.status[k]} \subseteq 0..last
        /\ rec.pc # "idle" =>
              \/ rec.status[k] = object.status[k]
              \/ /\ object.status[k] = 0 /\ rec.status[k] \in cloud[k]
                 /\ rec.pc \notin DeleteSteps
  BY OwnedKinds DEF LinkInv
<1>3. ASSUME \A k \in Owned : cloud'[k] = cloud[k],
             \A k \in Owned : issued'[k] = issued[k],
             object'.status = object.status, open' = open
      PROVE  UNCHANGED <<issued, existing, recorded, open>>
  BY <1>3
<1>4. CASE Quiet
  <2>1. \A k \in Owned : issued'[k] = issued[k]
    BY <1>4 DEF Quiet
  <2> QED
    BY <1>3, <1>4, <2>1 DEF Quiet, Network!vars
<1>5. CASE \E k \in Owned : Adopted(k)
  <2>1. PICK k \in Owned : Adopted(k)
    BY <1>5
  <2>2. PICK id \in cloud[k] : Changed(k, id) /\ cloud' = cloud
    BY <2>1 DEF Adopted
  <2>3. \A j \in Owned : issued'[j] = issued[j]
    <3> SUFFICES ASSUME NEW j \in Owned PROVE issued'[j] = issued[j]
      OBVIOUS
    <3>1. CASE j = k
      BY <1>1, <1>2, <2>2, <3>1 DEF Changed, Statuses
    <3>2. CASE j # k
      BY <1>1, <1>2, <2>2, <3>2 DEF Changed, Statuses
    <3> QED
      BY <3>1, <3>2
  <2> QED
    BY <1>3, <2>2, <2>3 DEF Changed, Network!vars
<1>6. CASE \E k \in Owned : Created(k)
  <2>1. PICK k \in Owned : Created(k)
    BY <1>6
  <2>2. /\ Changed(k, last') /\ last' = last + 1 /\ last < Quota
        /\ cloud' = [cloud EXCEPT ![k] = @ \cup {last'}]
        /\ Matching(k) = {}
    BY <2>1 DEF Created, NewResource, Missing
  <2>3. last' \in Ids /\ last' # 0
    BY <1>1, <2>2, NumbersFacts, TypeParts
  <2>4. cloud[k] = {}
    BY <1>1, <1>2, <2>2, MatchingFacts DEF Owned
  <2>5. object.status[k] = 0 /\ object.present
    <3>1. rec.pc \in Networks /\ rec.status[k] = 0
      BY <2>2 DEF Changed, Owned
    <3> QED
      BY <1>2, <3>1 DEF Networks, RemovalInv
  <2>6. last' \notin issued[k]
    BY <1>1, <1>2, <2>2
  <2>7. /\ issued' = [issued EXCEPT ![k] = @ \cup {last'}]
        /\ existing' = [existing EXCEPT ![k] = @ \cup {last'}]
    <3>1. \A j \in Owned \ {k} :
              issued'[j] = issued[j] /\ existing'[j] = existing[j]
      BY <1>1, <1>2, <2>2 DEF Changed, Statuses
    <3>2. existing'[k] = existing[k] \cup {last'}
      BY <1>1, <1>2, <2>2
    <3>3. issued'[k] = issued[k] \cup {last'}
      BY <1>1, <1>2, <2>2, <2>3, <3>2 DEF Changed, Statuses
    <3> QED
      BY <3>1, <3>2, <3>3
  <2>8. recorded' = recorded /\ open' = open
    BY <2>2 DEF Changed
  <2>9. PICK id \in Ids : id = last'
    BY <2>3
  <2>10. Network!Create(k, id)
    BY <2>4, <2>5, <2>6, <2>7, <2>8, <2>9 DEF Network!Create
  <2>11. Network!Next
    BY <2>10 DEF Network!Next
  <2> QED
    BY <2>11
<1>7. CASE \E k \in Owned : Deleted(k)
  <2>1. PICK k \in Owned : Deleted(k)
    BY <1>7
  <2>2. /\ cloud' = [cloud EXCEPT ![k] = @ \ {rec.status[k]}]
        /\ rec'.status = rec.status /\ object' = object
        /\ rec.status[k] = object.status[k]
    BY <1>2, <2>1 DEF Deleted, DeleteSteps
  <2>3. CASE rec.status[k] \in cloud[k]
    <3>1. rec.status[k] # 0
      BY <1>1, <1>2, <2>3
    <3>2. \A j \in Owned : issued'[j] = issued[j]
      BY <1>1, <1>2, <2>2, <2>3, <3>1
    <3>3. issued' = issued
      BY <3>2
    <3>4. existing' = [existing EXCEPT ![k] = @ \ {rec.status[k]}]
      BY <1>1, <1>2, <2>2
    <3>5. Network!Delete(k)
      BY <2>2, <2>3, <3>3, <3>4 DEF Network!Delete
    <3> QED
      BY <3>5 DEF Network!Next
  <2>4. CASE rec.status[k] \notin cloud[k]
    <3>1. cloud' = cloud
      BY <1>1, <1>2, <2>2, <2>4
    <3> QED
      BY <2>2, <3>1 DEF Network!vars
  <2> QED
    BY <2>3, <2>4
<1>8. CASE Start
  <2>1. object' = object /\ cloud' = cloud /\ rec'.status = object.status
        /\ rec.status = Nothing
    BY <1>1, <1>8 DEF Start, NoCloud, NoReconcile
  <2>2. \A j \in Owned : issued'[j] = issued[j]
    BY <1>1, <1>2, <2>1 DEF Nothing
  <2> QED
    BY <1>3, <2>1, <2>2 DEF Network!vars
<1>9. CASE Crash
  <2>1. object' = object /\ cloud' = cloud /\ rec'.status = Nothing
    BY <1>9 DEF Crash, NoCloud, NoReconcile
  <2>2. rec.pc # "idle"
    BY <1>9, InfraAssumption DEF Crash, Faulty
  <2>3. \A j \in Owned : issued'[j] = issued[j]
    BY <1>1, <1>2, <2>1, <2>2 DEF Nothing
  <2> QED
    BY <1>3, <2>1, <2>3 DEF Network!vars
<1>10. CASE DeleteCluster
  <2>1. /\ object'.status = object.status /\ object'.present = object.fin
        /\ rec' = rec /\ cloud' = cloud /\ object.present
    BY <1>1, <1>10 DEF DeleteCluster, NoCloud, Objects
  <2>2. issued' = issued /\ existing' = existing /\ recorded' = recorded
    BY <2>1
  <2>3. CASE object.fin
    BY <2>1, <2>2, <2>3 DEF Network!vars
  <2>4. CASE ~object.fin
    <3>1. \A k \in Owned : recorded[k] = 0 /\ 0 \notin existing[k]
      BY <1>1, <1>2, <2>1, <2>4 DEF RemovalInv, Nothing
    <3> QED
      BY <2>1, <2>2, <2>4, <3>1 DEF Network!Next, Network!Close
  <2> QED
    BY <1>1, <2>3, <2>4 DEF Objects
<1>11. CASE Close
  <2>1. /\ rec.pc = "close" /\ cloud' = cloud /\ rec'.status = Nothing
        /\ object' = Persisted
    BY <1>11 DEF Close, NoCloud, NoReconcile
  <2>2. CASE ~object.present
    <3>1. object' = object
      BY <2>1, <2>2 DEF Persisted
    <3>2. \A j \in Owned : issued'[j] = issued[j]
      BY <1>1, <1>2, <2>1, <3>1 DEF Nothing
    <3> QED
      BY <1>3, <2>1, <3>1, <3>2 DEF Network!vars
  <2>3. CASE object.present
    <3>1. /\ object'.status = rec.status
          /\ object'.present = ~(object.deleting /\ ~rec.fin)
      BY <1>1, <2>1, <2>3 DEF Persisted, Objects
    <3>2. \A j \in Owned : issued'[j] = issued[j]
      BY <1>1, <1>2, <2>1, <3>1 DEF Nothing
    <3>3. issued' = issued /\ existing' = existing
      BY <2>1, <3>2
    <3>4. CASE object'.present
      <4>1. recorded' \in [Owned -> Ids \cup {0}]
        BY <1>1, <1>2, <3>1 DEF Statuses
      <4>2. \A k \in Owned : \/ recorded'[k] = recorded[k]
                             \/ recorded[k] = 0 /\ recorded'[k] \in issued[k]
        BY <1>2, <2>1, <3>1
      <4>3. Network!Record
        BY <2>3, <3>3, <3>4, <4>1, <4>2 DEF Network!Record
      <4> QED
        BY <4>3 DEF Network!Next
    <3>5. CASE ~object'.present
      <4>1. \A k \in Recorded : Gone(k)
        BY <2>1, <3>1, <3>5 DEF RemovalInv
      <4>2. \A k \in Owned : /\ rec.status[k] = object.status[k]
                             /\ rec.status[k] \notin cloud[k]
        BY <1>2, <2>1, <4>1 DEF Gone
      <4>3. recorded' = recorded
        BY <3>1, <4>2
      <4>4. Network!Close
        BY <2>3, <3>3, <3>5, <4>2, <4>3 DEF Network!Close
      <4> QED
        BY <4>4 DEF Network!Next
    <3> QED
      BY <3>4, <3>5
  <2> QED
    BY <2>2, <2>3
<1> QED
  BY <1>4, <1>5, <1>6, <1>7, <1>8, <1>9, <1>10, <1>11, NetworkCases

\* The cluster keeps the promise of OwnedResources for the group, and for the
\* VPC and the subnet unless they were given: each is created only when the
\* object names none and none exists, its recorded id is never swapped, and
\* the object goes after them.
THEOREM NetworksOwned == Spec => NetworkOwned
<1>1. Init => Network!Init /\ LinkInv
  <2> SUFFICES ASSUME Init PROVE Network!Init /\ LinkInv
    OBVIOUS
  <2>1. /\ object = NewObject /\ rec = NoReconcile /\ last = 0
        /\ \A k \in Owned : cloud[k] = {}
    BY OwnedKinds DEF Init
  <2>3. LinkInv
    BY <2>1, OwnedKinds DEF NewObject, NoReconcile, Nothing, LinkInv
  <2>4. \A k \in Owned : object.status[k] = 0 /\ rec.status[k] = 0
    BY <2>1, OwnedKinds DEF NewObject, NoReconcile, Nothing
  <2>6. object.present = TRUE
    BY <2>1 DEF NewObject
  <2>7. /\ [k \in Owned |-> cloud[k]] \in [Owned -> SUBSET Ids]
        /\ \A k \in Owned : [j \in Owned |-> cloud[j]][k] = {}
    BY <2>1
  <2>8. [k \in Owned |->
            cloud[k] \cup ({object.status[k], rec.status[k]} \ {0})]
           = [k \in Owned |-> cloud[k]]
    BY <2>4
  <2>9. [k \in Owned |-> object.status[k]] = [k \in Owned |-> 0]
    BY <2>4
  <2>10. Network!Init
    BY <2>6, <2>7, <2>8, <2>9 DEF Network!Init, Network!AtMostOne
  <2> QED
    BY <2>3, <2>10
<1>2. TypeOK /\ RemovalInv /\ LinkInv /\ [Next]_vars => LinkInv'
  BY LinkStep
<1>3. TypeOK /\ RemovalInv /\ LinkInv /\ [Next]_vars
         => [Network!Next]_(Network!vars)
  BY NetworkStep
<1> QED
  BY <1>1, <1>2, <1>3, TypeCorrect, RemovalAndGroup, PTL
     DEF Spec, NetworkOwned, Network!Spec
=============================================================================
