--------------------------- MODULE Wakeups_proofs ---------------------------
(***************************************************************************)
(* Theorems about Wakeups, for every number of machines, of changes of the *)
(* paused marks and of failures.  They are about the shape of the state    *)
(* and the order of a machine's writes; that no wake-up is lost is         *)
(* liveness and is TLC's.                                                  *)
(***************************************************************************)
EXTENDS Wakeups, TLAPS

\* The parts of an object in the API server.
UMachines == [life : {"absent", "live", "deleting", "gone"},
              owned : BOOLEAN, paused : BOOLEAN, fin : BOOLEAN,
              served : BOOLEAN]
Clusters == [present : BOOLEAN, paused : BOOLEAN, ready : BOOLEAN,
             deleting : BOOLEAN]
Owners == [present : BOOLEAN, bootstrap : BOOLEAN]

\* Of a machine: one that is served has its finalizer until it is gone; so has
\* one that is deleted, as nothing else keeps it in the API server, so that a
\* reconcile that still serves it finds the finalizer there; one that was never
\* there was never served.
Good(u) ==
    /\ u.served /\ u.life \in {"live", "deleting"} => u.fin
    /\ u.life = "deleting" => u.fin
    /\ u.life = "absent" => ~u.served

IInv == TypeOK /\ \A m \in Machines : Good(store.umachine[m])

\* The part of the types that no action but its own writes.
LEMMA ObjectsParts ==
    ASSUME NEW s \in Objects, NEW m \in Machines
    PROVE  /\ s.umachine \in [Machines -> UMachines]
           /\ s.machine \in [Machines -> Owners]
           /\ s.umachine[m] \in UMachines
           /\ \A u \in UMachines : [s EXCEPT !.umachine[m] = u] \in Objects
           /\ \A o \in Owners : [s EXCEPT !.machine[m] = o] \in Objects
BY DEF Objects, UMachines, Owners

\* A write to the Cluster leaves the machines as they are.
LEMMA OtherParts ==
    ASSUME NEW s \in Objects
    PROVE  /\ s.cluster \in Clusters
           /\ \A c \in Clusters :
                 /\ [s EXCEPT !.cluster = c] \in Objects
                 /\ [s EXCEPT !.cluster = c].umachine = s.umachine
BY DEF Objects, Clusters

\* A step that writes one machine, or none, in the API server.
LEMMA UMachineUpdate ==
    ASSUME IInv, NEW m \in Machines, NEW u \in UMachines, Good(u),
           store' = [store EXCEPT !.umachine[m] = u],
           cache' \in Objects, queue' \subseteq Keys,
           rec' \in [Keys -> {"idle", "register", "serve", "unwind"}],
           pauses' \in 0..MaxPauses, faults' \in 0..MaxFaults
    PROVE  IInv'
<1>1. store' \in Objects
  BY ObjectsParts DEF IInv, TypeOK
<1>2. \A n \in Machines :
         store'.umachine[n] = IF n = m THEN u ELSE store.umachine[n]
  BY DEF IInv, TypeOK, Objects
<1>3. \A n \in Machines : Good(store'.umachine[n])
  BY <1>2 DEF IInv
<1> QED
  BY <1>1, <1>3 DEF IInv, TypeOK, Good, Exists

\* A step that writes no machine.
LEMMA OtherUpdate ==
    ASSUME IInv, store' \in Objects, store'.umachine = store.umachine,
           cache' \in Objects, queue' \subseteq Keys,
           rec' \in [Keys -> {"idle", "register", "serve", "unwind"}],
           pauses' \in 0..MaxPauses, faults' \in 0..MaxFaults
    PROVE  IInv'
<1>1. \A n \in Machines : Good(store'.umachine[n])
  BY DEF IInv
<1> QED
  BY <1>1 DEF IInv, TypeOK, Good, Exists

\* The keys of the events are keys.
LEMMA EverythingKeys ==
    ASSUME NEW c
    PROVE  OnEverything(c) \subseteq Keys
<1> DEFINE own == UNION {OnUCloudMachine(c, m) :
                            m \in {x \in Machines : Exists(c, x)}}
           cluster == IF c.ucloud.present THEN OnUCloudCluster(c) ELSE {}
<1>1. own \subseteq Keys
  BY DEF OnUCloudMachine, Keys
<1>2. cluster \subseteq Keys /\ Listed(c) \subseteq Keys
  BY DEF OnUCloudCluster, Listed, Keys
<1>3. OnEverything(c) = own \cup Listed(c) \cup cluster
  BY DEF OnEverything
<1> HIDE DEF own, cluster
<1> QED
  BY <1>1, <1>2, <1>3

\* Nothing exists in the beginning.
LEMMA TypeInit == Init => IInv
<1> SUFFICES ASSUME Init PROVE IInv
  OBVIOUS
<1>1. NoObjects \in Objects
  BY DEF NoObjects, Objects
<1>2. \A m \in Machines : /\ ~NoObjects.umachine[m].served
                          /\ NoObjects.umachine[m].life = "absent"
  BY DEF NoObjects
<1>3. 0 \in 0..MaxPauses /\ 0 \in 0..MaxFaults
  BY WakeupsAssumption
<1> QED
  BY <1>1, <1>2, <1>3 DEF Init, IInv, TypeOK, Good

\* Every update of a cache shows an object as it is.
LEMMA TypeInformers ==
    ASSUME IInv, Informers \/ Resync
    PROVE  IInv'
<1>0. /\ store \in Objects /\ cache \in Objects /\ queue \subseteq Keys
      /\ rec \in [Keys -> {"idle", "register", "serve", "unwind"}]
      /\ pauses \in 0..MaxPauses /\ faults \in 0..MaxFaults
  BY DEF IInv, TypeOK
<1>1. ASSUME NEW new \in Objects, NEW keys \in SUBSET Keys, Update(new, keys)
      PROVE  IInv'
  BY <1>0, <1>1, OtherUpdate DEF Update
<1>2. CASE SyncCluster
  <2> DEFINE new == [cache EXCEPT !.cluster = store.cluster]
  <2>1. new \in Objects
    BY <1>0 DEF Objects
  <2>2. OnCluster(cache.cluster, new) \in SUBSET Keys
    BY DEF OnCluster, Listed, Keys
  <2> QED
    BY <1>1, <1>2, <2>1, <2>2 DEF SyncCluster
<1>3. CASE SyncUCloudCluster
  <2> DEFINE new == [cache EXCEPT !.ucloud = store.ucloud]
  <2>1. new \in Objects
    BY <1>0 DEF Objects
  <2>2. OnUCloudCluster(new) \in SUBSET Keys
    BY DEF OnUCloudCluster, Listed, Keys
  <2> QED
    BY <1>1, <1>3, <2>1, <2>2 DEF SyncUCloudCluster
<1>4. ASSUME NEW m \in Machines, SyncMachine(m) PROVE IInv'
  <2> DEFINE new == [cache EXCEPT !.machine[m] = store.machine[m]]
  <2>1. store.machine[m] \in Owners
    BY <1>0, ObjectsParts
  <2>2. new \in Objects
    BY <1>0, <2>1, ObjectsParts
  <2>3. OnMachine(m) \in SUBSET Keys
    BY DEF OnMachine, Keys
  <2> QED
    BY <1>1, <1>4, <2>2, <2>3 DEF SyncMachine
<1>5. ASSUME NEW m \in Machines, SyncUCloudMachine(m) PROVE IInv'
  <2> DEFINE new == [cache EXCEPT !.umachine[m] = store.umachine[m]]
  <2>1. new \in Objects
    BY <1>0, ObjectsParts
  <2>2. OnUCloudMachine(new, m) \in SUBSET Keys
    BY DEF OnUCloudMachine, Keys
  <2> QED
    BY <1>1, <1>5, <2>1, <2>2 DEF SyncUCloudMachine
<1>6. CASE Resync
  BY <1>0, <1>6, EverythingKeys, OtherUpdate DEF Resync
<1> QED
  BY <1>2, <1>3, <1>4, <1>5, <1>6 DEF Informers

\* A machine is served in a write that leaves it its finalizer, and only the
\* write that removes a machine takes the finalizer away.
LEMMA TypeWorkMachine ==
    ASSUME IInv, NEW m \in Machines, WorkMachine(m)
    PROVE  IInv'
<1> DEFINE u == store.umachine[m]
           a == IF rec[m] = "unwind" THEN "gone" ELSE u.life
           b == rec[m] # "unwind" /\ (u.fin \/ u.life = "live")
           d == u.served \/ rec[m] = "serve"
           new == [u EXCEPT !.life = a, !.fin = b, !.served = d]
<1>1. /\ store \in Objects /\ m \in Keys /\ Good(u)
      /\ cache' \in Objects /\ queue' \subseteq Keys
      /\ rec' \in [Keys -> {"idle", "register", "serve", "unwind"}]
      /\ pauses' \in 0..MaxPauses /\ faults' \in 0..MaxFaults
  BY DEF IInv, TypeOK, WorkMachine, Finish, Keys
<1>2. CASE ~Exists(store, m)
  <2>1. store' = store
    BY <1>2 DEF WorkMachine
  <2> QED
    BY <1>1, <2>1, OtherUpdate
<1>3. CASE Exists(store, m)
  <2>1. u \in UMachines /\ u.life \in {"live", "deleting"}
    BY <1>1, <1>3, ObjectsParts DEF Exists
  <2>2. store' = [store EXCEPT !.umachine[m].life = a, !.umachine[m].fin = b,
                               !.umachine[m].served = d]
    BY <1>3, Zenon DEF WorkMachine
  <2>3. store' = [store EXCEPT !.umachine[m] = new]
    <3> HIDE DEF a, b, d
    <3> QED
      BY <1>1, <2>2 DEF Objects
  <2>4. a \in {"live", "deleting", "gone"} /\ b \in BOOLEAN /\ d \in BOOLEAN
    BY <2>1 DEF UMachines
  <2>5. a \in {"live", "deleting"} => b
    BY <1>1, <2>1 DEF Good
  <2>6. /\ new \in UMachines
        /\ new.life = a /\ new.fin = b /\ new.served = d
    <3> HIDE DEF a, b, d
    <3> QED
      BY <2>1, <2>4 DEF UMachines
  <2>7. Good(new)
    <3> HIDE DEF a, b, d, new
    <3> QED
      BY <2>4, <2>5, <2>6 DEF Good
  <2> QED
    <3> HIDE DEF new
    <3> QED
      BY <1>1, <2>3, <2>6, <2>7, UMachineUpdate
<1> QED
  BY <1>2, <1>3

\* The other steps of the workers write no machine.
LEMMA TypeWorkers ==
    ASSUME IInv,
           \/ TakeCluster \/ WorkCluster \/ Crash
           \/ \E m \in Machines : TakeMachine(m)
           \/ \E k \in Keys : Fault(k)
    PROVE  IInv'
<1>0. /\ store \in Objects /\ cache \in Objects /\ queue \subseteq Keys
      /\ rec \in [Keys -> {"idle", "register", "serve", "unwind"}]
      /\ pauses \in 0..MaxPauses /\ faults \in 0..MaxFaults
      /\ Cluster \in Keys /\ Machines \subseteq Keys
  BY DEF IInv, TypeOK, Keys
<1>1. CASE TakeCluster
  BY <1>0, <1>1, OtherUpdate DEF TakeCluster
<1>2. CASE WorkCluster
  <2>1. store' \in Objects /\ store'.umachine = store.umachine
    BY <1>0, <1>2 DEF WorkCluster, Objects
  <2> QED
    BY <1>0, <1>2, <2>1, OtherUpdate DEF WorkCluster, Finish
<1>3. ASSUME NEW m \in Machines, TakeMachine(m) PROVE IInv'
  <2>1. rec' \in [Keys -> {"idle", "register", "serve", "unwind"}]
    BY <1>0, <1>3 DEF TakeMachine
  <2> QED
    BY <1>0, <1>3, <2>1, OtherUpdate DEF TakeMachine
<1>4. ASSUME NEW k \in Keys, Fault(k) PROVE IInv'
  <2>1. faults' \in 0..MaxFaults
    BY <1>0, <1>4, WakeupsAssumption DEF Fault
  <2> QED
    BY <1>0, <1>4, <2>1, OtherUpdate DEF Fault, Finish
<1>5. CASE Crash
  <2>1. faults' \in 0..MaxFaults
    BY <1>0, <1>5, WakeupsAssumption DEF Crash
  <2>2. queue' \subseteq Keys
    BY <1>5, EverythingKeys DEF Crash
  <2> QED
    BY <1>0, <1>5, <2>1, <2>2, OtherUpdate DEF Crash
<1> QED
  BY <1>1, <1>2, <1>3, <1>4, <1>5

\* The user and the Cluster API controllers: a machine is deleted under its
\* finalizer or at once.
LEMMA TypeEnvironment ==
    ASSUME IInv, Environment
    PROVE  IInv'
<1>0. /\ store \in Objects /\ cache \in Objects /\ queue \subseteq Keys
      /\ rec \in [Keys -> {"idle", "register", "serve", "unwind"}]
      /\ pauses \in 0..MaxPauses /\ faults \in 0..MaxFaults
  BY DEF IInv, TypeOK
<1>1. ASSUME store' \in Objects, store'.umachine = store.umachine, Others
      PROVE  IInv'
  BY <1>0, <1>1, OtherUpdate DEF Others
<1>2. ASSUME NEW m \in Machines, NEW u \in UMachines, Good(u), Others,
             store' = [store EXCEPT !.umachine[m] = u]
      PROVE  IInv'
  BY <1>0, <1>2, UMachineUpdate DEF Others
<1>3. CASE CreateCluster \/ SetInfrastructureReady \/ DeleteCluster
  <2>1. ASSUME NEW c \in Clusters, store' = [store EXCEPT !.cluster = c]
        PROVE  store' \in Objects /\ store'.umachine = store.umachine
    BY <1>0, <2>1, OtherParts
  <2>2. store.cluster \in Clusters
    BY <1>0, OtherParts
  <2>3. ASSUME store' = [store EXCEPT !.cluster.present = TRUE]
        PROVE  store' \in Objects /\ store'.umachine = store.umachine
    <3> DEFINE c == [store.cluster EXCEPT !.present = TRUE]
    <3>1. c \in Clusters
      BY <2>2 DEF Clusters
    <3>2. store' = [store EXCEPT !.cluster = c]
      BY <1>0, <2>3 DEF Objects
    <3> HIDE DEF c
    <3> QED
      BY <2>1, <3>1, <3>2
  <2>4. ASSUME store' = [store EXCEPT !.cluster.ready = TRUE]
        PROVE  store' \in Objects /\ store'.umachine = store.umachine
    <3> DEFINE c == [store.cluster EXCEPT !.ready = TRUE]
    <3>1. c \in Clusters
      BY <2>2 DEF Clusters
    <3>2. store' = [store EXCEPT !.cluster = c]
      BY <1>0, <2>4 DEF Objects
    <3> HIDE DEF c
    <3> QED
      BY <2>1, <3>1, <3>2
  <2>5. ASSUME store' = [store EXCEPT !.cluster.deleting = TRUE]
        PROVE  store' \in Objects /\ store'.umachine = store.umachine
    <3> DEFINE c == [store.cluster EXCEPT !.deleting = TRUE]
    <3>1. c \in Clusters
      BY <2>2 DEF Clusters
    <3>2. store' = [store EXCEPT !.cluster = c]
      BY <1>0, <2>5 DEF Objects
    <3> HIDE DEF c
    <3> QED
      BY <2>1, <3>1, <3>2
  <2> QED
    BY <1>1, <1>3, <2>3, <2>4, <2>5 DEF CreateCluster, SetInfrastructureReady,
       DeleteCluster
<1>4. CASE CreateUCloudCluster \/ SetClusterOwner
  <2>1. CASE CreateUCloudCluster
    <3>1. store' \in Objects /\ store'.umachine = store.umachine
      BY <1>0, <2>1 DEF CreateUCloudCluster, Objects
    <3> QED
      BY <1>1, <2>1, <3>1 DEF CreateUCloudCluster
  <2>2. CASE SetClusterOwner
    <3>1. store' \in Objects /\ store'.umachine = store.umachine
      BY <1>0, <2>2 DEF SetClusterOwner, Objects
    <3> QED
      BY <1>1, <2>2, <3>1 DEF SetClusterOwner
  <2> QED
    BY <1>4, <2>1, <2>2
<1>5. ASSUME NEW m \in Machines, CreateMachine(m) PROVE IInv'
  <2>1. PICK named \in BOOLEAN :
           store' = [store EXCEPT
                       !.machine[m] = [present |-> TRUE, bootstrap |-> named]]
    BY <1>5 DEF CreateMachine
  <2>2. store' \in Objects /\ store'.umachine = store.umachine
    BY <1>0, <2>1 DEF Objects
  <2> QED
    BY <1>1, <1>5, <2>2 DEF CreateMachine
<1>6. ASSUME NEW m \in Machines, SetBootstrap(m) PROVE IInv'
  <2> DEFINE owner == [store.machine[m] EXCEPT !.bootstrap = TRUE]
  <2>1. owner \in Owners
    <3>1. store.machine[m] \in Owners
      BY <1>0, ObjectsParts
    <3> QED
      BY <3>1 DEF Owners
  <2>2. store' = [store EXCEPT !.machine[m] = owner]
    BY <1>0, <1>6 DEF SetBootstrap, Objects
  <2>3. store' \in Objects /\ store'.umachine = store.umachine
    <3> HIDE DEF owner
    <3>1. store' \in Objects
      BY <1>0, <2>1, <2>2, ObjectsParts
    <3>2. store'.umachine = store.umachine
      BY <1>0, <2>2 DEF Objects
    <3> QED
      BY <3>1, <3>2
  <2> QED
    BY <1>1, <1>6, <2>3 DEF SetBootstrap
<1>7. ASSUME NEW m \in Machines,
             CreateUCloudMachine(m) \/ SetMachineOwner(m) \/ DeleteMachine(m)
      PROVE  IInv'
  <2> DEFINE u == store.umachine[m]
             live == [u EXCEPT !.life = "live"]
             owned == [u EXCEPT !.owned = TRUE]
             deleted == [u EXCEPT
                            !.life = IF u.fin THEN "deleting" ELSE "gone"]
  <2>1. u \in UMachines /\ Good(u)
    BY <1>0, ObjectsParts DEF IInv
  <2>2. CASE CreateUCloudMachine(m)
    <3>1. store' = [store EXCEPT !.umachine[m] = live] /\ u.life = "absent"
      BY <1>0, <2>2 DEF CreateUCloudMachine, Objects
    <3>2. live \in UMachines /\ Good(live)
      BY <2>1, <3>1 DEF UMachines, Good
    <3> QED
      BY <1>2, <2>2, <3>1, <3>2 DEF CreateUCloudMachine
  <2>3. CASE SetMachineOwner(m)
    <3>1. store' = [store EXCEPT !.umachine[m] = owned]
      BY <1>0, <2>3 DEF SetMachineOwner, Objects
    <3>2. owned \in UMachines /\ Good(owned)
      BY <2>1 DEF UMachines, Good
    <3> QED
      BY <1>2, <2>3, <3>1, <3>2 DEF SetMachineOwner
  <2>4. CASE DeleteMachine(m)
    <3>1. store' = [store EXCEPT !.umachine[m] = deleted]
      BY <1>0, <2>4 DEF DeleteMachine, Objects
    <3>2. deleted \in UMachines /\ Good(deleted)
      BY <2>1 DEF UMachines, Good
    <3> QED
      BY <1>2, <2>4, <3>1, <3>2 DEF DeleteMachine
  <2> QED
    BY <1>7, <2>2, <2>3, <2>4
<1>8. CASE Pause
  <2>1. /\ pauses' \in 0..MaxPauses
        /\ UNCHANGED <<cache, queue, rec, faults>>
    BY <1>0, <1>8, WakeupsAssumption DEF Pause
  <2>2. CASE store' = [store EXCEPT !.cluster.paused = ~@]
    <3>1. store' \in Objects /\ store'.umachine = store.umachine
      BY <1>0, <2>2 DEF Objects
    <3> QED
      BY <1>0, <2>1, <3>1, OtherUpdate
  <2>3. ASSUME NEW m \in Machines,
               store' = [store EXCEPT !.umachine[m].paused = ~@]
        PROVE  IInv'
    <3> DEFINE u == store.umachine[m]
               new == [u EXCEPT !.paused = ~@]
    <3>1. u \in UMachines /\ Good(u)
      BY <1>0, ObjectsParts DEF IInv
    <3>2. new \in UMachines /\ Good(new)
      BY <3>1 DEF UMachines, Good
    <3>3. store' = [store EXCEPT !.umachine[m] = new]
      BY <1>0, <2>3 DEF Objects
    <3> HIDE DEF new
    <3> QED
      BY <1>0, <2>1, <3>2, <3>3, UMachineUpdate
  <2> QED
    BY <1>8, <2>2, <2>3 DEF Pause
<1> QED
  BY <1>3, <1>4, <1>5, <1>6, <1>7, <1>8 DEF Environment

\* Objects, caches and queues keep their shape whatever the users, the
\* Cluster API controllers and the failures do, and a machine is served under
\* its finalizer only, however old the copy was that decided to serve it.
THEOREM TypeCorrect == Spec => []TypeOK
<1>1. IInv /\ [Next]_vars => IInv'
  <2> SUFFICES ASSUME IInv, [Next]_vars PROVE IInv'
    OBVIOUS
  <2>1. CASE Next
    BY <2>1, TypeInformers, TypeWorkMachine, TypeWorkers, TypeEnvironment
       DEF Next
  <2>2. CASE UNCHANGED vars
    BY <2>2 DEF vars, IInv, TypeOK, Good, Exists
  <2> QED
    BY <2>1, <2>2
<1>2. IInv => TypeOK
  BY DEF IInv
<1> QED
  BY TypeInit, <1>1, <1>2, PTL DEF Spec
=============================================================================
