------------------------ MODULE UCloudMachine_proofs ------------------------
(***************************************************************************)
(* Theorems about UCloudMachine, for any quota of instances and any number *)
(* of faults and upsets, with and without a stale cache.                   *)
(***************************************************************************)
EXTENDS UCloudMachine, TLAPS

\* The reconciles that may be in flight.
Reconciles == [pc : Steps, before : Objects, copy : Objects,
               host : Hosts \cup {None}]

\* The part of TypeOK that patches must preserve.
KeptByFinalizer(obj) == obj.life = "deleting" => obj.fin

-----------------------------------------------------------------------------
(* Patches.                                                                *)

\* What a patch may do to the object: it stays an object, a live one is not
\* removed, a deleted one is not revived, and the finalizer is what the copy
\* says if the copy changed it.
LEMMA PatchFacts ==
    ASSUME NEW obj \in Objects, NEW before \in Objects, NEW copy \in Objects,
           KeptByFinalizer(obj),
           NEW new, new \in {obj, Patched(obj, before, copy),
                             ResourcePatched(obj, before, copy),
                             StatusPatched(obj, before, copy)}
    PROVE  /\ new \in Objects
           /\ KeptByFinalizer(new)
           /\ obj.life = "gone" => new = obj
           /\ obj.life = "live" => new.life = "live"
           /\ obj.life = "deleting" => new.life \in {"deleting", "gone"}
           /\ new.life # "gone" => \/ new.fin = obj.fin
                                   \/ /\ copy.fin # before.fin
                                      /\ new.fin = copy.fin
<1> DEFINE sent == IF copy.fin # before.fin THEN copy.fin ELSE obj.fin
<1>1. CASE obj.life = "gone"
  BY <1>1 DEF Patched, ResourcePatched, StatusPatched, KeptByFinalizer
<1>2. CASE obj.life # "gone"
  <2> DEFINE res == ResourcePatched(obj, before, copy)
  <2>1. /\ res \in Objects
        /\ res.fin = sent
        /\ res.life = IF obj.life = "deleting" /\ ~sent THEN "gone"
                      ELSE obj.life
    BY <1>2 DEF ResourcePatched, Objects
  <2>2. ASSUME NEW o \in Objects
        PROVE  LET st == StatusPatched(o, before, copy) IN
               st \in Objects /\ st.fin = o.fin /\ st.life = o.life
    BY DEF StatusPatched, Objects
  <2>3. CASE new = obj
    BY <1>2, <2>3
  <2>4. CASE new = res
    BY <1>2, <2>1, <2>4 DEF KeptByFinalizer, Objects
  <2>5. CASE new = StatusPatched(obj, before, copy)
    BY <1>2, <2>2, <2>5 DEF KeptByFinalizer
  <2>6. CASE new = Patched(obj, before, copy)
    <3>1. new \in Objects /\ new.fin = res.fin /\ new.life = res.life
      BY <2>1, <2>2, <2>6 DEF Patched
    <3> QED
      BY <1>2, <2>1, <3>1 DEF KeptByFinalizer, Objects
  <2> QED
    BY <2>3, <2>4, <2>5, <2>6
<1> QED
  BY <1>1, <1>2

-----------------------------------------------------------------------------
(* Types.                                                                  *)

\* The initial state has the types.
LEMMA TypeInit == Init => TypeOK
<1>1. NoObject \in Objects /\ NoObject.life = "live"
  BY DEF NoObject, Objects
<1>2. NoReconcile \in [pc : Steps, before : Objects, copy : Objects,
                      host : Hosts \cup {None}]
  BY <1>1 DEF NoReconcile, Steps
<1>3. 0 \in 0..MaxFaults /\ 0 \in 0..MaxUpsets
  BY MachineAssumption
<1> QED
  BY <1>1, <1>2, <1>3 DEF Init, TypeOK, UHostStates

\* The reconcile in flight and the object are what a step needs to type.
RecordsTyped ==
    /\ object \in Objects /\ KeptByFinalizer(object)
    /\ rec \in Reconciles
    /\ rec.pc = "idle" => rec = NoReconcile

\* TypeOK, with the records apart from the rest.
LEMMA TypeParts ==
    TypeOK <=> /\ RecordsTyped
               /\ cached \in Objects
               /\ uhost \in [Hosts -> UHostStates]
               /\ backends \subseteq Hosts /\ capuHosts \subseteq Hosts
               /\ owner \in BOOLEAN /\ prepared \in BOOLEAN
               /\ faults \in 0..MaxFaults /\ upsets \in 0..MaxUpsets
BY DEF TypeOK, RecordsTyped, Reconciles, KeptByFinalizer

\* The idle reconciler's record is one of them.
LEMMA NoReconcileType == NoReconcile \in Reconciles
BY DEF NoReconcile, NoObject, Reconciles, Objects, Steps

\* Deferred patches end the reconcile.
LEMMA EndTyped ==
    ASSUME RecordsTyped,
           object' \in {object, Patched(object, rec.before, rec.copy),
                        ResourcePatched(object, rec.before, rec.copy),
                        StatusPatched(object, rec.before, rec.copy)}
    PROVE  object' \in Objects /\ KeptByFinalizer(object)'
<1>1. /\ object \in Objects /\ KeptByFinalizer(object)
      /\ rec.before \in Objects /\ rec.copy \in Objects
  BY DEF RecordsTyped, Reconciles
<1>2. object' \in Objects /\ KeptByFinalizer(object')
  BY <1>1, PatchFacts
<1> QED
  BY <1>2 DEF KeptByFinalizer

\* A step that goes on with the reconcile.
LEMMA GoOnTyped ==
    ASSUME RecordsTyped, NEW p \in Steps \ {"idle"},
           NEW c \in Objects, NEW h \in Hosts \cup {None},
           rec' = [rec EXCEPT !.pc = p, !.copy = c, !.host = h]
    PROVE  rec' \in Reconciles /\ rec'.pc # "idle"
BY DEF RecordsTyped, Reconciles

\* The steps of a reconcile, of its failures and of the users.
LEMMA RecordsStep == TypeOK /\ [Next]_vars => RecordsTyped'
<1> SUFFICES ASSUME TypeOK, [Next]_vars PROVE RecordsTyped'
  OBVIOUS
<1>0. /\ RecordsTyped /\ object \in Objects /\ KeptByFinalizer(object)
      /\ rec \in Reconciles /\ cached \in Objects
      /\ rec.pc \in Steps /\ rec.copy \in Objects /\ rec.before \in Objects
      /\ rec.host \in Hosts \cup {None} /\ rec.copy.id \in Hosts \cup {None}
  BY TypeParts DEF RecordsTyped, Reconciles, Objects
<1> DEFINE ObjectTyped == object' \in Objects /\ KeptByFinalizer(object)'
           RecTyped == rec' \in Reconciles
                       /\ (rec'.pc = "idle" => rec' = NoReconcile)
<1>1. ObjectTyped /\ RecTyped => RecordsTyped'
  BY DEF RecordsTyped, KeptByFinalizer
<1>2. UNCHANGED object => ObjectTyped
  BY <1>0 DEF KeptByFinalizer
<1>3. UNCHANGED rec => RecTyped
  BY <1>0 DEF RecordsTyped, NoReconcile
<1>4. rec' = NoReconcile => RecTyped
  BY NoReconcileType
<1>5. ASSUME NEW p \in Steps \ {"idle"}, Goto(p) PROVE RecTyped
  BY <1>0, <1>5 DEF Goto, Reconciles
<1>6. ASSUME NEW p \in Steps \ {"idle"}, NEW c \in Objects,
             NEW h \in Hosts \cup {None},
             rec' = [rec EXCEPT !.pc = p, !.copy = c, !.host = h]
      PROVE  RecTyped
  BY <1>0, <1>6, GoOnTyped
<1>7. {"register", "lookup", "deleteOwner", "create", "await", "addBackend",
       "dropBackend", "join", "lookupDeleted", "drain", "leave", "poweroff",
       "terminate", "close"} = Steps \ {"idle"}
  BY DEF Steps
<1>8. ASSUME NEW h \in Hosts \cup {None}, NEW state, Serve(h, state)
      PROVE  RecTyped
  <2>1. Served(h, state, rec.copy) \in Objects
    BY <1>0 DEF Served, Objects
  <2>2. StepFor(state) \in Steps \ {"idle"}
    BY DEF StepFor, Steps
  <2>3. rec' = [rec EXCEPT !.pc = StepFor(state),
                           !.copy = Served(h, state, rec.copy), !.host = h]
    BY <1>0, <1>8 DEF Serve, Reconciles
  <2> QED
    BY <1>6, <2>1, <2>2, <2>3
<1>9. CASE Start
  <2>1. Seen \in Objects
    BY <1>0 DEF Seen
  <2>2. [Seen EXCEPT !.fin = @ \/ Seen.life = "live"] \in Objects
    BY <2>1 DEF Objects
  <2>3. rec' \in Reconciles /\ rec'.pc # "idle"
    BY <1>9, <2>1, <2>2 DEF Start, Reconciles, Steps
  <2> QED
    BY <1>1, <1>2, <1>9, <2>3 DEF Start
<1>10. CASE Register
  <2>1. RecTyped
    BY <1>5, <1>7, <1>10 DEF Register
  <2>2. ObjectTyped
    BY <1>0, <1>10, EndTyped DEF Register
  <2> QED
    BY <1>1, <2>1, <2>2
<1>11. CASE LookupFound \/ LookupStateless \/ AwaitRunning
  BY <1>0, <1>1, <1>2, <1>8, <1>11
     DEF LookupFound, LookupStateless, AwaitRunning
<1>12. CASE \/ LookupNone \/ DeleteOwner \/ CreateRefused \/ AwaitTimeout
            \/ AddRealServer \/ DelRealServer("dropBackend", "join")
            \/ DelRealServer("drain", "leave") \/ DeleteCAPUHost
            \/ Fault \/ LostAnswer
  <2>1. UNCHANGED object
    BY <1>12 DEF LookupNone, DeleteOwner, CreateRefused, AwaitTimeout,
       AddRealServer, DelRealServer, DeleteCAPUHost, Fault, LostAnswer
  <2>2. RecTyped
    BY <1>5, <1>7, <1>12 DEF LookupNone, DeleteOwner, CreateRefused,
       AwaitTimeout, AddRealServer, DelRealServer, DeleteCAPUHost, Fault,
       LostAnswer
  <2> QED
    BY <1>1, <1>2, <2>1, <2>2
<1>13. CASE LookupMissing
  <2>1. rec' \in Reconciles /\ rec'.pc # "idle"
    BY <1>0, <1>13 DEF LookupMissing, Reconciles, Objects, Steps
  <2> QED
    BY <1>1, <1>2, <1>13, <2>1 DEF LookupMissing
<1>14. CASE Create
  <2>1. rec' \in Reconciles /\ rec'.pc # "idle"
    BY <1>0, <1>14 DEF Create, Reconciles, Steps
  <2> QED
    BY <1>1, <1>2, <1>14, <2>1 DEF Create
<1>15. ASSUME rec' = [rec EXCEPT !.pc = "close", !.copy.fin = FALSE]
       PROVE  RecTyped
  <2>1. [rec.copy EXCEPT !.fin = FALSE] \in Objects
    BY <1>0 DEF Objects
  <2>2. rec' = [rec EXCEPT !.pc = "close", !.host = rec.host,
                           !.copy = [rec.copy EXCEPT !.fin = FALSE]]
    BY <1>0, <1>15 DEF Reconciles
  <2>3. "close" \in Steps \ {"idle"}
    BY DEF Steps
  <2>4. rec' \in Reconciles /\ rec'.pc # "idle"
    BY <1>0, <2>1, <2>2, <2>3 DEF Reconciles
  <2> QED
    BY <2>4
<1>16. CASE LookupDeletedFound
  <2>1. rec.copy.id \in Hosts
    BY <1>16 DEF LookupDeletedFound, InCloud
  <2>2. rec' \in Reconciles /\ rec'.pc # "idle"
    BY <1>0, <1>16, <2>1 DEF LookupDeletedFound, Reconciles, Steps
  <2> QED
    BY <1>1, <1>2, <1>16, <2>2 DEF LookupDeletedFound
<1>17. CASE PowerOff
  <2>1. CASE Goto("terminate")
    BY <1>1, <1>2, <1>5, <1>7, <1>17, <2>1 DEF PowerOff
  <2>2. CASE rec' = [rec EXCEPT !.pc = "close", !.copy.fin = FALSE]
    BY <1>1, <1>2, <1>15, <1>17, <2>2 DEF PowerOff
  <2> QED
    BY <1>17, <2>1, <2>2 DEF PowerOff
<1>18. CASE LookupDeletedNone \/ Terminate
  BY <1>1, <1>2, <1>15, <1>18 DEF LookupDeletedNone, Terminate
<1>19. CASE CreateCAPUHost
  <2>1. [rec.copy EXCEPT !.joined = TRUE] \in Objects
    BY <1>0 DEF Objects
  <2>2. rec' = [rec EXCEPT !.pc = "close", !.host = rec.host,
                           !.copy = [rec.copy EXCEPT !.joined = TRUE]]
    BY <1>0, <1>19 DEF CreateCAPUHost, Reconciles
  <2>3. "close" \in Steps \ {"idle"}
    BY DEF Steps
  <2>4. rec' \in Reconciles /\ rec'.pc # "idle"
    BY <1>0, <2>1, <2>2, <2>3 DEF Reconciles
  <2> QED
    BY <1>1, <1>2, <1>19, <2>4 DEF CreateCAPUHost
<1>20. CASE Close \/ CloseFault \/ Panic
  <2>1. ObjectTyped
    BY <1>0, <1>20, EndTyped DEF Close, CloseFault, Panic
  <2> QED
    BY <1>1, <1>4, <1>20, <2>1 DEF Close, CloseFault, Panic
<1>21. CASE Crash
  BY <1>1, <1>2, <1>4, <1>21 DEF Crash
<1>22. CASE DeleteMachine
  <2>1. ObjectTyped
    BY <1>0, <1>22 DEF DeleteMachine, Objects, KeptByFinalizer
  <2> QED
    BY <1>1, <1>3, <1>22, <2>1 DEF DeleteMachine
<1>23. CASE \/ Sync \/ Prepare \/ UNCHANGED vars
            \/ \E h \in Hosts : CloudStep(h) \/ Upset(h)
  BY <1>1, <1>2, <1>3, <1>23 DEF Sync, Prepare, CloudStep, Upset, vars
<1> QED
  BY <1>9, <1>10, <1>11, <1>12, <1>13, <1>14, <1>16, <1>17, <1>18, <1>19,
     <1>20, <1>21, <1>22, <1>23 DEF Next, Running

\* The steps that work on an instance know which.
HostNamed ==
    rec.pc \in {"await", "addBackend", "dropBackend", "join", "drain", "leave",
               "poweroff", "terminate"} => rec.host \in Hosts

\* The cache is brought to the newest object or left.
LEMMA CacheStep == [Next]_vars => cached' \in {cached, object'}
BY DEF Next, Running, vars, envVars, Start, Register, LookupFound,
   LookupStateless, LookupMissing, LookupNone, DeleteOwner, Create,
   CreateRefused, AwaitRunning, AwaitTimeout, AddRealServer, DelRealServer,
   CreateCAPUHost, LookupDeletedNone, LookupDeletedFound, DeleteCAPUHost,
   PowerOff, Terminate, Close, Fault, LostAnswer, CloseFault, Crash, Panic,
   CloudStep, Upset, Sync, Prepare, DeleteMachine

\* One instance changes at a time.
LEMMA UHostStep ==
    [Next]_vars =>
        \/ UNCHANGED uhost
        \/ \E h, s : s \in UHostStates /\ uhost' = [uhost EXCEPT ![h] = s]
<1>1. CASE PowerOff
  BY <1>1 DEF PowerOff, UHostStates
<1>2. ASSUME [Next]_vars, ~PowerOff
      PROVE  \/ UNCHANGED uhost
             \/ \E h, s : s \in UHostStates /\ uhost' = [uhost EXCEPT ![h] = s]
  BY <1>2 DEF Next, Running, vars, envVars, Start, Register, LookupFound,
   LookupStateless, LookupMissing, LookupNone, DeleteOwner, Create,
   CreateRefused, AwaitRunning, AwaitTimeout, AddRealServer, DelRealServer,
   CreateCAPUHost, LookupDeletedNone, LookupDeletedFound, DeleteCAPUHost,
   Terminate, Close, Fault, LostAnswer, CloseFault, Crash, Panic,
   CloudStep, Upset, Sync, Prepare, DeleteMachine, UHostStates
<1> QED
  BY <1>1, <1>2

\* Only instances become real servers and CAPU hosts.
LEMMA RegistersStep ==
    ASSUME HostNamed, backends \subseteq Hosts, capuHosts \subseteq Hosts,
           [Next]_vars
    PROVE  backends' \subseteq Hosts /\ capuHosts' \subseteq Hosts
BY DEF HostNamed, InCloud, Next, Running, vars, envVars, Start, Register,
   LookupFound, LookupStateless, LookupMissing, LookupNone, DeleteOwner, Create,
   CreateRefused, AwaitRunning, AwaitTimeout, AddRealServer, DelRealServer,
   CreateCAPUHost, LookupDeletedNone, LookupDeletedFound, DeleteCAPUHost,
   PowerOff, Terminate, Close, Fault, LostAnswer, CloseFault, Crash, Panic,
   CloudStep, Upset, Sync, Prepare, DeleteMachine

\* Owner, preparation and counters.
LEMMA CountersStep ==
    ASSUME owner \in BOOLEAN, prepared \in BOOLEAN,
           faults \in 0..MaxFaults, upsets \in 0..MaxUpsets, [Next]_vars
    PROVE  /\ owner' \in BOOLEAN /\ prepared' \in BOOLEAN
           /\ faults' \in 0..MaxFaults /\ upsets' \in 0..MaxUpsets
<1>1. /\ owner' \in {owner, FALSE} /\ prepared' \in {prepared, TRUE}
      /\ faults' = faults \/ (faults < MaxFaults /\ faults' = faults + 1)
      /\ upsets' = upsets \/ (upsets < MaxUpsets /\ upsets' = upsets + 1)
  BY DEF Next, Running, vars, envVars, Start, Register, LookupFound,
   LookupStateless, LookupMissing, LookupNone, DeleteOwner, Create,
   CreateRefused, AwaitRunning, AwaitTimeout, AddRealServer, DelRealServer,
   CreateCAPUHost, LookupDeletedNone, LookupDeletedFound, DeleteCAPUHost,
   PowerOff, Terminate, Close, Fault, LostAnswer, CloseFault, Crash, Panic,
   CloudStep, Upset, Sync, Prepare, DeleteMachine
<1>2. owner' \in BOOLEAN /\ prepared' \in BOOLEAN
  BY <1>1
<1>3. MaxFaults \in Nat /\ MaxUpsets \in Nat
  BY MachineAssumption
<1>4. faults' \in 0..MaxFaults /\ upsets' \in 0..MaxUpsets
  BY <1>1, <1>3
<1> QED
  BY <1>2, <1>4

\* Every step keeps the types.
LEMMA TypeStep == TypeOK /\ HostNamed /\ [Next]_vars => TypeOK'
<1> SUFFICES ASSUME TypeOK, HostNamed, [Next]_vars PROVE TypeOK'
  OBVIOUS
<1>1. RecordsTyped /\ RecordsTyped'
  BY TypeParts, RecordsStep
<1>2. cached' \in Objects
  BY <1>1, CacheStep, TypeParts DEF RecordsTyped
<1>3. uhost' \in [Hosts -> UHostStates]
  BY UHostStep, TypeParts
<1>4. backends' \subseteq Hosts /\ capuHosts' \subseteq Hosts
  BY RegistersStep, TypeParts
<1>5. /\ owner' \in BOOLEAN /\ prepared' \in BOOLEAN
      /\ faults' \in 0..MaxFaults /\ upsets' \in 0..MaxUpsets
  BY CountersStep, TypeParts
<1> QED
  BY <1>1, <1>2, <1>3, <1>4, <1>5
     DEF TypeOK, RecordsTyped, Reconciles, KeptByFinalizer

\* They keep knowing it, also after failures and on stale copies.
LEMMA HostNamedStep == TypeOK /\ HostNamed /\ [Next]_vars => HostNamed'
<1> SUFFICES ASSUME TypeOK, HostNamed, [Next]_vars PROVE HostNamed'
  OBVIOUS
<1>1. rec \in Reconciles
  BY TypeParts DEF RecordsTyped
<1>2. CASE UNCHANGED rec \/ rec' = NoReconcile \/ Goto("close")
  BY <1>1, <1>2 DEF HostNamed, NoReconcile, Goto, Reconciles
<1>3. CASE Register \/ LookupNone \/ LookupMissing \/ DeleteOwner
  BY <1>1, <1>3 DEF HostNamed, Goto, Reconciles, Register, LookupNone,
     LookupMissing, DeleteOwner
<1>4. CASE Start
  <2>1. rec'.pc \in {"register", "lookupDeleted"}
    BY <1>4 DEF Start
  <2> QED
    BY <2>1 DEF HostNamed
<1>5. CASE LookupFound \/ LookupStateless \/ AwaitRunning
  <2>1. ASSUME NEW h \in Hosts, NEW state, Serve(h, state) PROVE HostNamed'
    BY <1>1, <2>1 DEF HostNamed, Serve, Reconciles
  <2>2. CASE LookupFound \/ LookupStateless
    BY <2>1, <2>2 DEF LookupFound, LookupStateless, InCloud
  <2>3. CASE AwaitRunning
    BY <2>1, <2>3 DEF AwaitRunning, HostNamed
  <2> QED
    BY <1>5, <2>2, <2>3
<1>6. CASE Create \/ LookupDeletedFound
  BY <1>1, <1>6 DEF HostNamed, Reconciles, Create, LookupDeletedFound, InCloud
<1>7. CASE \/ AddRealServer \/ DelRealServer("dropBackend", "join")
           \/ DelRealServer("drain", "leave") \/ DeleteCAPUHost
  BY <1>1, <1>7 DEF HostNamed, Goto, Reconciles, AddRealServer, DelRealServer,
     DeleteCAPUHost
<1>8. CASE CreateCAPUHost \/ LookupDeletedNone \/ PowerOff \/ Terminate
  BY <1>1, <1>8 DEF HostNamed, Goto, Reconciles, CreateCAPUHost,
     LookupDeletedNone, PowerOff, Terminate
<1> QED
  BY <1>2, <1>3, <1>4, <1>5, <1>6, <1>7, <1>8
     DEF Next, Running, vars, CreateRefused, AwaitTimeout, Fault, LostAnswer,
         CloseFault, Crash, Panic, Close, Sync, Prepare, DeleteMachine,
         CloudStep, Upset

\* For every quota and any number of faults the state keeps its shape; a
\* step that works on an instance has one, also after lost answers and on
\* stale copies, and a deleted object that is still there has its finalizer.
THEOREM TypeCorrect == Spec => []TypeOK
<1>1. Init => TypeOK /\ HostNamed
  BY TypeInit DEF Init, HostNamed, NoReconcile
<1>2. TypeOK /\ HostNamed /\ [Next]_vars => (TypeOK /\ HostNamed)'
  BY TypeStep, HostNamedStep
<1> QED
  BY <1>1, <1>2, PTL DEF Spec

-----------------------------------------------------------------------------
(* Out of the load balancer before the power off.                          *)

\* Only a control plane machine ever has a backend.
BackendsByControlPlane ==
    ~ControlPlane => backends = {} /\ rec.pc # "addBackend"

\* Without it none is added; the other steps only take backends away.
LEMMA BackendsStep ==
    TypeOK /\ BackendsByControlPlane /\ [Next]_vars => BackendsByControlPlane'
<1> SUFFICES ASSUME TypeOK, BackendsByControlPlane, [Next]_vars, ~ControlPlane
             PROVE  backends' = {} /\ rec'.pc # "addBackend"
  BY DEF BackendsByControlPlane
<1>1. rec \in Reconciles /\ backends = {} /\ rec.pc # "addBackend"
  BY TypeParts DEF RecordsTyped, BackendsByControlPlane
<1>2. backends' = {}
  BY <1>1 DEF Next, Running, vars, envVars, Start, Register, LookupFound,
     LookupStateless, LookupMissing, LookupNone, DeleteOwner, Create,
     CreateRefused, AwaitRunning, AwaitTimeout, AddRealServer, DelRealServer,
     CreateCAPUHost, LookupDeletedNone, LookupDeletedFound, DeleteCAPUHost,
     PowerOff, Terminate, Close, Fault, LostAnswer, CloseFault, Crash, Panic,
     CloudStep, Upset, Sync, Prepare, DeleteMachine
<1>3. ASSUME NEW h, NEW state, Serve(h, state) PROVE rec'.pc # "addBackend"
  BY <1>1, <1>3 DEF Serve, StepFor, Reconciles
<1>4. rec'.pc # "addBackend"
  <2>1. ASSUME NEW p, Goto(p), p # "addBackend" PROVE rec'.pc # "addBackend"
    BY <1>1, <2>1 DEF Goto, Reconciles
  <2>2. CASE LookupFound \/ LookupStateless \/ AwaitRunning
    BY <1>3, <2>2 DEF LookupFound, LookupStateless, AwaitRunning
  <2>3. CASE Start
    <3>1. rec'.pc \in {"register", "lookupDeleted"}
      BY <2>3 DEF Start
    <3> QED
      BY <3>1
  <2>4. CASE Register \/ LookupMissing \/ LookupNone \/ DeleteOwner
    BY <1>1, <2>1, <2>4 DEF Register, LookupMissing, LookupNone, DeleteOwner,
       Reconciles
  <2>5. CASE Create \/ CreateRefused \/ AwaitTimeout \/ AddRealServer
    BY <1>1, <2>1, <2>5 DEF Create, CreateRefused, AwaitTimeout, AddRealServer,
       Reconciles
  <2>6. CASE \/ DelRealServer("dropBackend", "join")
             \/ DelRealServer("drain", "leave") \/ DeleteCAPUHost
    BY <2>1, <2>6 DEF DelRealServer, DeleteCAPUHost
  <2>7. CASE \/ CreateCAPUHost \/ LookupDeletedNone \/ LookupDeletedFound
             \/ PowerOff \/ Terminate
    BY <1>1, <2>1, <2>7 DEF CreateCAPUHost, LookupDeletedNone,
       LookupDeletedFound, PowerOff, Terminate, Reconciles
  <2>8. CASE Fault \/ LostAnswer \/ CloseFault \/ Crash \/ Panic \/ Close
    BY <2>1, <2>8 DEF Fault, LostAnswer, CloseFault, Crash, Panic, Close,
       NoReconcile
  <2>9. CASE UNCHANGED rec
    BY <1>1, <2>9
  <2> QED
    BY <2>2, <2>3, <2>4, <2>5, <2>6, <2>7, <2>8, <2>9 DEF Next, Running, vars,
       Sync, Prepare, DeleteMachine, CloudStep, Upset
<1> QED
  BY <1>2, <1>4

\* Nothing is added to the load balancer between the drain and the end.
LEMMA DrainedStep ==
    TypeOK /\ BackendsByControlPlane /\ DrainedBeforePowerOff /\ [Next]_vars
        => DrainedBeforePowerOff'
<1> SUFFICES ASSUME TypeOK, BackendsByControlPlane, DrainedBeforePowerOff,
                    [Next]_vars, rec'.pc \in {"leave", "poweroff", "terminate"}
             PROVE  rec'.host \notin backends'
  BY DEF DrainedBeforePowerOff
<1>1. /\ rec \in Reconciles
      /\ rec.pc \in {"leave", "poweroff", "terminate"}
            => rec.host \notin backends
      /\ ~ControlPlane => backends = {}
  BY TypeParts DEF RecordsTyped, DrainedBeforePowerOff, BackendsByControlPlane
<1>2. ASSUME UNCHANGED rec, backends' \subseteq backends
      PROVE  rec'.host \notin backends'
  BY <1>1, <1>2
<1>3. CASE LookupDeletedFound
  BY <1>1, <1>3 DEF LookupDeletedFound, Reconciles
<1>4. CASE DelRealServer("drain", "leave") \/ DeleteCAPUHost
  BY <1>1, <1>4 DEF DelRealServer, DeleteCAPUHost, Goto, Reconciles
<1>5. CASE PowerOff
  <2>1. /\ UNCHANGED backends /\ rec.pc = "poweroff"
        /\ \/ Goto("terminate")
           \/ rec' = [rec EXCEPT !.pc = "close", !.copy.fin = FALSE]
    BY <1>5 DEF PowerOff
  <2>2. rec'.pc \in {"terminate", "close"} /\ rec'.host = rec.host
    BY <1>1, <2>1 DEF Goto, Reconciles
  <2> QED
    BY <1>1, <2>1, <2>2
<1>6. CASE LookupDeletedNone \/ Terminate \/ CreateCAPUHost
  BY <1>1, <1>6 DEF LookupDeletedNone, Terminate, CreateCAPUHost, Reconciles
<1>7. CASE LookupFound \/ LookupStateless \/ AwaitRunning
  <2>1. ASSUME NEW h, NEW state, Serve(h, state)
        PROVE  rec'.pc \notin {"leave", "poweroff", "terminate"}
    BY <1>1, <2>1 DEF Serve, StepFor, Reconciles
  <2> QED
    BY <1>7, <2>1 DEF LookupFound, LookupStateless, AwaitRunning
<1>8. CASE Start
  BY <1>8 DEF Start
<1>9. CASE \/ Register \/ LookupNone \/ DeleteOwner \/ CreateRefused
           \/ AwaitTimeout \/ AddRealServer
           \/ DelRealServer("dropBackend", "join")
  <2>1. ASSUME NEW p \in {"lookup", "create", "close", "join"}, Goto(p)
        PROVE  rec'.pc \notin {"leave", "poweroff", "terminate"}
    BY <1>1, <2>1 DEF Goto, Reconciles
  <2> QED
    BY <1>9, <2>1 DEF Register, LookupNone, DeleteOwner, CreateRefused,
       AwaitTimeout, AddRealServer, DelRealServer
<1>10. CASE LookupMissing \/ Create
  BY <1>1, <1>10 DEF LookupMissing, Create, Reconciles
<1>11. CASE Fault \/ LostAnswer \/ CloseFault \/ Crash \/ Panic \/ Close
  BY <1>1, <1>11 DEF Fault, LostAnswer, CloseFault, Crash, Panic, Close, Goto,
     Reconciles, NoReconcile
<1>12. CASE \/ Sync \/ Prepare \/ DeleteMachine \/ UNCHANGED vars
            \/ \E h \in Hosts : CloudStep(h) \/ Upset(h)
  BY <1>2, <1>12 DEF Sync, Prepare, DeleteMachine, vars, CloudStep, Upset
<1> QED
  BY <1>3, <1>4, <1>5, <1>6, <1>7, <1>8, <1>9, <1>10, <1>11, <1>12
     DEF Next, Running

\* Whatever attempts came before, and however stale the copy: an instance that
\* the reconciler powers off is not behind the load balancer.
THEOREM Drained == Spec => []DrainedBeforePowerOff
<1>1. Init => BackendsByControlPlane /\ DrainedBeforePowerOff
  BY DEF Init, BackendsByControlPlane, DrainedBeforePowerOff, NoReconcile
<1>2. TypeOK /\ BackendsByControlPlane /\ DrainedBeforePowerOff /\ [Next]_vars
        => (BackendsByControlPlane /\ DrainedBeforePowerOff)'
  BY BackendsStep, DrainedStep
<1> QED
  BY <1>1, <1>2, TypeCorrect, PTL DEF Spec

-----------------------------------------------------------------------------
(* The finalizer before the instance.                                      *)

\* Steps that serve a live machine, and steps that undo a deleted one.
ServeSteps == {"lookup", "deleteOwner", "create", "await", "addBackend",
               "dropBackend", "join"}
UnwindSteps == {"lookupDeleted", "drain", "leave", "poweroff", "terminate"}

\* The object carries its finalizer, or it is gone.
Held == object.fin \/ object.life = "gone"

\* An older version of the object says nothing that was not true since.
OldVersion(obj) ==
    /\ obj.life # "live" => object.life # "live"
    /\ obj.fin => Held

\* Of the reconcile in flight: its snapshot is an old version, only that of a
\* deleted machine lets the copy drop the finalizer, and a live machine is
\* served only after the finalizer was written.
FlightSafe ==
    rec.pc # "idle" =>
        /\ OldVersion(rec.before)
        /\ rec.before.life = "live" => rec.copy.fin
        /\ rec.pc \in ServeSteps \cup {"register"} => rec.before.life = "live"
        /\ rec.pc \in UnwindSteps => rec.before.life # "live"
        /\ rec.pc \in ServeSteps => Held

\* Once an instance was ever created, the finalizer is there until the object
\* goes.
BornHeld == (\E h \in Hosts : uhost[h] # "unborn") => Held

\* The inductive strengthening of FinalizerBeforeInstance.
FinalizerInv == OldVersion(cached) /\ FlightSafe /\ BornHeld

\* No step takes the finalizer from an object that stays, and no object comes
\* back to life.
LEMMA ObjectStep ==
    ASSUME TypeOK, FinalizerInv, [Next]_vars
    PROVE  /\ object.life # "live" => object'.life # "live"
           /\ Held => Held'
<1>1. /\ object \in Objects /\ KeptByFinalizer(object) /\ rec \in Reconciles
      /\ rec.before \in Objects /\ rec.copy \in Objects
  BY TypeParts DEF RecordsTyped, Reconciles
<1>2. CASE UNCHANGED object
  BY <1>2 DEF Held
<1>3. CASE DeleteMachine
  BY <1>1, <1>3 DEF DeleteMachine, Objects, Held
<1>4. ASSUME rec.pc # "idle",
             object' \in {object, Patched(object, rec.before, rec.copy),
                          ResourcePatched(object, rec.before, rec.copy),
                          StatusPatched(object, rec.before, rec.copy)}
      PROVE  /\ object.life # "live" => object'.life # "live"
             /\ Held => Held'
  <2>1. /\ object' \in Objects /\ KeptByFinalizer(object')
        /\ object.life = "gone" => object' = object
        /\ object.life = "deleting" => object'.life \in {"deleting", "gone"}
        /\ object'.life # "gone" =>
              \/ object'.fin = object.fin
              \/ /\ rec.copy.fin # rec.before.fin
                 /\ object'.fin = rec.copy.fin
    BY <1>1, <1>4, PatchFacts
  <2>2. object.life # "live" => object'.life # "live"
    BY <1>1, <2>1 DEF Objects
  <2>3. ASSUME Held, object'.life # "gone", ~object'.fin PROVE FALSE
    <3>1. object.life # "gone" /\ object.fin
      BY <2>1, <2>3 DEF Held
    <3>2. rec.before.fin /\ ~rec.copy.fin
      BY <1>1, <2>1, <2>3, <3>1 DEF Objects
    <3>3. rec.before.life # "live" /\ OldVersion(rec.before)
      BY <1>4, <3>2 DEF FinalizerInv, FlightSafe
    <3>4. object'.life = "deleting"
      BY <1>1, <2>1, <2>3, <3>1, <3>3 DEF OldVersion, Objects
    <3> QED
      BY <2>1, <2>3, <3>4 DEF KeptByFinalizer
  <2> QED
    BY <2>2, <2>3 DEF Held
<1>5. CASE Register \/ Close \/ CloseFault \/ Panic
  BY <1>4, <1>5 DEF Register, Close, CloseFault, Panic
<1> QED
  BY <1>2, <1>3, <1>5 DEF Next, Running, vars, envVars, Start, LookupFound,
     LookupStateless, LookupMissing, LookupNone, DeleteOwner, Create,
     CreateRefused, AwaitRunning, AwaitTimeout, AddRealServer, DelRealServer,
     CreateCAPUHost, LookupDeletedNone, LookupDeletedFound, DeleteCAPUHost,
     PowerOff, Terminate, Fault, LostAnswer, Crash, CloudStep, Upset, Sync,
     Prepare

\* The reconcile in flight stays safe; one that starts is safe since the cache
\* is an old version.
LEMMA FlightStep ==
    ASSUME TypeOK, FinalizerInv, [Next]_vars
    PROVE  FlightSafe'
<1>1. /\ rec \in Reconciles /\ rec.before \in Objects /\ rec.copy \in Objects
      /\ object \in Objects
  BY TypeParts DEF RecordsTyped, Reconciles
<1>2. /\ object.life # "live" => object'.life # "live"
      /\ Held => Held'
  BY ObjectStep
<1>3. ASSUME rec.pc # "idle", rec'.before = rec.before,
             rec.before.life = "live" => rec'.copy.fin,
             \/ rec'.pc = "close"
             \/ /\ rec.pc \in ServeSteps \cup {"register"}
                /\ rec'.pc \in ServeSteps /\ Held'
             \/ rec.pc \in UnwindSteps /\ rec'.pc \in UnwindSteps
      PROVE  FlightSafe'
  <2>1. /\ rec'.before.life # "live" => object'.life # "live"
        /\ rec'.before.fin => Held'
    BY <1>2, <1>3 DEF FinalizerInv, FlightSafe, OldVersion
  <2>2. /\ rec'.pc \in ServeSteps \cup {"register"}
               => rec'.before.life = "live" /\ Held'
        /\ rec'.pc \in UnwindSteps => rec'.before.life # "live"
    BY <1>3 DEF FinalizerInv, FlightSafe, ServeSteps, UnwindSteps
  <2> QED
    BY <1>3, <2>1, <2>2 DEF FlightSafe, OldVersion
<1>4. ASSUME rec.pc \in ServeSteps, rec'.before = rec.before,
             rec'.copy.fin = rec.copy.fin, rec'.pc \in ServeSteps \cup {"close"}
      PROVE  FlightSafe'
  <2>1. rec.pc # "idle" /\ Held
    BY <1>4 DEF FinalizerInv, FlightSafe, ServeSteps
  <2>2. rec.before.life = "live" => rec'.copy.fin
    BY <1>4, <2>1 DEF FinalizerInv, FlightSafe
  <2> QED
    BY <1>2, <1>3, <1>4, <2>1, <2>2
<1>5. ASSUME rec.pc \in UnwindSteps, rec'.before = rec.before,
             rec'.pc \in UnwindSteps \cup {"close"}
      PROVE  FlightSafe'
  <2>1. rec.pc # "idle" /\ rec.before.life # "live"
    BY <1>5 DEF FinalizerInv, FlightSafe, UnwindSteps
  <2> QED
    BY <1>3, <1>5, <2>1
<1>6. ASSUME rec.pc # "idle", Goto("close") PROVE FlightSafe'
  <2>1. /\ rec'.before = rec.before /\ rec'.copy = rec.copy
        /\ rec'.pc = "close"
    BY <1>1, <1>6 DEF Goto, Reconciles
  <2> QED
    BY <1>3, <1>6, <2>1 DEF FinalizerInv, FlightSafe
<1>7. CASE rec' = NoReconcile
  BY <1>7 DEF FlightSafe, NoReconcile
<1>8. CASE UNCHANGED rec
  BY <1>2, <1>8 DEF FinalizerInv, FlightSafe, OldVersion
<1>9. CASE Start
  <2>1. OldVersion(Seen) /\ UNCHANGED object
    BY <1>9 DEF Start, Seen, FinalizerInv, OldVersion, Held
  <2>2. /\ rec'.before = Seen
        /\ rec'.pc = IF Seen.life = "live" THEN "register"
                     ELSE "lookupDeleted"
        /\ rec'.copy = [Seen EXCEPT !.fin = @ \/ Seen.life = "live"]
    BY <1>9 DEF Start
  <2>3. Seen \in Objects
    BY <1>1, TypeParts DEF Seen
  <2>4. Seen.life = "live" => rec'.copy.fin
    BY <2>2, <2>3 DEF Objects
  <2> QED
    BY <2>1, <2>2, <2>4 DEF FlightSafe, OldVersion, Held, ServeSteps,
       UnwindSteps
<1>10. CASE Register
  <2>1. CASE Goto("close")
    BY <1>6, <1>10, <2>1 DEF Register
  <2>2. CASE Goto("lookup")
    <3>1. /\ rec'.before = rec.before /\ rec'.copy = rec.copy
          /\ rec'.pc = "lookup" /\ rec.pc = "register"
      BY <1>1, <1>10, <2>2 DEF Register, Goto, Reconciles
    <3>2. rec.before.life = "live" /\ rec.copy.fin /\ OldVersion(rec.before)
      BY <3>1 DEF FinalizerInv, FlightSafe
    <3>3. Held'
      <4>1. CASE rec.before.fin
        BY <1>2, <3>2, <4>1 DEF OldVersion
      <4>2. CASE ~rec.before.fin
        BY <1>1, <1>10, <3>2, <4>2 DEF Register, Patched, ResourcePatched,
           StatusPatched, Objects, Held
      <4> QED
        BY <4>1, <4>2
    <3> QED
      BY <1>3, <3>1, <3>2, <3>3 DEF ServeSteps
  <2> QED
    BY <1>10, <2>1, <2>2 DEF Register
<1>11. CASE LookupFound \/ LookupStateless \/ AwaitRunning
  <2>1. ASSUME NEW h, NEW state, Serve(h, state)
        PROVE  /\ rec'.before = rec.before /\ rec'.copy.fin = rec.copy.fin
               /\ rec'.pc \in ServeSteps \cup {"close"}
    BY <1>1, <2>1 DEF Serve, Served, StepFor, Reconciles, Objects, ServeSteps
  <2>2. rec.pc \in ServeSteps
    BY <1>11 DEF LookupFound, LookupStateless, AwaitRunning, ServeSteps
  <2> QED
    BY <1>4, <1>11, <2>1, <2>2 DEF LookupFound, LookupStateless, AwaitRunning
<1>12. CASE LookupMissing
  BY <1>1, <1>4, <1>12 DEF LookupMissing, Reconciles, Objects, ServeSteps
<1>13. CASE Create \/ CreateCAPUHost
  <2>1. CASE Create
    <3>1. /\ rec'.before = rec.before /\ rec'.copy = rec.copy
          /\ rec'.pc = "await" /\ rec.pc = "create"
      BY <1>1, <2>1 DEF Create, Reconciles
    <3> QED
      BY <1>4, <3>1 DEF ServeSteps
  <2>2. CASE CreateCAPUHost
    <3>1. /\ rec'.before = rec.before /\ rec'.copy.fin = rec.copy.fin
          /\ rec'.pc = "close" /\ rec.pc = "join"
      BY <1>1, <2>2 DEF CreateCAPUHost, Reconciles, Objects
    <3> QED
      BY <1>4, <3>1 DEF ServeSteps
  <2> QED
    BY <1>13, <2>1, <2>2
<1>14. CASE \/ LookupNone \/ DeleteOwner \/ CreateRefused \/ AwaitTimeout
            \/ AddRealServer \/ DelRealServer("dropBackend", "join")
  <2>1. PICK p \in ServeSteps \cup {"close"} : Goto(p)
    BY <1>14 DEF LookupNone, DeleteOwner, CreateRefused, AwaitTimeout,
       AddRealServer, DelRealServer, ServeSteps
  <2>2. rec.pc \in ServeSteps
    BY <1>14 DEF LookupNone, DeleteOwner, CreateRefused, AwaitTimeout,
       AddRealServer, DelRealServer, ServeSteps
  <2> QED
    BY <1>1, <1>4, <2>1, <2>2 DEF Goto, Reconciles
<1>15. CASE LookupDeletedNone \/ LookupDeletedFound \/ Terminate
  BY <1>1, <1>5, <1>15 DEF LookupDeletedNone, LookupDeletedFound, Terminate,
     Reconciles, UnwindSteps
<1>16. CASE DelRealServer("drain", "leave") \/ DeleteCAPUHost \/ PowerOff
  BY <1>1, <1>5, <1>16 DEF DelRealServer, DeleteCAPUHost, PowerOff, Goto,
     Reconciles, UnwindSteps
<1>17. CASE Fault \/ LostAnswer
  BY <1>6, <1>17 DEF Fault, LostAnswer
<1> QED
  BY <1>7, <1>8, <1>9, <1>10, <1>11, <1>12, <1>13, <1>14, <1>15, <1>16, <1>17
     DEF Next, Running, vars, CloseFault, Crash, Panic, Close, Sync, Prepare,
     DeleteMachine, CloudStep, Upset

\* The cache only moves to the newest version, and an instance is born in a
\* step that serves, hence under the finalizer.
LEMMA FinalizerStep ==
    ASSUME TypeOK, FinalizerInv, [Next]_vars
    PROVE  FinalizerInv'
<1>1. /\ object.life # "live" => object'.life # "live"
      /\ Held => Held'
  BY ObjectStep
<1>2. OldVersion(cached)'
  BY <1>1, CacheStep DEF FinalizerInv, OldVersion, Held
<1>3. BornHeld'
  <2>1. CASE \A h \in Hosts : uhost[h] = "unborn" => uhost'[h] = "unborn"
    BY <1>1, <2>1 DEF FinalizerInv, BornHeld
  <2>2. CASE rec.pc = "create"
    BY <1>1, <2>2 DEF FinalizerInv, FlightSafe, BornHeld, ServeSteps
  <2>3. uhost \in [Hosts -> UHostStates]
    BY TypeParts
  <2>4. CASE PowerOff
    BY <2>1, <2>3, <2>4 DEF PowerOff, InCloud
  <2>5. CASE \/ Terminate \/ LostAnswer
            \/ \E h \in Hosts : CloudStep(h) \/ Upset(h)
    BY <2>1, <2>2, <2>3, <2>5 DEF Terminate, LostAnswer, CloudStep, Upset,
       InCloud
  <2>6. CASE UNCHANGED uhost
    BY <2>1, <2>6
  <2> QED
    BY <2>2, <2>4, <2>5, <2>6 DEF Next, Running, vars, envVars, Start, Register,
       LookupFound, LookupStateless, LookupMissing, LookupNone, DeleteOwner,
       Create, CreateRefused, AwaitRunning, AwaitTimeout, AddRealServer,
       DelRealServer, CreateCAPUHost, LookupDeletedNone, LookupDeletedFound,
       DeleteCAPUHost, Close, Fault, CloseFault, Crash, Panic, Sync, Prepare,
       DeleteMachine
<1> QED
  BY <1>2, <1>3, FlightStep DEF FinalizerInv

\* An instance exists only under the finalizer of its machine, however stale
\* the copies are from which reconciles start and whatever fails or crashes.
THEOREM FinalizerFirst == Spec => []FinalizerBeforeInstance
<1>1. Init => FinalizerInv
  BY DEF Init, FinalizerInv, OldVersion, FlightSafe, BornHeld, NoObject,
     NoReconcile
<1>2. TypeOK /\ FinalizerInv /\ [Next]_vars => FinalizerInv'
  BY FinalizerStep
<1>3. FinalizerInv => FinalizerBeforeInstance
  BY DEF FinalizerInv, BornHeld, FinalizerBeforeInstance, InCloud, Held
<1> QED
  BY <1>1, <1>2, <1>3, TypeCorrect, PTL DEF Spec
=============================================================================
