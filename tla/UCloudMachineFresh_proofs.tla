--------------------- MODULE UCloudMachineFresh_proofs ---------------------
(***************************************************************************)
(* Theorems about UCloudMachine when reconciles start from the newest      *)
(* object (~StaleReads), for any quota of instances and any number of      *)
(* faults and upsets.  With stale copies none of these properties holds: a *)
(* reconcile that has not seen the id its predecessor recorded creates a   *)
(* second instance, or removes the finalizer over the first.               *)
(***************************************************************************)
EXTENDS UCloudMachine_proofs

\* Two versions of the object agree on all but life and finalizer.
Same(a, b) ==
    /\ a.id = b.id /\ a.ready = b.ready
    /\ a.failed = b.failed /\ a.joined = b.joined

\* An id that is held anywhere is that of an instance that was created.
Born(h) == h # None => uhost[h] # "unborn"

\* An id that is held names nothing that is left to undo.
Undone(h) == h # None => uhost[h] = "deleted"

\* A deleted instance is registered nowhere; a reconcile registers only one
\* that is there, and has taken the CAPU host away when it powers off.
CloudInv ==
    /\ \A h \in Hosts : uhost[h] = "deleted" =>
          h \notin backends /\ (h \in capuHosts => upsets > 0)
    /\ rec.pc \in {"await", "addBackend", "dropBackend", "join"}
          => InCloud(rec.host) \/ upsets > 0
    /\ rec.pc \in {"poweroff", "terminate"} => rec.host \notin capuHosts

\* Of the reconcile in flight: nobody else writes what it read; what the copy
\* says of a recorded instance is kept; a copy without the finalizer has its
\* instance undone.
FlightInv ==
    rec.pc # "idle" =>
        /\ Same(object, rec.before)
        /\ rec.before.life # "gone"
        /\ rec.before.life = "deleting" => rec.before.fin
        /\ rec.before.fin => object.fin /\ object.life # "gone"
        /\ rec.pc = "register" \/ rec.before.life # "live"
              => Same(rec.copy, rec.before)
        /\ rec.before.id # None => rec.copy.id = rec.before.id
        /\ rec.pc = "lookup" => rec.copy.id = rec.before.id
        /\ rec.pc \in {"create", "await"}
              => rec.copy.id = None /\ rec.before.id = None
        /\ rec.pc \in {"drain", "leave", "poweroff", "terminate"}
              => rec.host = rec.copy.id
        /\ rec.pc \in ServeSteps => object.fin /\ object.life # "gone"
        /\ rec.pc = "deleteOwner" =>
              /\ rec.copy.id = rec.before.id /\ rec.copy.id # None
              /\ uhost[rec.copy.id] = "deleted"
        /\ ~rec.copy.fin =>
              /\ rec.pc = "close" /\ rec.before.life # "live"
              /\ Undone(rec.copy.id)
        /\ rec.copy.failed => ~rec.copy.ready
        /\ rec.pc \in {"register", "lookup", "create", "await"}
              => ~rec.copy.failed

\* Whatever the object, the copy or the reconcile names was created.
IdsInv == Born(object.id) /\ Born(rec.copy.id) /\ Born(rec.host)

\* The inductive strengthening of RecordedUndone, OwnerOutlivesInstance and
\* FailedNotReady.
FreshInv ==
    /\ IdsInv /\ FlightInv
    /\ OwnerOutlivesInstance
    /\ object.life = "gone" => Undone(object.id)
    /\ FailedNotReady

-----------------------------------------------------------------------------
(* Instances, real servers and CAPU hosts.                                 *)

\* A deleted instance stays so, one is born only in a create step, and goes
\* only in the reconciler's terminate step or behind its back.
LEMMA UHostFacts ==
    ASSUME TypeOK, [Next]_vars, NEW h \in Hosts
    PROVE  /\ uhost[h] = "unborn" =>
                 \/ uhost'[h] = "unborn"
                 \/ rec.pc = "create" /\ uhost'[h] = "Initializing"
           /\ uhost[h] = "deleted" => uhost'[h] = "deleted"
           /\ InCloud(h) => uhost'[h] # "unborn"
           /\ InCloud(h) /\ uhost'[h] = "deleted" =>
                 \/ rec.pc = "terminate" /\ h = rec.host
                       /\ backends' = backends /\ capuHosts' = capuHosts
                 \/ upsets' > 0 /\ h \notin backends'
           /\ upsets' \in {upsets, upsets + 1}
<1>1. uhost \in [Hosts -> UHostStates] /\ upsets \in Nat
  BY TypeParts, MachineAssumption
<1>2. CASE UNCHANGED <<uhost, upsets>>
  BY <1>1, <1>2 DEF InCloud
<1>3. CASE Create \/ LostAnswer
  BY <1>1, <1>3 DEF Create, LostAnswer, InCloud, envVars
<1>4. CASE PowerOff
  BY <1>1, <1>4 DEF PowerOff, InCloud, envVars
<1>5. CASE Terminate
  BY <1>1, <1>5 DEF Terminate, InCloud, envVars
<1>6. CASE \E g \in Hosts : CloudStep(g) \/ Upset(g)
  BY <1>1, <1>6 DEF CloudStep, Upset, InCloud, envVars
<1> QED
  BY <1>2, <1>3, <1>4, <1>5, <1>6 DEF Next, Running, vars, envVars, Start,
     Register, LookupFound, LookupStateless, LookupMissing, LookupNone,
     DeleteOwner, CreateRefused, AwaitRunning, AwaitTimeout, AddRealServer,
     DelRealServer, CreateCAPUHost, LookupDeletedNone, LookupDeletedFound,
     DeleteCAPUHost, Close, Fault, CloseFault, Crash, Panic, Sync, Prepare,
     DeleteMachine

\* Only instances that are there get behind the load balancer, and only the
\* join step makes CAPU hosts.
LEMMA RegistersFacts ==
    ASSUME TypeOK, [Next]_vars
    PROVE  /\ \A h \in backends' \ backends :
                 rec.pc = "addBackend" /\ InCloud(h) /\ uhost' = uhost
           /\ \A h \in capuHosts' \ capuHosts :
                 rec.pc = "join" /\ h = rec.host
                    /\ uhost' = uhost /\ upsets' = upsets
BY DEF Next, Running, vars, envVars, Start, Register, LookupFound,
   LookupStateless, LookupMissing, LookupNone, DeleteOwner, Create,
   CreateRefused, AwaitRunning, AwaitTimeout, AddRealServer, DelRealServer,
   CreateCAPUHost, LookupDeletedNone, LookupDeletedFound, DeleteCAPUHost,
   PowerOff, Terminate, Close, Fault, LostAnswer, CloseFault, Crash, Panic,
   CloudStep, Upset, Sync, Prepare, DeleteMachine

\* Where a reconcile that works on an instance can come from.
LEMMA HostFacts ==
    ASSUME TypeOK, [Next]_vars
    PROVE  /\ rec'.pc \in {"await", "addBackend", "dropBackend", "join"} =>
                 \/ rec' = rec
                 \/ /\ rec.pc \in {"await", "addBackend", "dropBackend",
                                  "join"}
                    /\ rec'.host = rec.host /\ upsets' = upsets
                      /\ uhost' = uhost
                 \/ InCloud(rec.host)'
           /\ rec'.pc \in {"poweroff", "terminate"} =>
                 \/ rec' = rec
                 \/ /\ rec.pc \in {"leave", "poweroff"} /\ rec'.host = rec.host
                    /\ rec.pc = "leave" => capuHosts' = capuHosts \ {rec.host}
                    /\ rec.pc = "poweroff" => capuHosts' = capuHosts
<1>1. /\ rec \in Reconciles /\ rec.pc \in Steps
      /\ uhost \in [Hosts -> UHostStates] /\ upsets \in Nat
      /\ rec.host \in Hosts \cup {None}
  BY TypeParts, MachineAssumption DEF RecordsTyped, Reconciles
<1>2. CASE rec'.pc \notin {"await", "addBackend", "dropBackend", "join",
                          "poweroff", "terminate"}
  BY <1>2
<1>3. CASE UNCHANGED rec
  BY <1>3
<1>4. CASE LookupFound \/ LookupStateless
  <2>1. rec'.host = rec.copy.id /\ InCloud(rec.copy.id) /\ uhost' = uhost
        /\ \E state : rec'.pc = StepFor(state)
    BY <1>1, <1>4
       DEF LookupFound, LookupStateless, Serve, Reconciles, envVars
  <2>2. InCloud(rec.host)' /\ rec'.pc \notin {"poweroff", "terminate"}
    BY <2>1 DEF InCloud, StepFor
  <2> QED
    BY <2>2
<1>5. CASE AwaitRunning
  <2>1. rec.pc = "await" /\ rec'.host = rec.host
        /\ uhost' = uhost /\ upsets' = upsets
        /\ \E state : rec'.pc = StepFor(state)
    BY <1>1, <1>5 DEF AwaitRunning, Serve, Reconciles, envVars
  <2> QED
    BY <2>1 DEF StepFor
<1>6. CASE AddRealServer \/ DelRealServer("dropBackend", "join")
  BY <1>1, <1>6 DEF AddRealServer, DelRealServer, Goto, Reconciles, envVars
<1>7. CASE Create
  <2>1. PICK h \in Hosts : /\ uhost' = [uhost EXCEPT ![h] = "Initializing"]
                           /\ rec' = [rec EXCEPT !.pc = "await", !.host = h]
    BY <1>7 DEF Create
  <2>2. rec'.host = h /\ rec'.pc = "await" /\ uhost'[h] = "Initializing"
    BY <1>1, <2>1 DEF Reconciles
  <2> QED
    BY <2>2 DEF InCloud
<1>8. CASE DeleteCAPUHost
  BY <1>1, <1>8 DEF DeleteCAPUHost, Goto, Reconciles
<1>9. CASE PowerOff
  BY <1>1, <1>9 DEF PowerOff, Goto, Reconciles
<1>10. CASE \/ Register \/ LookupNone \/ DeleteOwner \/ CreateRefused
            \/ AwaitTimeout \/ DelRealServer("drain", "leave")
            \/ Fault \/ LostAnswer
  BY <1>1, <1>2, <1>10 DEF Register, LookupNone, DeleteOwner, CreateRefused,
     AwaitTimeout, DelRealServer, Fault, LostAnswer, Goto, Reconciles
<1>11. CASE \/ LookupMissing \/ CreateCAPUHost \/ LookupDeletedNone
            \/ LookupDeletedFound \/ Terminate \/ Start
  <2>1. CASE LookupMissing \/ CreateCAPUHost \/ LookupDeletedNone \/ Terminate
    BY <1>1, <1>2, <2>1 DEF LookupMissing, CreateCAPUHost, LookupDeletedNone,
       Terminate, Reconciles
  <2>2. CASE LookupDeletedFound
    BY <1>1, <1>2, <2>2 DEF LookupDeletedFound, Reconciles
  <2>3. CASE Start
    BY <1>2, <2>3 DEF Start
  <2> QED
    BY <1>11, <2>1, <2>2, <2>3
<1>12. CASE Close \/ CloseFault \/ Crash \/ Panic
  BY <1>2, <1>12 DEF Close, CloseFault, Crash, Panic, NoReconcile
<1> QED
  BY <1>3, <1>4, <1>5, <1>6, <1>7, <1>8, <1>9, <1>10, <1>11, <1>12
     DEF Next, Running, vars, Sync, Prepare, DeleteMachine, CloudStep, Upset

\* CloudInv is kept by every step, also by those that start from stale copies.
LEMMA CloudStepKept ==
    ASSUME TypeOK, HostNamed, DrainedBeforePowerOff, CloudInv, [Next]_vars
    PROVE  CloudInv'
<1>1. /\ uhost \in [Hosts -> UHostStates] /\ upsets \in Nat
      /\ upsets > 0 => upsets' > 0
  <2>1. upsets \in Nat
    BY TypeParts, MachineAssumption
  <2>2. upsets' \in {upsets, upsets + 1}
    BY DEF Next, Running, vars, envVars, Start, Register, LookupFound,
       LookupStateless, LookupMissing, LookupNone, DeleteOwner, Create,
       CreateRefused, AwaitRunning, AwaitTimeout, AddRealServer, DelRealServer,
       CreateCAPUHost, LookupDeletedNone, LookupDeletedFound, DeleteCAPUHost,
       PowerOff, Terminate, Close, Fault, LostAnswer, CloseFault, Crash, Panic,
       CloudStep, Upset, Sync, Prepare, DeleteMachine
  <2> QED
    BY <2>1, <2>2, TypeParts
<1>2. ASSUME NEW h \in Hosts, uhost'[h] = "deleted"
      PROVE  h \notin backends' /\ (h \in capuHosts' => upsets' > 0)
  <2>1. CASE uhost[h] = "deleted"
    <3>1. h \notin backends /\ (h \in capuHosts => upsets > 0)
      BY <2>1 DEF CloudInv
    <3>2. h \notin backends'
      BY <2>1, <3>1, RegistersFacts DEF InCloud
    <3>3. ASSUME h \in capuHosts' \ capuHosts PROVE upsets > 0
      BY <2>1, <3>3, RegistersFacts DEF CloudInv, InCloud
    <3> QED
      BY <1>1, <3>1, <3>2, <3>3
  <2>2. CASE uhost[h] = "unborn"
    BY <1>2, <2>2, UHostFacts
  <2>3. CASE InCloud(h)
    <3>1. CASE /\ rec.pc = "terminate" /\ h = rec.host
               /\ backends' = backends /\ capuHosts' = capuHosts
      BY <3>1 DEF CloudInv, DrainedBeforePowerOff
    <3>2. CASE upsets' > 0 /\ h \notin backends'
      BY <3>2
    <3> QED
      BY <1>2, <2>3, <3>1, <3>2, UHostFacts
  <2> QED
    BY <2>1, <2>2, <2>3 DEF InCloud
<1>3. ASSUME rec'.pc \in {"await", "addBackend", "dropBackend", "join"}
      PROVE  InCloud(rec.host)' \/ upsets' > 0
  <2>1. CASE rec' = rec
    <3>1. rec.host \in Hosts /\ (InCloud(rec.host) \/ upsets > 0)
          /\ rec.pc # "terminate"
      BY <1>3, <2>1 DEF CloudInv, HostNamed
    <3>2. CASE InCloud(rec.host)
      <4>1. uhost'[rec.host] # "unborn"
            /\ (uhost'[rec.host] = "deleted" => upsets' > 0)
        BY <3>1, <3>2, UHostFacts
      <4> QED
        BY <2>1, <3>1, <4>1 DEF InCloud
    <3> QED
      BY <1>1, <3>1, <3>2
  <2>2. CASE /\ rec.pc \in {"await", "addBackend", "dropBackend", "join"}
             /\ rec'.host = rec.host /\ upsets' = upsets /\ uhost' = uhost
    BY <2>2 DEF CloudInv, InCloud
  <2> QED
    BY <1>3, <2>1, <2>2, HostFacts
<1>4. ASSUME rec'.pc \in {"poweroff", "terminate"}
      PROVE  rec'.host \notin capuHosts'
  <2>1. CASE rec' = rec
    BY <1>4, <2>1, RegistersFacts DEF CloudInv
  <2>2. CASE rec.pc = "leave" /\ rec'.host = rec.host
             /\ capuHosts' = capuHosts \ {rec.host}
    BY <2>2
  <2>3. CASE rec.pc = "poweroff" /\ rec'.host = rec.host
               /\ capuHosts' = capuHosts
    BY <2>3 DEF CloudInv
  <2> QED
    BY <1>4, <2>1, <2>2, <2>3, HostFacts
<1> QED
  BY <1>2, <1>3, <1>4 DEF CloudInv

-----------------------------------------------------------------------------
(* Patches of a copy that nobody overtook.                                 *)

\* When nobody else wrote what the reconcile read, a patch brings the object
\* to the copy or leaves it, status and id each as a whole, and removes it only
\* if the reconcile dropped the finalizer.
LEMMA FreshPatch ==
    ASSUME NEW obj \in Objects, NEW before \in Objects, NEW copy \in Objects,
           KeptByFinalizer(obj), Same(obj, before),
           NEW new, new \in {obj, Patched(obj, before, copy),
                             ResourcePatched(obj, before, copy),
                             StatusPatched(obj, before, copy)}
    PROVE  /\ new.id \in {obj.id, copy.id}
           /\ \/ new.ready = obj.ready /\ new.failed = obj.failed
              \/ new.ready = copy.ready /\ new.failed = copy.failed
           /\ Same(copy, before) => Same(new, obj)
           /\ new.life = "gone" /\ obj.life # "gone"
                 => /\ before.fin /\ ~copy.fin
<1> DEFINE res == ResourcePatched(obj, before, copy)
           Sent(o, n) == /\ n.id = o.id /\ n.life = o.life
                         /\ o.life = "gone" => n = o
                         /\ o.life # "gone" =>
                               /\ n.ready = copy.ready
                                 /\ n.failed = copy.failed
                               /\ n.joined = copy.joined
<1>1. CASE obj.life = "gone"
  BY <1>1 DEF Patched, ResourcePatched, StatusPatched, Same
<1>2. CASE obj.life # "gone"
  <2>1. /\ res \in Objects
        /\ res.id = copy.id
        /\ res.ready = obj.ready /\ res.failed = obj.failed
        /\ res.joined = obj.joined
        /\ res.life = "gone" => before.fin /\ ~copy.fin
    BY <1>2 DEF ResourcePatched, Objects, Same, KeptByFinalizer
  <2>2. ASSUME NEW o \in Objects, o.ready = obj.ready, o.failed = obj.failed,
               o.joined = obj.joined
        PROVE  Sent(o, StatusPatched(o, before, copy))
    BY <2>2 DEF StatusPatched, Objects, Same
  <2>3. Sent(obj, StatusPatched(obj, before, copy))
          /\ Sent(res, Patched(obj, before, copy))
    BY <2>1, <2>2 DEF Patched
  <2> QED
    BY <1>2, <2>1, <2>3 DEF Same
<1> QED
  BY <1>1, <1>2

\* What a step does to the object: it stays as the reconcile read it until the
\* reconcile ends, and goes only after the instance.
LEMMA FreshObject ==
    ASSUME TypeOK, FreshInv, [Next]_vars
    PROVE  /\ object' \in Objects
           /\ \/ Same(object', object)
              \/ /\ rec.pc # "idle" /\ rec' = NoReconcile
                 /\ object'.id \in {object.id, rec.copy.id}
                 /\ \/ /\ object'.ready = object.ready
                       /\ object'.failed = object.failed
                    \/ /\ object'.ready = rec.copy.ready
                       /\ object'.failed = rec.copy.failed
           /\ object.life = "gone" => object' = object
           /\ object'.life = "gone" /\ object.life # "gone" =>
                 \/ rec.pc # "idle" /\ rec.before.fin /\ ~rec.copy.fin
                 \/ Same(object', object) /\ ~object.fin
           /\ rec'.pc # "idle" /\ object.life # "gone" /\ object.fin
                 => object'.fin /\ object'.life # "gone"
<1>1. /\ object \in Objects /\ KeptByFinalizer(object) /\ rec \in Reconciles
      /\ rec.before \in Objects /\ rec.copy \in Objects
  BY TypeParts DEF RecordsTyped, Reconciles
<1>2. CASE UNCHANGED object
  BY <1>1, <1>2 DEF Same
<1>3. CASE DeleteMachine
  BY <1>1, <1>3 DEF DeleteMachine, Objects, Same
<1>4. CASE Register
  <2>1. /\ rec.pc = "register"
          /\ object' = Patched(object, rec.before, rec.copy)
        /\ Same(object, rec.before) /\ Same(rec.copy, rec.before)
          /\ rec.copy.fin
    BY <1>4 DEF Register, FreshInv, FlightInv
  <2>2. object' \in {object, Patched(object, rec.before, rec.copy),
                    ResourcePatched(object, rec.before, rec.copy),
                    StatusPatched(object, rec.before, rec.copy)}
    BY <2>1
  <2>3. /\ object' \in Objects /\ Same(object', object)
        /\ object.life = "gone" => object' = object
        /\ object'.life = "gone" => object.life = "gone"
        /\ object'.life # "gone" => \/ object'.fin = object.fin
                                   \/ object'.fin = rec.copy.fin
    <3>1. /\ object' \in Objects
          /\ object.life = "gone" => object' = object
          /\ object'.life # "gone" => \/ object'.fin = object.fin
                                     \/ object'.fin = rec.copy.fin
      BY <1>1, <2>2, PatchFacts
    <3>2. /\ Same(rec.copy, rec.before) => Same(object', object)
          /\ object'.life = "gone" /\ object.life # "gone"
                 => rec.before.fin /\ ~rec.copy.fin
      BY <1>1, <2>1, <2>2, FreshPatch
    <3> QED
      BY <2>1, <3>1, <3>2
  <2> QED
    BY <2>1, <2>3
<1>5. CASE Close \/ CloseFault \/ Panic
  <2>1. /\ rec.pc # "idle" /\ rec' = NoReconcile
        /\ object' \in {object, Patched(object, rec.before, rec.copy),
                        ResourcePatched(object, rec.before, rec.copy),
                        StatusPatched(object, rec.before, rec.copy)}
    BY <1>5 DEF Close, CloseFault, Panic
  <2>2. Same(object, rec.before)
    BY <2>1 DEF FreshInv, FlightInv
  <2>3. rec'.pc = "idle"
    BY <2>1 DEF NoReconcile
  <2> QED
    BY <1>1, <2>1, <2>2, <2>3, PatchFacts, FreshPatch
<1> QED
  BY <1>2, <1>3, <1>4, <1>5
     DEF Next, Running, vars, envVars, Start, LookupFound, LookupStateless,
         LookupMissing, LookupNone, DeleteOwner, Create, CreateRefused,
         AwaitRunning, AwaitTimeout, AddRealServer, DelRealServer,
         CreateCAPUHost, LookupDeletedNone, LookupDeletedFound, DeleteCAPUHost,
         PowerOff, Terminate, Fault, LostAnswer, Crash, CloudStep, Upset, Sync,
         Prepare

\* The id moves only to that of the copy, when the reconcile ends.
LEMMA FreshId ==
    ASSUME TypeOK, FreshInv, [Next]_vars
    PROVE  \/ object'.id = object.id
           \/ rec.pc # "idle" /\ object'.id = rec.copy.id
<1>1. CASE Same(object', object)
  BY <1>1 DEF Same
<1>2. CASE rec.pc # "idle" /\ object'.id \in {object.id, rec.copy.id}
  BY <1>2
<1> QED
  BY <1>1, <1>2, FreshObject

\* Where ids come from.
LEMMA IdsFacts ==
    ASSUME ~StaleReads, TypeOK, [Next]_vars
    PROVE  /\ rec'.copy.id \in {None, object.id, rec.copy.id, rec.host}
           /\ \/ rec'.host \in {None, rec.host, rec.copy.id}
              \/ rec'.host \in Hosts /\ uhost'[rec'.host] = "Initializing"
<1>1. /\ rec \in Reconciles /\ rec.copy \in Objects /\ object \in Objects
      /\ uhost \in [Hosts -> UHostStates]
  BY TypeParts DEF RecordsTyped, Reconciles
<1>2. CASE UNCHANGED rec
  BY <1>2
<1>3. CASE rec' = NoReconcile
  BY <1>3 DEF NoReconcile, NoObject
<1>4. CASE LookupFound \/ LookupStateless \/ AwaitRunning
  <2>1. PICK h \in {rec.copy.id, rec.host}, state \in UHostStates \cup {""} :
            Serve(h, state)
    BY <1>1, <1>4
       DEF LookupFound, LookupStateless, AwaitRunning, InCloud, UHostStates
  <2>2. rec'.host = h /\ rec'.copy = Served(h, state, rec.copy)
    BY <1>1, <2>1 DEF Serve, Reconciles
  <2>3. rec'.copy.id = h
    BY <1>1, <2>2 DEF Served, Objects
  <2> QED
    BY <2>1, <2>2, <2>3
<1>5. CASE \E p : Goto(p)
  BY <1>1, <1>5 DEF Goto, Reconciles
<1>6. CASE Start
  <2>1. rec'.copy = [object EXCEPT !.fin = @ \/ object.life = "live"]
        /\ rec'.host = None
    BY <1>6 DEF Start, Seen
  <2> QED
    BY <1>1, <2>1 DEF Objects
<1>7. CASE Create
  <2>1. PICK h \in Hosts : /\ uhost' = [uhost EXCEPT ![h] = "Initializing"]
                           /\ rec' = [rec EXCEPT !.pc = "await", !.host = h]
    BY <1>7 DEF Create
  <2>2. rec'.host = h /\ rec'.copy = rec.copy /\ uhost'[h] = "Initializing"
    BY <1>1, <2>1 DEF Reconciles
  <2> QED
    BY <2>2
<1>8. CASE LookupMissing \/ CreateCAPUHost \/ LookupDeletedNone \/ Terminate
  <2>1. rec'.host = rec.host
    BY <1>1, <1>8 DEF LookupMissing, CreateCAPUHost, LookupDeletedNone,
       Terminate, Reconciles
  <2>2. CASE LookupMissing
    BY <1>1, <2>1, <2>2 DEF LookupMissing, Reconciles, Objects
  <2>3. CASE CreateCAPUHost
    BY <1>1, <2>1, <2>3 DEF CreateCAPUHost, Reconciles, Objects
  <2>4. CASE LookupDeletedNone \/ Terminate
    <3>1. rec' = [rec EXCEPT !.pc = "close", !.copy.fin = FALSE]
      BY <2>4 DEF LookupDeletedNone, Terminate
    <3> QED
      BY <1>1, <2>1, <3>1 DEF Reconciles, Objects
  <2> QED
    BY <1>8, <2>1, <2>2, <2>3, <2>4
<1>9. CASE LookupDeletedFound
  BY <1>1, <1>9 DEF LookupDeletedFound, Reconciles
<1>10. CASE PowerOff
  <2>1. CASE rec' = [rec EXCEPT !.pc = "close", !.copy.fin = FALSE]
    BY <1>1, <2>1 DEF Reconciles, Objects
  <2> QED
    BY <1>5, <1>10, <2>1 DEF PowerOff
<1> QED
  BY <1>2, <1>3, <1>4, <1>5, <1>6, <1>7, <1>8, <1>9, <1>10
     DEF Next, Running, vars, Register, LookupNone, DeleteOwner, CreateRefused,
     AwaitTimeout, AddRealServer, DelRealServer, DeleteCAPUHost, Fault,
     LostAnswer, CloseFault, Crash, Panic, Close, Sync, Prepare, DeleteMachine,
     CloudStep, Upset

\* IdsInv is kept by every step.
LEMMA IdsStep ==
    ASSUME ~StaleReads, TypeOK, FreshInv, [Next]_vars
    PROVE  IdsInv'
<1>1. /\ object \in Objects /\ rec \in Reconciles /\ None \notin Hosts
      /\ {object.id, rec.copy.id, rec.host} \subseteq Hosts \cup {None}
      /\ Born(object.id) /\ Born(rec.copy.id) /\ Born(rec.host)
      /\ uhost \in [Hosts -> UHostStates]
  BY TypeParts, MachineAssumption
     DEF RecordsTyped, Reconciles, Objects, FreshInv, IdsInv
<1>2. ASSUME NEW h \in {None, object.id, rec.copy.id, rec.host}
      PROVE  h # None => uhost'[h] # "unborn"
  <2>1. CASE h = None
    BY <2>1
  <2>2. CASE h \in Hosts
    <3>1. uhost[h] # "unborn"
      BY <1>1, <2>2 DEF Born
    <3> QED
      BY <2>2, <3>1, UHostFacts DEF InCloud
  <2> QED
    BY <1>1, <2>1, <2>2
<1>3. object'.id \in {object.id, rec.copy.id}
  BY FreshObject DEF Same
<1> QED
  BY <1>2, <1>3, IdsFacts DEF IdsInv, Born

-----------------------------------------------------------------------------
(* The reconcile in flight.                                                *)

\* The copy of a reconcile in flight stays true to what it read, and what it
\* says of a missing or undone instance stays true.
LEMMA FreshFlight ==
    ASSUME ~StaleReads, TypeOK, HostNamed, FinalizerInv, FreshInv, [Next]_vars
    PROVE  FlightInv'
<1>1. /\ object \in Objects /\ KeptByFinalizer(object) /\ rec \in Reconciles
      /\ rec.before \in Objects /\ rec.copy \in Objects
      /\ rec.copy.id \in Hosts \cup {None} /\ None \notin Hosts
      /\ rec.pc \in Steps
      /\ uhost \in [Hosts -> UHostStates]
  BY TypeParts, MachineAssumption DEF RecordsTyped, Reconciles, Objects
<1>2. /\ FlightInv /\ IdsInv /\ FailedNotReady
      /\ FlightSafe /\ FlightSafe'
  BY FinalizerStep DEF FreshInv, FinalizerInv
<1>3. ASSUME rec.pc # "idle", rec'.pc # "idle", rec'.before = rec.before
      PROVE  /\ Same(object', rec'.before)
             /\ rec'.before.life # "gone"
             /\ rec'.before.life = "deleting" => rec'.before.fin
             /\ rec'.before.fin => object'.fin /\ object'.life # "gone"
  <2>1. Same(object', object)
    BY <1>3, FreshObject DEF NoReconcile
  <2> QED
    BY <1>2, <1>3, <2>1, FreshObject DEF FlightInv, Same
<1>4. ASSUME rec.pc \in ServeSteps, rec'.pc # "idle"
      PROVE  object'.fin /\ object'.life # "gone"
  BY <1>2, <1>4, FreshObject DEF FlightInv, ServeSteps
<1>5. ASSUME NEW h \in Hosts, uhost[h] = "deleted"
      PROVE  uhost'[h] = "deleted"
  BY <1>5, UHostFacts
<1>6. ASSUME rec.copy.id # None, ~InCloud(rec.copy.id)
      PROVE  uhost[rec.copy.id] = "deleted"
  BY <1>1, <1>2, <1>6 DEF IdsInv, Born, InCloud
<1>7. ASSUME rec.pc # "idle", rec'.before = rec.before, rec'.copy = rec.copy,
             rec'.pc \notin {"idle", "register", "deleteOwner"},
             rec'.pc = "lookup" => rec.copy.id = rec.before.id,
             rec'.pc \in {"create", "await"}
                => rec.copy.id = None /\ rec.before.id = None,
             rec'.pc \in {"drain", "leave", "poweroff", "terminate"}
                => rec'.host = rec.copy.id,
             rec'.pc \in ServeSteps => object'.fin /\ object'.life # "gone",
             rec.pc = "close" => rec'.pc = "close",
             rec'.pc \in {"lookup", "create", "await"} => ~rec.copy.failed
      PROVE  FlightInv'
  <2>1. ~rec.copy.fin =>
           /\ rec'.pc = "close" /\ rec.before.life # "live"
           /\ rec.copy.id # None => uhost'[rec.copy.id] = "deleted"
    BY <1>1, <1>2, <1>5, <1>7 DEF FlightInv, Undone
  <2> QED
    BY <1>2, <1>3, <1>7, <2>1 DEF FlightInv, Undone
<1>8. ASSUME rec.pc # "idle", Goto("close") PROVE FlightInv'
  <2>1. rec'.pc = "close" /\ rec'.before = rec.before /\ rec'.copy = rec.copy
    BY <1>1, <1>8 DEF Goto, Reconciles
  <2> QED
    BY <1>7, <1>8, <2>1 DEF ServeSteps
<1>9. CASE UNCHANGED rec
  <2>1. CASE rec.pc = "idle"
    BY <1>9, <2>1 DEF FlightInv
  <2>2. CASE rec.pc # "idle"
    <3>1. rec.pc \in ServeSteps => object'.fin /\ object'.life # "gone"
      BY <1>4, <1>9, <2>2
    <3>2. /\ ~rec.copy.fin /\ rec.copy.id # None
                => uhost'[rec.copy.id] = "deleted"
          /\ rec.pc = "deleteOwner" => uhost'[rec.copy.id] = "deleted"
      BY <1>1, <1>2, <1>5, <2>2 DEF FlightInv, Undone
    <3> QED
      BY <1>2, <1>3, <1>9, <2>2, <3>1, <3>2 DEF FlightInv, Undone
  <2> QED
    BY <2>1, <2>2
<1>10. CASE rec' = NoReconcile
  BY <1>10 DEF NoReconcile, FlightInv
<1>11. CASE Start
  <2>1. /\ rec'.before = object /\ object' = object /\ object.life # "gone"
        /\ rec'.copy = [object EXCEPT !.fin = @ \/ object.life = "live"]
        /\ rec'.pc = IF object.life = "live" THEN "register"
                     ELSE "lookupDeleted"
        /\ object.life = "live" => ~object.failed
    BY <1>11 DEF Start, Seen
  <2>2. /\ Same(rec'.copy, object)
        /\ rec'.copy.fin = (object.fin \/ object.life = "live")
    BY <1>1, <2>1 DEF Objects, Same
  <2>3. rec'.copy.fin
    BY <1>1, <2>1, <2>2 DEF Objects, KeptByFinalizer
  <2> QED
    BY <1>1, <1>2, <2>1, <2>2, <2>3
       DEF FlightInv, FailedNotReady, Same, ServeSteps, KeptByFinalizer,
           Objects
<1>12. CASE Register
  <2>1. rec.pc = "register"
    BY <1>12 DEF Register
  <2>2. CASE Goto("close")
    BY <1>8, <2>1, <2>2
  <2>3. CASE Goto("lookup") /\ (object.life # "gone" \/ rec.before.fin)
    <3>1. /\ rec'.pc = "lookup" /\ rec'.before = rec.before
          /\ rec'.copy = rec.copy
      BY <1>1, <2>3 DEF Goto, Reconciles
    <3>2. /\ object.life # "gone" /\ rec.copy.fin /\ ~rec.copy.failed
          /\ rec.copy.id = rec.before.id /\ Same(object, rec.before)
      BY <1>2, <2>1, <2>3 DEF FlightInv, Same
    <3>3. object' \in {object, Patched(object, rec.before, rec.copy),
                      ResourcePatched(object, rec.before, rec.copy),
                      StatusPatched(object, rec.before, rec.copy)}
      BY <1>12 DEF Register
    <3>4. object'.life = "gone" /\ object.life # "gone"
             => rec.before.fin /\ ~rec.copy.fin
      BY <1>1, <3>2, <3>3, FreshPatch
    <3>5. object'.fin /\ object'.life # "gone"
      BY <1>2, <3>1, <3>2, <3>4 DEF FlightSafe, ServeSteps, Held
    <3> QED
      BY <1>7, <2>1, <3>1, <3>2, <3>5
  <2> QED
    BY <1>12, <2>2, <2>3 DEF Register
<1>13. CASE LookupFound \/ LookupStateless \/ AwaitRunning
  <2>1. PICK h, state : /\ Serve(h, state)
                        /\ rec.pc \in {"lookup", "await"}
                        /\ rec.pc = "lookup" => h = rec.copy.id
    BY <1>13 DEF LookupFound, LookupStateless, AwaitRunning
  <2>2. /\ rec'.before = rec.before
        /\ rec'.copy = Served(h, state, rec.copy)
        /\ rec'.pc = StepFor(state)
    BY <1>1, <2>1 DEF Serve, Reconciles
  <2>3. /\ rec'.copy.id = h /\ rec'.copy.fin = rec.copy.fin
        /\ rec'.copy.failed => rec.copy.failed \/ ~rec'.copy.ready
    BY <1>1, <2>2 DEF Served, Objects
  <2>4. rec'.pc \in {"close", "join", "addBackend", "dropBackend"}
    BY <2>2 DEF StepFor
  <2>5. /\ rec.before.life = "live" /\ rec.copy.fin /\ ~rec.copy.failed
        /\ rec.before.id # None => h = rec.before.id
        /\ object'.fin /\ object'.life # "gone"
    BY <1>2, <1>4, <2>1, <2>4 DEF FlightInv, FlightSafe, ServeSteps
  <2> QED
    BY <1>3, <2>1, <2>2, <2>3, <2>4, <2>5 DEF FlightInv
<1>14. CASE LookupMissing
  <2>1. /\ rec.pc = "lookup" /\ rec.copy.id # None /\ ~InCloud(rec.copy.id)
        /\ rec' = [rec EXCEPT !.pc = "deleteOwner", !.copy.failed = TRUE,
                              !.copy.ready = FALSE]
        /\ uhost' = uhost
    BY <1>14 DEF LookupMissing
  <2>2. /\ rec'.pc = "deleteOwner" /\ rec'.before = rec.before
        /\ rec'.copy.id = rec.copy.id /\ rec'.copy.fin = rec.copy.fin
        /\ ~rec'.copy.ready
    BY <1>1, <2>1 DEF Reconciles, Objects
  <2>3. /\ rec.before.life = "live" /\ rec.copy.fin
        /\ rec.copy.id = rec.before.id
        /\ object'.fin /\ object'.life # "gone"
    BY <1>2, <1>4, <2>1, <2>2 DEF FlightInv, FlightSafe, ServeSteps
  <2> QED
    BY <1>3, <1>6, <2>1, <2>2, <2>3 DEF FlightInv
<1>15. CASE CreateCAPUHost
  <2>1. /\ rec.pc = "join"
        /\ rec' = [rec EXCEPT !.pc = "close", !.copy.joined = TRUE]
    BY <1>15 DEF CreateCAPUHost
  <2>2. /\ rec'.pc = "close" /\ rec'.before = rec.before
        /\ rec'.copy.id = rec.copy.id /\ rec'.copy.fin = rec.copy.fin
        /\ rec'.copy.ready = rec.copy.ready
        /\ rec'.copy.failed = rec.copy.failed
    BY <1>1, <2>1 DEF Reconciles, Objects
  <2>3. rec.before.life = "live" /\ rec.copy.fin
    BY <1>2, <2>1 DEF FlightInv, FlightSafe, ServeSteps
  <2> QED
    BY <1>2, <1>3, <2>1, <2>2, <2>3 DEF FlightInv, ServeSteps
<1>16. ASSUME rec.pc \in UnwindSteps,
              rec' = [rec EXCEPT !.pc = "close", !.copy.fin = FALSE],
              rec.copy.id # None => uhost'[rec.copy.id] = "deleted"
       PROVE  FlightInv'
  <2>1. /\ rec'.pc = "close" /\ rec'.before = rec.before
        /\ Same(rec'.copy, rec.copy)
    BY <1>1, <1>16 DEF Reconciles, Objects, Same
  <2>2. rec.pc # "idle" /\ rec.before.life # "live"
    BY <1>2, <1>16 DEF FlightSafe, UnwindSteps
  <2> QED
    BY <1>2, <1>3, <1>16, <2>1, <2>2 DEF FlightInv, Undone, Same, ServeSteps
<1>17. CASE LookupDeletedNone
  BY <1>6, <1>16, <1>17 DEF LookupDeletedNone, UnwindSteps
<1>18. CASE LookupDeletedFound
  <2>1. /\ rec.pc = "lookupDeleted"
        /\ rec' = [rec EXCEPT !.pc = IF ControlPlane THEN "drain" ELSE "leave",
                              !.host = rec.copy.id]
    BY <1>18 DEF LookupDeletedFound
  <2>2. /\ rec'.pc \in {"drain", "leave"} /\ rec'.host = rec.copy.id
        /\ rec'.before = rec.before /\ rec'.copy = rec.copy
    BY <1>1, <2>1 DEF Reconciles
  <2> QED
    BY <1>7, <2>1, <2>2 DEF ServeSteps
<1>19. CASE PowerOff
  <2>1. rec.pc = "poweroff" /\ rec.host = rec.copy.id
    BY <1>2, <1>19 DEF PowerOff, FlightInv
  <2>2. CASE Goto("terminate")
    <3>1. /\ rec'.pc = "terminate" /\ rec'.before = rec.before
          /\ rec'.copy = rec.copy /\ rec'.host = rec.host
      BY <1>1, <2>2 DEF Goto, Reconciles
    <3> QED
      BY <1>7, <2>1, <3>1 DEF ServeSteps
  <2>3. CASE /\ ~InCloud(rec.host) /\ UNCHANGED uhost
             /\ rec' = [rec EXCEPT !.pc = "close", !.copy.fin = FALSE]
    BY <1>6, <1>16, <2>1, <2>3 DEF UnwindSteps
  <2> QED
    BY <1>19, <2>2, <2>3 DEF PowerOff
<1>20. CASE Terminate
  <2>1. rec.pc = "terminate" /\ rec.host = rec.copy.id /\ rec.host \in Hosts
    BY <1>2, <1>20 DEF Terminate, FlightInv, HostNamed
  <2>2. uhost'[rec.copy.id] = "deleted"
    BY <1>1, <1>20, <2>1 DEF Terminate
  <2> QED
    BY <1>16, <1>20, <2>1, <2>2 DEF Terminate, UnwindSteps
<1>21. CASE Create
  <2>1. rec.pc = "create"
          /\ \E h : rec' = [rec EXCEPT !.pc = "await", !.host = h]
    BY <1>21 DEF Create
  <2>2. /\ rec'.pc = "await" /\ rec'.before = rec.before
        /\ rec'.copy = rec.copy
    BY <1>1, <2>1 DEF Reconciles
  <2>3. object'.fin /\ object'.life # "gone"
    BY <1>4, <2>1, <2>2 DEF ServeSteps
  <2> QED
    BY <1>2, <1>7, <2>1, <2>2, <2>3 DEF FlightInv
<1>22. CASE LookupNone
  <2>1. /\ rec.pc = "lookup" /\ rec.copy.id = None
        /\ rec'.pc = "create" /\ rec'.before = rec.before
        /\ rec'.copy = rec.copy
    BY <1>1, <1>22 DEF LookupNone, Goto, Reconciles
  <2>2. object'.fin /\ object'.life # "gone"
    BY <1>4, <2>1 DEF ServeSteps
  <2> QED
    BY <1>2, <1>7, <2>1, <2>2 DEF FlightInv
<1>23. CASE AddRealServer \/ DelRealServer("dropBackend", "join")
  <2>1. /\ rec.pc \in {"addBackend", "dropBackend"}
        /\ rec'.pc \in {"join", "close"} /\ rec'.before = rec.before
        /\ rec'.copy = rec.copy
    BY <1>1, <1>23 DEF AddRealServer, DelRealServer, Goto, Reconciles
  <2>2. object'.fin /\ object'.life # "gone"
    BY <1>4, <2>1 DEF ServeSteps
  <2> QED
    BY <1>7, <2>1, <2>2
<1>24. CASE DelRealServer("drain", "leave") \/ DeleteCAPUHost
  <2>1. /\ rec.pc \in {"drain", "leave"}
        /\ rec'.pc \in {"leave", "poweroff"} /\ rec'.before = rec.before
        /\ rec'.copy = rec.copy /\ rec'.host = rec.host
    BY <1>1, <1>24 DEF DelRealServer, DeleteCAPUHost, Goto, Reconciles
  <2> QED
    BY <1>2, <1>7, <2>1 DEF FlightInv, ServeSteps
<1>25. CASE \/ DeleteOwner \/ CreateRefused \/ AwaitTimeout \/ Fault
            \/ LostAnswer
  BY <1>8, <1>25 DEF DeleteOwner, CreateRefused, AwaitTimeout, Fault,
     LostAnswer
<1> QED
  BY <1>9, <1>10, <1>11, <1>12, <1>13, <1>14, <1>15, <1>17, <1>18, <1>19,
     <1>20, <1>21, <1>22, <1>23, <1>24, <1>25
     DEF Next, Running, vars, CloseFault, Crash, Panic, Close, Sync, Prepare,
     DeleteMachine, CloudStep, Upset

-----------------------------------------------------------------------------
(* The object and its instance.                                            *)

\* FreshInv is kept by every step.
LEMMA FreshStep ==
    ASSUME ~StaleReads, TypeOK, HostNamed, FinalizerInv, FreshInv, [Next]_vars
    PROVE  FreshInv'
<1>1. /\ object \in Objects /\ object' \in Objects /\ rec.copy \in Objects
      /\ None \notin Hosts /\ object.id \in Hosts \cup {None}
      /\ rec.copy.id \in Hosts \cup {None}
      /\ uhost \in [Hosts -> UHostStates]
  BY TypeParts, FreshObject, MachineAssumption
     DEF RecordsTyped, Reconciles, Objects
<1>2. /\ FlightInv /\ IdsInv /\ FailedNotReady /\ OwnerOutlivesInstance
      /\ object.life = "gone" => Undone(object.id)
  BY DEF FreshInv
<1>3. ASSUME NEW h \in Hosts, uhost[h] = "deleted"
      PROVE  uhost'[h] = "deleted"
  BY <1>3, UHostFacts
<1>4. \/ object'.id = object.id
      \/ rec.pc # "idle" /\ object'.id = rec.copy.id
  BY FreshId
<1>5. ASSUME object.id # None PROVE object'.id = object.id
  BY <1>2, <1>4, <1>5 DEF FlightInv, Same
<1>6. OwnerOutlivesInstance'
  <2>1. CASE ~owner
    BY <1>1, <1>2, <1>3, <1>5, <2>1 DEF OwnerOutlivesInstance
  <2>2. CASE DeleteOwner
    <3>1. object' = object /\ uhost' = uhost /\ rec.pc = "deleteOwner"
      BY <2>2 DEF DeleteOwner
    <3> QED
      BY <1>2, <3>1 DEF FlightInv, Same, OwnerOutlivesInstance
  <2>3. CASE owner' = owner /\ owner
    BY <2>3 DEF OwnerOutlivesInstance
  <2>4. DeleteOwner \/ owner' = owner
    BY DEF Next, Running, vars, envVars, Start, Register, LookupFound,
       LookupStateless, LookupMissing, LookupNone, Create, CreateRefused,
       AwaitRunning, AwaitTimeout, AddRealServer, DelRealServer,
       CreateCAPUHost, LookupDeletedNone, LookupDeletedFound, DeleteCAPUHost,
       PowerOff, Terminate, Close, Fault, LostAnswer, CloseFault, Crash, Panic,
       CloudStep, Upset, Sync, Prepare, DeleteMachine
  <2> QED
    BY <2>1, <2>2, <2>3, <2>4
<1>7. ASSUME object'.life = "gone" PROVE Undone(object.id)'
  <2>1. CASE object.life = "gone"
    BY <1>1, <1>2, <1>3, <2>1, FreshObject DEF Undone
  <2>2. CASE rec.pc # "idle" /\ ~rec.copy.fin
    <3>1. object'.id \in {None, rec.copy.id} /\ Undone(rec.copy.id)
      BY <1>2, <1>4, <2>2 DEF FlightInv, Same
    <3> QED
      BY <1>1, <1>3, <3>1 DEF Undone
  <2>3. CASE /\ Same(object', object)
             /\ ~object.fin /\ object.life # "gone"
    <3>1. object.id = None
      BY <1>1, <1>2, <2>3 DEF FinalizerInv, BornHeld, Held, IdsInv, Born
    <3> QED
      BY <2>3, <3>1 DEF Same, Undone
  <2> QED
    BY <1>7, <2>1, <2>2, <2>3, FreshObject
<1>8. FailedNotReady'
  BY <1>2, FreshObject DEF FailedNotReady, FlightInv, Same
<1> QED
  BY <1>6, <1>7, <1>8, IdsStep, FreshFlight DEF FreshInv

\* The invariants together, from fresh reads.
LEMMA FreshAlways ==
    ASSUME ~StaleReads
    PROVE  Spec => [](TypeOK /\ FinalizerInv /\ CloudInv /\ FreshInv)
<1>1. Init => HostNamed /\ FinalizerInv /\ CloudInv /\ FreshInv
  <2> SUFFICES ASSUME Init
               PROVE  HostNamed /\ FinalizerInv /\ CloudInv /\ FreshInv
    OBVIOUS
  <2>1. /\ object = NoObject /\ cached = NoObject /\ rec = NoReconcile
        /\ rec.pc = "idle" /\ rec.copy.id = None /\ rec.host = None
        /\ object.life = "live" /\ object.id = None /\ ~object.failed
        /\ \A h \in Hosts : uhost[h] = "unborn"
        /\ owner = TRUE
    BY DEF Init, NoObject, NoReconcile
  <2>2. HostNamed /\ CloudInv
    BY <2>1 DEF HostNamed, CloudInv
  <2>3. FinalizerInv
    BY <2>1 DEF FinalizerInv, OldVersion, FlightSafe, BornHeld, NoObject
  <2>4. FreshInv
    BY <2>1 DEF FreshInv, IdsInv, Born, FlightInv, OwnerOutlivesInstance,
       FailedNotReady
  <2> QED
    BY <2>2, <2>3, <2>4
<1>2. TypeOK /\ HostNamed /\ [Next]_vars => HostNamed'
  BY HostNamedStep
<1>3. TypeOK /\ FinalizerInv /\ [Next]_vars => FinalizerInv'
  BY FinalizerStep
<1>4. TypeOK /\ HostNamed /\ DrainedBeforePowerOff /\ CloudInv /\ [Next]_vars
         => CloudInv'
  BY CloudStepKept
<1>5. TypeOK /\ HostNamed /\ FinalizerInv /\ FreshInv /\ [Next]_vars
         => FreshInv'
  BY FreshStep
<1> QED
  BY <1>1, <1>2, <1>3, <1>4, <1>5, TypeCorrect, Drained, PTL DEF Spec

\* A removed object leaves nothing of the instance it recorded: the instance
\* is terminated, no backend, and no CAPU host unless somebody else deleted
\* it, whatever failed or crashed on the way.
THEOREM RemovedUndone == ASSUME ~StaleReads PROVE Spec => []RecordedUndone
<1>1. TypeOK /\ CloudInv /\ FreshInv => RecordedUndone
  BY TypeParts
     DEF RecordsTyped, Objects, CloudInv, FreshInv, Undone, RecordedUndone
<1> QED
  BY <1>1, FreshAlways, PTL

\* The reconciler deletes the owning Machine only once the instance that its
\* object recorded is gone for good.
THEOREM OwnerLast == ASSUME ~StaleReads PROVE Spec => []OwnerOutlivesInstance
<1>1. FreshInv => OwnerOutlivesInstance
  BY DEF FreshInv
<1> QED
  BY <1>1, FreshAlways, PTL

\* No write, whole or half, leaves a machine failed and ready.
THEOREM FailureReported == ASSUME ~StaleReads PROVE Spec => []FailedNotReady
<1>1. FreshInv => FailedNotReady
  BY DEF FreshInv
<1> QED
  BY <1>1, FreshAlways, PTL

-----------------------------------------------------------------------------
(* The machine keeps the promise of an owned resource.                     *)

\* The instances there ever were and those that are there.
Issued == {h \in Hosts : uhost[h] # "unborn"}
Existing == {h \in Hosts : InCloud(h)}

\* A step changes the object or an instance, not both.
LEMMA ObjectOrInstance ==
    ASSUME TypeOK, [Next]_vars
    PROVE  \/ uhost' = uhost
           \/ /\ object' = object
              /\ \E h, s : uhost' = [uhost EXCEPT ![h] = s]
<1>1. uhost' = uhost \/ object' = object
  BY DEF Next, Running, vars, envVars, Start, Register, LookupFound,
     LookupStateless, LookupMissing, LookupNone, DeleteOwner, Create,
     CreateRefused, AwaitRunning, AwaitTimeout, AddRealServer, DelRealServer,
     CreateCAPUHost, LookupDeletedNone, LookupDeletedFound, DeleteCAPUHost,
     PowerOff, Terminate, Close, Fault, LostAnswer, CloseFault, Crash, Panic,
     CloudStep, Upset, Sync, Prepare, DeleteMachine
<1> QED
  BY <1>1, UHostStep

\* What happens to the instances is that one is created for an object that is
\* there and names none, or that one is deleted.
LEMMA InstanceStep ==
    ASSUME TypeOK, FreshInv, [Next]_vars, object' = object,
           NEW h, NEW s, uhost' = [uhost EXCEPT ![h] = s]
    PROVE  \/ Issued' = Issued /\ Existing' = Existing
           \/ /\ object.life # "gone" /\ object.id = None
              /\ h \in Hosts \ Issued
              /\ Issued' = Issued \cup {h} /\ Existing' = Existing \cup {h}
           \/ /\ h \in Existing
              /\ Issued' = Issued /\ Existing' = Existing \ {h}
<1>1. uhost \in [Hosts -> UHostStates]
  BY TypeParts
<1>2. CASE h \notin Hosts
  <2>1. uhost' = uhost
    BY <1>1, <1>2
  <2> QED
    BY <2>1 DEF Issued, Existing, InCloud
<1>3. CASE h \in Hosts
  <2>1. uhost'[h] = s /\ \A g \in Hosts \ {h} : uhost'[g] = uhost[g]
    BY <1>1, <1>3
  <2>2. CASE uhost[h] = "unborn"
    <3>1. CASE s = "unborn"
      BY <1>3, <2>1, <2>2, <3>1 DEF Issued, Existing, InCloud
    <3>2. CASE rec.pc = "create" /\ s = "Initializing"
      <4>1. object.life # "gone" /\ object.id = None
        BY <3>2 DEF FreshInv, FlightInv, ServeSteps, Same
      <4>2. /\ Issued' = Issued \cup {h}
            /\ Existing' = Existing \cup {h} /\ h \notin Issued
        BY <1>3, <2>1, <2>2, <3>2 DEF Issued, Existing, InCloud
      <4> QED
        BY <1>3, <4>1, <4>2
    <3> QED
      BY <1>3, <2>1, <2>2, <3>1, <3>2, UHostFacts
  <2>3. CASE uhost[h] = "deleted"
    <3>1. s = "deleted"
      BY <1>3, <2>1, <2>3, UHostFacts
    <3> QED
      BY <1>3, <2>1, <2>3, <3>1 DEF Issued, Existing, InCloud
  <2>4. CASE InCloud(h)
    <3>1. s # "unborn"
      BY <1>3, <2>1, <2>4, UHostFacts
    <3>2. Issued' = Issued
      BY <1>3, <2>1, <2>4, <3>1 DEF Issued, InCloud
    <3>3. CASE s = "deleted"
      <4>1. h \in Existing /\ Existing' = Existing \ {h}
        BY <1>3, <2>1, <2>4, <3>3 DEF Existing, InCloud
      <4> QED
        BY <3>2, <4>1
    <3>4. CASE s # "deleted"
      <4>1. Existing' = Existing
        BY <1>3, <2>1, <2>4, <3>1, <3>4 DEF Existing, InCloud
      <4> QED
        BY <3>2, <4>1
    <3> QED
      BY <3>3, <3>4
  <2> QED
    BY <1>3, <2>2, <2>3, <2>4 DEF InCloud
<1> QED
  BY <1>2, <1>3

\* What happens to the object is that it records an instance that was created,
\* or that it is removed after the one it recorded.
LEMMA RecordStep ==
    ASSUME ~StaleReads, TypeOK, HostNamed, FinalizerInv, FreshInv, [Next]_vars
    PROVE  /\ object.life = "gone" => object' = object
           /\ \/ object'.id = object.id
              \/ /\ object.id = None /\ object'.id \in Hosts
                 /\ uhost[object'.id] # "unborn"
           /\ object'.life = "gone" /\ object.life # "gone" =>
                 object'.id = object.id /\ ~InCloud(object.id)
<1>1. /\ object \in Objects /\ rec.copy \in Objects
      /\ None \notin Hosts /\ rec.copy.id \in Hosts \cup {None}
  BY TypeParts, MachineAssumption DEF RecordsTyped, Reconciles, Objects
<1>2. /\ FlightInv /\ IdsInv
  BY DEF FreshInv
<1>3. \/ object'.id = object.id
      \/ rec.pc # "idle" /\ object'.id = rec.copy.id
  BY FreshId
<1>4. \/ object'.id = object.id
      \/ /\ object.id = None /\ object'.id \in Hosts
         /\ uhost[object'.id] # "unborn"
  BY <1>1, <1>2, <1>3 DEF FlightInv, IdsInv, Born, Same
<1>5. ASSUME object'.life = "gone", object.life # "gone"
      PROVE  object'.id = object.id /\ ~InCloud(object.id)
  <2>1. CASE rec.pc # "idle" /\ ~rec.copy.fin
    BY <1>1, <1>2, <1>3, <2>1 DEF FlightInv, Same, Undone, InCloud
  <2>2. CASE Same(object', object) /\ ~object.fin
    BY <1>1, <1>2, <1>5, <2>2
       DEF Same, FinalizerInv, BornHeld, Held, IdsInv, Born, InCloud
  <2> QED
    BY <1>5, <2>1, <2>2, FreshObject
<1> QED
  BY <1>4, <1>5, FreshObject

\* A step of the machine is one of the promise, or changes nothing of it.
LEMMA OwnedStep ==
    ASSUME ~StaleReads, TypeOK, HostNamed, FinalizerInv, FreshInv, [Next]_vars
    PROVE  [Instance!Next]_(Instance!vars)
<1> DEFINE issued == [k \in {"uhost"} |-> {h \in Hosts : uhost[h] # "unborn"}]
           existing == [k \in {"uhost"} |-> {h \in Hosts : InCloud(h)}]
           recorded == [k \in {"uhost"} |-> object.id]
           open == object.life # "gone"
<1>1. /\ issued = [k \in {"uhost"} |-> Issued]
      /\ existing = [k \in {"uhost"} |-> Existing]
      /\ issued' = [k \in {"uhost"} |-> Issued']
      /\ existing' = [k \in {"uhost"} |-> Existing']
  BY DEF Issued, Existing
<1>2. CASE uhost' = uhost
  <2>1. issued' = issued /\ existing' = existing
    BY <1>2 DEF InCloud
  <2>2. CASE object'.id = object.id /\ open' = open
    <3>1. recorded' = recorded
      BY <2>2
    <3> QED
      BY <2>1, <2>2, <3>1 DEF Instance!vars
  <2>3. CASE object'.id # object.id /\ open' = open
    <3>1. /\ open /\ object.id = None /\ object'.id \in Hosts
          /\ uhost[object'.id] # "unborn"
      BY <2>3, RecordStep
    <3>2. recorded' \in [{"uhost"} -> Hosts \cup {None}]
      BY <3>1
    <3>3. \A k \in {"uhost"} :
             recorded[k] = None /\ recorded'[k] \in issued[k]
      BY <3>1
    <3>4. Instance!Record
      BY <2>1, <2>3, <3>1, <3>2, <3>3 DEF Instance!Record
    <3> QED
      BY <3>4 DEF Instance!Next
  <2>4. CASE open' # open
    <3>1. /\ open /\ ~open' /\ object'.id = object.id /\ ~InCloud(object.id)
      BY <2>4, RecordStep
    <3>2. recorded' = recorded
      BY <3>1
    <3>3. \A k \in {"uhost"} : recorded[k] \notin existing[k]
      BY <3>1
    <3>4. Instance!Close
      BY <2>1, <3>1, <3>2, <3>3 DEF Instance!Close
    <3> QED
      BY <3>4 DEF Instance!Next
  <2> QED
    BY <2>2, <2>3, <2>4
<1>3. ASSUME object' = object, NEW h, NEW s, uhost' = [uhost EXCEPT ![h] = s]
      PROVE  [Instance!Next]_(Instance!vars)
  <2>1. recorded' = recorded /\ open' = open
    BY <1>3
  <2>2. CASE Issued' = Issued /\ Existing' = Existing
    BY <1>1, <2>1, <2>2 DEF Instance!vars
  <2>3. CASE /\ object.life # "gone" /\ object.id = None
             /\ h \in Hosts \ Issued
             /\ Issued' = Issued \cup {h} /\ Existing' = Existing \cup {h}
    <3>1. /\ issued' = [issued EXCEPT !["uhost"] = @ \cup {h}]
          /\ existing' = [existing EXCEPT !["uhost"] = @ \cup {h}]
          /\ h \notin issued["uhost"] /\ recorded["uhost"] = None /\ open
      BY <1>1, <2>3
    <3>2. Instance!Create("uhost", h)
      BY <2>1, <3>1 DEF Instance!Create
    <3> QED
      BY <2>3, <3>2 DEF Instance!Next
  <2>4. CASE h \in Existing /\ Issued' = Issued /\ Existing' = Existing \ {h}
    <3>1. /\ issued' = issued
          /\ existing' = [existing EXCEPT !["uhost"] = @ \ {h}]
          /\ h \in existing["uhost"]
      BY <1>1, <2>4
    <3>2. Instance!Delete("uhost")
      BY <2>1, <3>1 DEF Instance!Delete
    <3> QED
      BY <3>2 DEF Instance!Next
  <2> QED
    BY <1>3, <2>2, <2>3, <2>4, InstanceStep
<1> QED
  BY <1>2, <1>3, ObjectOrInstance

\* A machine creates an instance only when its object is there and names none,
\* records only one that it created, never swaps it, and is removed only
\* after the one it recorded.
THEOREM InstanceKept == ASSUME ~StaleReads PROVE Spec => InstanceOwned
<1>1. Init => Instance!Init
  <2> SUFFICES ASSUME Init PROVE Instance!Init
    OBVIOUS
  <2>1. /\ object.id = None /\ object.life = "live"
        /\ \A h \in Hosts : uhost[h] = "unborn"
    BY DEF Init, NoObject
  <2>2. /\ {h \in Hosts : uhost[h] # "unborn"} = {}
        /\ {h \in Hosts : InCloud(h)} = {}
    BY <2>1 DEF InCloud
  <2> QED
    BY <2>1, <2>2 DEF Instance!Init
<1>2. Spec => []HostNamed
  <2>1. Init => HostNamed
    BY DEF Init, HostNamed, NoReconcile
  <2>2. TypeOK /\ HostNamed /\ [Next]_vars => HostNamed'
    BY HostNamedStep
  <2> QED
    BY <2>1, <2>2, TypeCorrect, PTL DEF Spec
<1>3. TypeOK /\ HostNamed /\ FinalizerInv /\ FreshInv /\ [Next]_vars
         => [Instance!Next]_(Instance!vars)
  BY OwnedStep
<1> QED
  BY <1>1, <1>2, <1>3, FreshAlways, PTL DEF Spec, InstanceOwned, Instance!Spec
=============================================================================
