-------------------------- MODULE Terminator_proofs --------------------------
(***************************************************************************)
(* Theorems about Terminator, for every set of callers, every mix of ways  *)
(* the service may answer and any number of faults.                        *)
(***************************************************************************)
EXTENDS Terminator, TLAPS

\* The initial states have the types.
LEMMA TypeInit == Init => TypeOK
BY TerminatorAssumption DEF Init, TypeOK, HostStates, Steps

\* A step of one caller: the others are where they were.
LEMMA OneCaller ==
    ASSUME TypeOK, NEW c \in Callers,
           NEW p \in Steps, NEW t \in {"off", "on", "tick"},
           p \in {"stopping", "deleting"} => t # "off",
           pc' = [pc EXCEPT ![c] = p], timer' = [timer EXCEPT ![c] = t],
           host' \in HostStates, service' \in Services,
           faults' \in 0..MaxFaults, upsets' \in 0..MaxUpsets
    PROVE  TypeOK'
BY DEF TypeOK

\* An action of a caller writes its step and its timer only.
LEMMA TypeCaller ==
    ASSUME TypeOK, NEW c \in Callers,
           CallerStep(c) \/ Fire(c) \/ CallFails(c) \/ CallAgain(c)
    PROVE  TypeOK'
<1>0. /\ pc[c] \in Steps /\ timer[c] \in {"off", "on", "tick"}
      /\ pc[c] \in {"stopping", "deleting"} => timer[c] # "off"
      /\ host \in HostStates /\ service \in Services
      /\ faults \in 0..MaxFaults /\ upsets \in 0..MaxUpsets
      /\ pc = [pc EXCEPT ![c] = pc[c]]
      /\ timer = [timer EXCEPT ![c] = timer[c]]
  BY DEF TypeOK
<1>1. ASSUME NEW p \in Steps \ {"stopping", "deleting"},
             pc' = [pc EXCEPT ![c] = p], UNCHANGED timer,
             host' \in HostStates, service' \in Services,
             faults' \in 0..MaxFaults, upsets' \in 0..MaxUpsets
      PROVE  TypeOK'
  BY <1>0, <1>1, OneCaller
<1>2. ASSUME Fail(c), host' \in HostStates, service' \in Services,
             faults' \in 0..MaxFaults, upsets' \in 0..MaxUpsets
      PROVE  TypeOK'
  <2>1. pc' = [pc EXCEPT ![c] = "idle"] /\ timer' = [timer EXCEPT ![c] = "off"]
    BY <1>2 DEF Fail, Goto
  <2>2. "idle" \in Steps
    BY DEF Steps
  <2> QED
    BY <1>2, <2>1, <2>2, OneCaller
<1>3. CASE Call(c)
  BY <1>0, <1>1, <1>3 DEF Call, Goto, Steps
<1>4. CASE Lookup(c)
  BY <1>0, <1>1, <1>2, <1>4 DEF Lookup, Goto, Steps
<1>5. CASE Describe(c)
  BY <1>0, <1>1, <1>5 DEF Describe, Goto, Steps
<1>6. CASE PowerOff(c)
  <2>1. CASE Fail(c) /\ UNCHANGED host
    BY <1>0, <1>2, <1>6, <2>1 DEF PowerOff
  <2>2. CASE ~(Fail(c) /\ UNCHANGED host)
    <3>1. /\ pc' = [pc EXCEPT ![c] = "stopping"]
          /\ timer' = [timer EXCEPT ![c] = "on"]
          /\ host' \in HostStates
          /\ UNCHANGED <<service, faults, upsets>>
      BY <1>0, <1>6, <2>2 DEF PowerOff, Goto, HostStates
    <3>2. "stopping" \in Steps
      BY DEF Steps
    <3> QED
      BY <1>0, <3>1, <3>2, OneCaller
  <2> QED
    BY <2>1, <2>2
<1>7. CASE WaitStopped(c)
  <2>1. CASE Fail(c)
    BY <1>0, <1>2, <1>7, <2>1 DEF WaitStopped
  <2>2. CASE ~Fail(c)
    <3>1. /\ pc' = [pc EXCEPT ![c] = "terminate"]
          /\ timer' = [timer EXCEPT ![c] = Stopped(timer[c])]
          /\ UNCHANGED <<host, service, faults, upsets>>
      BY <1>7, <2>2 DEF WaitStopped, Goto
    <3>2. "terminate" \in Steps /\ Stopped(timer[c]) \in {"off", "on", "tick"}
      BY <1>0 DEF Steps, Stopped
    <3> QED
      BY <1>0, <3>1, <3>2, OneCaller
  <2> QED
    BY <2>1, <2>2
<1>8. CASE Terminate(c)
  <2>1. CASE Fail(c) /\ UNCHANGED host
    BY <1>0, <1>2, <1>8, <2>1 DEF Terminate
  <2>2. CASE ~(Fail(c) /\ UNCHANGED host)
    <3>1. /\ pc' = [pc EXCEPT ![c] = "deleting"]
          /\ timer' = [timer EXCEPT ![c] = Reset(timer[c])]
          /\ host' = "Terminating"
          /\ UNCHANGED <<service, faults, upsets>>
      BY <1>8, <2>2 DEF Terminate, Goto
    <3>2. /\ "deleting" \in Steps /\ host' \in HostStates
          /\ Reset(timer[c]) \in {"on", "tick"}
      BY <1>0, <3>1 DEF Steps, HostStates, Reset
    <3> QED
      BY <1>0, <3>1, <3>2, OneCaller
  <2> QED
    BY <2>1, <2>2
<1>9. CASE WaitDeleted(c)
  <2>1. CASE Fail(c)
    BY <1>0, <1>2, <1>9, <2>1 DEF WaitDeleted
  <2>2. CASE ~Fail(c)
    BY <1>0, <1>1, <1>9, <2>2 DEF WaitDeleted, Goto, Steps
  <2> QED
    BY <2>1, <2>2
<1>10. CASE Panic(c)
  BY <1>0, <1>10 DEF Panic, ProcessDies, TypeOK, Steps
<1>11. CASE Fire(c)
  <2>1. pc' = [pc EXCEPT ![c] = pc[c]] /\ timer' = [timer EXCEPT ![c] = "tick"]
    BY <1>0, <1>11 DEF Fire
  <2> QED
    BY <1>0, <1>11, <2>1, OneCaller DEF Fire
<1>12. CASE CallFails(c)
  <2>1. faults' \in 0..MaxFaults
    BY <1>0, <1>12, TerminatorAssumption DEF CallFails
  <2>2. host' \in HostStates
    BY <1>0, <1>12 DEF CallFails, HostStates
  <2> QED
    BY <1>0, <1>2, <1>12, <2>1, <2>2 DEF CallFails
<1>13. CASE CallAgain(c)
  <2>1. faults' \in 0..MaxFaults
    BY <1>0, <1>13, TerminatorAssumption DEF CallAgain
  <2> QED
    BY <1>0, <1>2, <1>13, <2>1 DEF CallAgain
<1> QED
  BY <1>3, <1>4, <1>5, <1>6, <1>7, <1>8, <1>9, <1>10, <1>11, <1>12, <1>13
     DEF CallerStep

\* Every step keeps them.
LEMMA TypeStep == TypeOK /\ [Next]_vars => TypeOK'
<1> SUFFICES ASSUME TypeOK, [Next]_vars PROVE TypeOK'
  OBVIOUS
<1>1. CASE \E c \in Callers :
             CallerStep(c) \/ Fire(c) \/ CallFails(c) \/ CallAgain(c)
  BY <1>1, TypeCaller
<1>2. CASE Crash
  <2>1. faults' \in 0..MaxFaults
    BY <1>2, TerminatorAssumption DEF Crash, TypeOK
  <2> QED
    BY <1>2, <2>1 DEF Crash, ProcessDies, TypeOK, Steps
<1>3. CASE CloudStep
  BY <1>3 DEF CloudStep, TypeOK, HostStates
<1>4. CASE Upset
  <2>1. upsets' \in 0..MaxUpsets
    BY <1>4, TerminatorAssumption DEF Upset, TypeOK
  <2> QED
    BY <1>4, <2>1 DEF Upset, TypeOK, HostStates
<1>5. CASE UNCHANGED vars
  BY <1>5 DEF vars, TypeOK
<1> QED
  BY <1>1, <1>2, <1>3, <1>4, <1>5 DEF Next

\* The state keeps its shape, and a reconcile that waits for the cloud always
\* has a timer that is running or has fired: it never waits without limit.
THEOREM TypeCorrect == Spec => []TypeOK
BY TypeInit, TypeStep, PTL DEF Spec

-----------------------------------------------------------------------------
(* Success.                                                                *)

\* No step of anybody brings a terminated instance back.
LEMMA GoneForGood == Gone /\ [Next]_vars => Gone'
<1> SUFFICES ASSUME Gone, [Next]_vars PROVE Gone'
  OBVIOUS
<1>1. ASSUME NEW c \in Callers,
             CallerStep(c) \/ Fire(c) \/ CallFails(c) \/ CallAgain(c)
      PROVE  UNCHANGED host
  BY <1>1 DEF Gone, CallerStep, Fire, CallFails, CallAgain, Call, Lookup,
     Describe, PowerOff, WaitStopped, Terminate, WaitDeleted, Panic
<1>2. CASE Crash \/ CloudStep \/ Upset \/ UNCHANGED vars
  BY <1>2 DEF Gone, Crash, CloudStep, Upset, vars
<1> QED
  BY <1>1, <1>2 DEF Next, Gone

\* A caller gets to "done" from a describe that found nothing.
LEMMA DoneSeesNothing ==
    ASSUME TypeOK, NEW c \in Callers, [Next]_vars,
           pc[c] # "done", pc'[c] = "done"
    PROVE  Gone
<1>1. ASSUME NEW d \in Callers,
             CallerStep(d) \/ Fire(d) \/ CallFails(d) \/ CallAgain(d)
      PROVE  Gone
  <2>1. CASE Panic(d)
    BY <2>1 DEF Panic, ProcessDies
  <2>2. CASE Fire(d)
    BY <2>2 DEF Fire
  <2>3. CASE Fail(d)
    BY <2>3 DEF TypeOK, Fail, Goto
  <2>4. CASE Call(d) \/ Lookup(d) \/ Describe(d) \/ WaitDeleted(d)
    BY <2>3, <2>4 DEF TypeOK, Call, Lookup, Describe, WaitDeleted, Goto,
       ReportsNothing, Gone
  <2>5. CASE PowerOff(d) \/ WaitStopped(d) \/ Terminate(d)
    BY <2>3, <2>5 DEF TypeOK, PowerOff, WaitStopped, Terminate, Goto
  <2>6. CASE CallFails(d) \/ CallAgain(d)
    BY <2>3, <2>6 DEF CallFails, CallAgain
  <2> QED
    BY <1>1, <2>1, <2>2, <2>4, <2>5, <2>6 DEF CallerStep
<1>2. CASE Crash
  BY <1>2 DEF Crash, ProcessDies
<1>3. CASE CloudStep \/ Upset \/ UNCHANGED vars
  BY <1>3 DEF CloudStep, Upset, vars
<1> QED
  BY <1>1, <1>2, <1>3 DEF Next

\* Whatever the number of callers, the answers of the service, time-outs,
\* panics and crashes: a call of terminateUHost, or a lookup before it, that
\* returns without error left no instance.
THEOREM TerminationSucceeds == Spec => []SuccessMeansGone
<1>1. Init => SuccessMeansGone
  BY DEF Init, SuccessMeansGone
<1>2. TypeOK /\ SuccessMeansGone /\ [Next]_vars => SuccessMeansGone'
  <2> SUFFICES ASSUME TypeOK, SuccessMeansGone, [Next]_vars,
                      NEW c \in Callers, pc'[c] = "done"
               PROVE  Gone'
    BY DEF SuccessMeansGone
  <2>1. Gone
    BY DoneSeesNothing DEF SuccessMeansGone
  <2> QED
    BY <2>1, GoneForGood
<1> QED
  BY <1>1, <1>2, TypeCorrect, PTL DEF Spec
=============================================================================
