----------------------------- MODULE Terminator -----------------------------
(***************************************************************************)
(* terminateUHost: power an instance off, wait, terminate it, wait.        *)
(*                                                                         *)
(* The reconcile of a deleted UCloudMachine (after InstanceIfExists) and   *)
(* CleanResourceInGroup or TerminateBastion in the teardown of the cluster *)
(* run it in the same process, possibly on the same instance and again     *)
(* after a failure.  UCloudMachine.tla and UCloudInfra.tla take the whole  *)
(* of it for a step or two; this module shows what they rely on.           *)
(*                                                                         *)
(* Simplifications                                                         *)
(*  - one instance; what a machine's reconcile does between its lookup and *)
(*    the termination (DelRealServer, DeleteCAPUHost) is left out;         *)
(*  - how the service answers is fixed in "service", unknown to the code;  *)
(*  - the timer may fire at any moment of a wait, the sleep between two    *)
(*    describes being a stuttering step;                                   *)
(*  - failed calls and crashes, and what others do to the instance, are    *)
(*    bounded.                                                             *)
(***************************************************************************)
EXTENDS Naturals

CONSTANTS
    Callers,    \* reconciles that want the instance terminated
    Lookups,    \* the callers that are reconciles of the UCloudMachine
    Services,   \* the ways the service may answer
    MaxFaults,  \* bound: failed calls, crashes and repeated calls
    MaxUpsets   \* bound: manual starts and deletions of the instance

\* A describe of an instance that is gone yields an empty list or the code
\* 8039; powering a stopped instance off succeeds or is refused.
Answers == [missing : {"empty", "code"}, strict : BOOLEAN]

ASSUME TerminatorAssumption ==
    /\ Lookups \subseteq Callers
    /\ Services \subseteq Answers
    /\ MaxFaults \in Nat /\ MaxUpsets \in Nat

VARIABLES
    host,     \* state of the instance
    pc,       \* step of each caller; "done" when its call returned nil
    timer,    \* the timer of each caller; "tick": a value lies in its channel
    service,  \* how the service answers, never changed
    faults,   \* faults so far
    upsets    \* upsets so far

vars == <<host, pc, timer, service, faults, upsets>>

HostStates == {"Running", "Stopping", "Stopped", "Terminating", "deleted"}
Steps == {"idle", "lookup", "describe", "poweroff", "stopping", "terminate",
          "deleting", "done"}

Init ==
    /\ host = "Running"
    /\ pc = [c \in Callers |-> "idle"]
    /\ timer = [c \in Callers |-> "off"]
    /\ service \in Services
    /\ faults = 0
    /\ upsets = 0

-----------------------------------------------------------------------------
Gone == host = "deleted"

\* What a describe of the instance brings back.
ReportsNothing == Gone /\ service.missing = "empty"
ReportsCode == Gone /\ service.missing = "code"

Goto(c, step) == pc' = [pc EXCEPT ![c] = step]

\* The call returns an error: the key is queued again, the timer is garbage.
Fail(c) ==
    /\ Goto(c, "idle")
    /\ timer' = [timer EXCEPT ![c] = "off"]

\* A machine's reconcile looks the instance up first.
Call(c) ==
    /\ pc[c] = "idle"
    /\ Goto(c, IF c \in Lookups THEN "lookup" ELSE "describe")
    /\ UNCHANGED <<host, timer, service, faults, upsets>>

\* InstanceIfExists: any error of the describe is passed on.
Lookup(c) ==
    /\ pc[c] = "lookup"
    /\ \/ ReportsNothing /\ Goto(c, "done") /\ UNCHANGED timer
       \/ ReportsCode /\ Fail(c)
       \/ ~Gone /\ Goto(c, "describe") /\ UNCHANGED timer
    /\ UNCHANGED <<host, service, faults, upsets>>

\* The first describe of terminateUHost tolerates the code.
MutCodeNotTolerated(c) ==
    /\ pc[c] = "describe"
    /\ \/ ReportsNothing /\ Goto(c, "done") /\ UNCHANGED timer
       \/ ReportsCode /\ Fail(c)
       \/ ~Gone /\ Goto(c, "poweroff") /\ UNCHANGED timer
    /\ UNCHANGED <<host, service, faults, upsets>>
Describe(c) ==
    /\ pc[c] = "describe"
    /\ Goto(c, IF Gone THEN "done" ELSE "poweroff")
    /\ UNCHANGED <<host, timer, service, faults, upsets>>

PowerOff(c) ==
    /\ pc[c] = "poweroff"
    /\ IF \/ host \in {"Terminating", "deleted"}
          \/ host = "Stopped" /\ service.strict
       THEN Fail(c) /\ UNCHANGED host
       ELSE /\ host' = IF host = "Running" THEN "Stopping" ELSE host
            /\ timer' = [timer EXCEPT ![c] = "on"]
            /\ Goto(c, "stopping")
    /\ UNCHANGED <<service, faults, upsets>>

\* Stop leaves the value of a timer that has fired in the channel.
Stopped(t) == IF t = "on" THEN "off" ELSE t
\* Reset arms the timer and does not drain the channel either.
MutNoReset(t) == t
Reset(t) == IF t = "off" THEN "on" ELSE t

MutNoTimeLimit(c) ==
    /\ pc[c] = "stopping"
    /\ \/ /\ host = "Stopped"
          /\ Goto(c, "terminate")
          /\ timer' = [timer EXCEPT ![c] = Stopped(@)]
       \/ ReportsCode /\ Fail(c)
    /\ UNCHANGED <<host, service, faults, upsets>>
\* The wait for Stopped, which is looked at before the timer is.
WaitStopped(c) ==
    /\ pc[c] = "stopping"
    /\ \/ /\ host = "Stopped"
          /\ Goto(c, "terminate")
          /\ timer' = [timer EXCEPT ![c] = Stopped(@)]
       \/ /\ ReportsCode \/ (~Gone /\ host # "Stopped" /\ timer[c] = "tick")
          /\ Fail(c)
    /\ UNCHANGED <<host, service, faults, upsets>>

\* TerminateUHostInstance, refused for an instance that is not stopped.
MutNoSecondWait(c) ==
    /\ pc[c] = "terminate"
    /\ IF host = "Stopped"
       THEN host' = "Terminating" /\ Goto(c, "done") /\ UNCHANGED timer
       ELSE Fail(c) /\ UNCHANGED host
    /\ UNCHANGED <<service, faults, upsets>>
Terminate(c) ==
    /\ pc[c] = "terminate"
    /\ IF host = "Stopped"
       THEN /\ host' = "Terminating"
            /\ timer' = [timer EXCEPT ![c] = Reset(@)]
            /\ Goto(c, "deleting")
       ELSE Fail(c) /\ UNCHANGED host
    /\ UNCHANGED <<service, faults, upsets>>

\* The wait for the end of the instance.  A value left over from the first
\* wait ends it at its first turn.
WaitDeleted(c) ==
    /\ pc[c] = "deleting"
    /\ \/ ReportsNothing /\ Goto(c, "done") /\ UNCHANGED timer
       \/ /\ ReportsCode \/ (~Gone /\ timer[c] = "tick")
          /\ Fail(c)
    /\ UNCHANGED <<host, service, faults, upsets>>

Fire(c) ==
    /\ timer[c] = "on"
    /\ timer' = [timer EXCEPT ![c] = "tick"]
    /\ UNCHANGED <<host, pc, service, faults, upsets>>

-----------------------------------------------------------------------------
(* What goes wrong.                                                        *)

\* Every reconcile of the process is lost.
ProcessDies ==
    /\ pc' = [c \in Callers |-> IF pc[c] = "done" THEN "done" ELSE "idle"]
    /\ timer' = [c \in Callers |-> "off"]

\* The wait for Stopped takes the first element of the answer: on an empty
\* one the process panics.
Panic(c) ==
    /\ pc[c] = "stopping"
    /\ ReportsNothing
    /\ ProcessDies
    /\ UNCHANGED <<host, service, faults, upsets>>

Crash ==
    /\ faults < MaxFaults
    /\ faults' = faults + 1
    /\ \E c \in Callers : pc[c] \notin {"idle", "done"}
    /\ ProcessDies
    /\ UNCHANGED <<host, service, upsets>>

\* A call fails, with or without the effect it has on the instance.
CallFails(c) ==
    /\ faults < MaxFaults
    /\ faults' = faults + 1
    /\ pc[c] \notin {"idle", "done"}
    /\ Fail(c)
    /\ \/ UNCHANGED host
       \/ pc[c] = "poweroff" /\ host = "Running" /\ host' = "Stopping"
       \/ pc[c] = "terminate" /\ host = "Stopped" /\ host' = "Terminating"
    /\ UNCHANGED <<service, upsets>>

\* The result was not persisted, or a later step failed: called once more.
CallAgain(c) ==
    /\ faults < MaxFaults
    /\ faults' = faults + 1
    /\ pc[c] = "done"
    /\ Fail(c)
    /\ UNCHANGED <<host, service, upsets>>

\* The cloud completes what it was asked for.
CloudStep ==
    /\ \/ host = "Stopping" /\ host' = "Stopped"
       \/ host = "Terminating" /\ host' = "deleted"
    /\ UNCHANGED <<pc, timer, service, faults, upsets>>

Upset ==
    /\ upsets < MaxUpsets
    /\ upsets' = upsets + 1
    /\ \/ host = "Stopped" /\ host' = "Running"
       \/ ~Gone /\ host' = "deleted"
    /\ UNCHANGED <<pc, timer, service, faults>>

-----------------------------------------------------------------------------
CallerStep(c) ==
    \/ Call(c) \/ Lookup(c) \/ Describe(c) \/ PowerOff(c) \/ WaitStopped(c)
    \/ Terminate(c) \/ WaitDeleted(c) \/ Panic(c)

Next ==
    \/ \E c \in Callers : \/ CallerStep(c) \/ Fire(c)
                          \/ CallFails(c) \/ CallAgain(c)
    \/ Crash \/ CloudStep \/ Upset

Spec == Init /\ [][Next]_vars

\* A reconcile goes on and an error queues its key again; a timer that runs
\* fires unless it is stopped; the cloud does what it accepted.
Fairness ==
    /\ \A c \in Callers : WF_vars(CallerStep(c)) /\ WF_vars(Fire(c))
    /\ WF_vars(CloudStep)

FairSpec == Spec /\ Fairness

-----------------------------------------------------------------------------
\* Types; and a reconcile that waits for the cloud has a time limit.
TypeOK ==
    /\ host \in HostStates
    /\ pc \in [Callers -> Steps]
    /\ timer \in [Callers -> {"off", "on", "tick"}]
    /\ \A c \in Callers : pc[c] \in {"stopping", "deleting"}
                              => timer[c] # "off"
    /\ service \in Services
    /\ faults \in 0..MaxFaults
    /\ upsets \in 0..MaxUpsets

\* A call that returned nil left no instance, whoever else was at work on it:
\* on the strength of this the caller drops the finalizer (reconcileDelete)
\* or the last trace of the bastion (TerminateBastion).
SuccessMeansGone == \A c \in Callers : pc[c] = "done" => Gone

\* The teardown gets over the instance in the end, through time-outs, panics,
\* crashes and the other callers, whichever way the service reports that the
\* instance is gone.
TeardownReturns ==
    ~service.strict => \A c \in Callers \ Lookups : <>(pc[c] = "done")

\* So does the deletion of the machine when a missing instance is reported by
\* an empty list.
MachineReturns ==
    ~service.strict /\ service.missing = "empty"
        => \A c \in Lookups : <>(pc[c] = "done")

\* "The machine was never created or was deleted by some other entity"
\* (reconcileDelete): the deletion of a machine whose instance is gone comes
\* to an end.
MissingIsTolerated == \A c \in Lookups : Gone ~> pc[c] = "done"
=============================================================================
