--------------------------- MODULE OwnedResources ---------------------------
(***************************************************************************)
(* What the controllers promise about the cloud resources they own for a   *)
(* Kubernetes object: of each kind the object names at most one, never     *)
(* forgets or swaps it, and the object is not removed while one that it    *)
(* names exists.  The creating call and the writing of the id are two      *)
(* steps, with every other thing that can happen in between.               *)
(*                                                                         *)
(* UCloudInfra.tla implements it for the group, the VPC and the subnet of  *)
(* a cluster, with Unique; UCloudMachine.tla for the instance of a machine *)
(* when objects are read fresh, without Unique: an instance whose id is    *)
(* lost is created again.                                                  *)
(***************************************************************************)
CONSTANTS
    Kinds,   \* kinds of resources
    Ids,     \* ids the cloud may hand out
    None,    \* no id
    Unique   \* is a resource found again when its id was not recorded?

VARIABLES
    issued,    \* of each kind, the ids there ever were
    existing,  \* of each kind, those that exist now
    recorded,  \* of each kind, the id the object names
    open       \* is the object there?

vars == <<issued, existing, recorded, open>>

AtMostOne(k) == \A x, y \in existing[k] : x = y

Init ==
    /\ existing \in [Kinds -> SUBSET Ids]
    /\ Unique => \A k \in Kinds : AtMostOne(k)
    /\ issued = existing
    /\ recorded = [k \in Kinds |-> None]
    /\ open = TRUE

\* A resource is created only for an object that is there and names none.
Create(k, id) ==
    /\ open
    /\ recorded[k] = None
    /\ Unique => existing[k] = {}
    /\ id \notin issued[k]
    /\ issued' = [issued EXCEPT ![k] = @ \cup {id}]
    /\ existing' = [existing EXCEPT ![k] = @ \cup {id}]
    /\ UNCHANGED <<recorded, open>>

\* One write of the object may record several.
Record ==
    /\ open
    /\ recorded' \in [Kinds -> Ids \cup {None}]
    /\ \A k \in Kinds : \/ recorded'[k] = recorded[k]
                        \/ recorded[k] = None /\ recorded'[k] \in issued[k]
    /\ UNCHANGED <<issued, existing, open>>

\* By the controller, or by somebody else.
Delete(k) ==
    /\ \E id \in existing[k] : existing' = [existing EXCEPT ![k] = @ \ {id}]
    /\ UNCHANGED <<issued, recorded, open>>

\* The last finalizer goes.
Close ==
    /\ open
    /\ \A k \in Kinds : recorded[k] \notin existing[k]
    /\ open' = FALSE
    /\ UNCHANGED <<issued, existing, recorded>>

Next ==
    \/ \E k \in Kinds : Delete(k) \/ \E id \in Ids : Create(k, id)
    \/ Record \/ Close

Spec == Init /\ [][Next]_vars

-----------------------------------------------------------------------------
\* An object that is gone left nothing behind that it named, for good.
ClosedClean == ~open => \A k \in Kinds : recorded[k] \notin existing[k]

\* Of a kind that is found again there is never a second one.
NeverTwo == Unique => \A k \in Kinds : AtMostOne(k)
=============================================================================
