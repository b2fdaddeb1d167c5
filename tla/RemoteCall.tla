------------------------------ MODULE RemoteCall ------------------------------
(***************************************************************************)
(* What the walk takes a request for, in Grive.tla: it is carried out at    *)
(* most once, and if the call returns it was.  A call that fails may have   *)
(* been carried out or not: only the next listing tells.                    *)
(* A request that names no revision may be carried out twice.               *)
(***************************************************************************)
EXTENDS Naturals

CONSTANTS
    Call,       \* what may be asked of the server
    Repeatable  \* the calls that name no revision

VARIABLES
    call,       \* the call under way, or the last one
    carried,    \* how often the server has done what it asks
    result      \* "none" while it is under way

vars == <<call, carried, result>>

Init == call = "none" /\ carried = 0 /\ result = "returned"

Begin ==
    /\ result # "none"
    /\ call' \in Call
    /\ carried' = 0
    /\ result' = "none"

CarryOut ==
    /\ result = "none"
    /\ carried = 0 \/ call \in Repeatable
    /\ carried' = carried + 1
    /\ UNCHANGED <<call, result>>

Return ==
    /\ result = "none"
    /\ carried > 0
    /\ result' = "returned"
    /\ UNCHANGED <<call, carried>>

\* error: an exception that Resource::Sync catches.  died: any other.
Fail ==
    /\ result = "none"
    /\ result' \in {"error", "died"}
    /\ UNCHANGED <<call, carried>>

Next == Begin \/ CarryOut \/ Return \/ Fail

Spec == Init /\ [][Next]_vars

===============================================================================
