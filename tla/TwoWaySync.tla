----------------------------- MODULE TwoWaySync -----------------------------
(***************************************************************************)
(* What a two-way synchroniser promises about the files of two replicas.   *)
(*                                                                         *)
(* People change either replica.  The synchroniser knows, for each path,   *)
(* the last thing both replicas agreed on, and propagates a change only    *)
(* where there is one: it never writes over, or deletes, something on one  *)
(* replica when the other one has not changed since they last agreed.      *)
(* Nothing is said of how or when it notices.                              *)
(***************************************************************************)
EXTENDS Naturals

CONSTANTS
    Path,       \* the paths
    Nothing,    \* no file is at a path
    Damaged,    \* what an interrupted copy leaves
    File(_)     \* whether the promise is about this thing

VARIABLES
    left,       \* the replica on the disk
    right,      \* the replica on the server
    stamp,      \* the version of each path on the server
    base,       \* what they last agreed on
    baseStamp,  \* the version on the server then
    edits,      \* how many changes people have made
    disturbed   \* something failed since the synchroniser began to look

vars == <<left, right, stamp, base, baseStamp, edits>>

Init == \A p \in Path : base[p] \in {Nothing, left[p]}

PeopleChange ==
    /\ edits' = edits + 1
    /\ UNCHANGED <<base, baseStamp>>

LeftNew(p)  == left[p] # base[p]
RightNew(p) ==
    \/ right[p] # base[p] \/ stamp[p] # baseStamp[p]
    \/ right[p] = Damaged

\* right[p] becomes left[p]: there is something new on the left, and nothing on
\* the right that was not agreed on.
Pushes(p) ==
    /\ right'[p] = left[p]
    /\ \/ right[p] = Damaged
       \/ LeftNew(p) /\ (RightNew(p) => right[p] = Nothing)

\* left[p] becomes right[p]: there is something new on the right.  If both are new
\* the right one wins, unless it is a deletion.
Pulls(p) ==
    /\ RightNew(p)
    /\ left'[p] \in {right[p], Damaged}
    /\ right[p] = Nothing => left[p] \in {base[p], Damaged}

Concerns(a, b) == a # b /\ (File(a) \/ File(b))

Propagate ==
    /\ UNCHANGED <<base, baseStamp, edits>>
    /\ \A p \in Path : Concerns(left[p], left'[p]) => Pulls(p)
    /\ \A p \in Path : Concerns(right[p], right'[p]) => Pushes(p)

\* The replicas are compared, and what is equal is remembered, unless something went wrong.
Agree ==
    /\ UNCHANGED <<left, right, stamp, edits>>
    /\ \A p \in Path :
          \/ left[p] = right[p] /\ base'[p] = left[p] /\ baseStamp'[p] = stamp[p]
          \/ /\ base'[p] = base[p] /\ baseStamp'[p] = baseStamp[p]
             /\ left[p] = right[p] => disturbed

\* The synchroniser loses its memory.
Forget ==
    /\ UNCHANGED <<left, right, stamp, edits>>
    /\ \A p \in Path : base'[p] = Nothing /\ baseStamp'[p] = 0

Next == PeopleChange \/ Propagate \/ Agree \/ Forget

Spec == Init /\ [][Next]_vars

=============================================================================
