------------------------------ MODULE AtomicDB ------------------------------
(***************************************************************************)
(* What Snapshot, SnapshotTo and Overwrite promise about the data they     *)
(* save (src/engine/persist.go): a call takes the committed content of the *)
(* database at one instant while it is under way, or takes nothing and     *)
(* reports an error.  Transactions and Loads change the committed content  *)
(* in one step.  Locks, connections and uncommitted pages do not exist at  *)
(* this level.                                                             *)
(***************************************************************************)
CONSTANTS Contents, Savers, Empty, NoContent

VARIABLES
    content,    \* the committed content
    pending,    \* the calls under way
    result      \* the data each call took, or NoContent

Init ==
    /\ content = Empty
    /\ pending = {}
    /\ result = [s \in Savers |-> NoContent]

\* A transaction or a Load commits.
Update ==
    /\ content' \in Contents
    /\ UNCHANGED <<pending, result>>

Call(s) ==
    /\ s \notin pending
    /\ pending' = pending \cup {s}
    /\ result' = [result EXCEPT ![s] = NoContent]
    /\ UNCHANGED content

\* A call on a closed database ends at once.
Refuse(s) ==
    /\ s \notin pending
    /\ result' = [result EXCEPT ![s] = NoContent]
    /\ UNCHANGED <<content, pending>>

Take(s) ==
    /\ s \in pending
    /\ result[s] = NoContent
    /\ result' = [result EXCEPT ![s] = content]
    /\ UNCHANGED <<content, pending>>

Return(s) ==
    /\ s \in pending
    /\ pending' = pending \ {s}
    /\ UNCHANGED <<content, result>>

Next ==
    \/ Update
    \/ \E s \in Savers : Call(s) \/ Refuse(s) \/ Take(s) \/ Return(s)

Spec == Init /\ [][Next]_<<content, pending, result>>
=============================================================================
