---------------------------- MODULE VersionedMemory ----------------------------
(***************************************************************************)
(* What the revision service promises of one memory, without claims,       *)
(* journal or recovery: its published revisions are a history that only    *)
(* grows, one revision at a time, each change on top of the newest.        *)
(***************************************************************************)
EXTENDS Integers

CONSTANTS
    Id,      \* the names a revision can have
    First,   \* the name of revision 1
    None     \* the predecessor of revision 1

VARIABLE history  \* the set of published revisions: id, number, predecessor

Revision == [id: Id, rev: Nat, sup: Id \cup {None}]

TypeOK == history \subseteq Revision

Init == history = {[id |-> First, rev |-> 1, sup |-> None]}

Newest(r) == r \in history /\ \A q \in history : q.rev <= r.rev

\* A change is accepted: it replaces the newest revision, under a new name.
Publish(id) ==
    /\ \A r \in history : r.id # id
    /\ \E r \in history :
         /\ Newest(r)
         /\ history' = history \cup {[id |-> id, rev |-> r.rev + 1, sup |-> r.id]}

Next == \E id \in Id : Publish(id)

Spec == Init /\ [][Next]_history
===============================================================================
