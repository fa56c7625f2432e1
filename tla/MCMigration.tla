------------------------------ MODULE MCMigration ------------------------------
(***************************************************************************)
(* Instances of Migration: three memories, read two at a time.  The first  *)
(* is raw and was consolidated into the second; the third has no user.     *)
(***************************************************************************)
EXTENDS Migration

CONSTANTS i1, i2
MCPod == {i1, i2}

MCLinkOf == [p \in 1..3 |-> IF p = 1 THEN 2 ELSE 0]
MCBackLink == {1}
MCUserless == {3}
MCFailedOnes == {1}

MCKnown == {{}, {2}}

\* In place, two instances may start at once if no failure is swallowed; where the
\* collection may be recreated, one does.
InPlace == [addable |-> TRUE, swallows |-> FALSE, pods |-> {i1, i2}, failures |-> 1]
Shrugged == [addable |-> TRUE, swallows |-> TRUE, pods |-> {i1}, failures |-> 3]
Recreated == [addable |-> FALSE, swallows |-> TRUE, pods |-> {i1}, failures |-> 3]
Overlapping == [addable |-> FALSE, swallows |-> FALSE, pods |-> {i1, i2}, failures |-> 0]
MCDeployments == {InPlace, Shrugged, Recreated}
MCOverlapping == {Overlapping}
===============================================================================
