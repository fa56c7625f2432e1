-------------------------------- MODULE MCRetry --------------------------------
(***************************************************************************)
(* Instances of RevisionLineage: scenarios of calls that race on one       *)
(* memory, and of calls that come back to it.  t2 repeats the request of   *)
(* t1 once t1 has ended, and Late calls are made when all others are over. *)
(* With a key of its own the request of t1 has the token a on every base   *)
(* revision.  Without one the service makes the key from the revision it   *)
(* resolved: a on revision 1, b on any other.  Every other call is a       *)
(* request of its own, and a call, its key, its request and its token bear *)
(* one name.                                                               *)
(***************************************************************************)
EXTENDS RevisionLineage

CONSTANTS
    t1, t2,          \* the attempts
    Rivals,          \* updates of other requests
    Retracters, Sourcers, Readers,
    Late,
    Scenarios,       \* the sets of calls that are made
    OwnKey,          \* whether the caller gives an idempotency key
    Expected,        \* the expected_revision of the attempts, 0 when not given
    a, b, request, key_a, key_b, e1

Others == Rivals \cup Retracters \cup Sourcers \cup Readers
MCCall == {t1, t2} \cup Others
MCToken == {a, b} \cup Others
MCKindOf == [c \in MCCall |-> CASE c \in Retracters -> "retract"
                               [] c \in Sourcers -> "source"
                               [] c \in Readers -> "read"
                               [] OTHER -> "revise"]
MCRequest == {request} \cup Others
MCRequestOf == [c \in MCCall |-> IF c \in {t1, t2} THEN request ELSE c]
MCTokenOf ==
    [c \in MCCall |-> [p \in MCToken \cup {Root} |->
        CASE c \notin {t1, t2} -> c
          [] OwnKey \/ p = Root -> a
          [] OTHER -> b]]
MCKeyHash == {key_a, key_b} \cup Others
MCTokenKey == [t \in MCToken |-> CASE t = a -> key_a [] t = b -> key_b
                                   [] OTHER -> t]
MCTokenRequest == [t \in MCToken |-> IF t \in {a, b} THEN request ELSE t]
MCExpectedOf == [c \in MCCall |-> IF c \in {t1, t2} THEN Expected ELSE 0]
MCAfter == [c \in MCCall |-> CASE c = t2 -> {t1}
                              [] c \in Late -> MCCall \ Late
                              [] OTHER -> {}]
MCNoArtifacts == {}
MCRootEvidence == {e1}

\* A call that its scenario leaves out is over from the start.
ScenarioInit ==
    /\ point = [p \in PointId |-> 
          IF p = Root
          THEN [AbsentPoint EXCEPT !.state = "active", !.rev = 1,
                                   !.roots = RootEvidence, !.consumed = RootEvidence]
          ELSE AbsentPoint]
    /\ journal = [t \in Token |-> NoRow]
    /\ \E made \in Scenarios :
           pc = [c \in Call |-> IF c \in made THEN "idle" ELSE "done"]
    /\ loc = [c \in Call |-> NoLocal]
    /\ reply = [c \in Call |-> [status |-> "none", id |-> None]]

ScenarioSpec == ScenarioInit /\ [][Next]_vars

\* Some call that runs goes on, and those still to come are issued: nothing but a
\* later call completes the operation of a dead worker.
FairScenarioSpec ==
    ScenarioSpec /\ WF_vars(\E c \in Call : Begin(c) \/ BeginSource(c) \/ Step(c))
===============================================================================
