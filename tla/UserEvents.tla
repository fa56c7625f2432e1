------------------------------ MODULE UserEvents ------------------------------
(***************************************************************************)
(* Trusted user events where they are only stored (api/user_events.py with *)
(* ingest_trusted_user_event of memory.py, and the journal of revisions.py): *)
(* a message becomes one raw memory, whose ID is made from its content, for *)
(* all the events that carry it.                                           *)
(*                                                                         *)
(* An event has a row of its own, and a content a claim with a lease, which *)
(* an event takes over when its holder has died.  A process works on one    *)
(* event of a user at a time, but the client that has no answer in time    *)
(* sends the event again, maybe to another process, while the first call   *)
(* goes on.  Both hold the one claim of their event then.                  *)
(***************************************************************************)
EXTENDS RememberPipeline

CONSTANT RootOf  \* the event that a call of op "ingest" delivers

Root == {RootOf[c] : c \in DOMAIN RootOf}

ASSUME RootAssumption == DOMAIN RootOf = {c \in Call : JobOf[c].op = "ingest"}

VARIABLES
    event,  \* the row of each event
    claim,  \* the claim of each content, by the ID both it and its memory have
    mine    \* the claim as a call has read it

eventVars == <<event, claim, mine>>

\* `epoch` stands for claim_nonce too: each claim of a content makes both anew.
NoClaim == [status |-> "none", owner |-> None, epoch |-> 0, live |-> FALSE]

\* `bound` stands for memory_id and the request hash, which both name the content.
NoEvent == [bound |-> None, committed |-> FALSE]

EventsInit ==
    /\ event = [r \in Root |-> NoEvent]
    /\ claim = [m \in Lineage |-> NoClaim]
    /\ mine = [c \in DOMAIN RootOf |-> NoClaim]

FactOf(c) == CHOOSE f \in JobOf[c].speaks : TRUE
PointOf(c) == LineageOf[c][FactOf(c)]
Claimed(c) == claim[PointOf(c)]

\* An event has a content, and the content a memory.
ASSUME ContentAssumption ==
    \A c \in DOMAIN RootOf : JobOf[c].speaks # {} /\ PointOf(c) \in Lineage \ {None}

quietly == <<sessionVars, saved, linked, lockVars, left, overruled>>

----------------------------------------------------------------------------
\* prepare_user_event_ingestion: an insert if absent, and its readback.
Prepared(c) ==
    IF event[RootOf[c]] = NoEvent THEN [NoEvent EXCEPT !.bound = PointOf(c)]
    ELSE event[RootOf[c]]

\* An event that is bound to another content is a conflict; one that is committed
\* is replayed, if its memory is there.
Prepare(c) ==
    LET row == Prepared(c) IN
    /\ At(c, {"ingest"}, "prepare")
    /\ event' = [event EXCEPT ![RootOf[c]] = row]
    /\ CASE row.bound # PointOf(c) -> Fail(c)
         [] row.bound = PointOf(c) /\ row.committed ->
              IF Stored(memory[row.bound]) THEN Step(c, "release") ELSE Fail(c)
         [] OTHER -> Step(c, "claim")
    /\ UNCHANGED <<quietly, memory, core, claim, mine>>

\* Where a call goes that has read the claim.
Follow(c, row) ==
    /\ mine' = [mine EXCEPT ![c] = row]
    /\ Step(c, IF row.owner = RootOf[c] THEN "own" ELSE "wait")

\* Mutant: a claim is never taken over.
ClaimIfAbsent(c) ==
    LET row == IF Claimed(c) = NoClaim
               THEN [status |-> "claimed", owner |-> RootOf[c], epoch |-> 1, live |-> TRUE]
               ELSE Claimed(c)
    IN
    /\ At(c, {"ingest"}, "claim")
    /\ claim' = [claim EXCEPT ![PointOf(c)] = row]
    /\ Follow(c, row)
    /\ UNCHANGED <<quietly, memory, core, event>>

\* claim_user_event_content: an insert if absent, and its readback, ...
ClaimContent(c) ==
    LET row == IF Claimed(c) = NoClaim
               THEN [status |-> "claimed", owner |-> RootOf[c], epoch |-> 1, live |-> TRUE]
               ELSE Claimed(c)
        lapsed == row.owner # RootOf[c] /\ row.status = "claimed" /\ ~row.live
    IN
    /\ At(c, {"ingest"}, "claim")
    /\ claim' = [claim EXCEPT ![PointOf(c)] = row]
    /\ IF lapsed
       THEN Step(c, "takeover") /\ mine' = [mine EXCEPT ![c] = row]
       ELSE Follow(c, row)
    /\ UNCHANGED <<quietly, memory, core, event>>

\* ... and the update of a claim that had lapsed, conditional on its epoch and
\* its lease; a claim that was committed since is a claim again.
TakeOver(c) ==
    LET free == Claimed(c).epoch = mine[c].epoch /\ ~Claimed(c).live
        row == IF free THEN [status |-> "claimed", owner |-> RootOf[c],
                             epoch |-> mine[c].epoch + 1, live |-> TRUE]
               ELSE Claimed(c)
    IN
    /\ At(c, {"ingest"}, "takeover")
    /\ claim' = [claim EXCEPT ![PointOf(c)] = row]
    /\ Follow(c, row)
    /\ UNCHANGED <<quietly, memory, core, event>>

----------------------------------------------------------------------------
(* The memory.                                                             *)

Kept(c, phase, answer) ==
    Goto(c, phase, [work[c] EXCEPT !.results = {Result(<<PointOf(c), 1>>, answer)}])

\* Mutant: a claim that is held counts as the memory.
WaitForNothing(c) ==
    /\ At(c, {"ingest"}, "wait")
    /\ Kept(c, "commit", "SKIP")
    /\ UNCHANGED <<quietly, memory, core, eventVars>>

\* _wait_for_user_event_winner: until the memory is there, or, after five seconds,
\* the claim is the caller's.  A round that changes nothing is left out.
Wait(c) ==
    /\ At(c, {"ingest"}, "wait")
    /\ CASE Stored(memory[PointOf(c)]) -> Kept(c, "commit", "SKIP")
         [] ~Stored(memory[PointOf(c)]) /\ Claimed(c).status = "committed" -> Fail(c)
         [] OTHER -> /\ ~Claimed(c).live \/ Claimed(c).owner = RootOf[c]
                     /\ Step(c, "claim")
    /\ UNCHANGED <<quietly, memory, core, eventVars>>

\* The filter of every update under the claim.
Owns(c) ==
    /\ Claimed(c).status = "claimed"
    /\ Claimed(c).owner = RootOf[c] /\ Claimed(c).epoch = mine[c].epoch

\* renew_user_event_content_claim, which prolongs a lapsed claim as well.
Renew(c) ==
    claim' = IF Owns(c) THEN [claim EXCEPT ![PointOf(c)].live = TRUE] ELSE claim

\* _ingest_owned_user_event: the claim is renewed and the memory looked for.
Resume(c) ==
    /\ At(c, {"ingest"}, "own")
    /\ Renew(c)
    /\ CASE ~Owns(c) -> Fail(c)
         [] Owns(c) /\ Stored(memory[PointOf(c)]) -> Kept(c, "complete", "ADD")
         [] OTHER -> Step(c, "guard")
    /\ UNCHANGED <<quietly, memory, core, event, mine>>

\* _add_direct, its failures, and the claim renewed before the insert ...
Guard(c) ==
    /\ At(c, {"ingest"}, "guard")
    /\ \/ Renew(c) /\ IF Owns(c) THEN Step(c, "insert") ELSE Fail(c)
       \/ May(c, "embed") /\ Fail(c) /\ UNCHANGED claim
    /\ UNCHANGED <<quietly, memory, core, event, mine>>

\* ... which replaces whatever is there, and is read back.
Insert(c) ==
    LET j == JobOf[c] IN
    /\ At(c, {"ingest"}, "insert")
    /\ memory' = [memory EXCEPT ![PointOf(c)] =
           Inserted(FactOf(c), j.user, j.owner, None, "raw", FALSE, {}, now)]
    /\ Kept(c, "complete", "ADD")
    /\ UNCHANGED <<quietly, core, eventVars>>

\* complete_user_event_content_claim: the readback accepts what another call for
\* the same claim did.
Complete(c) ==
    LET row == IF Owns(c) THEN [Claimed(c) EXCEPT !.status = "committed"] ELSE Claimed(c) IN
    /\ At(c, {"ingest"}, "complete")
    /\ claim' = [claim EXCEPT ![PointOf(c)] = row]
    /\ IF row.status = "committed" /\ row.owner = RootOf[c] /\ row.epoch = mine[c].epoch
       THEN Step(c, "commit") ELSE Fail(c)
    /\ UNCHANGED <<quietly, memory, core, event, mine>>

\* complete_user_event_ingestion, whoever did it first.
Commit(c) ==
    /\ At(c, {"ingest"}, "commit")
    /\ event' = [event EXCEPT ![RootOf[c]].committed = TRUE]
    /\ Step(c, "refresh")
    /\ UNCHANGED <<quietly, memory, core, claim, mine>>

\* The core memories of the user, before the lock is left.
Refresh(c) ==
    LET j == JobOf[c] IN
    /\ At(c, {"ingest"}, "refresh")
    /\ core' = [core EXCEPT ![j.proc] = Invalidated(j.proc, j.user)]
    /\ Step(c, "release")
    /\ UNCHANGED <<quietly, memory, eventVars>>

\* Who works under a claim renews it in time, unless it is slow.
Working(m) ==
    {c \in DOMAIN RootOf : /\ PointOf(c) = m /\ RootOf[c] = claim[m].owner
                           /\ pc[c] \in {"own", "guard", "insert", "complete"}
                           /\ ~May(c, "slow")}

Lapse ==
    /\ \E m \in Lineage : /\ claim[m].live /\ claim[m].status = "claimed"
                          /\ Working(m) = {}
                          /\ claim' = [claim EXCEPT ![m].live = FALSE]
    /\ UNCHANGED <<pipelineVars, event, mine>>

Ingests(c) ==
    \/ Prepare(c) \/ ClaimContent(c) \/ TakeOver(c) \/ Wait(c) \/ Resume(c) \/ Guard(c)
    \/ Insert(c) \/ Complete(c) \/ Commit(c) \/ Refresh(c)

----------------------------------------------------------------------------
\* An event that was accepted is in a memory, and no row of the journal says that
\* something was stored which is not: no later delivery of the content would
\* get past such a row (memory.py:787 and 910).
AcceptedIsStored ==
    /\ \A c \in DOMAIN RootOf : reply[c] = "ok" => Stored(memory[PointOf(c)])
    /\ \A m \in Lineage : claim[m].status = "committed" => Stored(memory[m])
    /\ \A r \in Root : event[r].committed => Stored(memory[event[r].bound])
===============================================================================
