------------------------------ MODULE EvidencePlan ------------------------------
(***************************************************************************)
(* One sealed plan of a trusted user event, which confirms one memory, and *)
(* the deliveries that carry it out (revisions.py: the evidence methods of *)
(* RevisionOperationStore, confirm and its recovery; memory.py:            *)
(* apply_evidence_plan; trusted_events.py: apply_plan).                    *)
(*                                                                         *)
(* Three rows are written without a transaction: the plan, the child       *)
(* operation of its one target, and the target itself, which carries a     *)
(* fence of the child and a claim.  Deliveries of the same event take over *)
(* from one another when leases end, while ordinary writers, who must      *)
(* complete a claim they meet, revise the target.                          *)
(*                                                                         *)
(* Each write is a step, with the reads that follow it up to the next one. *)
(* A delivery claims under a nonce of its own, so its name stands for the  *)
(* nonce and for the fence token made of it.                               *)
(***************************************************************************)
EXTENDS Naturals

CONSTANTS
    Delivery,  \* calls that deliver the event
    Writer,    \* ordinary updates of the memory
    Crashing,  \* deliveries whose server may die at any step
    Stalling,  \* deliveries that may run for longer than their leases
    After,     \* the calls that are over, leases included, before a call begins
    Route,     \* where the event may be delivered
    None       \* an empty field

Call == Delivery \cup Writer

ASSUME ConstantsAssumption ==
    /\ Delivery \cap Writer = {} /\ None \notin Call
    /\ Crashing \subseteq Delivery /\ Stalling \subseteq Delivery
    /\ After \in [Call -> SUBSET Call]
    /\ Route \subseteq {"evidence", "trusted"}

VARIABLES
    route,  \* which of the two the deliveries come by
    plan,   \* the journal row of the plan
    child,  \* the journal row of its confirmation
    target, \* the revision the plan confirms
    lease,  \* which leases a delivery still has
    pc, loc, reply,
    stale   \* history: an upsert of the child row took back what another call wrote

vars == <<route, plan, child, target, lease, pc, loc, reply, stale>>

----------------------------------------------------------------------------
\* `owner` stands for claim_nonce, `done` for the checkpoint of the one target.
Outcome == {"confirmed", "skipped"}
Plan == [status: {"none", "planned", "claimed", "committed", "rejected"},
         owner: Delivery \cup {None}, epoch: Nat, done: Outcome \cup {"no"}]
NoPlan == [status |-> "none", owner |-> None, epoch |-> 0, done |-> "no"]
Planned == [NoPlan EXCEPT !.status = "planned"]
Rejection == [NoPlan EXCEPT !.status = "rejected"]

Child == [status: {"none", "prepared", "claimed", "committed"},
          owner: Delivery \cup {None}, epoch: Nat]
NoChild == [status |-> "none", owner |-> None, epoch |-> 0]

\* `claim` is transition_token, `fence` evidence_child_fence, `counted` whether
\* the event is an evidence root of the memory, `current` whether it is active.
Target == [claim: Call \cup {None}, fence: Delivery \cup {None},
           counted: BOOLEAN, current: BOOLEAN]

\* epoch: of the delivery's claims.  tok, seen: the fence token it works under
\* and the claim it found on the target.  copy: the child row as it read it.
\* back: what it does when a child claim or a recovery is over.
NoLocal == [epoch |-> 0, tok |-> None, seen |-> None, copy |-> NoChild,
            back |-> "confirm", tries |-> 0, out |-> "no"]

Over == {"done", "crashed"}

TypeOK ==
    /\ route \in Route /\ plan \in Plan /\ child \in Child /\ target \in Target
    /\ lease \in [Delivery -> {"both", "child", "none"}]
    /\ reply \in [Call -> {"none", "done", "rejected", "failed"}]

\* An event by the route of the older protocol has a plan already.
Init ==
    /\ route \in Route
    /\ plan = IF route = "evidence" THEN Planned ELSE NoPlan
    /\ child = NoChild
    /\ target = [claim |-> None, fence |-> None, counted |-> FALSE, current |-> TRUE]
    /\ lease = [d \in Delivery |-> "both"]
    /\ pc = [c \in Call |-> "idle"]
    /\ loc = [c \in Call |-> NoLocal]
    /\ reply = [c \in Call |-> "none"]
    /\ stale = FALSE

----------------------------------------------------------------------------
rows == <<route, plan, child, target, stale>>

Goto(c, where, l) ==
    /\ pc' = [pc EXCEPT ![c] = where]
    /\ loc' = [loc EXCEPT ![c] = l]
    /\ UNCHANGED <<lease, reply>>

Answer(c, r) ==
    /\ pc' = [pc EXCEPT ![c] = "done"]
    /\ loc' = [loc EXCEPT ![c] = NoLocal]
    /\ reply' = [reply EXCEPT ![c] = r]
    /\ UNCHANGED lease

Fail(c) == Answer(c, "failed")

\* verify_evidence_claim.
Owns(d) == plan.status = "claimed" /\ plan.owner = d /\ lease[d] = "both"

\* A delivery of the trusted route holds the scope lease, which ends before the
\* claim of the plan does, and looks at it before each of its own writes.
Guarded(d) == route = "trusted" => lease[d] = "both"
Fence(d) == Guarded(d) /\ Owns(d)

\* Mutant: the claim of a child never ends.
LiveForEver(row) == row.status = "claimed" /\ row.owner # None

\* verify_evidence_child.
Live(row) == /\ row.status = "claimed" /\ row.owner # None
             /\ lease[row.owner] # "none"
HoldsChild(d) == child.owner = d /\ Live(child)

Claimed == target.claim \in Delivery

\* A conflict inside confirm, which every evidence error is: the older route
\* records the target as skipped, the trusted one gives the delivery up.
Raise(c) ==
    IF c \in Delivery /\ route = "evidence" /\ Owns(c)
    THEN Goto(c, "checkpoint", [loc[c] EXCEPT !.out = "skipped"])
    ELSE Fail(c)

Conclude(d, out) == Goto(d, "checkpoint", [loc[d] EXCEPT !.out = out])

----------------------------------------------------------------------------
(* The plan: sealed once, claimed by one delivery at a time.               *)

\* A delivery of the trusted route waits for the scope; a later one for the
\* answers and the leases of those before it.
MayBegin(c) ==
    /\ pc[c] = "idle"
    /\ \A x \in After[c] : pc[x] \in Over /\ (x \in Delivery => lease[x] = "none")
    /\ (c \in Delivery /\ route = "trusted") =>
           \A d \in Delivery : pc[d] \in {"idle"} \cup Over \/ lease[d] # "both"

\* The row as a delivery first finds it.
Begin(d) ==
    /\ MayBegin(d)
    /\ CASE plan.status = "committed" -> Answer(d, "done")
         [] plan.status = "rejected" -> Answer(d, "rejected")
         [] plan.status = "none" -> Goto(d, "decide", NoLocal)
         [] OTHER -> Goto(d, "check_plan", [NoLocal EXCEPT !.epoch = plan.epoch + 1])
    /\ UNCHANGED rows

\* What the event means is decided anew by each delivery that finds no plan: to
\* confirm the memory, or to be rejected as over its budget.
Decide(d) ==
    /\ pc[d] = "decide"
    /\ IF Guarded(d)
       THEN \E verdict \in {"seal", "reject"} : Goto(d, verdict, loc[d])
       ELSE Fail(d)
    /\ UNCHANGED rows

\* seal_evidence_plan: an insert if absent.
Seal(d) ==
    /\ pc[d] = "seal"
    /\ plan' = IF plan = NoPlan THEN Planned ELSE plan
    /\ Goto(d, "check_plan", [loc[d] EXCEPT !.epoch = plan'.epoch + 1])
    /\ UNCHANGED <<route, child, target, stale>>

\* Mutant: a rejection replaces what other deliveries have sealed.
RejectAnyway(d) ==
    /\ pc[d] = "reject"
    /\ plan' = Rejection
    /\ Answer(d, "rejected")
    /\ UNCHANGED <<route, child, target, stale>>

Reject(d) ==
    /\ pc[d] = "reject"
    /\ plan' = IF plan = NoPlan THEN Rejection ELSE plan
    /\ IF plan' = Rejection THEN Answer(d, "rejected") ELSE Fail(d)
    /\ UNCHANGED <<route, child, target, stale>>

Open == plan.status \in {"planned", "claimed"}

\* claim_evidence_plan, the checks.
CheckPlan(d) ==
    /\ pc[d] = "check_plan"
    /\ IF /\ Guarded(d) /\ Open /\ loc[d].epoch > plan.epoch
          /\ ~(plan.status = "claimed" /\ lease[plan.owner] = "both")
       THEN Goto(d, "claim_plan", loc[d]) ELSE Fail(d)
    /\ UNCHANGED rows

\* The update, conditional on the epoch it read, and its readback.
ClaimPlan(d) ==
    /\ pc[d] = "claim_plan"
    /\ IF Open /\ plan.epoch = loc[d].epoch - 1
       THEN /\ plan' = [plan EXCEPT !.status = "claimed", !.owner = d,
                                    !.epoch = loc[d].epoch]
            /\ Goto(d, "verify", loc[d])
       ELSE UNCHANGED plan /\ Fail(d)
    /\ UNCHANGED <<route, child, target, stale>>

\* checkpoint_evidence_plan.
Checkpoint(d) ==
    /\ pc[d] = "checkpoint"
    /\ IF Fence(d)
       THEN /\ plan' = [plan EXCEPT !.done = loc[d].out]
            /\ Goto(d, "commit", loc[d])
       ELSE UNCHANGED plan /\ Fail(d)
    /\ UNCHANGED <<route, child, target, stale>>

\* commit_evidence_plan; the older route takes a plan committed by another
\* delivery for its own.
Commit(d) ==
    /\ pc[d] = "commit"
    /\ IF Fence(d)
       THEN plan' = [plan EXCEPT !.status = "committed"] /\ Answer(d, "done")
       ELSE /\ UNCHANGED plan
            /\ IF route = "evidence" /\ plan.status = "committed"
               THEN Answer(d, "done") ELSE Fail(d)
    /\ UNCHANGED <<route, child, target, stale>>

----------------------------------------------------------------------------
(* confirm, from the resolution of the memory to the claim of the child.   *)

\* Its operation, and the roots of the whole lineage.
Consider(d) ==
    CASE ~target.current -> Raise(d)
      [] target.current /\ child.status = "committed" -> Conclude(d, "confirmed")
      [] target.current /\ child.status # "committed" /\ target.counted ->
           Conclude(d, "skipped")
      [] OTHER -> Goto(d, IF child = NoChild THEN "copy_prepared" ELSE "check_child",
                       [loc[d] EXCEPT !.back = "confirm"])

\* Mutant: a claim on the target is not taken over.
ResolveUnclaimed(d) == Consider(d)

\* A claim of a dead worker on the target is taken over first.
Resolve(d) ==
    IF target.current /\ Claimed
    THEN Goto(d, "check_child", [loc[d] EXCEPT !.back = "recover"])
    ELSE Consider(d)

\* verify_evidence_target and _is_valid_inferred_target.
IsSealedTarget == target.current

\* A plan resumed after its checkpoint is committed at once; a replaced target is
\* turned away.
Verify(d) ==
    /\ pc[d] = "verify"
    /\ CASE ~Fence(d) -> Fail(d)
         [] Fence(d) /\ plan.done # "no" -> Goto(d, "commit", loc[d])
         [] Fence(d) /\ plan.done = "no" /\ ~IsSealedTarget -> Conclude(d, "skipped")
         [] OTHER -> Resolve(d)
    /\ UNCHANGED rows

\* confirm calls itself after a conflict on the target.
Again(d) ==
    /\ pc[d] = "again"
    /\ IF Owns(d) THEN Resolve(d) ELSE Raise(d)
    /\ UNCHANGED rows

\* After a recovery a new claim is not looked for.
Settle(d) ==
    /\ pc[d] = "settle"
    /\ Consider(d)
    /\ UNCHANGED rows

TakesBack(d) == child # loc[d].copy \/ child.status = "committed"

\* RevisionOperationStore.write: a read, and an upsert of the merge.
CopyPrepared(d) ==
    /\ pc[d] = "copy_prepared"
    /\ Goto(d, "put_prepared", [loc[d] EXCEPT !.copy = child])
    /\ UNCHANGED rows

PutPrepared(d) ==
    /\ pc[d] = "put_prepared"
    /\ child' = [loc[d].copy EXCEPT !.status = "prepared"]
    /\ stale' = (stale \/ TakesBack(d))
    /\ Goto(d, "check_child", [loc[d] EXCEPT !.copy = NoChild])
    /\ UNCHANGED <<route, plan, target>>

----------------------------------------------------------------------------
(* claim_evidence_child, and the fence it leaves on the target.            *)

\* _repair_child_target_fence, the reads: a claim of an ordinary writer on the
\* target ends the attempt.
ReadTarget(d, row) ==
    IF row.owner # None /\ target.claim \in Delivery \cup {None}
    THEN Goto(d, "set_fence", [loc[d] EXCEPT !.tok = row.owner, !.seen = target.claim,
                                             !.copy = row])
    ELSE Raise(d)

CheckChild(d) ==
    LET l == loc[d]
        mine == child.owner = d /\ child.epoch = l.epoch
    IN  /\ pc[d] = "check_child"
        /\ CASE child.status = "committed" /\ l.back = "confirm" -> Conclude(d, "confirmed")
             [] child.status = "committed" /\ l.back = "recover" ->
                  Goto(d, "fenced", [l EXCEPT !.tok = None])
             [] child.status = "claimed" /\ mine -> ReadTarget(d, child)
             [] ~mine /\ Live(child) -> Raise(d)
             [] OTHER -> IF l.epoch <= child.epoch THEN Raise(d)
                         ELSE Goto(d, "set_child", [l EXCEPT !.copy = child])
        /\ UNCHANGED rows

\* The filter names the epoch that was read, or none; not the claim.
SetChild(d) ==
    LET l == loc[d] IN
    /\ pc[d] = "set_child"
    /\ child' = IF /\ child.status \in {"prepared", "claimed"}
                   /\ child.epoch \in {l.copy.epoch, 0}
                THEN [status |-> "claimed", owner |-> d, epoch |-> l.epoch]
                ELSE child
    /\ Goto(d, "read_child", [l EXCEPT !.copy = NoChild])
    /\ UNCHANGED <<route, plan, target, stale>>

\* The readback accepts the claim of anyone.
ReadChild(d) ==
    /\ pc[d] = "read_child"
    /\ IF child.status \in {"claimed", "committed"} THEN ReadTarget(d, child) ELSE Raise(d)
    /\ UNCHANGED rows

SetFence(d) ==
    LET l == loc[d] IN
    /\ pc[d] = "set_fence"
    /\ target' = IF target.claim = l.seen THEN [target EXCEPT !.fence = l.tok] ELSE target
    /\ Goto(d, "fenced", l)
    /\ UNCHANGED <<route, plan, child, stale>>

\* _recover_claimed of a confirmation: under the lease of the child row, which
\* must be in force, whoever holds it.
Recover(c, back) ==
    IF Live(child) /\ target.fence = child.owner
    THEN Goto(c, "project", [loc[c] EXCEPT !.tok = child.owner, !.seen = target.claim,
                                           !.back = back])
    ELSE Raise(c)

\* The readback of the fence; then what the child was claimed for.  A confirmation
\* takes the row it read before the fence for committed, or verifies its lease.
Fenced(d) ==
    LET l == loc[d]
        kept == l.tok # None => target.fence = l.tok /\ target.claim = l.seen
    IN  /\ pc[d] = "fenced"
        /\ CASE ~kept -> Raise(d)
             [] kept /\ l.back = "recover" ->
                  IF target.current /\ Claimed THEN Recover(d, "settle") ELSE Consider(d)
             [] kept /\ l.back = "confirm" ->
                  IF l.copy.status = "committed" THEN Conclude(d, "confirmed")
                  ELSE Goto(d, IF HoldsChild(d) THEN "claim_target" ELSE "lost", l)
        /\ UNCHANGED rows

----------------------------------------------------------------------------
(* The target: claimed, changed, and released.                             *)

\* _claim: the update, which names the fence.
ClaimTarget(d) ==
    LET l == loc[d] IN
    /\ pc[d] = "claim_target"
    /\ target' = IF target.current /\ target.claim = None /\ target.fence = l.tok
                 THEN [target EXCEPT !.claim = l.tok] ELSE target
    /\ Goto(d, "read_claim", l)
    /\ UNCHANGED <<route, plan, child, stale>>

\* Its readback, and the read of the child row for the write of it.
ReadClaim(d) ==
    LET l == loc[d] IN
    /\ pc[d] = "read_claim"
    /\ IF target.claim = l.tok
       THEN Goto(d, "put_claimed", [l EXCEPT !.copy = child, !.seen = l.tok])
       ELSE Goto(d, "lost", l)
    /\ UNCHANGED rows

\* A conflict on the target: up to three attempts, each after the recovery of the
\* claim it lost to.
Lost(d) ==
    LET l == loc[d] IN
    /\ pc[d] = "lost"
    /\ CASE l.tries = 2 -> Raise(d)
         [] l.tries < 2 /\ Claimed -> Recover(d, "again")
         [] OTHER -> Goto(d, "again", [l EXCEPT !.tries = @ + 1])
    /\ UNCHANGED rows

PutClaimed(d) ==
    /\ pc[d] = "put_claimed"
    /\ child' = [loc[d].copy EXCEPT !.status = "claimed"]
    /\ stale' = (stale \/ TakesBack(d))
    /\ Goto(d, "project", [loc[d] EXCEPT !.copy = NoChild, !.back = "confirm"])
    /\ UNCHANGED <<route, plan, target>>

\* The validation fields, under the claim and the fence.
Project(c) ==
    LET l == loc[c] IN
    /\ pc[c] = "project"
    /\ target' = IF target.claim = l.seen /\ target.fence = l.tok
                 THEN [target EXCEPT !.counted = TRUE] ELSE target
    /\ Goto(c, "complete", l)
    /\ UNCHANGED <<route, plan, child, stale>>

\* Whose claim of the child completes it: a confirmation names its own, a recovery
\* the one it has read.
Holder(c) == IF loc[c].back = "confirm" THEN c ELSE loc[c].tok

\* Mutant: the projection is not read back.
CompleteUnread(c) ==
    LET l == loc[c] IN
    /\ pc[c] = "complete"
    /\ IF HoldsChild(Holder(c))
       THEN child' = [child EXCEPT !.status = "committed"] /\ Goto(c, "release", l)
       ELSE UNCHANGED child /\ Raise(c)
    /\ UNCHANGED <<route, plan, target, stale>>

InForce(c) == target.claim = loc[c].seen /\ target.fence = loc[c].tok

\* The readback of the projection, which a recovery makes of the values alone.
Projected(c) ==
    IF loc[c].back = "confirm"
    THEN target.claim = loc[c].tok /\ target.fence = loc[c].tok
    ELSE target.counted

\* complete_evidence_child.  Values that another has projected differ in their time.
Complete(c) ==
    LET l == loc[c] IN
    /\ pc[c] = "complete"
    /\ \/ /\ Projected(c) /\ HoldsChild(Holder(c))
          /\ child' = [child EXCEPT !.status = "committed"]
          /\ Goto(c, "release", l)
       \/ /\ ~Projected(c) \/ ~HoldsChild(Holder(c)) \/ ~InForce(c)
          /\ UNCHANGED child
          /\ Raise(c)
    /\ UNCHANGED <<route, plan, target, stale>>

\* Where a confirmation or a recovery ends.
Resume(c) ==
    LET l == loc[c] IN
    CASE l.back = "confirm" -> Conclude(c, "confirmed")
      [] l.back = "again" -> Goto(c, "again", [l EXCEPT !.tries = @ + 1])
      [] OTHER -> Goto(c, l.back, l)

\* The readback of the completion, then _release_claim: a read, and a deletion by
\* the ID of the memory.
Release(c) ==
    /\ pc[c] = "release"
    /\ CASE child.status # "committed" -> Raise(c)
         [] child.status = "committed" /\ target.claim = loc[c].seen ->
              Goto(c, "delete_claim", loc[c])
         [] OTHER -> Resume(c)
    /\ UNCHANGED rows

DeleteClaim(c) ==
    /\ pc[c] = "delete_claim"
    /\ target' = [target EXCEPT !.claim = None]
    /\ Resume(c)
    /\ UNCHANGED <<route, plan, child, stale>>

----------------------------------------------------------------------------
(* An ordinary update of the memory, in as far as it meets a confirmation: *)
(* it completes the claim it finds, and its own is one step.               *)

Write(w) ==
    /\ IF pc[w] = "idle" THEN MayBegin(w) ELSE pc[w] = "write"
    /\ CASE ~target.current -> Answer(w, "done")
         [] target.current /\ Claimed -> Recover(w, "write")
         [] OTHER -> Goto(w, "revise", loc[w])
    /\ UNCHANGED rows

Revise(w) ==
    /\ pc[w] = "revise"
    /\ IF target.current /\ target.claim = None
       THEN /\ target' = [target EXCEPT !.current = FALSE, !.claim = w]
            /\ Answer(w, "done")
       ELSE UNCHANGED target /\ Goto(w, "write", NoLocal)
    /\ UNCHANGED <<route, plan, child, stale>>

----------------------------------------------------------------------------
(* The environment.                                                        *)

Crash(d) ==
    /\ d \in Crashing /\ pc[d] \notin {"idle"} \cup Over
    /\ pc' = [pc EXCEPT ![d] = "crashed"]
    /\ loc' = [loc EXCEPT ![d] = NoLocal]
    /\ UNCHANGED <<rows, lease, reply>>

\* The claim of the plan ends first, then that of the child, which was made later.
Lapse(d) ==
    /\ pc[d] # "idle" /\ (pc[d] \in Over \/ d \in Stalling)
    /\ lease[d] # "none"
    /\ lease' = [lease EXCEPT ![d] = IF @ = "both" THEN "child" ELSE "none"]
    /\ UNCHANGED <<rows, pc, loc, reply>>

DeliveryStep(d) ==
    \/ Begin(d) \/ Decide(d) \/ Seal(d) \/ Reject(d) \/ CheckPlan(d) \/ ClaimPlan(d)
    \/ Checkpoint(d) \/ Commit(d)
    \/ Verify(d) \/ Again(d) \/ Settle(d) \/ CopyPrepared(d) \/ PutPrepared(d)
    \/ CheckChild(d) \/ SetChild(d) \/ ReadChild(d) \/ SetFence(d) \/ Fenced(d)
    \/ ClaimTarget(d) \/ ReadClaim(d) \/ Lost(d) \/ PutClaimed(d)

TargetStep(c) == Project(c) \/ Complete(c) \/ Release(c) \/ DeleteClaim(c)

Next ==
    \/ \E d \in Delivery : DeliveryStep(d) \/ Crash(d) \/ Lapse(d)
    \/ \E w \in Writer : Write(w) \/ Revise(w)
    \/ \E c \in Call : TargetStep(c)

Spec == Init /\ [][Next]_vars

----------------------------------------------------------------------------
(* Properties.                                                             *)

\* An event that was rejected before its first write has no effects, then or
\* later, also when another delivery decided otherwise.
RejectedHasNoEffects ==
    \A d \in Delivery : reply[d] = "rejected" => ~target.counted /\ child = NoChild

\* What a delivery confirmed is counted.
AnsweredIsCounted == plan.done = "confirmed" => target.counted

\* The known way to block a memory: a worker that died between the completion of
\* the child and the release of the claim.
Stuck == child.status = "committed" /\ Claimed

Later == {d \in Delivery : After[d] # {}}

\* A delivery that resumes the plan when the calls before it are over, and their
\* leases, carries it out.
ResumedPlanEnds == \A d \in Later : reply[d] # "failed"

\* It is given up only for a memory that is replaced or blocked in the known way.
ResumedOrStuck == \A d \in Later : reply[d] = "failed" => Stuck \/ ~target.current

\* No update of the memory is refused when the deliveries of the plan are over, but
\* for a memory that is blocked in the known way or by a late upsert.
MemoryIsFree ==
    route = "trusted" /\ ~stale =>
        \A w \in Writer : After[w] # {} /\ reply[w] = "failed" => Stuck

=============================================================================
