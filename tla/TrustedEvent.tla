------------------------------ MODULE TrustedEvent ------------------------------
(***************************************************************************)
(* Trusted user events of one user and owner (process and apply_plan of    *)
(* mnemory/trusted_events.py).  Each delivery of an event takes the scope  *)
(* lease, finishes the plan its predecessor left, decides what the event   *)
(* means for the memories there are, seals that plan in the journal and    *)
(* carries it out, action by action, under a claim of its own.  Deliveries *)
(* die, fail and are repeated.                                             *)
(*                                                                         *)
(* Every event states the same fact, and some a change of one older        *)
(* memory, which ordinary writers change too.                              *)
(***************************************************************************)
EXTENDS Naturals, FiniteSets

CONSTANTS
    Event,       \* authenticated event roots
    Worker,      \* deliveries of events
    Crashing,    \* deliveries whose server may die, or that may be cancelled, in
                 \* their first attempt
    Changing,    \* the events that may change the older memory
    MaxRevision, \* bound on the revisions ordinary writers make
    EventOf,     \* the event each delivery carries
    Turn,        \* what tells the attempts of a delivery apart, 0 the first
    None         \* an empty payload field

ASSUME ConstantsAssumption ==
    /\ Crashing \subseteq Worker
    /\ EventOf \in [Worker -> Event] /\ Changing \subseteq Event
    /\ 0 \in Turn /\ None \notin Event \cup (Worker \X Turn)
    /\ MaxRevision \in Nat

VARIABLES
    scope, \* the claim of the shared scope
    plan,  \* the journal row of each event
    added, \* how often the memory of each event was inserted
    roots, \* the events that confirmed the memory of each event
    held,  \* the delivery whose CONFIRM has a claim on the memory of each event
    note,  \* the older memory: its revision, and the events that changed it
    pc, loc, turn, \* where each delivery is, what it remembers, its identity
    displaced \* whether a takeover has written over the binding to an open plan

vars == <<scope, plan, added, roots, held, note, pc, loc, turn, displaced>>

----------------------------------------------------------------------------
\* `owner` stands for claim_owner, claim_nonce and claim_epoch, which every
\* claim makes anew; `bound` is memory_id, the event whose plan may be open.
Identity == Worker \X Turn
NoScope == [owner |-> None, live |-> FALSE, bound |-> None]

\* A plan: the actions for the two facts, as sealed.  `fact` is the event itself
\* for an ADD of its own memory, another one for a CONFIRM of that one's memory;
\* `snapshot` is the revision an UPDATE was decided on, 0 for a SKIP.
Actions == [fact : Event, snapshot : 0..MaxRevision + Cardinality(Event) + 1]
NoActions == [fact |-> None, snapshot |-> 0]

\* `nonce` stands for claim_nonce and claim_epoch, `live` for a deadline to
\* come, `done` for the number of checkpoints.
NoPlan == [status |-> "none", acts |-> NoActions, nonce |-> None,
           live |-> FALSE, done |-> 0]
Sealed(acts) == [NoPlan EXCEPT !.status = "planned", !.acts = acts]
Rejection == [NoPlan EXCEPT !.status = "committed"]
Open(e) == plan[e].status \in {"planned", "claimed"}

NoLocal == [bound |-> None, seen |-> None, job |-> None, acts |-> NoActions,
            n |-> 0]

Points == {"poll", "clock", "claim", "takeover", "enter", "own", "decide",
           "bind", "set_bound", "seal", "reject", "apply", "claim_plan", "fence", "act",
           "free", "fence_again", "checkpoint", "commit", "release", "failed",
           "done"}
Running(id) ==
    \E w \in Worker : id = <<w, turn[w]>> /\ pc[w] \notin {"failed", "done"}

TypeOK ==
    /\ scope = NoScope \/ scope \in [owner : Identity, live : BOOLEAN, bound : Event]
    /\ \A e \in Event :
         \/ plan[e] = NoPlan
         \/ /\ plan[e].status \in {"planned", "claimed", "committed"}
            /\ plan[e].acts \in Actions \cup {NoActions}
            /\ plan[e].nonce \in Identity \cup {None}
            /\ plan[e].live \in BOOLEAN /\ plan[e].done \in 0..2
    /\ added \in [Event -> Nat] /\ roots \in [Event -> SUBSET Event]
    /\ held \in [Event -> Identity \cup {None}]
    /\ note.rev \in 1..MaxRevision + Cardinality(Event) + 1
    /\ note.by \subseteq Event /\ note.aborted \subseteq Event
    /\ note.visible \in BOOLEAN /\ displaced \in BOOLEAN
    /\ pc \in [Worker -> Points] /\ turn \in [Worker -> Turn]

Init ==
    /\ scope = NoScope
    /\ plan = [e \in Event |-> NoPlan]
    /\ added = [e \in Event |-> 0]
    /\ roots = [e \in Event |-> {}]
    /\ held = [e \in Event |-> None]
    /\ note = [rev |-> 1, by |-> {}, aborted |-> {}, visible |-> TRUE]
    /\ displaced = FALSE
    /\ pc = [w \in Worker |-> "poll"]
    /\ loc = [w \in Worker |-> NoLocal]
    /\ turn = [w \in Worker |-> 0]

----------------------------------------------------------------------------
Memories == <<added, roots, held, note>>

Me(w) == <<w, turn[w]>>

Goto(w, where, l) ==
    /\ pc' = [pc EXCEPT ![w] = where]
    /\ loc' = [loc EXCEPT ![w] = l]
    /\ UNCHANGED turn

Fail(w) == Goto(w, "failed", NoLocal)

\* TrustedEventLease.check: a conditional renewal, which the lease's own thread
\* repeats for as long as the delivery runs.
Guard(w) == scope.owner = Me(w) /\ scope.live

\* fence: the lease, then verify_evidence_claim.
Fence(w, e) ==
    /\ Guard(w)
    /\ plan[e].status = "claimed" /\ plan[e].nonce = Me(w) /\ plan[e].live

----------------------------------------------------------------------------
(* The scope lease.                                                        *)

\* What the scope is bound to is read before the claim.
Poll(w) ==
    /\ pc[w] = "poll"
    /\ Goto(w, "clock",
            [NoLocal EXCEPT
               !.bound = IF scope.bound = None THEN EventOf[w] ELSE scope.bound])
    /\ UNCHANGED <<scope, plan, Memories>>

\* claim_user_event_content samples the time: `seen` is the owner whose lease has
\* ended then, if it has.
Clock(w) ==
    /\ pc[w] = "clock"
    /\ Goto(w, "claim",
            [loc[w] EXCEPT !.seen = IF scope.live THEN None ELSE scope.owner])
    /\ UNCHANGED <<scope, plan, Memories>>

\* The insert if absent, and its readback.  A lease was over at the time sampled
\* before just if its owner is the one of that moment: any other has claimed since,
\* and his lease ends later.
Claim(w) ==
    LET l == loc[w] IN
    /\ pc[w] = "claim"
    /\ IF scope = NoScope
       THEN /\ scope' = [owner |-> Me(w), live |-> TRUE, bound |-> l.bound]
            /\ Goto(w, "enter", l)
       ELSE /\ UNCHANGED scope
            /\ IF scope.owner = l.seen THEN Goto(w, "takeover", l)
               ELSE Goto(w, "poll", NoLocal)
    /\ UNCHANGED <<plan, Memories>>

\* Its update, for the epoch it read, and the second readback.  The binding it
\* writes is the one of Poll, whatever the scope was bound to since.
Takeover(w) ==
    LET l == loc[w]
        wins == scope.owner = l.seen /\ ~scope.live
    IN  /\ pc[w] = "takeover"
        /\ IF wins
           THEN /\ scope' = [owner |-> Me(w), live |-> TRUE, bound |-> l.bound]
                /\ displaced' = (displaced \/ (l.bound # scope.bound /\ Open(scope.bound)))
                /\ Goto(w, "enter", [l EXCEPT !.seen = None])
           ELSE UNCHANGED <<scope, displaced>> /\ Goto(w, "poll", NoLocal)
        /\ UNCHANGED <<plan, Memories>>

\* A sealed predecessor is finished first.
Enter(w) ==
    LET l == loc[w] IN
    /\ pc[w] = "enter"
    /\ CASE ~Guard(w) -> Fail(w)
         [] Guard(w) /\ Open(l.bound) ->
              Goto(w, "apply", [l EXCEPT !.job = l.bound,
                                         !.seen = plan[l.bound].nonce])
         [] OTHER -> Goto(w, "own", l)
    /\ UNCHANGED <<scope, plan, Memories>>

\* The event's own plan, if an earlier delivery sealed one.
Own(w) ==
    LET e == EventOf[w]
        l == [loc[w] EXCEPT !.job = None, !.n = 0]
    IN  /\ pc[w] = "own"
        /\ CASE plan[e].status = "committed" -> Goto(w, "release", l)
             [] Open(e) -> Goto(w, "apply", [l EXCEPT !.job = e,
                                                      !.seen = plan[e].nonce])
             [] OTHER -> Goto(w, "decide", l)
        /\ UNCHANGED <<scope, plan, Memories>>

----------------------------------------------------------------------------
(* The plan.                                                               *)

\* plan: an ADD when the fact is in no memory, a CONFIRM of one that has it; or
\* TrustedBudgetRejection; or the extraction fails.
Decide(w) ==
    LET e == EventOf[w]
        known == {x \in Event : added[x] > 0}
    IN  /\ pc[w] = "decide"
        /\ \/ Fail(w)
           \/ /\ Guard(w)
              /\ \E fact \in IF known = {} THEN {e} ELSE known,
                    snapshot \in {0} \cup (IF e \in Changing THEN {note.rev} ELSE {}) :
                   Goto(w, "bind", [loc[w] EXCEPT !.acts =
                                      [fact |-> fact, snapshot |-> snapshot]])
           \/ Guard(w) /\ Goto(w, "reject", loc[w])
        /\ UNCHANGED <<scope, plan, Memories>>

\* An event over its budget: the rejection is sealed in place of a plan.
Reject(w) ==
    LET e == EventOf[w] IN
    /\ pc[w] = "reject"
    /\ plan' = IF plan[e] = NoPlan THEN [plan EXCEPT ![e] = Rejection] ELSE plan
    /\ IF plan'[e] = Rejection
       THEN Goto(w, "release", [loc[w] EXCEPT !.job = e]) ELSE Fail(w)
    /\ UNCHANGED <<scope, Memories>>

Bind(w) ==
    /\ pc[w] = "bind"
    /\ IF Guard(w) THEN Goto(w, "set_bound", loc[w]) ELSE Fail(w)
    /\ UNCHANGED <<scope, plan, Memories>>

\* Mutant: the scope is not bound to the plan before the plan is sealed.
SetNothing(w) ==
    /\ pc[w] = "set_bound"
    /\ Goto(w, "seal", loc[w])
    /\ UNCHANGED <<scope, plan, Memories>>

\* bind_trusted_scope_plan, after its renewal: the filter names the claim but
\* not its lease, the readback looks at the binding alone.
SetBound(w) ==
    LET e == EventOf[w] IN
    /\ pc[w] = "set_bound"
    /\ scope' = IF scope.owner = Me(w) THEN [scope EXCEPT !.bound = e] ELSE scope
    /\ IF scope'.bound = e THEN Goto(w, "seal", loc[w]) ELSE Fail(w)
    /\ UNCHANGED <<plan, Memories>>

\* seal_evidence_plan: an insert if absent; whoever sealed first has decided.
Seal(w) ==
    LET e == EventOf[w] IN
    /\ pc[w] = "seal"
    /\ plan' = IF plan[e] = NoPlan
               THEN [plan EXCEPT ![e] = Sealed(loc[w].acts)] ELSE plan
    /\ Goto(w, "apply", [loc[w] EXCEPT !.acts = NoActions, !.job = e,
                                       !.seen = plan'[e].nonce])
    /\ UNCHANGED <<scope, Memories>>

----------------------------------------------------------------------------
(* apply_plan.                                                             *)

\* Mutant: only a plan nobody ever claimed can be claimed.
ApplyUnclaimed(w) ==
    LET l == loc[w] IN
    /\ pc[w] = "apply"
    /\ IF Guard(w) /\ plan[l.job].status = "planned"
       THEN Goto(w, "claim_plan", l) ELSE Fail(w)
    /\ UNCHANGED <<scope, plan, Memories>>

\* claim_evidence_plan, the checks: a live claim of another delivery, an end, or
\* a claim made since the plan was read turn this one away.
Apply(w) ==
    LET l == loc[w]
        row == plan[l.job]
    IN  /\ pc[w] = "apply"
        /\ IF Guard(w) /\ Open(l.job) /\ row.nonce = l.seen
              /\ ~(row.status = "claimed" /\ row.live)
           THEN Goto(w, "claim_plan", l) ELSE Fail(w)
        /\ UNCHANGED <<scope, plan, Memories>>

\* The conditional update, and its readback.
ClaimPlan(w) ==
    LET l == loc[w]
        e == l.job
    IN  /\ pc[w] = "claim_plan"
        /\ IF Open(e) /\ plan[e].nonce = l.seen
           THEN /\ plan' = [plan EXCEPT ![e].status = "claimed",
                                        ![e].nonce = Me(w), ![e].live = TRUE]
                /\ Goto(w, "fence", [l EXCEPT !.seen = None, !.n = plan[e].done])
           ELSE UNCHANGED plan /\ Fail(w)
        /\ UNCHANGED <<scope, Memories>>

CheckFence(w) ==
    LET l == loc[w] IN
    /\ pc[w] = "fence"
    /\ IF Fence(w, l.job)
       THEN Goto(w, IF l.n = 2 THEN "commit" ELSE "act", l) ELSE Fail(w)
    /\ UNCHANGED <<scope, plan, Memories>>

\* Mutant: the insert has an identity of its own each time.
AddAnew(w, e) ==
    /\ plan[e].acts.fact = e
    /\ added' = [added EXCEPT ![e] = @ + 1]
    /\ UNCHANGED <<roots, held, note>>
    /\ Goto(w, "fence_again", loc[w])

\* _execute_action.  The ADD inserts a deterministic ID if it is absent.
Add(w, e) ==
    /\ plan[e].acts.fact = e
    /\ added' = IF added[e] = 0 THEN [added EXCEPT ![e] = 1] ELSE added
    /\ UNCHANGED <<roots, held, note>>
    /\ Goto(w, "fence_again", loc[w])

\* The CONFIRM claims the memory, counts the root, completes its child row and,
\* in a later write, releases the claim.  A repetition replays the child, but
\* nothing gets past a claim that is left when the child is complete
\* (_recover_claimed).
Confirm(w, e) ==
    LET f == plan[e].acts.fact IN
    /\ f # e
    /\ IF held[f] # None THEN Fail(w) /\ UNCHANGED <<roots, held>>
       ELSE IF e \in roots[f]
       THEN Goto(w, "fence_again", loc[w]) /\ UNCHANGED <<roots, held>>
       ELSE /\ roots' = [roots EXCEPT ![f] = @ \cup {e}]
            /\ held' = [held EXCEPT ![f] = Me(w)]
            /\ Goto(w, "free", loc[w])
    /\ UNCHANGED <<added, note>>

\* _release_claim.
Free(w) ==
    LET f == plan[loc[w].job].acts.fact IN
    /\ pc[w] = "free"
    /\ held' = IF held[f] = Me(w) THEN [held EXCEPT ![f] = None] ELSE held
    /\ Goto(w, "fence_again", loc[w])
    /\ UNCHANGED <<scope, plan, added, roots, note>>

\* The UPDATE makes the next revision of the one it was decided on, replays, or
\* meets a conflict, which ends the delivery.  The successor that an earlier
\* attempt aborted is claimed and not activated, yet the old revision is
\* superseded and "updated" answered.
Successor(e) ==
    IF e \in note.aborted THEN [note EXCEPT !.visible = FALSE]
    ELSE [note EXCEPT !.rev = @ + 1, !.by = @ \cup {e}]

Answered(e) == e \in note.by \/ (e \in note.aborted /\ ~note.visible)

Update(w, e) ==
    LET base == plan[e].acts.snapshot IN
    /\ base # 0
    /\ IF Answered(e)
       THEN UNCHANGED note /\ Goto(w, "fence_again", loc[w])
       ELSE IF note.rev = base /\ note.visible
       THEN note' = Successor(e) /\ Goto(w, "fence_again", loc[w])
       ELSE UNCHANGED note /\ Fail(w)
    /\ UNCHANGED <<added, roots, held>>

Skip(w, e) ==
    /\ plan[e].acts.snapshot = 0
    /\ UNCHANGED Memories
    /\ Goto(w, "fence_again", loc[w])

Act(w) ==
    LET e == loc[w].job IN
    /\ pc[w] = "act"
    /\ \/ loc[w].n = 0 /\ (Add(w, e) \/ Confirm(w, e))
       \/ loc[w].n = 1 /\ (Update(w, e) \/ Skip(w, e))
    /\ UNCHANGED <<scope, plan>>

FenceAgain(w) ==
    /\ pc[w] = "fence_again"
    /\ IF Fence(w, loc[w].job) THEN Goto(w, "checkpoint", loc[w]) ELSE Fail(w)
    /\ UNCHANGED <<scope, plan, Memories>>

\* The filter of every update of a claimed plan.
Claims(w, e) == plan[e].status = "claimed" /\ plan[e].nonce = Me(w)

Checkpoint(w) ==
    LET l == loc[w] IN
    /\ pc[w] = "checkpoint"
    /\ IF Claims(w, l.job)
       THEN /\ plan' = [plan EXCEPT ![l.job].done = l.n + 1]
            /\ Goto(w, "fence", [l EXCEPT !.n = l.n + 1])
       ELSE UNCHANGED plan /\ Fail(w)
    /\ UNCHANGED <<scope, Memories>>

\* commit_evidence_plan; a predecessor's plan is followed by the event's own.
Commit(w) ==
    LET l == loc[w] IN
    /\ pc[w] = "commit"
    /\ IF Claims(w, l.job) \/ plan[l.job].status = "committed"
       THEN /\ plan' = [plan EXCEPT ![l.job].status = "committed",
                                    ![l.job].nonce = None, ![l.job].live = FALSE]
            /\ Goto(w, IF l.job = EventOf[w] THEN "release" ELSE "own", l)
       ELSE UNCHANGED plan /\ Fail(w)
    /\ UNCHANGED <<scope, Memories>>

\* release: an event just carried out, or rejected, stays bound to the scope.
Release(w) ==
    LET l == loc[w]
        accepted == l.job = EventOf[w]
    IN  /\ pc[w] = "release"
        /\ scope' = IF scope.owner = Me(w)
                    THEN [scope EXCEPT !.live = FALSE,
                              !.bound = IF accepted THEN EventOf[w] ELSE l.bound]
                    ELSE scope
        /\ pc' = [pc EXCEPT ![w] = "done"]
        /\ loc' = [loc EXCEPT ![w] = NoLocal]
        /\ UNCHANGED <<plan, turn, Memories>>

----------------------------------------------------------------------------
(* The environment.                                                        *)

\* An identity no claim in force and no other delivery has: the UUIDs of a
\* new attempt.
Fresh(w, t) ==
    /\ scope.owner # <<w, t>>
    /\ \A e \in Event : Open(e) => plan[e].nonce # <<w, t>>
    /\ \A v \in Worker : loc[v].seen # <<w, t>>
    /\ \A e \in Event : held[e] # <<w, t>>

\* A delivery that failed, or got no answer, is repeated by its client.
Retry(w) ==
    /\ pc[w] = "failed"
    /\ \E t \in Turn \ {0} : Fresh(w, t)
    /\ pc' = [pc EXCEPT ![w] = "poll"]
    /\ turn' = [turn EXCEPT ![w] = CHOOSE t \in Turn \ {0} : Fresh(w, t)]
    /\ UNCHANGED <<scope, plan, loc, Memories>>

\* The server dies, in the first attempt of a delivery; before the claim there is
\* nothing to lose.
Crash(w) ==
    /\ w \in Crashing /\ turn[w] = 0
    /\ pc[w] \notin {"poll", "clock", "claim", "failed", "done"}
    /\ pc' = [pc EXCEPT ![w] = "failed"]
    /\ loc' = [loc EXCEPT ![w] = NoLocal]
    /\ UNCHANGED <<scope, plan, turn, Memories>>

\* The request is cancelled: the next guard raises.  Raised in the try of revise
\* it also marks the successor of an UPDATE aborted.
Cancel(w) ==
    LET e == loc[w].job IN
    /\ w \in Crashing /\ turn[w] = 0 /\ pc[w] = "act" /\ loc[w].n = 1
    /\ plan[e].acts.snapshot = note.rev /\ note.visible /\ e \notin note.by
    /\ note' = [note EXCEPT !.aborted = @ \cup {e}]
    /\ Fail(w)
    /\ UNCHANGED <<scope, plan, added, roots, held>>

\* A lease is renewed for as long as its delivery runs.
Expire ==
    /\ scope.live /\ ~Running(scope.owner)
    /\ scope' = [scope EXCEPT !.live = FALSE]
    /\ UNCHANGED <<plan, pc, loc, turn, Memories>>

\* The claim of a plan lasts for longer than its delivery may run.
Lapse(e) ==
    /\ plan[e].live /\ ~Running(plan[e].nonce)
    /\ plan' = [plan EXCEPT ![e].live = FALSE]
    /\ UNCHANGED <<scope, pc, loc, turn, Memories>>

\* An ordinary writer revises the older memory.
Revise ==
    /\ note.visible /\ note.rev - Cardinality(note.by) <= MaxRevision
    /\ note' = [note EXCEPT !.rev = @ + 1]
    /\ UNCHANGED <<scope, plan, pc, loc, turn, added, roots, held>>

Step(w) ==
    \/ Takeover(w)
    \/ /\ \/ Poll(w) \/ Clock(w) \/ Claim(w) \/ Enter(w) \/ Own(w)
          \/ Decide(w) \/ Bind(w) \/ SetBound(w) \/ Seal(w) \/ Reject(w)
          \/ Apply(w) \/ ClaimPlan(w) \/ CheckFence(w) \/ Act(w) \/ Free(w)
          \/ FenceAgain(w) \/ Checkpoint(w) \/ Commit(w) \/ Release(w) \/ Retry(w)
       /\ UNCHANGED displaced

Environment ==
    /\ \/ \E w \in Worker : Crash(w) \/ Cancel(w)
       \/ \E e \in Event : Lapse(e)
       \/ Expire \/ Revise
    /\ UNCHANGED displaced

Next == (\E w \in Worker : Step(w)) \/ Environment

Spec == Init /\ [][Next]_vars

\* Deliveries go on, and leases end.
FairSpec ==
    /\ Spec
    /\ \A w \in Worker : WF_vars(Step(w))
    /\ WF_vars(Expire /\ UNCHANGED displaced)
    /\ \A e \in Event : WF_vars(Lapse(e) /\ UNCHANGED displaced)

----------------------------------------------------------------------------
(* Properties.                                                             *)

\* An event decides only when no other event's plan is sealed but unfinished
\* (process: "A sealed predecessor must finish before another event makes a
\* semantic ADD decision").
PredecessorFirst == Cardinality({e \in Event : Open(e)}) <= 1

\* So it is, wherever deliveries die, as long as no takeover has written over the
\* binding to an open plan.  (A delivery that stalls for longer than a lease
\* between reading the binding and the time may do that.)
BoundPredecessorFirst == ~displaced => PredecessorFirst

\* Two events that state the same fact leave one memory of it, however often
\* they are delivered and wherever a delivery dies: the scope lease serializes
\* their decisions and every ADD has an identity fixed by its plan.  Again as long
\* as no binding to an open plan was written over.
NoDuplicateFact ==
    ~displaced =>
        \A e, x \in Event : added[e] + (IF x = e THEN 0 ELSE added[x]) <= 1

\* A sealed plan is carried out in the end, by a later attempt of its own
\* delivery or by the next event of the scope, wherever a delivery dies
\* ("Persisted actions and deterministic ADD identities support recovery after a
\* partial write"), but for four cases: an ordinary writer has revised the memory
\* that the plan changes; a dead delivery has left a claim on the memory that it
\* confirms, whose child is complete; a cancelled one has aborted the successor
\* of its UPDATE; or the binding was written over, and only a delivery of the same
\* event finds the plan.
Overtaken(e) ==
    LET base == plan[e].acts.snapshot IN
    base # 0 /\ e \notin note.by /\ ~(note.rev = base /\ note.visible)
Stuck(e) ==
    LET f == plan[e].acts.fact IN
    f \in Event \ {e} /\ held[f] # None /\ ~Running(held[f])
CarriedOut(e) ==
    LET acts == plan[e].acts IN
    /\ plan[e].status = "committed"
    /\ acts.fact \in Event
    /\ IF acts.fact = e THEN added[e] = 1 ELSE e \in roots[acts.fact]
    /\ acts.snapshot # 0 => e \in note.by
SealedPlanRecovers ==
    \A e \in Event :
        Open(e) ~> \/ CarriedOut(e) \/ Overtaken(e) \/ Stuck(e)
                   \/ e \in note.aborted \/ displaced

=============================================================================
