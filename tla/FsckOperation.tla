----------------------------- MODULE FsckOperation -----------------------------
(***************************************************************************)
(* The application of one issue of a completed fsck check (apply_check of  *)
(* mnemory/fsck.py): several appliers create the issue's journal row, take *)
(* the lease on it, carry out its plan action by action and record the     *)
(* outcome, while other writers change the memories, leases expire, store   *)
(* calls raise, and an operator terminalizes the row.  Nothing obliges an  *)
(* applier to take its next step, so each of them may die anywhere.        *)
(***************************************************************************)
EXTENDS OperationLease, Sequences, FiniteSets

CONSTANTS
    Applier,      \* apply_check calls, in any process
    Operator,     \* re_evaluate_operation calls with terminalize=true
    Issue,        \* the issues of which one is applied
    Faulty,       \* the appliers one of whose store calls may raise
    Lease,        \* fsck_recovery_lease_seconds, in ticks of the clock
    MaxAttempts,  \* fsck_recovery_max_attempts
    MaxTime       \* bound of the clock

\* An issue: its actions in order, whether it is a split, whether the memory
\* to split has artifacts, the actions whose target does not exist, and those
\* whose target revision was itself created by a journalled operation.
ASSUME ConstantsAssumption ==
    /\ Applier \cap Operator = {} /\ None \notin Applier \cup Operator
    /\ Faulty \subseteq Applier
    /\ Lease \in Nat \ {0} /\ MaxAttempts \in Nat \ {0} /\ MaxTime \in Nat
    /\ \A i \in Issue :
         /\ i.actions \in Seq({"update", "delete", "add"})
         /\ i.split \in BOOLEAN /\ i.artifacts \in BOOLEAN
         /\ i.missing \subseteq DOMAIN i.actions
         /\ i.derived \subseteq DOMAIN i.actions

VARIABLES
    issue,   \* the issue
    target,  \* what became of the memory each action names
    sub,     \* the journal row of each action's own revise or retract
    row,     \* the journal row of the issue
    now,     \* the clock
    pc, loc, \* where each call is, and what it remembers
    reply,   \* the status in the detail a call returns
    created  \* how often the planned row was written

vars == <<issue, target, sub, row, now, pc, loc, reply, created>>

----------------------------------------------------------------------------
Action == DOMAIN issue.actions
Kind(a) == IF issue.split /\ issue.actions[a] = "delete" THEN "source"
           ELSE issue.actions[a]

Terminal == {"committed", "skipped", "superseded"}
Status == {"none", "planned", "applying", "failed"} \cup Terminal

\* An empty field tells nothing.
ASSUME NoneAssumption == None \notin Status \cup {"target_changed"}

\* One entry of action_checkpoints.  `op` is subordinate_operation_id: the
\* operation of the action itself, or another one found on the target.
BoxStatus == {"pending", "applying", "committed", "skipped"}
Box == [status: BoxStatus, op: {None, "own", "foreign"}]
Pending == [status |-> "pending", op |-> None]

\* `stamp` stands for updated_at_utc: which call wrote the row last.
NoRow == [status |-> "none", owner |-> None, expires |-> 0, attempts |-> 0,
          boxes |-> <<>>, stamp |-> None, reason |-> None]

Answers == {"none", "applied", "skipped", "blocked", "failed",
            "terminal", "terminalized", "leased"}

NoLocal == [seen |-> NoRow, now |-> 0, boxes |-> <<>>, todo |-> {}, at |-> 0,
            change |-> None, then |-> None, wrote |-> FALSE,
            claimed |-> FALSE, failing |-> FALSE]

TypeOK ==
    /\ issue \in Issue
    /\ target \in [Action -> {"expected", "changed", "done", "missing"}]
    /\ sub \in [Action -> {"none", "open", "committed"}]
    /\ row.status \in Status /\ row.owner \in Applier \cup {None}
    /\ row.expires \in 0..MaxTime + Lease
    /\ row.attempts \in 0..Cardinality(Applier)
    /\ row = NoRow \/ row.boxes \in [Action -> Box]
    /\ row.stamp \in Applier \cup Operator \cup {None}
    /\ now \in 0..MaxTime
    /\ reply \in [Applier \cup Operator -> Answers]

Init ==
    /\ issue \in Issue
    /\ target = [a \in Action |-> IF a \in issue.missing THEN "missing"
                                  ELSE "expected"]
    /\ sub = [a \in Action |-> "none"]
    /\ row = NoRow /\ now = 0 /\ created = 0
    /\ pc = [w \in Applier \cup Operator |-> "idle"]
    /\ loc = [w \in Applier \cup Operator |-> NoLocal]
    /\ reply = [w \in Applier \cup Operator |-> "none"]

Goto(w, where, l) ==
    /\ pc' = [pc EXCEPT ![w] = where]
    /\ loc' = [loc EXCEPT ![w] = l]
    /\ UNCHANGED reply

Answer(w, status) ==
    /\ pc' = [pc EXCEPT ![w] = "done"]
    /\ loc' = [loc EXCEPT ![w] = NoLocal]
    /\ reply' = [reply EXCEPT ![w] = status]

Others == <<issue, now, created>>

----------------------------------------------------------------------------
(* The order of the actions: a split marks its sources first.              *)

Before(a, b) ==
    LET first == Kind(a) = "source"
        second == Kind(b) = "source"
    IN  IF first = second THEN a < b ELSE first

Earliest(actions) == CHOOSE a \in actions : \A b \in actions \ {a} : Before(a, b)

----------------------------------------------------------------------------
(* _resolve_action_checkpoints: what the side effects tell.                *)

\* revision_operation_id of the revision an update or delete was planned for.
OperationOf(a) ==
    IF Kind(a) = "delete" /\ target[a] = "done" THEN "own"
    ELSE IF a \in issue.derived \/ target[a] = "changed" THEN "foreign" ELSE None

ResolveBox(a, box) ==
    LET op == IF box.op = None /\ Kind(a) \in {"update", "delete"}
              THEN OperationOf(a) ELSE box.op
        applied == \/ Kind(a) \in {"add", "source"} /\ target[a] = "done"
                   \/ op = "own" /\ sub[a] = "committed"
    IN  IF box.status \in {"committed", "skipped"} THEN box
        ELSE [status |-> IF applied THEN "committed" ELSE box.status, op |-> op]

Resolved(boxes) == [a \in Action |-> ResolveBox(a, boxes[a])]

----------------------------------------------------------------------------
(* apply_check: an existing row is never applied again.                    *)

\* get_fsck_issue.
Look(w) ==
    /\ pc[w] = "idle" /\ w \in Applier
    /\ CASE row.status = "none" -> Goto(w, "look_again", NoLocal)
         [] row.status \in Terminal -> Answer(w, "skipped")
         [] OTHER -> Answer(w, "blocked")
    /\ UNCHANGED <<target, sub, row, Others>>

\* operations.get: finds a row that another applier created since.
LookAgain(w) ==
    LET boxes == IF row = NoRow THEN [a \in Action |-> Pending] ELSE row.boxes
        l == [loc[w] EXCEPT !.boxes = boxes]
    IN  /\ pc[w] = "look_again"
        /\ CASE row.status = "none" -> Goto(w, "read_row", l)
             [] row.status \in Terminal -> Answer(w, "skipped")
             [] row.status \notin Terminal \cup {"none"}
                /\ row.attempts >= MaxAttempts -> Goto(w, "exhaust", l)
             [] OTHER -> Goto(w, "try_claim", l)
        /\ UNCHANGED <<target, sub, row, Others>>

\* operations.write: the row is read, then the merge is upserted.
ReadRow(w) ==
    /\ pc[w] = "read_row"
    /\ Goto(w, "create", [loc[w] EXCEPT !.seen = row])
    /\ UNCHANGED <<target, sub, row, Others>>

Create(w) ==
    /\ pc[w] = "create"
    /\ row' = [loc[w].seen EXCEPT !.status = "planned",
                                  !.boxes = loc[w].boxes, !.stamp = w]
    /\ created' = created + 1
    /\ Goto(w, "try_claim", [loc[w] EXCEPT !.seen = NoRow])
    /\ UNCHANGED <<issue, target, sub, now>>

\* terminalize_unclaimed of a row whose attempts are used up.
Exhaust(w) ==
    /\ pc[w] = "exhaust"
    /\ row' = IF MayTerminalize(row, now, {"planned", "failed"})
              THEN [row EXCEPT !.status = "failed", !.stamp = w] ELSE row
    /\ Goto(w, "exhausted", loc[w])
    /\ UNCHANGED <<target, sub, Others>>

Exhausted(w) ==
    /\ pc[w] = "exhausted"
    /\ Answer(w, IF row.status = "failed" THEN "failed" ELSE "skipped")
    /\ UNCHANGED <<target, sub, row, Others>>

----------------------------------------------------------------------------
(* The claim.                                                              *)


\* allowed_statuses.
Claimable == {"planned"}

TryClaim(w) ==
    /\ pc[w] = "try_claim"
    /\ IF row.status \in Claimable
       THEN Goto(w, "claim", [loc[w] EXCEPT !.now = now, !.seen = row])
       ELSE Answer(w, "skipped")
    /\ UNCHANGED <<target, sub, row, Others>>

Claim(w) ==
    LET l == loc[w] IN
    /\ pc[w] = "claim"
    /\ row' = IF MayClaim(row, w, l.now, Claimable)
              THEN Leased(row, w, l.now + Lease, l.seen.attempts) ELSE row
    /\ Goto(w, "claimed", [l EXCEPT !.seen = NoRow, !.now = 0])
    /\ UNCHANGED <<target, sub, Others>>

\* write_claimed, first the conditional write of `change`, then the read that
\* tells whether it was made; `then` is where the applier goes on, or the
\* status it reports.
Save(w, l, boxes, status, then) ==
    Goto(w, "save", [l EXCEPT !.boxes = boxes, !.change = status, !.then = then])

Claimed(w) ==
    /\ pc[w] = "claimed"
    /\ IF HoldsClaim(row, w)
       THEN Save(w, [loc[w] EXCEPT !.claimed = TRUE], Resolved(loc[w].boxes),
                 None, "check_targets")
       ELSE Answer(w, "skipped")
    /\ UNCHANGED <<target, sub, row, Others>>

Saved(w) ==
    LET l == loc[w]
        mine == MayWrite(row, w, now)
    IN  /\ pc[w] = "save"
        /\ row' = IF mine
                  THEN [row EXCEPT !.boxes = l.boxes, !.stamp = w,
                                   !.status = IF l.change = None THEN @
                                              ELSE l.change,
                                   !.reason = IF l.change = "superseded"
                                              THEN "target_changed" ELSE @]
                  ELSE row
        /\ Goto(w, "verify", [l EXCEPT !.wrote = mine])
        /\ UNCHANGED <<target, sub, Others>>

Verify(w) ==
    LET l == loc[w]
        ok == l.wrote /\ row.owner = w /\ row.stamp = w
    IN  /\ pc[w] = "verify"
        /\ CASE l.failing -> Answer(w, "failed")
             [] ~l.failing /\ ~ok -> Goto(w, "raise", l)
             [] ~l.failing /\ ok /\ l.then \in Answers -> Answer(w, l.then)
             [] OTHER -> Goto(w, l.then, [l EXCEPT !.change = None,
                                                   !.then = None,
                                                   !.wrote = FALSE])
        /\ UNCHANGED <<target, sub, row, Others>>

----------------------------------------------------------------------------
(* The plan, action by action.                                             *)

\* The targets are compared with the plan once, before the first action.
CheckTargets(w) ==
    LET l == loc[w]
        open == {a \in Action : l.boxes[a].status \notin {"committed", "skipped"}}
        planned == {a \in open : Kind(a) # "add" /\ a \notin issue.missing}
    IN  /\ pc[w] = "check_targets"
        /\ IF \E a \in planned : target[a] # "expected"
           THEN Save(w, l, l.boxes, "superseded", "skipped")
           ELSE Goto(w, "next_action", [l EXCEPT !.todo = open])
        /\ UNCHANGED <<target, sub, row, Others>>

\* A split whose source has artifacts is not carried out, and an action on a
\* memory that does not exist is passed over.
NextAction(w) ==
    LET l == loc[w]
        a == Earliest(l.todo)
        skip == \/ issue.artifacts /\ \E b \in l.todo : Kind(b) = "source"
                \/ l.at = -1
                \/ Kind(a) # "add" /\ target[a] = "missing"
        rest == [l EXCEPT !.todo = @ \ {a},
                          !.at = IF issue.artifacts THEN -1 ELSE 0]
    IN  /\ pc[w] = "next_action"
        /\ IF l.todo = {} THEN Goto(w, "complete", [l EXCEPT !.at = 0])
           ELSE IF skip
           THEN Save(w, rest, [l.boxes EXCEPT ![a].status = "skipped"], None,
                     "next_action")
           ELSE Goto(w, "renew", [l EXCEPT !.at = a, !.todo = @ \ {a}])
        /\ UNCHANGED <<target, sub, row, Others>>


\* _start_action_checkpoint: renew the lease, then record that the action
\* starts; either failing, the action does not start.
Renew(w) ==
    LET mine == MayWrite(row, w, now) IN
    /\ pc[w] = "renew"
    /\ row' = IF mine THEN [row EXCEPT !.expires = now + Lease, !.stamp = w]
              ELSE row
    /\ Goto(w, "renewed", [loc[w] EXCEPT !.wrote = mine, !.now = now])
    /\ UNCHANGED <<target, sub, Others>>

\* Mutant: the start of the action is not recorded before it is carried out.
RenewedOnly(w) ==
    LET l == loc[w]
        ok == /\ l.wrote /\ HoldsClaim(row, w) /\ row.stamp = w
              /\ row.expires = l.now + Lease
        l2 == [l EXCEPT !.wrote = FALSE, !.now = 0]
    IN  /\ pc[w] = "renewed"
        /\ Goto(w, IF ok THEN "act" ELSE "raise", l2)
        /\ UNCHANGED <<target, sub, row, Others>>

Renewed(w) ==
    LET l == loc[w]
        ok == /\ l.wrote /\ HoldsClaim(row, w) /\ row.stamp = w
              /\ row.expires = l.now + Lease
        l2 == [l EXCEPT !.wrote = FALSE, !.now = 0]
    IN  /\ pc[w] = "renewed"
        /\ IF ok THEN Save(w, l2, [l.boxes EXCEPT ![l.at].status = "applying"],
                           None, "act")
           ELSE Goto(w, "raise", l2)
        /\ UNCHANGED <<target, sub, row, Others>>

\* The side effect.  Its idempotency key, its deterministic memory ID or its
\* operation ID makes a repetition a replay; a changed target is a conflict.
Journalled(a) == Kind(a) \in {"update", "delete"}
Effect(a, status) ==
    /\ target' = [target EXCEPT ![a] = "done"]
    /\ sub' = IF Journalled(a) THEN [sub EXCEPT ![a] = status] ELSE sub

\* Mutant: a changed target is taken for success.
ActRegardless(w) ==
    LET l == loc[w]
        a == l.at
        box == [status |-> "committed",
                op |-> IF Kind(a) = "add" THEN None ELSE "own"]
    IN  /\ pc[w] = "act"
        /\ IF target[a] = "changed" THEN UNCHANGED <<target, sub>>
           ELSE Effect(a, "committed")
        /\ Save(w, [l EXCEPT !.at = 0], [l.boxes EXCEPT ![a] = box], None,
                "next_action")
        /\ UNCHANGED <<row, Others>>

Act(w) ==
    LET l == loc[w]
        a == l.at
        box == [status |-> "committed",
                op |-> IF Kind(a) = "add" THEN None ELSE "own"]
    IN  /\ pc[w] = "act"
        /\ IF target[a] = "changed"
           THEN /\ Goto(w, "raise", [l EXCEPT !.at = 0])
                /\ UNCHANGED <<target, sub>>
           ELSE /\ Effect(a, "committed")
                /\ Save(w, [l EXCEPT !.at = 0], [l.boxes EXCEPT ![a] = box],
                        None, "next_action")
        /\ UNCHANGED <<row, Others>>

Complete(w) ==
    LET l == loc[w]
        boxes == Resolved(l.boxes)
        with(s) == {a \in Action : boxes[a].status = s}
    IN  /\ pc[w] = "complete"
        /\ IF with("committed") \cup with("skipped") # Action
           THEN Goto(w, "raise", l)
           ELSE IF with("committed") # {}
                THEN Save(w, l, boxes, "committed", "applied")
                ELSE Save(w, l, boxes, "skipped", "skipped")
        /\ UNCHANGED <<target, sub, row, Others>>

----------------------------------------------------------------------------
(* What goes wrong.                                                        *)

\* The handler of any exception: the owner of the lease records the failure,
\* an applier that never had it terminalizes the row if nobody has.
Raise(w) ==
    LET l == loc[w]
        boxes == Resolved(l.boxes)
    IN  /\ pc[w] = "raise"
        /\ IF l.claimed
           THEN Save(w, [l EXCEPT !.failing = TRUE], boxes, "failed", "failed")
           ELSE Goto(w, "fail_unclaimed", [l EXCEPT !.boxes = boxes])
        /\ UNCHANGED <<target, sub, row, Others>>

FailUnclaimed(w) ==
    /\ pc[w] = "fail_unclaimed"
    /\ row' = IF MayTerminalize(row, now, {"planned", "failed"})
              THEN [row EXCEPT !.status = "failed", !.boxes = loc[w].boxes,
                               !.stamp = w]
              ELSE row
    /\ Answer(w, "failed")
    /\ UNCHANGED <<target, sub, Others>>

\* A call of the store raises.  A side effect may have been made all the same,
\* with or without its own journal row committed.
Fault(w) ==
    LET l == loc[w] IN
    /\ w \in Faulty
    /\ pc[w] \in {"create", "claim", "save", "renew", "act"} /\ ~l.failing
    /\ \/ UNCHANGED <<target, sub>>
       \/ /\ pc[w] = "act" /\ target[l.at] # "changed"
          /\ \E status \in {"open", "committed"} :
               /\ sub[l.at] # "committed"
               /\ Effect(l.at, status)
    /\ Goto(w, "raise", [l EXCEPT !.at = 0, !.seen = NoRow, !.now = 0])
    /\ UNCHANGED <<row, Others>>

\* Another writer revises or retracts a target.
Touch(a) ==
    /\ Kind(a) # "add" /\ target[a] = "expected"
    /\ target' = [target EXCEPT ![a] = "changed"]
    /\ UNCHANGED <<sub, row, pc, loc, reply, Others>>

Tick ==
    /\ now < MaxTime
    /\ now' = now + 1
    /\ UNCHANGED <<issue, target, sub, row, pc, loc, reply, created>>

----------------------------------------------------------------------------
(* re_evaluate_operation with terminalize=true, given the audit it needs.  *)

Reevaluate(o) ==
    /\ pc[o] = "idle" /\ o \in Operator /\ row.status # "none"
    /\ IF row.status \in Terminal THEN Answer(o, "terminal")
       ELSE Goto(o, "terminalize", NoLocal)
    /\ UNCHANGED <<target, sub, row, Others>>

\* Mutant: the write looks at the lease but not at the status.
TerminalizeAnything(o) ==
    /\ pc[o] = "terminalize"
    /\ row' = IF Free(row, now)
              THEN [row EXCEPT !.status = "superseded", !.stamp = o,
                               !.reason = "reevaluated"]
              ELSE row
    /\ Goto(o, "terminalized", NoLocal)
    /\ UNCHANGED <<issue, target, sub, now, created>>

Terminalize(o) ==
    /\ pc[o] = "terminalize"
    /\ row' = IF MayTerminalize(row, now, {"planned", "failed"})
              THEN [row EXCEPT !.status = "superseded", !.stamp = o,
                               !.reason = "reevaluated"]
              ELSE row
    /\ Goto(o, "terminalized", NoLocal)
    /\ UNCHANGED <<issue, target, sub, now, created>>

Terminalized(o) ==
    /\ pc[o] = "terminalized"
    /\ Answer(o, IF row.status = "superseded" THEN "terminalized" ELSE "leased")
    /\ UNCHANGED <<target, sub, row, Others>>

ApplierStep(w) ==
    \/ Look(w) \/ LookAgain(w) \/ ReadRow(w) \/ Create(w)
    \/ Exhaust(w) \/ Exhausted(w)
    \/ TryClaim(w) \/ Claim(w) \/ Claimed(w) \/ Saved(w) \/ Verify(w)
    \/ CheckTargets(w) \/ NextAction(w) \/ Renew(w) \/ Renewed(w)
    \/ Act(w) \/ Complete(w) \/ Raise(w) \/ FailUnclaimed(w)

Next ==
    \/ \E w \in Applier : ApplierStep(w) \/ Fault(w)
    \/ \E o \in Operator : Reevaluate(o) \/ Terminalize(o) \/ Terminalized(o)
    \/ \E a \in Action : Touch(a)
    \/ Tick

Spec == Init /\ [][Next]_vars

----------------------------------------------------------------------------
(* Properties.                                                             *)

\* The documentation leaves out one case: appliers that create the row at the
\* same time.  `created` counts the writes of the planned row.
OneCreator == created <= 1

\* What the row tells is true, whatever raced, failed or died: a checkpoint
\* says committed only of an action whose effect is there, a row says committed
\* only when no action is open, and with one creator a row says skipped, or
\* superseded by a changed target, only when nothing was done.
RowTellsTruth ==
    LET status(a) == row.boxes[a].status IN
    /\ row # NoRow => \A a \in Action : status(a) = "committed" => target[a] = "done"
    /\ row.status = "committed" =>
          /\ \A a \in Action : status(a) \in {"committed", "skipped"}
          /\ \E a \in Action : status(a) = "committed"
    /\ OneCreator /\ (row.status = "skipped" \/ row.reason = "target_changed") =>
          \A a \in Action : target[a] # "done"

\* An action is recorded before it is carried out: with one creator, a pending
\* checkpoint of an operation under way means that nothing was done.  (Of a
\* failed one it does not: FailUnclaimed replaces the checkpoints of another
\* applier's failed row once that applier's lease is over.)
PendingIsUntouched ==
    OneCreator /\ row.status = "applying" =>
        \A a \in Action : row.boxes[a].status = "pending" => target[a] # "done"


\* With one creator the outcome of an issue that was carried out, or that an
\* operator or a changed target ended, stays once recorded: no later call applies
\* it again, nor overwrites its row.  ("skipped" is not such an outcome: the
\* comment in apply_check wants an issue all of whose actions were skipped left
\* for later calls.)
OutcomeIsKept ==
    row.status \in {"committed", "superseded"} /\ created' <= 1 =>
        row'.status = row.status /\ row'.boxes = row.boxes
OutcomeIsFinal == [][OutcomeIsKept]_vars

=============================================================================
