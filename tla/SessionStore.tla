------------------------------ MODULE SessionStore ------------------------------
(***************************************************************************)
(* The summary row of one conversation session in `_mnemory_sessions`, and *)
(* the writes of SessionSummaryStore (storage/vector.py) as functions from *)
(* the stored row to the next one.  A conditional write of Qdrant changes  *)
(* the row when its filter matches and tells the caller nothing: every     *)
(* caller reads the row back to find out.                                  *)
(***************************************************************************)
EXTENDS Integers, FiniteSets

CONSTANTS
    Turn,    \* remember calls; each links one raw memory that bears its name
    Old,     \* raw memories linked before the model starts
    Worker,  \* consolidation tokens, one per run of consolidate_session
    Batch,   \* claimants of the one batch of explicit retries
    None     \* an empty payload field

ASSUME StoreAssumption ==
    /\ Turn \cap Old = {}
    /\ None \notin Turn \cup Worker \cup Batch
    /\ \A plan \in SUBSET (Turn \cup Old) : None # plan

Memory == Turn \cup Old

State == {"absent", "idle", "consolidating", "consolidated", "failed"}

\* rev is session_revision, mems memory_ids, outs consolidated_memory_ids;
\* token and plan the claim of a consolidation, plan being the set of source
\* memories its outputs name, which may be none; upd is session_update_token; legacy is
\* legacy_failure; retry is retry_claimant (the retry token is the same for
\* every claimant), live whether its lease has not expired.
Row == [state: State, rev: Nat, mems: SUBSET Memory, outs: SUBSET Worker,
        token: Worker \cup {None}, plan: (SUBSET Memory) \cup {None},
        upd: Turn \cup {None}, legacy: BOOLEAN,
        retry: Batch \cup {None}, live: BOOLEAN]

NoRow == [state |-> "absent", rev |-> 0, mems |-> {}, outs |-> {},
          token |-> None, plan |-> None, upd |-> None, legacy |-> FALSE,
          retry |-> None, live |-> FALSE]

\* The row of a session whose memories are `mems`, in a state it rests in.
Resting(state, mems) ==
    [NoRow EXCEPT !.state = state, !.rev = 1, !.mems = mems,
                  !.legacy = (state = "failed")]

Created(new) == Resting("idle", new)

\* A write addressed by point ID alone: there must be a point.
Stored(row, new) == IF row.state = "absent" THEN row ELSE new

----------------------------------------------------------------------------
(* upsert, called by remember turn t on a row read as `old`, with the set  *)
(* of memories the turn stored: t's own, or none when all were duplicates. *)

StateAfterTurn(old, new) ==
    IF old.state \in {"consolidated", "failed"} /\ new # {}
    THEN "idle" ELSE old.state

\* Mutant: the update does not begin a new generation of the session.
SameGeneration(row, old, t, new) ==
    IF /\ row.rev = old.rev /\ row.state = old.state /\ row.token = old.token
       /\ row.state # "absent"
    THEN [row EXCEPT !.mems = old.mems \cup new, !.upd = t,
                     !.state = StateAfterTurn(old, new)]
    ELSE row

Turned(row, old, t, new) ==
    IF /\ row.rev = old.rev /\ row.state = old.state /\ row.token = old.token
       /\ row.state # "absent"
    THEN [row EXCEPT !.mems = old.mems \cup new, !.upd = t,
                     !.state = StateAfterTurn(old, new), !.rev = old.rev + 1]
    ELSE row

\* The clean-up after a turn, by point ID alone.
Cleared(row, old, new) ==
    IF old.state = "failed" /\ new # {}
    THEN Stored(row, [row EXCEPT !.upd = None, !.token = None, !.plan = None])
    ELSE Stored(row, [row EXCEPT !.upd = None])

----------------------------------------------------------------------------
(* The claim of one generation, and its release.                           *)

Claimable(row, rev) == row.state = "idle" /\ row.rev = rev /\ row.token = None

Claimed(row, rev, w) ==
    IF Claimable(row, rev)
    THEN [row EXCEPT !.state = "consolidating", !.token = w] ELSE row

Holds(row, t) == row.state = "consolidating" /\ row.token = t

Freed(row, state, outs) ==
    [row EXCEPT !.state = state, !.outs = outs, !.token = None, !.plan = None,
                !.retry = None, !.live = FALSE]

Finalized(row, rev, t, outs) ==
    IF Holds(row, t) /\ row.rev = rev THEN Freed(row, "consolidated", outs) ELSE row


Released(row, t, outs) ==
    IF Holds(row, t) THEN Freed(row, "idle", outs) ELSE row

----------------------------------------------------------------------------
(* update_consolidation_state, as its callers use it: by point ID alone.   *)

Planned(row, w, sources) ==
    Stored(row, [row EXCEPT !.state = "consolidating", !.token = w,
                            !.plan = sources])

Listed(row, outs) ==
    Stored(row, [row EXCEPT !.state = "consolidating", !.outs = outs])

\* Both end an explicit retry and the mark of a legacy failure.
Failed(row) ==
    Stored(row, [row EXCEPT !.state = "failed", !.token = None, !.legacy = FALSE,
                            !.retry = None, !.live = FALSE])

Retriable(row) ==
    Stored(row, [row EXCEPT !.state = "idle", !.legacy = FALSE,
                            !.retry = None, !.live = FALSE])

\* What recover_session writes when there is no plan to carry out.
Reset(row) ==
    Stored(row, [row EXCEPT !.state = "idle", !.token = None, !.plan = None,
                            !.legacy = FALSE, !.retry = None, !.live = FALSE])

Legacy(row) ==
    Stored(row, [row EXCEPT !.state = "consolidated", !.legacy = FALSE,
                            !.retry = None, !.live = FALSE])

----------------------------------------------------------------------------
(* The claim of an explicit retry on the session.                          *)

Retrying(row) == row.state \in {"idle", "consolidating"}

ResetForRetry(row, rev, b) ==
    IF /\ row.state = "failed" /\ row.rev = rev
       /\ row.token = None /\ row.plan = None
    THEN [row EXCEPT !.state = "idle", !.rev = rev + 1, !.legacy = FALSE,
                     !.retry = b, !.live = TRUE]
    ELSE row

MayRenew(row, b) == row.retry = b /\ row.live /\ Retrying(row)

Transferred(row, from, b) ==
    IF row.retry = from /\ ~row.live /\ Retrying(row)
    THEN [row EXCEPT !.retry = b, !.live = TRUE] ELSE row

=============================================================================
