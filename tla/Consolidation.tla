----------------------------- MODULE Consolidation -----------------------------
(***************************************************************************)
(* The consolidation of one session: remember calls that link raw memories *)
(* to it, the maintenance sweep and the consolidate endpoint that derive   *)
(* consolidated memories from them, the explicit retry of a failed session *)
(* with its leases, the deletion of the session, and changes of the raw    *)
(* memories meanwhile.  Processes share only Qdrant: every write is one    *)
(* step, and a read that decides the next write is one step.  No step has  *)
(* to be taken: a process that dies is one that takes no further step.     *)
(***************************************************************************)
EXTENDS SessionStore

CONSTANTS
    Sweep, Manual,  \* runs started by maintenance and by the endpoint
    Deletion,       \* delete_session calls
    Erasing,        \* those that ask to delete the memories too
    Unstable,       \* raw memories a user may revise or retract
    Faults,         \* what storing an output may do instead: raise, answer with
                    \* an error that the run takes for no result, or pass over
                    \* an output without text
    Attempts,       \* the tries of one upsert
    Scenarios       \* the pairs of a row that the model may start from, with
                    \* no run in progress, and the processes that take part

Proc == Turn \cup Worker \cup Deletion

ASSUME ProcessAssumption ==
    /\ Worker = Sweep \cup Manual \cup Batch
    /\ Erasing \subseteq Deletion /\ Unstable \subseteq Memory
    /\ Faults \subseteq {"raises", "refuses", "blank"} /\ Attempts \in Nat \ {0}
    /\ Scenarios \subseteq Row \X SUBSET Proc
    /\ \A s \in Scenarios : s[1].token = None /\ s[1].plan = None

VARIABLES
    row,     \* the session row
    links,   \* the session_append events
    memory,  \* the raw memories
    output,  \* derived_from of the consolidated memories, by the token of the run
    journal, \* the operation rows of the runs
    retry,   \* the operation row of the retry batch
    pc, loc, reply,
    considered, \* history: the memories given to the run that finished last
    refused,    \* history: the runs an output of which was answered with an
                \* error, or passed over for its empty text
    struck      \* history: the runs whose claim another process took from the
                \* row by a write that is by point ID alone

history == <<considered, refused, struck>>
vars == <<row, links, memory, output, journal, retry, pc, loc, reply, history>>
stores == <<row, links, memory, output, journal, retry, history>>

----------------------------------------------------------------------------
(* by is revision_operation_id: the run a memory became the source of.     *)
Raw == [state: {"none", "active", "changed", "source"}, by: Worker \cup {None}]

\* The checkpoint of the one session of the batch, and the lease on the batch.
RetryRow == [status: {"none", "planned", "applying", "failed", "committed"},
             owner: Batch \cup {None}, live: BOOLEAN,
             expected: Nat, inputs: SUBSET Memory]
NoRetry == [status |-> "none", owner |-> None, live |-> FALSE,
            expected |-> 0, inputs |-> {}]

\* snap: the row as the process read it, memory links merged into mems.
\* tok: the run carried out, which a recovery takes from the row.
\* sources, left: the sources of its plan, and those still to mark;
\* kept: the outputs of the plan that were stored.
\* armed: the mutation guard has passed; late: the deadline of the batch has.
Local == [snap: Row, tok: Worker \cup {None}, sources: SUBSET Memory,
          left: SUBSET Memory, kept: SUBSET Worker, tries: Nat, new: SUBSET Turn,
          armed: BOOLEAN, late: BOOLEAN, copy: RetryRow]
NoLocal == [snap |-> NoRow, tok |-> None, sources |-> {}, left |-> {},
            kept |-> {}, tries |-> 0, new |-> {}, armed |-> FALSE, late |-> FALSE,
            copy |-> NoRetry]

\* The phases of a run in which a mutation guard precedes the write.
Guarded == {"claim", "open", "plan", "plan_journal", "store", "list", "mark",
            "note", "finalize", "commit", "fail",
            "recover_reset", "recover_legacy"}
Phase == Guarded \cup
    {"idle", "append", "read", "create", "set", "confirm", "clear",
     "reset", "check", "think", "final_read", "release", "release_read",
     "failing", "retract", "delete", "unlink",
     "retry_copy", "retry_write", "retry_claim", "retry_look", "retry_transfer",
     "retry_renew", "retry_reset", "recover", "recover_open", "recovered",
     "retry_end", "retry_fail",
     "done"}

TypeOK ==
    /\ row \in Row /\ links \subseteq Memory
    /\ memory \in [Memory -> Raw]
    /\ output \in [Worker -> SUBSET Memory]
    /\ journal \in [Worker -> {"none", "opened", "planned", "recovering",
                               "marked", "committed"}]
    /\ retry \in RetryRow
    /\ pc \in [Proc -> Phase]
    /\ loc \in [Proc -> Local]
    /\ reply \in [Proc -> {"none", "ok", "refused", "skipped", "failed",
                           "idle", "consolidating", "consolidated", "timeout"}]
    /\ considered \subseteq Memory /\ refused \subseteq Worker /\ struck \subseteq Worker

Init ==
    /\ \E s \in Scenarios :
         /\ row = s[1]
         /\ pc = [p \in Proc |-> IF p \in s[2] THEN "idle" ELSE "done"]
    /\ considered = {} /\ refused = {} /\ struck = {}
    /\ links = row.mems
    /\ memory = [m \in Memory |->
                   [state |-> IF m \in Old THEN "active" ELSE "none", by |-> None]]
    /\ output = [w \in Worker |-> {}]
    /\ journal = [w \in Worker |-> "none"] /\ retry = NoRetry
    /\ loc = [p \in Proc |-> NoLocal]
    /\ reply = [p \in Proc |-> "none"]

----------------------------------------------------------------------------
\* SessionSummaryStore.get: the row with the append events merged in.
Session == IF row.state = "absent" THEN row
           ELSE [row EXCEPT !.mems = row.mems \cup links]

Goto(p, where, l) ==
    /\ pc' = [pc EXCEPT ![p] = where]
    /\ loc' = [loc EXCEPT ![p] = l]
    /\ UNCHANGED reply

\* The end of a process.
Done(p, answer) ==
    /\ pc' = [pc EXCEPT ![p] = "done"]
    /\ loc' = [loc EXCEPT ![p] = NoLocal]
    /\ reply' = [reply EXCEPT ![p] = answer]

Snapshot(l) == [l EXCEPT !.snap = Session]

\* The token that a write of the run `own` (None: of no run) takes from the row.
Struck(own) == struck' = struck \cup ({row.token} \ {row'.token, own, None})

----------------------------------------------------------------------------
(* remember: a raw memory is stored, then linked to the session by upsert. *)

\* The turn stores a memory, or finds that it knows everything already.
StoreRaw(t) ==
    /\ pc[t] = "idle"
    /\ \/ /\ memory' = [memory EXCEPT ![t].state = "active"]
          /\ Goto(t, "append", [NoLocal EXCEPT !.new = {t}])
       \/ /\ Goto(t, "read", NoLocal)
          /\ UNCHANGED memory
    /\ UNCHANGED <<row, links, output, journal, retry, history>>

Append(t) ==
    /\ pc[t] = "append"
    /\ links' = links \cup loc[t].new
    /\ Goto(t, "read", loc[t])
    /\ UNCHANGED <<row, memory, output, journal, retry, history>>

ReadSession(t) ==
    /\ pc[t] = "read"
    /\ Goto(t, IF row.state = "absent" THEN "create" ELSE "set",
            Snapshot(loc[t]))
    /\ UNCHANGED stores

CreateSession(t) ==
    /\ pc[t] = "create"
    /\ row' = Created(loc[t].new)
    /\ Struck(None)
    /\ Done(t, "ok")
    /\ UNCHANGED <<links, memory, output, journal, retry, considered, refused>>

SetSession(t) ==
    /\ pc[t] = "set"
    /\ row' = Turned(row, loc[t].snap, t, loc[t].new)
    /\ Goto(t, "confirm", loc[t])
    /\ UNCHANGED <<links, memory, output, journal, retry, history>>

\* A turn that never gets its update in gives up; remember answers all the same.
Confirm(t) ==
    LET tries == loc[t].tries + 1 IN
    /\ pc[t] = "confirm"
    /\ CASE row.upd = t -> Goto(t, "clear", loc[t])
         [] row.upd # t /\ tries < Attempts ->
              Goto(t, "append", [loc[t] EXCEPT !.tries = tries])
         [] OTHER -> Done(t, "failed")
    /\ UNCHANGED stores

ClearSession(t) ==
    /\ pc[t] = "clear"
    /\ row' = Cleared(row, loc[t].snap, loc[t].new)
    /\ Struck(None)
    /\ Done(t, "ok")
    /\ UNCHANGED <<links, memory, output, journal, retry, considered, refused>>

----------------------------------------------------------------------------
(* The start of a run.                                                     *)

\* maintenance_page: the sessions that nobody works on.  Every session is idle for
\* long enough.
Due == row.state = "idle" /\ row.token = None /\ row.retry = None

\* Maintenance hydrates a due row and drops it unless it is free and fed.
BeginSweep(w) ==
    /\ pc[w] = "idle" /\ w \in Sweep
    /\ Due /\ Session.mems # {}
    /\ Goto(w, "claim", Snapshot([NoLocal EXCEPT !.tok = w]))
    /\ UNCHANGED stores

\* The endpoint hands its own reading of the row to the run it starts.
BeginManual(w) ==
    /\ pc[w] = "idle" /\ w \in Manual
    /\ IF row.state \in {"absent", "consolidating"} \/ row.retry # None
       THEN Done(w, "refused")
       ELSE Goto(w, IF row.state = "failed" THEN "reset" ELSE "claim",
                 Snapshot([NoLocal EXCEPT !.tok = w]))
    /\ UNCHANGED stores

ResetFailed(w) ==
    /\ pc[w] = "reset"
    /\ row' = Retriable(row)
    /\ Goto(w, "claim", loc[w])
    /\ UNCHANGED <<links, memory, output, journal, retry, history>>

----------------------------------------------------------------------------
(* The mutation guard of a retry: both leases are renewed before a write.  *)

Owns(w) ==
    /\ ~loc[w].late
    /\ retry.status = "applying" /\ retry.owner = w /\ retry.live
    /\ \/ MayRenew(row, w)
       \/ row.state = "consolidated" /\ row.retry = None

Armed(w) == w \in Batch => loc[w].armed
Spent(w, l) == [l EXCEPT !.armed = FALSE]

\* What the end of a run means to the process that made it.
EndRun(w, answer) ==
    IF w \in Batch /\ ~loc[w].late
    THEN /\ pc' = [pc EXCEPT ![w] = "retry_end"]
         /\ loc' = [loc EXCEPT ![w] = NoLocal]
         /\ reply' = [reply EXCEPT ![w] = answer]
    ELSE Done(w, IF w \in Batch THEN reply[w] ELSE answer)

\* An exception: consolidate_session looks at the row, a recovery passes it on.
Fail(w) ==
    IF loc[w].tok = w THEN Goto(w, "failing", Spent(w, loc[w]))
    ELSE IF loc[w].late THEN Done(w, reply[w])
    ELSE Goto(w, "retry_fail", NoLocal)

Guard(w) ==
    /\ w \in Batch /\ pc[w] \in Guarded /\ ~loc[w].armed
    /\ IF Owns(w)
       THEN Goto(w, pc[w], [loc[w] EXCEPT !.armed = TRUE])
       ELSE IF pc[w] = "fail" THEN EndRun(w, "failed") ELSE Fail(w)
    /\ UNCHANGED stores

----------------------------------------------------------------------------
(* consolidate_session.                                                    *)

Claim(w) ==
    /\ pc[w] = "claim" /\ Armed(w)
    /\ row' = Claimed(row, loc[w].snap.rev, w)
    /\ Goto(w, "check", Spent(w, loc[w]))
    /\ UNCHANGED <<links, memory, output, journal, retry, history>>

\* Mutant: the run goes on whoever holds the claim.
TrustClaim(w) ==
    /\ pc[w] = "check"
    /\ Goto(w, "think", loc[w])
    /\ UNCHANGED stores

CheckClaim(w) ==
    /\ pc[w] = "check"
    /\ IF row.token = w THEN Goto(w, "think", loc[w]) ELSE EndRun(w, "failed")
    /\ UNCHANGED stores

Fetched(w) == {m \in loc[w].snap.mems : memory[m].state = "active"}

\* The model derives facts from some of the memories, or for a role that has none
\* from the summary alone; it finds no fact; or it fails.
Think(w) ==
    /\ pc[w] = "think"
    /\ \/ \E used \in SUBSET Fetched(w) :
             Goto(w, "open", [loc[w] EXCEPT !.sources = used, !.left = used])
       \/ Goto(w, "finalize", loc[w])
       \/ Fetched(w) # {} /\ Fail(w)
    /\ UNCHANGED stores

OpenJournal(w) ==
    /\ pc[w] = "open" /\ Armed(w)
    /\ journal' = [journal EXCEPT ![w] = "opened"]
    /\ Goto(w, "plan", Spent(w, loc[w]))
    /\ UNCHANGED <<row, links, memory, output, retry, history>>

WritePlan(w) ==
    /\ pc[w] = "plan" /\ Armed(w)
    /\ row' = Planned(row, w, loc[w].sources)
    /\ Struck(w)
    /\ Goto(w, "plan_journal", Spent(w, loc[w]))
    /\ UNCHANGED <<links, memory, output, journal, retry, considered, refused>>

JournalPlan(w) ==
    /\ pc[w] = "plan_journal" /\ Armed(w)
    /\ journal' = [journal EXCEPT ![w] = "planned"]
    /\ Goto(w, "store", Spent(w, loc[w]))
    /\ UNCHANGED <<row, links, memory, output, retry, history>>

\* add_memory has answered: an output is listed when the answer has its ID.
Answered(w, kept) ==
    Goto(w, IF loc[w].tok = w THEN "list" ELSE "recover_open",
         Spent(w, [loc[w] EXCEPT !.kept = kept]))

\* Mutant: the outputs are not stored before their sources are marked.
StoreNothing(w) ==
    /\ pc[w] = "store" /\ Armed(w)
    /\ Answered(w, {loc[w].tok})
    /\ UNCHANGED stores

\* The IDs of the outputs derive from the token, so a recovery repeats them.  An
\* output without text is passed over before the guard, and its sources are marked.
StoreOutput(w) ==
    /\ pc[w] = "store"
    /\ \/ /\ Armed(w)
          /\ output' = [output EXCEPT ![loc[w].tok] = loc[w].sources]
          /\ Answered(w, {loc[w].tok})
          /\ UNCHANGED refused
       \/ /\ Armed(w) /\ "raises" \in Faults
          /\ Fail(w) /\ UNCHANGED <<output, refused>>
       \/ /\ ("refuses" \in Faults /\ Armed(w)) \/ "blank" \in Faults
          /\ refused' = refused \cup {loc[w].tok}
          /\ Answered(w, {}) /\ UNCHANGED output
    /\ UNCHANGED <<row, links, memory, journal, retry, considered, struck>>

Outputs(w) == loc[w].snap.outs \cup loc[w].kept

ListOutput(w) ==
    /\ pc[w] = "list" /\ Armed(w)
    /\ row' = Listed(row, Outputs(w))
    /\ Goto(w, "mark", Spent(w, loc[w]))
    /\ UNCHANGED <<links, memory, output, journal, retry, history>>

\* mark_source, one memory after the other: a conditional write and its
\* readback, which accepts the mark this run made earlier.
MarkSource(w) ==
    /\ pc[w] = "mark" /\ Armed(w)
    /\ IF loc[w].left = {}
       THEN Goto(w, IF loc[w].tok = w THEN "note" ELSE "finalize", loc[w])
            /\ UNCHANGED memory
       ELSE \E m \in loc[w].left :
              LET own == memory[m] = [state |-> "source", by |-> loc[w].tok] IN
              IF memory[m].state = "active" \/ own
              THEN /\ memory' = [memory EXCEPT ![m] =
                                   [state |-> "source", by |-> loc[w].tok]]
                   /\ Goto(w, "mark",
                           Spent(w, [loc[w] EXCEPT !.left = @ \ {m}]))
              ELSE Fail(w) /\ UNCHANGED memory
    /\ UNCHANGED <<row, links, output, journal, retry, history>>

NoteMarked(w) ==
    /\ pc[w] = "note" /\ Armed(w)
    /\ journal' = [journal EXCEPT ![w] = "marked"]
    /\ Goto(w, "finalize", Spent(w, loc[w]))
    /\ UNCHANGED <<row, links, memory, output, retry, history>>

Finalize(w) ==
    /\ pc[w] = "finalize" /\ Armed(w)
    /\ row' = Finalized(row, loc[w].snap.rev, loc[w].tok, Outputs(w))
    /\ considered' = IF row' = row THEN considered ELSE loc[w].snap.mems
    /\ Goto(w, "final_read", Spent(w, loc[w]))
    /\ UNCHANGED <<links, memory, output, journal, retry, refused, struck>>

\* A run without facts has opened no journal; a recovery ignores the final state.
Settled(w, state) ==
    IF journal[loc[w].tok] = "none" THEN EndRun(w, state)
    ELSE /\ pc' = [pc EXCEPT ![w] = "commit"]
         /\ reply' = [reply EXCEPT ![w] = IF w \in Batch /\ loc[w].late
                                          THEN @ ELSE state]
         /\ UNCHANGED loc

FinalRead(w) ==
    /\ pc[w] = "final_read"
    /\ IF /\ row.state = "consolidated" /\ row.rev = loc[w].snap.rev
          /\ row.token = None
       THEN Settled(w, "consolidated")
       ELSE Goto(w, "release", loc[w])
    /\ UNCHANGED stores

Release(w) ==
    /\ pc[w] = "release"
    /\ row' = Released(row, loc[w].tok, Outputs(w))
    /\ Goto(w, "release_read", loc[w])
    /\ UNCHANGED <<links, memory, output, journal, retry, history>>

ReleaseRead(w) ==
    /\ pc[w] = "release_read"
    /\ IF row.state = "idle" THEN Settled(w, "idle") ELSE Fail(w)
    /\ UNCHANGED stores

CommitJournal(w) ==
    /\ pc[w] = "commit" /\ Armed(w)
    /\ journal' = [journal EXCEPT ![loc[w].tok] = "committed"]
    /\ IF loc[w].tok = w THEN EndRun(w, reply[w])
       ELSE Goto(w, "recovered", Spent(w, loc[w]))
    /\ UNCHANGED <<row, links, memory, output, retry, history>>

\* The exception handler: a row with a plan is left to a recovery.
Failing(w) ==
    /\ pc[w] = "failing"
    /\ IF row.plan # None THEN EndRun(w, "consolidating")
       ELSE Goto(w, "fail", loc[w])
    /\ UNCHANGED stores

MarkFailed(w) ==
    /\ pc[w] = "fail" /\ Armed(w)
    /\ row' = Failed(row)
    /\ Struck(w)
    /\ EndRun(w, "failed")
    /\ UNCHANGED <<links, memory, output, journal, retry, considered, refused>>

----------------------------------------------------------------------------
(* The retry endpoint, for the one session of its batch.                   *)

\* assess_retry_inputs: every linked memory is still raw and active.
SoundInputs(mems) == mems # {} /\ \A m \in mems : memory[m].state = "active"

Eligible(r) ==
    /\ r.state = "failed" /\ r.legacy /\ r.token = None /\ r.plan = None
    /\ SoundInputs(r.mems)

BeginRetry(b) ==
    LET live == row.retry # None /\ Retrying(row) /\ row.live IN
    /\ pc[b] = "idle" /\ b \in Batch /\ row.state # "absent"
    /\ CASE retry.status = "committed" -> Done(b, "ok")
         [] retry.status = "applying" /\ live -> Done(b, "refused")
         [] retry.status = "none" /\ ~Eligible(Session) -> Done(b, "refused")
         [] retry.status = "none" /\ Eligible(Session) ->
              Goto(b, "retry_copy", Snapshot([NoLocal EXCEPT !.tok = b]))
         [] OTHER -> Goto(b, "retry_claim", [NoLocal EXCEPT !.tok = b])
    /\ UNCHANGED stores

\* OperationStore.write reads the row and upserts it merged with its fields:
\* the claim another request made in between is lost.
CopyRetry(b) ==
    /\ pc[b] = "retry_copy"
    /\ Goto(b, "retry_write", [loc[b] EXCEPT !.copy = retry])
    /\ UNCHANGED stores

WriteRetry(b) ==
    /\ pc[b] = "retry_write"
    /\ retry' = [loc[b].copy EXCEPT !.status = "planned",
                    !.expected = loc[b].snap.rev, !.inputs = loc[b].snap.mems]
    /\ Goto(b, "retry_claim", loc[b])
    /\ UNCHANGED <<row, links, memory, output, journal, history>>

Lapsed == retry.owner = None \/ ~retry.live

\* The claim, its readback and the first write under it.
ClaimRetry(b) ==
    /\ pc[b] = "retry_claim"
    /\ IF retry.status \in {"planned", "failed", "applying"} /\ Lapsed
       THEN /\ retry' = [retry EXCEPT !.status = "applying", !.owner = b,
                                      !.live = TRUE]
            /\ Goto(b, "retry_look", loc[b])
       ELSE Done(b, "refused") /\ UNCHANGED retry
    /\ UNCHANGED <<row, links, memory, output, journal, history>>

\* Where the batch goes on with a session it owns, or could own, or not at all.
Resume(b, l) ==
    LET own == l.snap.retry = b /\ Retrying(l.snap) IN
    CASE own /\ l.snap.state = "consolidating" -> Goto(b, "recover", l)
      [] own /\ l.snap.state = "idle" -> Goto(b, "claim", l)
      [] ~own /\ l.snap.rev = retry.expected /\ Eligible(l.snap) ->
           Goto(b, "retry_renew", l)
      [] OTHER -> EndRun(b, "skipped")

Look(b) ==
    LET l == Snapshot(loc[b])
        newer == l.snap.rev > retry.expected
    IN  /\ pc[b] = "retry_look"
        /\ CASE l.snap.state = "consolidated" /\ newer -> EndRun(b, "consolidated")
             [] l.snap.state = "failed" /\ newer -> EndRun(b, "failed")
             [] ~(l.snap.state \in {"consolidated", "failed"} /\ newer) ->
                  IF l.snap.mems # retry.inputs \/ ~SoundInputs(l.snap.mems)
                  THEN EndRun(b, "skipped")
                  ELSE IF l.snap.retry \notin {None, b} /\ Retrying(l.snap)
                       THEN Goto(b, "retry_transfer", l)
                       ELSE Resume(b, l)
        /\ UNCHANGED stores

\* The conditional write and the readback that returns the session.
Transfer(b) ==
    /\ pc[b] = "retry_transfer"
    /\ row' = Transferred(row, loc[b].snap.retry, b)
    /\ IF row'.retry = b
       THEN Resume(b, [loc[b] EXCEPT !.snap = [row' EXCEPT !.mems = @ \cup links]])
       ELSE Goto(b, "retry_fail", NoLocal)
    /\ UNCHANGED <<links, memory, output, journal, retry, history>>

MayWriteRetry(b) == retry.status = "applying" /\ retry.owner = b /\ retry.live

RenewRetry(b) ==
    /\ pc[b] = "retry_renew"
    /\ IF MayWriteRetry(b) THEN Goto(b, "retry_reset", loc[b])
       ELSE Goto(b, "retry_fail", NoLocal)
    /\ UNCHANGED stores

ResetSession(b) ==
    /\ pc[b] = "retry_reset"
    /\ row' = ResetForRetry(row, retry.expected, b)
    /\ IF row'.retry = b /\ row'.state = "idle"
       THEN Goto(b, "claim",
                 [loc[b] EXCEPT !.snap = [row' EXCEPT !.mems = @ \cup links]])
       ELSE EndRun(b, "skipped")
    /\ UNCHANGED <<links, memory, output, journal, retry, history>>

\* recover_session, on the row the batch read.
Recover(b) ==
    LET s == loc[b].snap IN
    /\ pc[b] = "recover"
    /\ CASE s.plan # None /\ s.token # None ->
              Goto(b, "store", [loc[b] EXCEPT !.tok = s.token, !.sources = s.plan,
                                              !.left = s.plan])
         [] ~(s.plan # None /\ s.token # None) /\ s.outs # {} ->
              Goto(b, "recover_legacy", [loc[b] EXCEPT !.tok = None])
         [] OTHER -> Goto(b, "recover_reset", [loc[b] EXCEPT !.tok = None])
    /\ UNCHANGED stores

RecoverOpen(b) ==
    LET t == loc[b].tok IN
    /\ pc[b] = "recover_open"
    /\ journal' = [journal EXCEPT ![t] = IF @ = "none" THEN "recovering" ELSE @]
    /\ Goto(b, "mark", loc[b])
    /\ UNCHANGED <<row, links, memory, output, retry, history>>

\* Without a plan a recovery settles for what the row says.
RecoverUnplanned(b) ==
    /\ pc[b] \in {"recover_legacy", "recover_reset"} /\ Armed(b)
    /\ row' = IF pc[b] = "recover_legacy" THEN Legacy(row) ELSE Reset(row)
    /\ Struck(None)
    /\ Goto(b, "recovered", Spent(b, loc[b]))
    /\ UNCHANGED <<links, memory, output, journal, retry, considered, refused>>

\* The worker thread outlives a handler that ran into its deadline.
Recovered(b) ==
    LET l == [Snapshot(loc[b]) EXCEPT !.tok = b] IN
    /\ pc[b] = "recovered"
    /\ IF loc[b].late THEN Done(b, reply[b])
       ELSE IF l.snap.state = "consolidated" THEN EndRun(b, "consolidated")
       ELSE IF l.snap.state = "consolidating" THEN EndRun(b, "skipped")
       ELSE Resume(b, [l EXCEPT !.sources = {}, !.left = {}])
    /\ UNCHANGED stores

EndRetry(b) ==
    /\ pc[b] = "retry_end"
    /\ IF MayWriteRetry(b)
       THEN /\ retry' = [retry EXCEPT !.status =
                            IF reply[b] = "consolidated" THEN "committed"
                            ELSE "failed"]
            /\ Done(b, reply[b])
       ELSE Goto(b, "retry_fail", loc[b]) /\ UNCHANGED retry
    /\ UNCHANGED <<row, links, memory, output, journal, history>>

\* The exception handler of the batch: write_claimed, or terminalize_unclaimed.
RetryFailed(b) ==
    IF \/ MayWriteRetry(b)
       \/ retry.status \in {"planned", "failed", "applying"} /\ Lapsed
    THEN [retry EXCEPT !.status = "failed"] ELSE retry

FailRetry(b) ==
    /\ pc[b] = "retry_fail"
    /\ retry' = RetryFailed(b)
    /\ Done(b, "failed")
    /\ UNCHANGED <<row, links, memory, output, journal, history>>

Awaited == (Guarded \cup {"check", "think", "final_read", "release",
                          "release_read", "failing", "recover", "recover_open"})

\* asyncio.wait_for gives up: the batch fails, its thread goes on.
Timeout(b) ==
    /\ b \in Batch /\ pc[b] \in Awaited /\ ~loc[b].late
    /\ loc' = [loc EXCEPT ![b].late = TRUE]
    /\ reply' = [reply EXCEPT ![b] = "timeout"]
    /\ retry' = RetryFailed(b)
    /\ UNCHANGED <<row, links, memory, output, journal, pc, history>>

ExpireRetry ==
    /\ retry.live
    /\ retry' = [retry EXCEPT !.live = FALSE]
    /\ UNCHANGED <<row, links, memory, output, journal, pc, loc, reply, history>>

ExpireSession ==
    /\ row.live
    /\ row' = [row EXCEPT !.live = FALSE]
    /\ UNCHANGED <<links, memory, output, journal, retry, pc, loc, reply, history>>

----------------------------------------------------------------------------
(* delete_session: checks on one reading of the row, then deletions.       *)

BeginDelete(d) ==
    /\ pc[d] = "idle" /\ d \in Deletion
    /\ IF row.state \in {"absent", "consolidating"} \/ row.retry # None
       THEN Done(d, "refused")
       ELSE Goto(d, IF d \in Erasing THEN "retract" ELSE "delete",
                 [Snapshot(NoLocal) EXCEPT !.left = Session.mems])
    /\ UNCHANGED stores

\* A memory that cannot be retracted keeps the session.
RetractMemory(d) ==
    /\ pc[d] = "retract"
    /\ IF loc[d].left = {}
       THEN UNCHANGED memory /\ (Goto(d, "delete", loc[d]) \/ Done(d, "failed"))
       ELSE \E m \in loc[d].left :
              /\ memory' = IF memory[m].state = "active"
                           THEN [memory EXCEPT ![m].state = "changed"]
                           ELSE memory
              /\ Goto(d, "retract", [loc[d] EXCEPT !.left = @ \ {m}])
    /\ UNCHANGED <<row, links, output, journal, retry, history>>

DeleteRow(d) ==
    /\ pc[d] = "delete"
    /\ row' = NoRow
    /\ Struck(None)
    /\ IF row.state = "absent" THEN Done(d, "ok") ELSE Goto(d, "unlink", loc[d])
    /\ UNCHANGED <<links, memory, output, journal, retry, considered, refused>>

DeleteLinks(d) ==
    /\ pc[d] = "unlink"
    /\ links' = {}
    /\ Done(d, "ok")
    /\ UNCHANGED <<row, memory, output, journal, retry, history>>

----------------------------------------------------------------------------
\* A user revises or retracts a raw memory; sources are history by then.
ChangeMemory(m) ==
    /\ m \in Unstable /\ memory[m].state = "active"
    /\ memory' = [memory EXCEPT ![m].state = "changed"]
    /\ UNCHANGED <<row, links, output, journal, retry, pc, loc, reply, history>>

TurnStep(t) ==
    \/ StoreRaw(t) \/ Append(t) \/ ReadSession(t) \/ CreateSession(t)
    \/ SetSession(t) \/ Confirm(t) \/ ClearSession(t)

RunStep(w) ==
    \/ Guard(w) \/ Claim(w) \/ CheckClaim(w) \/ Think(w) \/ OpenJournal(w)
    \/ WritePlan(w) \/ JournalPlan(w) \/ StoreOutput(w) \/ ListOutput(w)
    \/ MarkSource(w) \/ NoteMarked(w) \/ Finalize(w) \/ FinalRead(w)
    \/ Release(w) \/ ReleaseRead(w) \/ CommitJournal(w)
    \/ Failing(w) \/ MarkFailed(w)

RetryStep(b) ==
    \/ CopyRetry(b) \/ WriteRetry(b) \/ ClaimRetry(b) \/ Look(b) \/ Transfer(b)
    \/ RenewRetry(b) \/ ResetSession(b) \/ Recover(b) \/ RecoverOpen(b)
    \/ RecoverUnplanned(b) \/ Recovered(b) \/ EndRetry(b) \/ FailRetry(b)

DeleteStep(d) ==
    BeginDelete(d) \/ RetractMemory(d) \/ DeleteRow(d) \/ DeleteLinks(d)

Next ==
    \/ \E t \in Turn : TurnStep(t)
    \/ \E w \in Worker : BeginSweep(w) \/ BeginManual(w) \/ ResetFailed(w)
                          \/ RunStep(w)
    \/ \E b \in Batch : BeginRetry(b) \/ RetryStep(b) \/ Timeout(b)
    \/ \E d \in Deletion : DeleteStep(d)
    \/ \E m \in Memory : ChangeMemory(m)
    \/ ExpireRetry \/ ExpireSession

Spec == Init /\ [][Next]_vars

----------------------------------------------------------------------------
(* Properties.                                                             *)

Undeleted ==
    \A d \in Deletion : pc[d] \in {"idle", "retract", "done"} /\ reply[d] # "ok"

\* A raw memory becomes a source, and so invisible to searches, only after the
\* consolidated memory derived from it is stored: no knowledge is lost in
\* between, whoever dies, fails or takes over.  (A run goes on
\* without an output that add_memory refused by an answer with an error, and
\* without one that has no text.)
SourceHasOutput ==
    \A m \in Memory : memory[m].state = "source" =>
        m \in output[memory[m].by] \/ memory[m].by \in refused

\* One raw memory is consolidated once, although sweeps, callers and retries
\* compete for it: no two stored outputs derive from it, unless one of the runs
\* lost its claim to a write by point ID (the clean-up of a turn, the mark of a
\* failure, the plan of a run whose lease is over, a deletion).
DerivedOnce ==
    \A t, u \in Worker \ struck : output[t] \cap output[u] # {} => t = u

\* A session is never left consolidated with a memory that a finished turn
\* linked to it and no run was given: new memories make it due again.
NoTurnForgotten ==
    \A t \in Turn :
        /\ row.state = "consolidated" /\ reply[t] = "ok" /\ Undeleted
        /\ t \in Session.mems /\ memory[t].state = "active"
        => t \in considered
=============================================================================
