# Formal models of mnemory

mnemory is a memory server: clients store, recall, update and delete short
texts about a user over REST and MCP.  Everything durable lives in Qdrant: the
memories, the operation journal and the session summaries are collections of
points with a payload.  Qdrant offers single-point conditional writes
(`set_payload` with a filter) and no transactions, and several server processes
may work on one store.  What makes the code hard is therefore how it builds
multi-step operations from single conditional writes, and what a crash, a retry
or a second worker does between two of them.  These models are about that.

## 1. Inventory

| component (source) | state | operations | what is hard | what makes it correct |
|---|---|---|---|---|
| Revision lifecycle (`revisions.py`, `RevisionService`) | points of the memories collection: `revision_state`, `revision`, `supersedes`, `transition_*`, `revision_operation_*`, artifacts, evidence roots | `revise`, `retract`, `mark_source`, `current`, `confirm`, `set_artifacts`, `remove_artifact_from_lineage`, `prepare/finalize_privacy_erase`, recovery of each | races on a head, crash between any two writes, stale reads used for unconditional writes, retries | one linear history, one head, every acknowledged change is in it, interrupted changes are completed once |
| Operation journal (`RevisionOperationStore`) | `_mnemory_operations` rows by token | `write`, `get`, `claim`, `renew_claim`, `write_claimed`, `terminalize_unclaimed` | leases by wall clock, read-modify-write of rows, no fencing across collections | a row has one owner at a time, an outcome once recorded stays |
| Evidence journal (`revisions.py`, `api/evidence.py`, `apply_evidence_plan`) | plan rows with `claim_epoch`, `claim_nonce`, checkpoints; child rows; fences and claims on memories | seal, reject, claim, checkpoint, commit, child claim, takeover, fence repair, completion | takeover while the old worker still writes three rows | what is answered is counted, a rejection has no effects, a later delivery finishes and frees the memory |
| Trusted user events (`trusted_events.py`, `memory.py`, `api/user_events.py`) | scope lease; event rows; content claims with leases | process, plan, apply; prepare, claim, wait, insert, complete | duplicate deliveries, lease renewal against work, paraphrases | one fact is stored once, one plan is open at a time, sealed plans are carried out, an accepted event is stored |
| Fsck apply (`fsck.py`, `maintenance_state.py`) | in-memory check, journal rows with action checkpoints | `apply_check`, `re_evaluate_operation`, diagnosis | two appliers of one issue, dead appliers, half applied plans | its row tells what was done; an outcome once recorded stays |
| Consolidation and session retry (`consolidation.py`, `api/sessions.py`, `SessionSummaryStore`) | session rows with claim, generation and retry claim; append events; run journals; the retry batch | turns, sweep, endpoint, derive, finalize, recover, retry claim, transfer, delete | five kinds of writers of one row, leases, crash between deriving and finalizing | a raw memory is derived from once, none is hidden before its output exists, no turn is forgotten |
| Maintenance loops (`maintenance.py`) | cursors, per-loop budgets | scan, consolidate, check | starvation under a bound per pass | every candidate is visited |
| Memory service (`memory.py`) | per-user and per-memory locks, caches | `remember`, `add_memory`, `update_memory`, `delete_memory`, `search`, `find`, core memories | an LLM call between read and write, lock table eviction, failing steps | no duplicate facts, explicit edits survive, every call ends |
| Session store (`session.py`, `storage/session.py`) | write-through cache per process over a backend | create, get, touch, known IDs, summary, sweep | several replicas, restart | a live session is kept by those who have it, a turn stays in its summary, what was told is not recalled |
| TTL cache (`cache.py`), TTL (`ttl.py`) | ordered map with time stamps; expiry fields | get, set, invalidate; expire, reinforce | a fill racing an invalidation, other processes | a stale entry ends with its lifetime |
| Schema migration (`migration.py`) | the meta document; collections | `run_migrations`, seven migrations | several instances, stop between a page and its checkpoint, recreation of a collection | nothing is lost, what is recorded as applied is done, the server comes up |
| Artifact store (`storage/artifact.py`) | contents | save, delete | content, journal row and payload are three stores | what is listed can be fetched |
| Auth, LLM, configuration, metrics, UI, benchmarks | none that is shared | see `PROJECT.json` | | |

The service methods of `memory.py`, `fsck.py`, `consolidation.py` and the REST
and MCP handlers all change memories through `RevisionService`; `RevisionService`
writes the plan of an operation to the journal, changes the points, and commits
the journal row.  Recovery is not a background job: whichever call next finds a
claim on a revision completes it.  A conversation touches all of it: a turn is
remembered under the user's lock, linked to the session row, consolidated later
by a sweep, and recalled through a session and a cache of another process.

## 2. Modules

| module | contents | extends |
|---|---|---|
| `VersionedMemory` | abstract: what the revision service promises of one memory | |
| `RevisionLineage` | one lineage: points, journal rows, any number of concurrent `revise`, `retract`, `mark_source` and `current` calls, recovery, replay, crashes | instance of `VersionedMemory` |
| `RevisionAnnotations` | artifacts and evidence roots of a memory: saving, deleting, confirming under claims | `RevisionLineage` |
| `RevisionLineageProofs` | type correctness; linear history, single head, immutable history and the refinement; what recovery finds and what calls are answered | `RevisionLineage` |
| `RevisionAnnotationsProofs` | claims are released, acknowledged confirmations stay counted | `RevisionAnnotations` |
| `OperationLease` | the lease on a journal row | |
| `FsckOperation` | the application of one fsck issue | `OperationLease` |
| `FsckOperationProofs` | its row tells the truth, is written before the deed, and what it committed or superseded stays | `FsckOperation` |
| `EvidencePlan` | one sealed confirmation and its deliveries: plan, child and memory, with takeover | |
| `EvidencePlanProofs` | a rejection has no effects, what is answered is counted | `EvidencePlan` |
| `TrustedEvent` | trusted events of one scope: scope lease, sealing, resumption, redelivery | |
| `TrustedEventProofs` | the scope lease is a lock; plans are in order and a fact is stored once while no binding was written over | `TrustedEvent` |
| `SessionStore` | the session row and its conditional writes, as functions on rows | |
| `Consolidation` | runs, sweeps, endpoint, retry batch, deletion and turns of one session | `SessionStore` |
| `ConsolidationProofs` | a source has its output, a memory is derived from once | `Consolidation` |
| `Migration` | the startup migrations of one or several instances | |
| `MigrationProofs` | nothing is lost, what is recorded as applied is done, sources stay sources | `Migration` |
| `SessionCache` | the session store of several processes over one backend | |
| `MemoryStore` | what the queries of the vector store see, and expiry, as operators | |
| `RememberPipeline` | the calls that store: remember, add, update, delete, with locks and sessions | `SessionCache`, `MemoryStore` |
| `UserEvents` | the ingestion of events that are only stored | `RememberPipeline` |
| `RecallPipeline` | the calls that read: recall, core memories with their cache, search; the composition | `UserEvents` |
| `ConversationProofs` | accepted events are stored, edits survive, caches end, a replica keeps the live sessions it has | `RecallPipeline` |
| `MC...` | the instances | |

`RevisionAnnotations` and `RecallPipeline` are compositions: the first runs
annotations on the very actions of `RevisionLineage`, the second lets storing,
ingesting and reading calls of two processes meet on one store of sessions,
memories, locks and caches.  In the modules above `RevisionLineage`, a `revise`,
`retract` or `confirm` is one step; `ImplementsMemory` is what justifies it.

### RevisionLineage

`point[p]` is the payload of a Qdrant point, `journal[t]` the operation row of
token `t`.  `_successor_point_id` is a function of the token, so a successor is
named by the token that creates it and `PointId == Token \cup {Root}`.  A token
is `canonical_fingerprint([key_hash, fingerprint])`; `TokenKey` and
`TokenRequest` give its parts back, and `TokenOf[c][p]` is the token that call
`c` derives when its base revision is `p`: constant in `p` when the caller gives
an idempotency key, depending on `p` when the service makes an implicit one from
the revision it resolved.  A fingerprint stands for everything in it (kind,
lineage, expected revision, changes).  `op` stands for the pair
`revision_operation_key_hash`, `revision_operation_fingerprint`.

`pc[c]` is the next write of a call, or the read that decides it, `loc[c]` what
it remembers of its reads.  The granularity is:

- every write to Qdrant is one step, conditional writes test and set in it;
- reads that follow one another with no write between them are one step; what
  was read is kept in `loc` and used, possibly stale, later;
- `Heads` allows any active revision with the largest number, since `max` over
  the scroll order decides between equals;
- `Crash` may happen before any step of a call in `Crashing`.  It also stands
  for an exception of Qdrant: the call ends and the stores stay as they are;
- `Fenced` is a `mutation_guard` that raises before the claim of a `revise`
  (revisions.py:3638-3655): the successor is marked aborted and the row gets a
  conflict, as after a lost race.  Elsewhere a guard that raises is a `Crash`.  A
  worker whose lease another one took over with the same token aborts that one's
  successor too, by its ID; two calls of one token are what `ExclusiveTokens`
  excludes from the theorems, and `retry_lost` shows what an aborted successor does;
- a journal write is one step (the code reads the row and upserts the merge;
  rows are per token, so this matters only to concurrent calls of one token);
- users, owners and agents are fixed and every call is authorized; payloads
  have lineage fields (no legacy points); text, vectors, reasons and audit
  fields are left out.

`read` is `RevisionService.current`, which recovers claims like the writers do.

### FsckOperation

`row` is the journal row of one issue, `row.boxes` its `action_checkpoints` and
`row.stamp` its `updated_at_utc` (by which `write_claimed` recognises its own
write).  `target[a]` says what became of the memory action `a` names: as the plan
expects it, changed by another writer, changed by this action, or missing;
`sub[a]` is the journal row of the action's own revise or retract, of which
`RevisionLineage` is the detailed model.  The steps are cut as above: one write,
or the reads between two writes.  `write_claimed` and `renew_claim` are two
steps each, the conditional write and the read that tells whether it was made.

- There is no crash action: without fairness a worker that stops is a behaviour
  that takes no more of its steps, and every invariant is checked in it.
- `Fault` is an exception of a store call of a `Faulty` applier; for the side
  effect it may come after the effect, with its own journal row open or
  committed.  The handler's own writes do not fail.
- A repeated side effect is a replay (own idempotency key, deterministic ID, or
  operation ID), a target changed by another writer a conflict.
- A target is missing from the start or never.  Whether a memory to split has
  artifacts does not change.
- `_resolve_action_checkpoints` finds what an update did only through an
  operation it already knows: the old revision names the operation that created
  *it*, so `OperationOf` is "own" only for a delete.
- The in-memory `applied_issue_ids` is left out: it skips what the row skips.
- `OutcomeIsFinal` is about rows that are committed or superseded.  A row "skipped"
  is final in the code and should not be (divergence d), so nothing is claimed of it.
- An operator is given the fresh audit that `re_evaluate_operation` demands.

Two appliers that both find no row both write "planned", and the second write
can take away the lease of the first.  `docs/maintenance-recovery.md` (35-37)
says so and leaves it; `OneCreator` excludes it from the properties that
are false in it, and the steps that lead there stay in the model.

### RevisionAnnotations

A call of `save_artifact`, `delete_artifact` or `confirm` resolves the head as
`current` does.  To `RevisionLineage` it is therefore a "read" call; in the step
that would answer it, the annotation takes the answer and goes on in `at`, `note`.
`blob` is the artifact store, `plan` and `held` what the journal row of an
annotation says and what a recovering call has read of it.

- The claim of an annotation is in the same fields of a point as those of `revise`
  and `retract`; every call of the lineage recovers it (`RecoverNote` and on).
- `Attempts` bounds how often a lost claim is tried again (the code: seven times for
  artifacts, twice for `confirm`).  Before it resolves the head again, `confirm`
  completes the operation whose claim it lost to (`Recovery`).
- `set_artifacts` on a head that is no longer active writes its row before its claim
  fails; the other annotations are refused (`Refused`).
  A call in `Faulty` may fail in any store call, before or after the effect.
- Six writes of the code rest on stale reads and are by ID alone.  `stale` records
  which of them has overwritten something: "copy" (the successor of an update
  copies the payload that was read before its claim), "recovery" (a recovery
  writes the artifact list over a later one), "release" (`_release_claim` deletes
  a claim taken since its read), "history" (the list is struck from a superseded
  revision by ID), "roots" (a confirmation was decided on evidence roots that have
  changed), "repeat" (an annotation was made again after its own earlier attempt).
  Each does lose an update; the properties say that nothing else does.
- Confirmations here have no evidence parent (that is `EvidencePlan`).  Privacy
  erase is left out.

### TrustedEvent

`scope` is the claim row of the scope of one user and owner, `plan[e]` the
journal row of event `e`.  A delivery `w` (one call of `process`) makes a new
`claim_owner`, nonce and epoch for each claim; its identity `<<w, turn>>` stands
for all of them.  `Turn` is the set its identities are drawn from: finite in the
run, any set in the proofs.  The plans an LLM can produce are reduced to two actions: one
about a fact that all events state, an ADD (`fact = e`) or a CONFIRM of the
memory that has it, and one about an older memory, a SKIP or an UPDATE sealed
with the revision it was decided on.  An ADD has the effect once per event, since
the point ID is a function of the operation and the ordinal and the insert is
"if absent"; `revise` and `confirm` replay by their idempotency keys and are one
step here (`RevisionLineage` is the detailed model of `revise`).

- Taking the scope is four steps, as it is five calls in the code: `Poll` reads the
  binding (trusted_events.py:183), `Clock` samples the time (revisions.py:666),
  `Claim` is the insert and the row read after it, `Takeover` the update for the
  epoch of that row (725-736), which writes the binding of `Poll` back.  A delivery
  may stall for any time between them.  A lease that was over at the sampled time and
  is the one of `Claim` must have been the one of that moment, since whoever claims
  later has a later end: `scope.owner = l.seen` is that comparison of times, without
  numbers.  A takeover that writes over the binding to an open plan sets `displaced`.
- The conditional updates of a plan and their readbacks are one step each.  The
  guards of `apply_plan` are steps of their own, before and after each action.
- A `confirm` is two steps: `Confirm` claims the memory, counts and completes its
  child, `Free` releases the claim.  Between the two is the window of finding 3:
  nothing gets past a claim whose child is complete.  A death before the child is
  complete is repeated by the next delivery of the plan, so claim, count and
  completion are one step here (`EvidencePlan` has them apart).
- `Cancel` is a guard that raises inside `revise` (a cancelled request): it aborts the
  successor of the plan's UPDATE, whose key every later attempt has too.
- The renewal thread keeps the lease of a running delivery alive (a renewal every
  3 s, a lease of 15 s), and the claim on a plan (90 s) outlasts the delivery
  (85 s).  So the leases of a delivery do not end while it has them and runs; before it has
  one it may stall for as long as it likes, and `EvidencePlan` is where a delivery
  runs for longer than its leases.
- The waiting loop has no limit of 5 s here: a client that was told "busy" comes
  again, which is the same.  A delivery that failed or died is repeated by its
  client with the same event (docs/rest-api.md, "resume the same authenticated
  root").
- `legacy_result` (rows of an older pipeline) is left out.
- Four things keep a sealed plan from being carried out, and `SealedPlanRecovers` names
  them.  `Overtaken`: an UPDATE names a revision, and an ordinary writer that revises
  the memory makes every later attempt a conflict; the scope stays bound to the plan,
  so that no event of that user and owner gets through.  `Stuck`: the memory that a
  CONFIRM is about bears the claim of a dead delivery whose child is complete (finding
  3, run `confirm_stuck`).  `note.aborted`: a cancelled delivery aborted the successor
  of its UPDATE, and the next attempt is answered "updated" with a revision that nobody
  sees (finding 1, run `retry_lost`).  `displaced`: only a delivery of the same event
  still finds the plan (finding 4, run `stale_binding`).

### EvidencePlan

Three rows: `plan`, `child` (the operation row of the one confirmation) and
`target` (the memory, with a fence and a claim).  The name of a delivery stands
for its `claim_nonce` and fence token.  `Holder` is whose epoch and nonce a child
is completed under: `confirm` uses those of the plan it carries out, a recovery
those of the child row it has read.  Both routes of delivery are there: the
older one of `api/evidence.py`, whose plan exists, and the trusted one, which
seals or rejects under the scope lease.

- A write is one step with the reads after it; `RevisionOperationStore.write` of
  the child row is two, a read (`copy_prepared`, `read_claim`) and an upsert.
  `stale` records that an upsert took something back.
- What a confirmation found of its child before it moved the fence decides after it
  whether it goes on (`copy`).  Its own readback (revisions.py:3390-3403) compares token
  and fence only; that of a recovery compares the whole projection (2494-2501), and may
  fail on values that another has projected for the same claim: `Complete` may raise
  then, unless claim and fence are still those it read (`InForce`).
- `lease[d]` says which claims of `d` have not ended: that of the plan ends before
  that of the child, which was made later.  Those of a delivery that runs hold,
  unless it is in `Stalling`.
- An update of an ordinary writer is one step once there is no claim; on a claim
  it first completes what it finds, as the code does.
- `After` gives the calls that must be over, leases included, before another
  begins: that is how the run asks what a later delivery or writer still can do.
- When the claim of the plan has ended and that of the child has not, a delivery
  by the older route may find the memory claimed, record the plan as "skipped" and
  commit it.  `MemoryIsFree` is therefore about the trusted route, where the scope
  lease keeps deliveries apart.

### SessionStore and Consolidation

`row` is the session row, `links` the append events that a reading merges in,
`memory[m]` a raw memory, `output[w]` what the consolidated memory of run `w`
derives from, `journal[w]` the row of its operation, `retry` the row of the batch
of explicit retries.  `SessionStore` has each conditional write as a function from
the stored row to the next one, false conditions leaving it alone.

- A run has one output, which names some of the raw memories read, or none where it
  is made from the summary alone (the code makes one per fact; IDs derive from the
  token, so a recovery repeats them).
- Leases end at any time (`ExpireRetry`, `ExpireSession`): the model has no clock.
- The batch has one session, so its cursor is left out; the row of a session is
  never absent for a run that has read it, and a write by ID to a row that was
  deleted does nothing (Qdrant's `set_payload` on a missing point).
- `Due` and the hydration of the row are one step, since the claim tests both the
  generation and the state again.
- A process that dies takes no more steps; no fairness is assumed.
- Some writes of the row go by point ID alone and may take the claim from a run that
  goes on: the clean-up of a turn, the mark of a failure, the plan written by a run
  whose lease is over, a recovery without a plan, the creation and the deletion of
  the row.  `struck` records the runs this befell, and `DerivedOnce` excludes them
  (divergence h).  What a run does to its own claim does not count.
- `Scenarios` start from rows with no run in progress, as a session is before its
  first run or after a finished one.
- Storing an output may raise, `add_memory` may answer with an error, or the output has
  no text.  In the second case `_store_consolidated` (1160) takes the answer for one
  without a result, in the third it passes the fact over before its guard (1103), and
  the run marks its sources all the same; `refused` records both and `SourceHasOutput`
  excludes them (divergence e).

### Migration

A collection is a function from points to the set of fields that migrations add;
`meta` is the document of applied, running and progress, which an instance reads
once and then writes as a whole.  `deployment` chooses the store: one that takes
sparse vectors in place, or one on which the collection is copied to a temporary
one, deleted, created again and copied back.  `Crash` stops an instance anywhere,
`Fault` makes a store call raise that leads to the handler of `run_pending`, with
the document as it is in memory by then (`Drafts`: a migration is completed in the
document before the save that may raise, and the handler saves it so).  `Shrug` is
the failure that leads elsewhere: an exception of `update_collection`
(migration.py:294) or of `get_collection` (334) is logged and taken for "no sparse
vectors", and the recreation follows, on a store that takes them in place too.  All
count against `failures`.  Which collection is the full one is told by the phase on
record.  `Inspect` reads configuration and count in one step, with a main collection
that no other instance drops in between where one recreates at a time.  `mishaps` are
the two failures that no restart repairs: a stop between the deletion of the
temporary collection and the record of the end ("unrecorded": the next start
finds neither), and a document that could not be read and was taken for an empty
one ("unread").  `AppliedIsDone` and `ConsolidatedIsSource` are about starts that read
it: one that does not may begin to backfill a collection that another is filling.

### SessionCache, MemoryStore, RememberPipeline, UserEvents, RecallPipeline

`MemoryStore` has the filters of the queries as sets of memories: a query may
miss nothing that it is allowed to see, except where the code chooses by rank
(`Deliver` takes any subset), and memories of
one topic are near enough to be candidates for each other.  `SessionCache` has one
step per operation of `SessionStore`, which holds its lock from lookup to save.

`pc[c]`, `work[c]` and `view[c]` are where a call is, what a storing call and what
a reading call remembers.  A step ends where a lock is taken or left, where
sessions or memories are written, and where the decision of the LLM is made; the
searches of a call and the decision on their results are one step, since nothing
that the call writes lies between them.

- The LLM is sensible: it extracts the facts of the message which it was not told
  are known, and decides SKIP, CONFIRM or UPDATE for a fact of a known topic, ADD
  for another.  It may fail, or answer nothing usable, where the call has that
  fault.  What a wrong answer does to a memory is no property of this code.
- `update_memory` and `delete_memory` are one step each, under the lock of the
  memory; the lock table drops its oldest entry at `MaxLocks`, held or not.
- The clock advances by `Tick`, as often as the scenario says, but not while a
  fill of the cache is under way (its reads take milliseconds, its entry minutes).
- A restarted process loses its calls, its locks and its caches.
- `kept` in `EchoSuppressed`: the session was alive when its known IDs were read;
  one that idles out between its lookup and that read knows nothing any more.
- `EchoSuppressed` is about sessions whose calls one process serves (`SessionsAtHome`,
  a bound on the scenarios and on nothing else).  docs/deployment.md (137-150) has
  replicas without sticky sessions too, and calls the loss of a session harmless:
  there a replica that comes back with an old copy of its own does give a session up,
  though another keeps it alive (session.py:205).  What holds of every replica,
  whoever serves whom, is `LiveCopyKept`: a session that is alive in its cache, and
  what it knows, stays there until the replica restarts or opens it anew, whatever
  the others delete, sweep or overwrite.
- Rate limits, validation and the ranking scores are left out.

`UserEvents` is the journal path of an event that is only stored: `event[r]` its
row, `claim[m]` the claim of a content, `mine[c]` the claim as a call has read it.
`epoch` stands for the nonce too.  Two deliveries of one event share owner, epoch
and nonce, as in the code, so both pass as the holder.  `Lapse` ends a claim whose
holder is dead or slow.  The claim is checked before the insert, not with it, and
the insert replaces the point: a late delivery brings back a memory that the
other one stored and a client deleted meanwhile.  The semantic route (planning by
an LLM) is `TrustedEvent`.

## 3. Runs

| run | instance | states | shows |
|---|---|---|---|
| `lineage` | four scenarios: two updates (one may die anywhere, one has a guard that may raise) with a recovering reader; an update that may die and a delete with a reader; two updates and a delete, then a reader; an update that may die, its repetition without a key, a derivation marking sources, a reader | 43,884 | linear history, single head, recovery never stuck, acknowledged updates are published, the caller's own, and seen by later readers, acknowledged deletes honoured, a repeated request applied once, a claim on the head does not stay for ever; the lineage implements `VersionedMemory` |
| `retry_lost` (violation) | the repetition under the caller's own key of an update that lost a race | | finding 1 |
| `annotations` | eleven scenarios of two or three calls: saves (one failing anywhere), deletions, confirmations (one repeated), an update, a retraction, a reader | 491,794 | but for the stale writes named, acknowledged changes hold, a listed artifact has its content, acknowledged roots are counted; claims are released |
| `evidence` | both routes; three deliveries, the first may die or stall anywhere, the third comes when the others and their leases are over; two updates, one of them last | 429,604 | a rejection has no effects, what is answered is counted, a later delivery finishes the plan and the memory is free, but for the window of finding 3 |
| `confirm_stuck` (violation) | the trusted route of the same | | finding 3 |
| `trusted` | two events that state one fact; one delivery may die or be cancelled anywhere, both may stall before they have the scope; one event may change an older memory, which a writer revises | 580,337 | one memory of the fact and one open plan at a time unless a binding was written over; every sealed plan is carried out but in the four cases named |
| `stale_binding` (violation) | the same | | finding 4 |
| `fsck` | two appliers, one with a failing store, an operator, four issues (splits with and without artifacts, an update with a delete, a delete of a missing memory with an add), lease 1, clock to 2 | 2,660,657 | the row tells the truth, recorded before done, committed and superseded rows stay |
| `consolidation` | six starts: a new, idle or failed session with a turn, a sweep, the endpoint, two claimants of a retry batch, a deletion | 3,710,551 | no memory is hidden before its output is stored, none is derived from twice by runs that kept their claims, no turn is forgotten |
| `migration` | three memories (a raw one with its consolidation, one without a user), two sessions, two points per page; in place with two instances and one failure that is not swallowed, in place with one instance and three failures that may be, or recreated by one instance with three failures | 355,626 | nothing is lost, what is recorded is done, back links are followed, the server comes up |
| `migration_loses` (violation) | a recreation by two instances at once, no failure | | finding 2 |
| `conversation` | seventeen scenarios of two or three calls on two processes | 45,220 | no duplicate fact, no lost turn, edits survive, caches fresh or ended, live sessions kept, no echo, accepted events stored, every call ends |

Each call runs once, so the state spaces are finite and no state constraint is
used.  `CHECK_DEADLOCK FALSE` everywhere, since the systems stop when their calls
have ended.  The type invariants (`TypeOK`, `AnnotationsOK`, `SessionsTypeOK`) hold
in all passing instances and are not listed in the `.cfg` files; those of
`RevisionLineage`, `FsckOperation`, `TrustedEvent`, `EvidencePlan`, `Consolidation`
and `Migration` are proved.

### Bounds

Revisions.  Two updates are enough for every pairwise race on a head; the delete
makes a third writer, and the reader a third recoverer that is never a claimant.
One crash is enough to leave a claim at each of the program points.
`ReadSeesAckedUpdate` and `ReadHonoursRetract` are checked with one dead worker and
no other recoverer running: with two dead workers an older head that was never
superseded can be the newest active revision once its successor was retracted,
and a concurrent stale recoverer activates the retracted revision again
(divergence b).  The bound is part of the statement.

Annotations.  Pairs of calls on one head, with an update or a reader as the third,
give every order of two claims and of a claim and a recovery; more annotators
would only queue for the claim.

Evidence.  The first delivery leaves any half-done state, the second takes over
while it may still write, the third asks whether that can be finished.  One delivery
stalls; with three that do, `AnsweredIsCounted` is false where an upsert of the
child row takes something back (section 4).

Fsck.  A lease of 1 and a clock to 2 let a lease be renewed, end, and end again;
two actions are enough for a plan that stops half way, and a third applier could
only repeat what the second one does, since a row that exists is never claimed
twice.

Trusted.  Two events are the least that can disagree about one fact, and one death
leaves a plan or a lease at every program point; two are also enough for one to write
over the binding that the other made while it stalled.  Deliveries repeat until they
are answered, with no bound.  `Turn` bounds the identities of a delivery that are
in force at one time; `MaxRevision` bounds the revisions of ordinary writers.

Consolidation.  One old raw memory and one of a turn distinguish "given to the run"
from "arrived meanwhile"; two claimants of the batch are the least that can take
over from one another; a turn is tried twice (`Attempts`; eight times in the code).  Turns
of one user are serial within a server, so one is in flight.

Migration.  Three points at two per page give a full page, a last page and an
offset between them; the third point has no user, the first is followed to the
second.  Three failures let a copy stop in each of its two phases and once more.  With two
instances no failure is swallowed: one that is starts a recreation beside the other
instance, which is finding 2 with its consequences (below).

Conversation.  The scenarios pair every writer with every other call it shares
state with: two remembers of one topic (in one process, and across a restart),
with and without an agent, an edit or deletion between decision and action, core
memories before and after a change in the same and another process and by
a grantee, sessions that idle out under use, an event told twice, by two events,
and with another content.  `MaxLocks = 4` holds the two or three locks a scenario
needs; an overflow of the table (1000 entries at once) is not among them.  The
clock advances at most twice, past the TTL 1 of a cache entry and of a session.

### Fairness

- `lineage` (`FairScenarioSpec`): while some call can go on or is still to come, one
  does or comes.  The handlers are straight-line code over calls that return or raise,
  and a raise is a `Crash`, which has no fairness.  That later calls are issued is part
  of it: nothing but a later call completes a dead worker's operation.
- `trusted` (`FairSpec`): a delivery runs and its client repeats it until it is
  answered (docs/rest-api.md: "resume the same authenticated root"); a lease which
  nobody renews ends.
- `migration` (`FairSpec`): an instance that runs goes on, and a deployment starts
  its instances again.
- `conversation` (`Spec`): requests have threads of their own, so while some call
  can go on one does; a content claim that nobody renews ends.

The other runs check safety under no fairness: a worker that dies is a behaviour
in which it takes no more steps.

### Findings

1. `retry_lost` (revisions.py:3665).  A token under the caller's key does not depend
   on the base revision, so a retry after a lost race finds its own aborted
   successor, claims the new head for it and activates it with a filter that
   matches nothing; nobody checks, the head is superseded, "updated" is answered
   and no active revision is left.
2. `migration_loses` (migration.py:579).  The second phase of the recreation deletes
   the main collection whenever it exists.  Of two instances that start at once one
   deletes it after the other has counted its copy, the other then deletes the
   temporary one.  The module's head promises that several may start together.
   Where sparse vectors are added in place the same happens once a failure of
   `update_collection` (294) or `get_collection` (334) is swallowed: that instance
   recreates beside the other one.  TLC then finds each of the safety properties of
   `migration` violated with two instances and that one failure: memories are lost; main
   is deleted under a record that 001 was applied; and a revision backfill beside the
   copy, which sees a target without its owner, marks its source as active.
3. `confirm_stuck` (revisions.py:2454).  The child row is committed before the claim
   on the memory is released.  A worker that dies in between leaves a claim whose
   recovery accepts a "claimed" child only: every later delivery and every update
   of the memory fails.
4. `stale_binding` (trusted_events.py:183).  A delivery reads what the scope is bound to
   and stalls.  Another one binds the scope to its own event, seals a plan and dies.  When
   that lease is over the first samples the time, reads the row, takes the scope over for
   the epoch it finds, and writes its old binding back: it never looks at the plan that
   was sealed, decides on memories without it, and seals a second plan beside it.  The
   comment at trusted_events.py:200 rules just that out.

### Divergences met on the way

These have no run of their own; the models contain the steps and the properties
say where they are excluded.

a. The scan for earlier attempts of a request does not tell aborted ones from
   others, takes the claim token of the predecessor, which is the winner's, and
   returns the winner's result to a loser that repeats its request.  TLC also finds
   it with two calls in flight that make one request under two keys: a repetition
   of the loser is answered with the revision of the other key.  So
   `AckedUpdateIsOwn` is about calls whose request nobody else makes; of these
   `SoleRequestIsAnswered` proves it, whatever other calls repeat.
b. Recovery reads "pending" and then sets "active" by ID alone; a delete completed
   in between is undone (the bound of `ReadHonoursRetract`).
c. A fsck row left "applying" by a dead applier is refused to the operator as
   "currently leased" when its lease is long over, because `terminalize_unclaimed`
   accepts only planned and failed rows (fsck.py:1871).
d. An issue all of whose actions were skipped gets a terminal row "skipped"; the
   comment at that place (fsck.py:1542-1545) wants it left for a later call.
   `OutcomeIsFinal` leaves such rows out.
e. An output of a consolidation that is refused with an answer, or is skipped for want of
   text, is missing when its sources are marked (above); the comment at
   consolidation.py:513 has every output stored before.
f. A late delivery of an event brings back a deleted memory (`UserEvents`).
g. `_validate_fact_lengths` (memory.py:1860) computes the places of the facts that
   are too long before its loop replaces one by several: once a fact was split, the
   next replacement hits a neighbour.  The model has facts without a length.
h. A run can lose its claim to a write by point ID, go on, and leave a second run to
   derive from the same memories.  TLC finds two ways.  A turn reads a failed session
   and, after its own conditional update, clears token and plan by ID
   (vector.py:2424-2443); meanwhile the session was idle again and a sweep has claimed
   it and written its plan.  The sweep stores its output, fails while it marks the
   sources (one was changed by its user), finds no plan in the row, marks the session
   failed, and a call of the endpoint derives from the other sources again.  Or the
   claimant of a retry passes its guard for the mark of failure (consolidation.py:623),
   outlives its lease, and the mark then takes the claim of the run that came after it.

## 4. Proofs

Every theorem is about every value of the constants that satisfies the module's
assumptions: any number of calls, events, deliveries, appliers or runs.  The
assumptions say that the kinds of processes cover each other as in the code and that
`None` is none of the values it stands beside.  The `TypeCorrect` of each module rests
on a `TypedInv` that strengthens `TypeOK` by what a process has stored locally at each
program point (a call about to claim has a token, a revision it read and so on), which
the actions rely on.  Each inductive invariant was checked by TLC first, on instances
like those of section 3.

### RevisionLineage

`LinearHistoryHolds`, `SingleHeadHolds` and `HistoryIsImmutableHolds` assume
`ExclusiveTokens`: no two calls carry out the same operation (the same request
under the same key).  Without it they are false for concurrent repetitions;
sequential repetitions are model-checked (`lineage`).  The inductive invariant
`ChainInv` says:

- `Rooted`: the root is published with number 1 and replaces nothing; every
  stored successor replaces a published revision and has the next number;
- `Backed`: a published successor holds the claim on its predecessor;
- `ClaimsSound`: only published revisions are claimed, and a claim to revise
  names a stored successor of the revision it is on;
- `NoGap`: a published revision with a smaller number than another one has a
  published successor;
- `CallChained`: what each call remembers (its base, its successor, the claim it
  recovers) agrees with the above for as long as the call relies on it.

`LinearHistory` is not inductive alone: two published revisions with one number
have two predecessors with one number, hence by induction on the step one
predecessor, whose single claim token names both successors, hence they are one.
Each action is one of four kinds of step (shape kept, a revision published, a
claim made, a successor prepared), and the invariant is proved for each kind
once; `Stable` and `Contained` carry the facts of the calls that do not move.

`LineageImplementsMemory`: under the same hypothesis `Spec => ImplementsMemory`,
the refinement of `VersionedMemory` that `lineage` checks.  The mapping is the set of
published points with their number and predecessor.  A step writes at most one
point (`EveryStepWritesOnePoint`) and what is published stays, so a step adds
at most one revision; that one replaces a published revision (`Rooted`), and
were it not the newest, `NoGap` would give that revision two published
successors, and `Backed` two claims.

`RecoveryNeverStuckHolds` needs no hypothesis on the calls.  `CompletableInv`: a claim
on any point can be completed, since what its recovery reads (the successor of a
revise, the journal row of a retract) is stored before the claim is made, and is
never taken away (`Lasting`).

`AckedUpdateIsPublishedHolds` assumes `ExclusiveTokens`; run `retry_lost` refutes it
without.  `PublishedInv` adds to `ChainInv` that an answer "updated", in a journal row
or at a call, names a published revision: it is copied from another answer, or given
by a recovery that found the revision published, or by the call whose own pending
successor nobody else can have aborted.

`SoleRequestIsAnswered` and `AckedUpdateIsOwnHolds`: a call whose request nobody else
makes is answered for a token of its own.  `OwnInv` says that what is written under a
token (point, journal row, answer) was written for that token's request; with
`OneRequestEach`, no two calls making one request, this is `AckedUpdateIsOwn`.

### RevisionAnnotations

Both theorems are about any number of annotators, updates and readers of one memory.
They do not need the chain of revisions: all they take from the steps of
`RevisionLineage` is what such a step may write to a point (`Wrote`) and to a journal row
(`Journaled`).

`ClaimsAreReleasedHolds`, from `ClaimsInv`: for every claim of an annotation there is a
call that owes its release (`Owes`): it holds the claim, it looks for it to clean up
after itself, it recovers it in that cleanup, or it has failed.  A step leaves a claim to
whom owed it before, or releases it.  The theorem assumes `FaultySavesRunWithoutUpdates`.  A
save that fails half way still resolves the head and so recovers the claim it finds
there; beside an update the head may by then be another revision than the one that
bears the claim.  Without an update there is one revision (`OneRevision`), and the claim
is found.  The run `annotations` has one scenario outside the hypothesis ({`s1`, `u`}).

`AckedRootIsCountedHolds`, from `RootsInv`, where `ClaimsInv` holds too: a confirmation that
has not begun has left no trace (`Fresh`); of one that has, its claim, its journal row and
what recovering calls have read of that row are about the one revision it was decided
on, and add no root but its own (`Trace`); and from the step that verifies the
projection until the answer its root is in that revision (`StageOK`).  A recovery
therefore writes what was there and that root; a projection under another claim over
roots that its call has not read is what `stale` records as "roots", and the property is
not claimed then.

This theorem assumes `ExclusiveTokens`.  Two concurrent repetitions of one confirmation
beside a different one (`k1`, `k3` and `k2` of the instance) lose an acknowledged root in 23
steps: `k1` reads the roots and stalls, `k2` is counted and releases its claim, `k3` reads
the new roots and claims the head; `k1`, whose own claim found nothing to match, reads
that claim back as its own (the two have one token) and projects the roots it read
first, without that of `k2`.  The run has the repetitions beside an update only.

### FsckOperation

`RowTellsTruthHolds`, `PendingIsUntouchedHolds` and `OutcomeIsFinalHolds` assume
nothing but the module's assumptions; the parts that `OneCreator` qualifies
in the module are qualified in the same way here.  Three invariants build on each other.
`TruthInv`: no checkpoint, in the row, in what an applier has read or is about to
write, says "committed" of an action without its effect.  `OneApplierInv`, for a row
created once: the applier whose claim succeeded is the only one that carries out an
action, and at each program point the row is either in step with its checkpoints or
exactly one save behind.  `OutcomeIsFinal` is an action property: once the row is
committed or superseded, every other process is at a point from which no write
matches.

### TrustedEvent

`FreshInv`: a delivery about to claim has an identity that nothing has.  `LeaseInv`:
a delivery that has taken the lease of the scope has it until it ends, so no two are
at work at once (`OneAtWorkHolds`).  `BoundInv`: while no takeover has written over the
binding to an open plan (`displaced`), the binding of the scope names the only plan
that can be open, whence `BoundPredecessorFirstHolds`.  `FactInv`: under the same
condition an ADD that has been decided and not carried out is of a fact that no memory
has, whence `NoDuplicateFactHolds`.  The condition is part of both properties;
`stale_binding` shows that it is needed.  What a delivery has read before it has the
scope may be of any age: no invariant ties its binding to its lease.  The theorems rest on
what the model says of leases: those of a delivery at work do not end (section 2).

### EvidencePlan

`RejectedHasNoEffectsHolds`, from `RejectInv`: while no plan is sealed no delivery is
past the claim of one, so no row but the plan was written.

`AnsweredIsCountedHolds` states `~stale => AnsweredIsCounted`, from `CountInv`: while no
upsert of the child row took back what another delivery wrote, a claim on the target
stays until the child is committed, its owner is at work on it, and the fence it was
made under is there for as long as the child is its owner's; so who commits the child
has projected its values.  The hypothesis is needed: with three deliveries that all
stall TLC finds a plan recorded as confirmed that nothing counted (39 states).  The
late "prepared" upsert of the second takes back the child claim of the first, it claims
the child and moves the fence; an upsert of the first then restores its own row, and its
projection misses the fence unnoticed; a third, which has read the first's row, sets the
first's fence back; the first reads its claim and the fence as it expects them and
commits.  The run `evidence`, with one delivery that stalls, checks the property without
the hypothesis.

### Consolidation

`SourceHasOutputHolds` and `DerivedOnceHolds`, from `WorkInv`.  Call P a plan of run t if
somebody knows it as such: the run, or a claimant of the retry that recovers it, the row
under an explicit retry, or the output stored under t's token.  `NamesInv`:

- a run has one plan, so the output that was stored is the one its sources are marked
  for, by whomever (`SourceInv`);
- a run that nobody struck from the row has the claim, with its plan in the row once
  that is written, until all the memories of the plan are hidden;
- so no other such run plans a memory of it: a plan is made of active memories under the
  claim, at a moment when the plans of all others are hidden.

`CallInv` says what those who carry out a plan rely on: outputs before marks, the part
of the plan already marked, everything marked before the run ends or frees the claim.
A step that makes a plan (`DecideWorks`) and the one that publishes it in the row
(`WritePlanWorks`) are proved on their own; all others tell nobody anything new
(`Advance`), and write the row in one of five ways (`RowStep`).

### Migration

`NothingIsLostHolds`, `AppliedIsDoneHolds` and `ConsolidatedIsSourceHolds` assume `Sole`:
in every deployment either one instance runs, or sparse vectors are added in place and no
failure to add or to find them is swallowed (`InPlace`); then any number does.  One
instance may meet any failure, the swallowed ones and the recreation they start included.
With two, run `migration_loses` and the failures named at finding 2 refute each of them.
`TypeCorrect` assumes nothing.

`InPlaceInv`: the main collection has every memory, and no document or instance is in a
phase of copying.  `RecreationInv`: while the main collection has no sparse vectors it is
the full one; once they are there, or it is not, the phase on record is "copy_back" and
the temporary collection is full, until the main one is and the temporary one is gone;
the instance knows which of the two it is at (`RunSafe`), and a count of as many points as
there are memories means all of them (`FullWhenCounted`).

`AppliedNow` says of the document, and of what each instance has read of it, that every
migration in it was performed, and that every point before the recorded offset was done
(`DocTrue`); of an instance at each stage, that every point before the next page was done
or is in its batch (`RunTrue`: a page of a scroll leaves out nothing before its offset,
`PageCovers`); and of the points, that the copy of a raw memory that was consolidated is
never active (`PointsTrue`).  Steps that only add fields carry all this over for every
instance at once (`DoneStays`).  A recreation takes fields away; it comes before anything
was recorded (`DocSole`).  That a backfill of revisions sees the target of a source with
its owner, and so marks it as a source, follows from the order of the migrations: owners
are performed, and the collection is full.

`AppliedIsDoneHolds` also assumes that there is a memory: `_run_recreation` returns at once
for an empty collection (migration.py:483), so the migration is then recorded although
the collection has no sparse vectors.  With none, `ConsolidatedIsSource` holds trivially
and the theorem needs no such assumption.

### The conversation

The calls of `RecallPipeline` with everything under it: any number of calls, processes,
users, sessions, memories and events.  `Shape` says which fields there are and that a
stored row keeps its revision number or raises it (`Keeps`); the steps are proved action
by action, in three groups (calls that write, that read, that deliver an event).

- `AcceptedIsStoredHolds` has no hypothesis.  `EventInv`: who passed the guard of a
  claimed content has the event bound to that memory, a claim or an event is committed
  only when the memory is stored, and a stored memory is not removed.
- `EditSurvivesHolds` assumes `EditsAreNotRetold`: what an update or a deletion of the
  run changes is not a memory that a call of the run starts.  `EditInv`: what an edit
  removed is superseded, and what it made is in the row.  `ReviseInv`: a call about to
  revise has read the row since every edit in its basis was done, so what it would
  replace is not older than what those edits made.
- `FreshCoreHolds` and `StaleCoreEndsHolds`, under the same hypothesis.  `CoreInv`: an
  entry that shows what an edit removed was filled no later than the edit ended, from
  reads that began before; if the edit invalidates that cache, it was put there after
  the invalidation.  So it ends with its time to live.  It rests on the clock standing
  still while a cache is filled (section 2).
- `LiveCopyKeptHolds` has no hypothesis: any number of replicas, whichever of them serves
  a session.  `CopyInv`: no copy, and no stored record, bears a time of use to come.  A
  step either leaves the copies of a replica alone, or is an operation of that replica
  on one session (`Puts`); those that do not open the session anew keep a live copy, its
  time and what it knows (`Spares`), since they look into the store for what the cache
  lacks only (`HeldOK`).

`EditsAreNotRetold` is defined in `RecallPipeline`, and `MCConversation` assumes it of its
scenarios (`ScenarioHypotheses`), so that the run evaluates it.

### Only model-checked

- Liveness (`HeadClaimsComplete`, `SealedPlanRecovers`, `ServerComesUp`, `EveryCallEnds`):
  with ENABLED out of the prover's reach.
- `EchoSuppressed` of `RecallPipeline`: true where one process serves a session (section
  2), which the code does not see to.
- `ResumedOrStuck` and `MemoryIsFree` of `EvidencePlan`: they say what the last of a series
  of deliveries finds and depend on the series that the run lays down (`After`).
- `ReadSeesAckedUpdate`, `ReadHonoursRetract` and `RetryAppliesOnce` of `RevisionLineage`:
  true of the scenarios of their run only (section 3, Bounds; divergence b).
- `NoTurnForgotten` of `Consolidation`: true where the turns of a session are serial, as
  its run has them, and false of three at once.  Two turns find no row; one of them
  creates it and a sweep claims it; the third appends; the second then creates the row
  again with its first revision, at which the run, claimed at that revision, finishes,
  and nobody looks at the turn of the third.
- `AckedChangeHolds` and `ListedArtifactIsStored` of `RevisionAnnotations`: they speak of the
  revision that is the head at the moment, hence need `ChainInv` over the steps of the
  annotations, and for each of the six kinds of stale write that without it the artifacts
  of a successor are those of its predecessor.
- `NoDuplicateFact` and `NoTurnLost` of `RememberPipeline`: both rest on the lock of the
  user, which the lock table may drop while it is held (`MaxLocks`).  They hold where the
  table does not overflow, and what a decision leaves to be stored depends on the topics
  of the facts; a proof needs both as hypotheses, and the run has them.
- Why `EditsAreNotRetold` is assumed: a late delivery that stalled may write its memory
  over the edit (divergence f).
- The bounds on counters in type invariants (attempts, times).

## 5. Plan

Done: the modules of section 2 with their runs, and the proofs of section 4.
What a continuation would take up, in this order:

1. `AckedChangeHolds` and `ListedArtifactIsStored` of `RevisionAnnotations`, from `ChainInv`
   extended by the notes.
2. `NoTurnForgotten` of `Consolidation` for serial turns, from `WorkInv` and the
   generation of the row.
3. `NoDuplicateFact` and `NoTurnLost` from the locks of `RememberPipeline`.
4. Privacy erase (`prepare_privacy_erase`, `finalize_privacy_erase`) and legacy
   points on top of `RevisionLineage`.

### Not modelled

- Privacy erase and `_materialize_legacy`; listing and statistics; the preview of
  a retry; `legacy_result`.
- Fsck detection (LLM prompts and content heuristics over an in-memory check); the
  cursors and budgets of the maintenance loops.
- Ranking and decay scores, embeddings, prompts, tokenization, sanitizing: pure
  functions without shared state.
- Authentication and authorization: stateless checks; every modelled call is
  authorized.  HTTP parsing, MCP dispatch, rendering, metrics, configuration.
- The backends themselves: Qdrant, Redis, SQLite and the artifact stores appear as
  the atomic steps they offer.
