--------------------------- MODULE RememberPipeline ---------------------------
(***************************************************************************)
(* The calls of mnemory/memory.py that store memories, in one or several   *)
(* server processes: remember, which serializes itself per user and works  *)
(* with the session of the conversation, add_memory with and without        *)
(* inference, and the update and deletion of a memory by its ID.            *)
(*                                                                         *)
(* A step ends where a lock is taken or left, where the session store or   *)
(* the memories are written, and where a decision was made on what was     *)
(* read: the searches of one call and the answer of the model about their  *)
(* results are one step.  revise, retract and confirm are one step each:   *)
(* RevisionLineage is their detail.                                        *)
(***************************************************************************)
EXTENDS SessionCache, MemoryStore, SequencesExt

CONSTANTS
    Call,
    JobOf,       \* what each call is asked to do
    LineageOf,   \* the lineage a call starts for a fact
    Prior,       \* the memories there are at the start
    Opened,      \* the sessions there are at the start
    MaxLocks,    \* _max_user_locks
    CacheTTL,    \* of the cache of core memories
    Scenarios    \* the calls that take part, how often the clock advances,
                 \* and the processes that restart

Lineage == DOMAIN Prior
Writing == {"remember", "infer", "direct", "update", "delete", "ingest"}

\* faults: what may fail for the call.  speaks: the facts of its message.
\* compacts: the summary is over its threshold after the turn.
Job == [op: Writing \cup {"recall", "core", "search"}, proc: Proc, user: STRING,
        owner: STRING, agent: STRING \cup {None}, session: Session \cup {None},
        fresh: Session \cup {None}, speaks: SUBSET Fact, target: Lineage \cup {None},
        trusted: BOOLEAN, long: BOOLEAN, compacts: BOOLEAN, finds: BOOLEAN,
        after: SUBSET Call, faults: SUBSET STRING]

\* A stored memory.
Row == [state: {"active", "retracted"}, rev: Nat, text: Fact, user: STRING,
        owner: STRING \cup {None}, agent: STRING \cup {None},
        layer: {"raw", "consolidated"}, pinned: BOOLEAN, artifacts: SUBSET Call,
        ttl: Nat \cup {None}, expires: Nat \cup {None}, decayed: BOOLEAN]

ASSUME PipelineAssumption ==
    /\ Prior \in [Lineage -> Row \cup {NoRow}]
    /\ JobOf \in [Call -> Job]
    /\ MaxLocks \in Nat \ {0} /\ CacheTTL \in Nat
    /\ Scenarios \subseteq [calls: SUBSET Call, ticks: Nat, restarts: SUBSET Proc]
    /\ Opened \subseteq Session /\ None \notin Session

VARIABLES
    memory,   \* the current revision of each lineage
    saved,    \* the artifacts stored
    linked,   \* the memories that the row of each session lists
    locks,    \* the lock table of each process, oldest entry first
    holder,   \* who holds each lock; a lock is named by the call that made it
    core,     \* the cache of core memories of each process
    left,     \* what remains of the scenario
    pc, work, reply,
    ended,     \* history: when each call was answered
    overruled  \* history: the revisions that remember calls replaced

storeVars == <<memory, saved, linked>>
lockVars == <<locks, holder>>
flow == <<pc, work, reply, ended>>
pipelineVars == <<sessionVars, storeVars, lockVars, core, left, flow, overruled>>

----------------------------------------------------------------------------
(* results: the answers of the actions done.  todo: the planned actions.    *)
(* now: the action at work.  seen: the artifacts, or the summary, read.     *)
(* basis: the updates acknowledged when the target was checked.             *)
NoWork == [lock |-> None, told |-> {}, facts |-> {}, sums |-> FALSE, todo |-> {},
           now |-> None, results |-> {}, links |-> {}, seen |-> {}, ok |-> TRUE,
           basis |-> {}]

FreshRecord == [touched |-> 0, known |-> {}, facts |-> <<>>, summary |-> {}]

PipelineInit ==
    /\ memory = Prior /\ saved = {}
    /\ linked = [s \in Session |-> {}]
    /\ backend = [s \in Session |-> IF s \in Opened THEN FreshRecord ELSE Gone]
    /\ cached = [p \in Proc |-> [s \in Session |-> Gone]]
    /\ now = 0
    /\ locks = [p \in Proc |-> <<>>] /\ holder = [c \in Call |-> None]
    /\ core = [p \in Proc |-> {}]
    /\ \E s \in Scenarios :
         /\ left = [ticks |-> s.ticks, restarts |-> s.restarts]
         /\ pc = [c \in Call |-> IF c \in s.calls THEN "idle" ELSE "absent"]
    /\ work = [c \in Call |-> NoWork]
    /\ reply = [c \in Call |-> "none"]
    /\ ended = [c \in Call |-> 0]
    /\ overruled = {}

Finished(c) == pc[c] \in {"absent", "done"}

At(c, op, phase) ==
    /\ pc[c] = phase /\ JobOf[c].op \in op
    /\ phase = "idle" => \A d \in JobOf[c].after : Finished(d)

Goto(c, phase, w) ==
    /\ pc' = [pc EXCEPT ![c] = phase]
    /\ work' = [work EXCEPT ![c] = w]
    /\ UNCHANGED <<reply, ended>>

Step(c, phase) == Goto(c, phase, work[c])

End(c, answer) ==
    /\ pc' = [pc EXCEPT ![c] = "done"]
    /\ reply' = [reply EXCEPT ![c] = answer]
    /\ ended' = [ended EXCEPT ![c] = now]
    /\ UNCHANGED work

\* A call that ends with an exception leaves its lock first.
Fail(c) == Goto(c, "release", [work[c] EXCEPT !.ok = FALSE])

May(c, fault) == fault \in JobOf[c].faults

----------------------------------------------------------------------------
(* Locks.                                                                  *)

Locking == {"remember", "ingest", "update", "delete"}

LockKey(c) ==
    IF JobOf[c].op \in {"remember", "ingest"} THEN <<"user", JobOf[c].user>>
    ELSE <<"memory", JobOf[c].target>>

Entries(p, key) == SelectSeq(locks[p], LAMBDA e : e.key = key)

\* Mutant: a lock of its own for every call.
GetLockUnshared(c) ==
    LET p == JobOf[c].proc IN
    /\ At(c, Locking, "idle")
    /\ Goto(c, "lock", [work[c] EXCEPT !.lock = c])
    /\ locks' = [locks EXCEPT ![p] = Append(@, [key |-> LockKey(c), lock |-> c])]
    /\ UNCHANGED <<sessionVars, storeVars, holder, core, left, overruled>>

\* _get_user_lock: the oldest entry makes room for a new one, held or not.
GetLock(c) ==
    LET p == JobOf[c].proc
        mine == Entries(p, LockKey(c))
        room == IF Len(locks[p]) >= MaxLocks THEN Tail(locks[p]) ELSE locks[p]
    IN
    /\ At(c, Locking, "idle")
    /\ IF mine # <<>>
       THEN /\ Goto(c, "lock", [work[c] EXCEPT !.lock = mine[1].lock])
            /\ UNCHANGED locks
       ELSE /\ Goto(c, "lock", [work[c] EXCEPT !.lock = c])
            /\ locks' = [locks EXCEPT ![p] = Append(room, [key |-> LockKey(c), lock |-> c])]
    /\ UNCHANGED <<sessionVars, storeVars, holder, core, left, overruled>>

\* A remember call goes on to read the context of its session.
Acquire(c) ==
    LET j == JobOf[c] IN
    /\ At(c, Locking, "lock")
    /\ holder[work[c].lock] = None
    /\ holder' = [holder EXCEPT ![work[c].lock] = c]
    /\ IF j.op = "remember" /\ j.session # None
       THEN /\ Goto(c, "extract", [work[c] EXCEPT !.told = Extracted(j.proc, j.session)])
            /\ ReadSession(j.proc, j.session)
       ELSE /\ Step(c, CASE j.op = "remember" -> "extract"
                         [] j.op = "ingest" -> "prepare"
                         [] OTHER -> "change")
            /\ UNCHANGED sessionVars
    /\ UNCHANGED <<storeVars, locks, core, left, overruled>>

\* The caches are invalidated outside the lock, but those of an event inside.
Leave(c) == IF JobOf[c].op = "ingest" THEN End(c, "ok") ELSE Step(c, "invalidate")

\* Mutant: a call that failed keeps the lock.
ReleaseOnSuccess(c) ==
    /\ At(c, Locking, "release")
    /\ IF work[c].ok
       THEN Leave(c) /\ holder' = [holder EXCEPT ![work[c].lock] = None]
       ELSE End(c, "failed") /\ UNCHANGED holder
    /\ UNCHANGED <<sessionVars, storeVars, locks, core, left, overruled>>

\* The end of the with block, by an exception too.
Release(c) ==
    /\ At(c, Locking, "release")
    /\ holder' = [holder EXCEPT ![work[c].lock] = None]
    /\ IF work[c].ok THEN Leave(c) ELSE End(c, "failed")
    /\ UNCHANGED <<sessionVars, storeVars, locks, core, left, overruled>>

----------------------------------------------------------------------------
(* Stage 1 of remember, and what becomes of a message without facts.       *)

\* _remember_extract.  The model does not extract what the context says is
\* known.  A call that fails, or two answers that cannot be parsed, leave
\* neither facts nor a summary.
Extract(c) ==
    LET news == JobOf[c].speaks \ work[c].told IN
    /\ At(c, {"remember"}, "extract")
    /\ \/ Goto(c, IF news = {} THEN "facts" ELSE "plan",
               [work[c] EXCEPT !.facts = news, !.sums = TRUE])
       \/ May(c, "extract") /\ Step(c, "facts")
    /\ UNCHANGED <<sessionVars, storeVars, lockVars, core, left, overruled>>

----------------------------------------------------------------------------
(* Stage 2: search for candidates and decide.                              *)

\* What a sensible model decides about a fact: nothing to do for a fact that is
\* stored, or a confirmation if that counts, an update of a memory of its topic.
Decisions(fact, found, trusted) ==
    LET equal == {m \in found : memory[m].text = fact}
        related == {m \in found : TopicOf[memory[m].text] = TopicOf[fact]}
    IN
    IF equal # {}
    THEN [fact: {fact}, do: {IF trusted THEN "CONFIRM" ELSE "SKIP"},
          target: {Id(memory, m) : m \in equal}]
    ELSE IF related # {}
    THEN [fact: {fact}, do: {"UPDATE"}, target: {Id(memory, m) : m \in related}]
    ELSE [fact: {fact}, do: {"ADD"}, target: {None}]

Plans(facts, found, trusted) ==
    {{choice[f] : f \in facts} :
        choice \in {d \in [facts -> UNION {Decisions(f, found, trusted) : f \in facts}] :
                       \A f \in facts : d[f] \in Decisions(f, found, trusted)}}

\* Without an agent the facts of the assistant are dropped.
Storable(j, facts) ==
    IF j.agent # None THEN facts ELSE {f \in facts : RoleOf[f] = "user"}

\* _remember_dedup_and_store up to its actions.  Without vectors there are no
\* actions; without a complete decision after two attempts the call fails.
Plan(c) ==
    LET j == JobOf[c]
        facts == Storable(j, work[c].facts)
        found == Candidates(memory, j, {"consolidated"}, now)
        near == {m \in found : \E f \in facts : TopicOf[memory[m].text] = TopicOf[f]}
    IN
    /\ At(c, {"remember"}, "plan")
    /\ \/ \E todo \in Plans(facts, found, j.trusted) :
             Goto(c, "act", [work[c] EXCEPT !.todo = todo])
       \/ May(c, "embed") /\ Step(c, "act")
       \/ May(c, "dedup") /\ near # {} /\ Fail(c)
    /\ UNCHANGED <<sessionVars, storeVars, lockVars, core, left, overruled>>

\* _add_with_inference up to its actions: one search over all layers, one answer
\* of the model; a failure of it, or of the facts' lengths, is an answer too.
Infer(c) ==
    LET j == JobOf[c]
        found == Candidates(memory, j, {}, now)
    IN
    /\ At(c, {"infer"}, "idle")
    /\ \/ \E todo \in Plans(j.speaks, found, FALSE) :
             Goto(c, "act", [work[c] EXCEPT !.todo = todo])
       \/ May(c, "extract") /\ Step(c, "invalidate")
       \/ May(c, "embed") /\ End(c, "failed")
    /\ UNCHANGED <<sessionVars, storeVars, lockVars, core, left, overruled>>

----------------------------------------------------------------------------
(* _execute_action.                                                        *)

Layer(c) == IF JobOf[c].op = "remember" THEN "raw" ELSE "consolidated"

Result(id, event) == [id |-> id, event |-> event]

Did(c, a, phase, results) ==
    Goto(c, phase, [work[c] EXCEPT !.todo = @ \ {a}, !.now = None,
                                   !.results = @ \cup results])

\* SKIP answers with its target.  So does CONFIRM, whose evidence this module
\* does not keep, and also where its target is no longer valid.
Skip(c, a) ==
    /\ a.do \in {"SKIP", "CONFIRM"}
    /\ Did(c, a, "act", {Result(a.target, "SKIP")})
    /\ UNCHANGED <<memory, overruled>>

Add(c, a) ==
    LET j == JobOf[c] IN
    /\ a.do = "ADD"
    /\ \/ /\ memory' = [memory EXCEPT ![LineageOf[c][a.fact]] =
                 Inserted(a.fact, j.user, j.owner, j.agent, Layer(c), FALSE, {}, now)]
          /\ Did(c, a, "act", {Result(<<LineageOf[c][a.fact], 1>>, "ADD")})
       \/ /\ May(c, "store")
          /\ Did(c, a, "act", {})
          /\ UNCHANGED memory
    /\ UNCHANGED overruled

\* The updates a user was told of.
Acknowledged == {d \in Call : JobOf[d].op = "update" /\ reply[d] = "ok"}

\* Mutant: any current memory of the lineage will do.
IsValidTargetOfLineage(id, j) ==
    LET r == memory[id[1]] IN
    /\ Active(r) /\ r.user = j.user
    /\ r.owner \in {j.owner, None} /\ r.agent \in {None, j.agent}

\* _is_valid_inferred_target, of the revision that the model was shown.
IsValidTarget(id, j) ==
    LET r == memory[id[1]] IN
    /\ IsCurrent(memory, id) /\ Active(r)
    /\ r.user = j.user
    /\ r.owner \in {j.owner, None} /\ r.agent \in {None, j.agent}

\* UPDATE reads its target and rejects it, or ...
Check(c, a) ==
    /\ a.do = "UPDATE"
    /\ IF IsValidTarget(a.target, JobOf[c])
       THEN Goto(c, "revise", [work[c] EXCEPT !.now = a, !.basis = Acknowledged])
       ELSE Did(c, a, "act", {})
    /\ UNCHANGED <<memory, overruled>>

Act(c) ==
    /\ At(c, {"remember", "infer"}, "act")
    /\ \E a \in work[c].todo : Skip(c, a) \/ Add(c, a) \/ Check(c, a)
    /\ UNCHANGED <<sessionVars, saved, linked, lockVars, core, left>>

\* ... revises it: the current revision of the lineage, whatever it is by then.
Revised(r, fact, layer) ==
    [r EXCEPT !.rev = @ + 1, !.text = fact, !.layer = layer, !.ttl = TTLOf[fact],
              !.expires = Expiration(TTLOf[fact], now), !.decayed = FALSE]

Revise(c) ==
    LET a == work[c].now
        m == a.target[1]
    IN
    /\ At(c, {"remember", "infer"}, "revise")
    /\ \/ /\ Active(memory[m])
          /\ memory' = [memory EXCEPT ![m] = Revised(@, a.fact, Layer(c))]
          /\ overruled' = overruled \cup {[by |-> c, id |-> Id(memory, m),
                                           planned |-> a.target, basis |-> work[c].basis]}
          /\ Did(c, a, "act", {Result(<<m, memory[m].rev + 1>>, "UPDATE")})
       \/ /\ ~Active(memory[m]) \/ May(c, "store")
          /\ Did(c, a, "act", {})
          /\ UNCHANGED <<memory, overruled>>
    /\ UNCHANGED <<sessionVars, saved, linked, lockVars, core, left>>

\* All actions are done.
Acted(c) ==
    /\ At(c, {"remember", "infer"}, "act")
    /\ work[c].todo = {}
    /\ Step(c, IF JobOf[c].op = "remember" THEN "facts" ELSE "save")
    /\ UNCHANGED <<sessionVars, storeVars, lockVars, core, left, overruled>>

----------------------------------------------------------------------------
(* _update_session_context, and the row of the session.                    *)

\* Where a remember call goes once the session knows of the turn.
AfterContext(c) == IF work[c].facts = {} THEN "release" ELSE "row"

\* All facts are recorded as extracted, whatever became of them.
RecordFacts(c) ==
    LET j == JobOf[c] IN
    /\ At(c, {"remember"}, "facts")
    /\ IF j.session = None
       THEN UNCHANGED sessionVars /\ Step(c, IF work[c].facts = {} THEN "release" ELSE "save")
       ELSE /\ AddExtracted(j.proc, j.session, SetToSeq(work[c].facts))
            /\ Step(c, IF work[c].sums THEN "summary" ELSE AfterContext(c))
    /\ UNCHANGED <<storeVars, lockVars, core, left, overruled>>

\* The summary of the turn is appended; the read that follows tells whether it
\* has to be compacted.
AppendTurn(c) ==
    LET j == JobOf[c] IN
    /\ At(c, {"remember"}, "summary")
    /\ AppendSummary(j.proc, j.session, {c})
    /\ Step(c, IF j.compacts THEN "compact" ELSE AfterContext(c))
    /\ UNCHANGED <<storeVars, lockVars, core, left, overruled>>

ReadSummary(c) ==
    LET j == JobOf[c] IN
    /\ At(c, {"remember"}, "compact")
    /\ Goto(c, IF Summary(j.proc, j.session) = {} THEN AfterContext(c) ELSE "compacting",
            [work[c] EXCEPT !.seen = Summary(j.proc, j.session)])
    /\ ReadSession(j.proc, j.session)
    /\ UNCHANGED <<storeVars, lockVars, core, left, overruled>>

\* _compact_summary: the compacted text replaces the summary, if there is one.
Compact(c) ==
    LET j == JobOf[c] IN
    /\ At(c, {"remember"}, "compacting")
    /\ \/ SetSummary(j.proc, j.session, work[c].seen)
       \/ May(c, "compact") /\ UNCHANGED sessionVars
    /\ Step(c, AfterContext(c))
    /\ UNCHANGED <<storeVars, lockVars, core, left, overruled>>


StoredIds(c) == {r.id : r \in {x \in work[c].results : x.event \in {"ADD", "UPDATE"}}}

\* The upsert into the session row, SessionStore in detail; its failure is logged.
WriteRow(c) ==
    LET j == JobOf[c] IN
    /\ At(c, {"remember"}, "row")
    /\ \/ linked' = [linked EXCEPT ![j.session] = @ \cup StoredIds(c)]
       \/ May(c, "row") /\ UNCHANGED linked
    /\ ReadSession(j.proc, j.session)
    /\ Step(c, "save")
    /\ UNCHANGED <<memory, saved, lockVars, core, left, overruled>>

----------------------------------------------------------------------------
(* _maybe_create_auto_artifact.                                            *)

AfterArtifact(c) == IF JobOf[c].op = "remember" THEN "release" ELSE "invalidate"

\* The content is stored if it is long and something was stored of it.
SaveArtifact(c) ==
    /\ At(c, {"remember", "infer"}, "save")
    /\ \/ /\ JobOf[c].long /\ StoredIds(c) # {}
          /\ saved' = saved \cup {c}
          /\ Goto(c, "link", [work[c] EXCEPT !.links = StoredIds(c)])
       \/ /\ ~JobOf[c].long \/ StoredIds(c) = {} \/ May(c, "artifact")
          /\ Step(c, AfterArtifact(c))
          /\ UNCHANGED saved
    /\ UNCHANGED <<sessionVars, memory, linked, lockVars, core, left, overruled>>

\* For each memory stored: read its artifacts, ...
ReadArtifacts(c) ==
    /\ At(c, {"remember", "infer"}, "link")
    /\ \E id \in work[c].links :
         Goto(c, "linking", [work[c] EXCEPT !.now = id,
                  !.seen = IF IsCurrent(memory, id) THEN memory[id[1]].artifacts ELSE {}])
    /\ UNCHANGED <<sessionVars, storeVars, lockVars, core, left, overruled>>

\* ... and write the list with one more.  The write goes to the revision by its
\* ID: one that was superseded meanwhile takes the artifact with it.
LinkArtifact(c) ==
    LET id == work[c].now IN
    /\ At(c, {"remember", "infer"}, "linking")
    /\ memory' = IF IsCurrent(memory, id)
                 THEN [memory EXCEPT ![id[1]].artifacts = work[c].seen \cup {c}] ELSE memory
    /\ Goto(c, "link", [work[c] EXCEPT !.links = @ \ {id}, !.now = None])
    /\ UNCHANGED <<sessionVars, saved, linked, lockVars, core, left, overruled>>

Linked(c) ==
    /\ At(c, {"remember", "infer"}, "link")
    /\ work[c].links = {}
    /\ Step(c, AfterArtifact(c))
    /\ UNCHANGED <<sessionVars, storeVars, lockVars, core, left, overruled>>

----------------------------------------------------------------------------
(* The calls without inference.                                            *)

\* _add_direct.  Its artifact is stored first and named by the new row; if it
\* cannot be stored the answer is an error.
AddDirect(c) ==
    LET j == JobOf[c] IN
    /\ At(c, {"direct"}, "idle")
    /\ \/ \E f \in j.speaks :
            /\ memory' = [memory EXCEPT ![LineageOf[c][f]] =
                   Inserted(f, j.user, j.owner, j.agent, "consolidated", FALSE,
                            IF j.long THEN {c} ELSE {}, now)]
            /\ saved' = IF j.long THEN saved \cup {c} ELSE saved
            /\ Goto(c, "invalidate",
                    [work[c] EXCEPT !.results = {Result(<<LineageOf[c][f], 1>>, "ADD")}])
       \/ j.long /\ May(c, "artifact") /\ Step(c, "invalidate") /\ UNCHANGED <<memory, saved>>
       \/ May(c, "embed") /\ End(c, "failed") /\ UNCHANGED <<memory, saved>>
    /\ UNCHANGED <<sessionVars, linked, lockVars, core, left, overruled>>

\* update_memory, under the lock of the memory.
Update(c) ==
    LET j == JobOf[c]
        m == j.target
    IN
    /\ At(c, {"update"}, "change")
    /\ IF Active(memory[m])
       THEN /\ \E f \in j.speaks :
                   memory' = [memory EXCEPT ![m].rev = @ + 1, ![m].text = f]
            /\ Goto(c, "release", [work[c] EXCEPT
                    !.results = {Result(<<m, memory[m].rev + 1>>, "UPDATE")}])
       ELSE Fail(c) /\ UNCHANGED memory
    /\ UNCHANGED <<sessionVars, saved, linked, lockVars, core, left, overruled>>

\* delete_memory, under the same lock.
Delete(c) ==
    LET m == JobOf[c].target IN
    /\ At(c, {"delete"}, "change")
    /\ IF Active(memory[m])
       THEN /\ memory' = [memory EXCEPT ![m].state = "retracted"]
            /\ Goto(c, "release",
                    [work[c] EXCEPT !.results = {Result(Id(memory, m), "DELETE")}])
       ELSE Fail(c) /\ UNCHANGED memory
    /\ UNCHANGED <<sessionVars, saved, linked, lockVars, core, left, overruled>>

----------------------------------------------------------------------------
(* After the lock: caches, and the session once more.                      *)

\* invalidate_prefix: the entries of the user, whoever they are for.
Invalidated(p, user) == {e \in core[p] : e.key[1] # user}

\* Mutant: nothing is invalidated.
InvalidateNothing(c) ==
    LET j == JobOf[c] IN
    /\ At(c, Writing, "invalidate")
    /\ IF j.op = "remember" /\ j.session # None THEN Step(c, "touch") ELSE End(c, "ok")
    /\ UNCHANGED <<sessionVars, storeVars, lockVars, core, left, overruled>>

Invalidate(c) ==
    LET j == JobOf[c] IN
    /\ At(c, Writing, "invalidate")
    /\ core' = [core EXCEPT ![j.proc] = Invalidated(j.proc, j.user)]
    /\ IF j.op = "remember" /\ j.session # None THEN Step(c, "touch") ELSE End(c, "ok")
    /\ UNCHANGED <<sessionVars, storeVars, lockVars, left, overruled>>

\* _process_remember: the session lives on, and knows what was stored for it.
Prolong(c) ==
    /\ At(c, {"remember"}, "touch")
    /\ Touch(JobOf[c].proc, JobOf[c].session)
    /\ Step(c, "known")
    /\ UNCHANGED <<storeVars, lockVars, core, left, overruled>>

\* Mutant: only new memories are known, not those that were updated.
TrackAdded(c) ==
    LET j == JobOf[c] IN
    /\ At(c, {"remember"}, "known")
    /\ AddKnown(j.proc, j.session,
                {r.id : r \in {x \in work[c].results : x.event = "ADD"}})
    /\ End(c, "ok")
    /\ UNCHANGED <<storeVars, lockVars, core, left, overruled>>

Track(c) ==
    LET j == JobOf[c] IN
    /\ At(c, {"remember"}, "known")
    /\ AddKnown(j.proc, j.session, {r.id : r \in work[c].results})
    /\ End(c, "ok")
    /\ UNCHANGED <<storeVars, lockVars, core, left, overruled>>

\* A process ends and starts again: what it was doing is lost.
Restart(p) ==
    /\ p \in left.restarts
    /\ left' = [left EXCEPT !.restarts = @ \ {p}]
    /\ DropCache(p)
    /\ core' = [core EXCEPT ![p] = {}] /\ locks' = [locks EXCEPT ![p] = <<>>]
    /\ holder' = [c \in Call |-> IF JobOf[c].proc = p THEN None ELSE holder[c]]
    /\ LET lost == {c \in Call : JobOf[c].proc = p /\ ~Finished(c) /\ pc[c] # "idle"} IN
       /\ pc' = [c \in Call |-> IF c \in lost THEN "done" ELSE pc[c]]
       /\ reply' = [c \in Call |-> IF c \in lost THEN "lost" ELSE reply[c]]
    /\ UNCHANGED <<backend, now, storeVars, work, ended, overruled>>

Writes(c) ==
    \/ GetLock(c) \/ Acquire(c) \/ Extract(c) \/ Plan(c) \/ Infer(c)
    \/ Act(c) \/ Revise(c) \/ Acted(c)
    \/ RecordFacts(c) \/ AppendTurn(c) \/ ReadSummary(c) \/ Compact(c) \/ WriteRow(c)
    \/ SaveArtifact(c) \/ ReadArtifacts(c) \/ LinkArtifact(c) \/ Linked(c)
    \/ AddDirect(c) \/ Update(c) \/ Delete(c)
    \/ Release(c) \/ Invalidate(c) \/ Prolong(c) \/ Track(c)

----------------------------------------------------------------------------
(* Properties of the calls that store.                                     *)

\* A fact is stored once: two raw memories of one user and owner never say
\* something about the same topic, unexpired, where one caller sees both (the lock and the
\* candidates of remember, memory.py:683 and 1311).
NoDuplicateFact ==
    \A m, n \in Lineage :
        LET r == memory[m]
            s == memory[n]
        IN
        (m # n /\ Active(r) /\ Active(s) /\ ~Expired(r, now) /\ ~Expired(s, now)) =>
            ~ /\ r.layer = "raw" /\ s.layer = "raw"
              /\ r.user = s.user /\ r.owner = s.owner
              /\ r.agent = s.agent \/ None \in {r.agent, s.agent}
              /\ TopicOf[r.text] = TopicOf[s.text]

\* A turn that was remembered stays in the summary of its conversation as long
\* as the session lives (_update_session_context and _compact_summary read the
\* summary before they replace it, memory.py:1607).
NoTurnLost ==
    \A c \in Call :
        (JobOf[c].op = "remember" /\ JobOf[c].session # None
            /\ reply[c] = "ok" /\ work[c].sums
            /\ Alive(Held(JobOf[c].proc, JobOf[c].session)))
        => c \in Summary(JobOf[c].proc, JobOf[c].session)

\* What the user wrote explicitly is not overwritten by a decision that was
\* made before: where a call of remember or add_memory replaces an update that
\* was acknowledged before its last look at the target, the model had seen that
\* update (_is_valid_inferred_target, memory.py:2339).
EditSurvives ==
    \A o \in overruled : \A d \in o.basis :
        o.id \in {r.id : r \in work[d].results} => o.planned = o.id

===============================================================================
