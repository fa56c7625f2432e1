---------------------------- MODULE RecallPipeline ----------------------------
(***************************************************************************)
(* The calls of mnemory that read memories, together with those that store *)
(* them: recall (api/recall.py), which opens or continues a session,       *)
(* get_core_memories with its cache, search with decayed memories, and the *)
(* tracking of what was delivered.                                         *)
(***************************************************************************)
EXTENDS UserEvents

VARIABLE view  \* what each reading call has seen

vars == <<pipelineVars, eventVars, view>>

\* session: the session the call works with.  reads: the reads to come.
\* core, hits: the IDs read.  entry: the cache entry that answered.
\* kept: the session was still alive when its known IDs were read.
\* new: the search results delivered.  copies: rows read to be tracked.
\* told: the writers that were done when the call began; at: when it had the core.
NoView == [session |-> None, reads |-> <<>>, core |-> {},
           entry |-> None, hits |-> {}, known |-> {}, kept |-> FALSE,
           new |-> {}, copies |-> {}, told |-> {}, at |-> 0]

Init ==
    /\ PipelineInit /\ EventsInit
    /\ view = [c \in Call |-> NoView]

Reading == {"recall", "core", "search"}

Look(c, phase, v) ==
    /\ pc' = [pc EXCEPT ![c] = phase]
    /\ view' = [view EXCEPT ![c] = v]
    /\ UNCHANGED <<work, reply, ended>>

Answer(c, v) ==
    /\ End(c, "ok")
    /\ view' = [view EXCEPT ![c] = v]

quiet == <<storeVars, lockVars, left, overruled, eventVars>>

Done(op) == {d \in Call : reply[d] = "ok" /\ JobOf[d].op \in op}

----------------------------------------------------------------------------
(* The session of a recall.                                                *)

Begin(c) ==
    LET j == JobOf[c]
        found == j.session # None /\ Alive(Held(j.proc, j.session))
    IN
    /\ At(c, {"recall"}, "idle")
    /\ IF j.session = None THEN UNCHANGED sessionVars ELSE GetSession(j.proc, j.session)
    /\ Look(c, IF found THEN "prolong" ELSE "create",
            [NoView EXCEPT !.session = IF found THEN j.session ELSE j.fresh,
                           !.told = Done(Writing)])
    /\ UNCHANGED <<quiet, core>>

\* Where a call goes after the session is settled, or after the core.
AfterCore(c) == IF JobOf[c].speaks # {} THEN "known" ELSE "track"

ProlongSession(c) ==
    LET s == view[c].session IN
    /\ At(c, {"recall"}, "prolong")
    /\ Touch(JobOf[c].proc, s)
    /\ Step(c, AfterCore(c))
    /\ UNCHANGED <<quiet, core, view>>

OpenSession(c) ==
    LET s == view[c].session IN
    /\ At(c, {"recall"}, "create")
    /\ CreateSession(JobOf[c].proc, s)
    /\ Step(c, "cache")
    /\ UNCHANGED <<quiet, core, view>>

----------------------------------------------------------------------------
(* get_core_memories.                                                      *)

CacheKey(j) == <<j.user, j.owner, j.agent>>

\* Mutant: an entry is served as long as it is there.
FreshFor(p, key) == {e \in core[p] : e.key = key}

\* TTLCache.get.
Fresh(p, key) == {e \in core[p] : e.key = key /\ now - e.at <= CacheTTL}

ReadCache(c) ==
    LET j == JobOf[c]
        hit == Fresh(j.proc, CacheKey(j))
        began == IF j.op = "core" THEN Done(Writing) ELSE view[c].told
    IN
    /\ At(c, {"recall"}, "cache") \/ At(c, {"core"}, "idle")
    /\ core' = [core EXCEPT ![j.proc] = {e \in @ : now - e.at <= CacheTTL}]
    /\ IF hit # {}
       THEN \E e \in hit : Look(c, "deliver",
                [view[c] EXCEPT !.told = began, !.entry = e, !.core = e.ids, !.at = now])
       ELSE Look(c, "read", [view[c] EXCEPT !.told = began,
                                            !.reads = <<"pinned", "top", "recent">>])
    /\ UNCHANGED <<quiet, sessionVars>>

\* The pinned memories, the most important others, the recent ones: each read
\* sees the memories as they are then.  A recall goes on without the core when
\* one fails.
ReadCore(c) ==
    LET j == JobOf[c]
        v == view[c]
    IN
    /\ At(c, {"recall", "core"}, "read")
    /\ \/ /\ v.reads # <<>>
          /\ Look(c, "read", [v EXCEPT !.reads = Tail(@), !.core = @ \cup
                      {Id(memory, m) : m \in CorePart(memory, Head(v.reads), j, now)}])
       \/ /\ May(c, "core") /\ v.reads # <<>>
          /\ IF j.op = "recall" THEN Look(c, AfterCore(c), [v EXCEPT !.core = {}])
                                ELSE End(c, "failed") /\ UNCHANGED view
    /\ UNCHANGED <<quiet, sessionVars, core>>

\* TTLCache.set.
FillCache(c) ==
    LET j == JobOf[c]
        entry == [key |-> CacheKey(j), ids |-> view[c].core, at |-> now,
                  began |-> view[c].told, set |-> Done(Writing)]
    IN
    /\ At(c, {"recall", "core"}, "read")
    /\ view[c].reads = <<>>
    /\ core' = [core EXCEPT ![j.proc] = {e \in @ : e.key # entry.key} \cup {entry}]
    /\ Look(c, "deliver", [view[c] EXCEPT !.entry = entry, !.at = now])
    /\ UNCHANGED <<quiet, sessionVars>>

\* The text is delivered; a recall remembers what is in it.
DeliverCore(c) ==
    LET j == JobOf[c] IN
    /\ At(c, {"recall", "core"}, "deliver")
    /\ IF j.op = "recall"
       THEN AddKnown(j.proc, view[c].session, view[c].core) /\ Step(c, AfterCore(c))
       ELSE UNCHANGED sessionVars /\ Step(c, "track")
    /\ UNCHANGED <<quiet, core, view>>

----------------------------------------------------------------------------
(* The search of a recall, and what is new in its results.                 *)

ReadKnown(c) ==
    LET j == JobOf[c] IN
    /\ At(c, {"recall"}, "known")
    /\ ReadSession(j.proc, view[c].session)
    /\ Look(c, "find", [view[c] EXCEPT !.known = KnownIds(j.proc, view[c].session),
                !.kept = Alive(Held(j.proc, view[c].session)),
                !.reads = IF j.finds THEN <<"query", "query">> ELSE <<"query">>])
    /\ UNCHANGED <<quiet, core>>

\* The results of one query, merged with those of the others by ID.
Merged(v, ms) == [v EXCEPT !.reads = Tail(@), !.hits = @ \cup {Id(memory, m) : m \in ms}]

\* find_memories runs several queries side by side; where it fails, one plain
\* search takes its place.  A query that fails has
\* no results.
Find(c) ==
    LET j == JobOf[c]
        v == view[c]
    IN
    /\ At(c, {"recall"}, "find")
    /\ v.reads # <<>>
    /\ \/ Look(c, "find", Merged(v, Visible(memory, j, FALSE, now)))
       \/ May(c, "query") /\ Look(c, "find", [v EXCEPT !.reads = Tail(@)])
       \/ May(c, "find") /\ Look(c, "find", [v EXCEPT !.reads = <<"query">>, !.hits = {}])
    /\ UNCHANGED <<quiet, sessionVars, core>>


\* Thresholds, limits and ranking choose among the results; those known to the
\* session are left out.
Deliver(c) ==
    LET v == view[c] IN
    /\ At(c, {"recall"}, "find") /\ v.reads = <<>>
    /\ \E results \in SUBSET v.hits :
         /\ AddKnown(JobOf[c].proc, v.session, results \ v.known)
         /\ Look(c, "track", [v EXCEPT !.new = results \ v.known, !.hits = {}])
    /\ UNCHANGED <<quiet, core>>

----------------------------------------------------------------------------
(* Tracking: read the delivered revisions, then write their expiry.        *)

Copy(id) == [id |-> id, ttl |-> memory[id[1]].ttl, decayed |-> memory[id[1]].decayed]

ReadDelivered(c) ==
    LET ids == {id \in view[c].core \cup view[c].new : IsCurrent(memory, id)} IN
    /\ At(c, {"recall", "core"}, "track")
    /\ Look(c, "tracking", [view[c] EXCEPT !.copies = {Copy(id) : id \in ids}])
    /\ UNCHANGED <<quiet, sessionVars, core>>

\* search_memories with include_decayed: the results ...
SearchDecayed(c) ==
    /\ At(c, {"search"}, "idle")
    /\ Look(c, "mark", [view[c] EXCEPT !.copies =
           {Copy(Id(memory, m)) : m \in Visible(memory, JobOf[c], TRUE, now)}])
    /\ UNCHANGED <<quiet, sessionVars, core>>

\* ... are marked where they expired, in the store and not in the results ...
MarkDecayed(c) ==
    LET marked == {x.id[1] : x \in {y \in view[c].copies : ~y.decayed
                      /\ IsCurrent(memory, y.id) /\ Expired(memory[y.id[1]], now)}} IN
    /\ At(c, {"search"}, "mark")
    /\ memory' = [m \in Lineage |-> IF m \in marked THEN [memory[m] EXCEPT !.decayed = TRUE]
                                    ELSE memory[m]]
    /\ Step(c, "tracking")
    /\ UNCHANGED <<saved, linked, lockVars, left, overruled, sessionVars, core, view,
                   eventVars>>

\* ... and _track_access prolongs them, by what the results said.
TrackAccess(c) ==
    LET copies == {x \in view[c].copies : IsCurrent(memory, x.id)} IN
    /\ At(c, Reading, "tracking")
    /\ memory' = [m \in Lineage |->
           IF \E x \in copies : x.id[1] = m
           THEN Reinforced(memory[m], CHOOSE x \in copies : x.id[1] = m, now)
           ELSE memory[m]]
    /\ Answer(c, [view[c] EXCEPT !.copies = {}])
    /\ UNCHANGED <<saved, linked, lockVars, left, overruled, sessionVars, core, eventVars>>

----------------------------------------------------------------------------
(* Time, and the next-state relation.                                      *)

\* The reads of one fill take no time to speak of.
Tick ==
    /\ left.ticks > 0 /\ \A c \in Call : pc[c] # "read"
    /\ now' = now + 1
    /\ left' = [left EXCEPT !.ticks = @ - 1]
    /\ UNCHANGED <<backend, cached, storeVars, lockVars, core, flow, overruled, view,
                   eventVars>>

Reads(c) ==
    \/ Begin(c) \/ ProlongSession(c) \/ OpenSession(c)
    \/ ReadCache(c) \/ ReadCore(c) \/ FillCache(c) \/ DeliverCore(c)
    \/ ReadKnown(c) \/ Find(c) \/ Deliver(c)
    \/ ReadDelivered(c) \/ SearchDecayed(c) \/ MarkDecayed(c) \/ TrackAccess(c)

Stores(c) ==
    /\ \/ Writes(c) /\ UNCHANGED eventVars
       \/ Ingests(c)
    /\ UNCHANGED view

Sweep ==
    /\ SweepBackend \/ \E p \in Proc : SweepCache(p)
    /\ UNCHANGED <<quiet, core, flow, view>>

Answering == \E c \in Call : ~Finished(c) /\ (Reads(c) \/ Stores(c))

Next ==
    \/ Answering
    \/ \E p \in Proc : Restart(p) /\ UNCHANGED <<view, eventVars>>
    \/ Sweep
    \/ Tick
    \/ Lapse /\ UNCHANGED view

\* Requests are served by threads of their own: while one can go on, one does.  A
\* lease that nobody renews ends.
Spec == Init /\ [][Next]_vars /\ WF_vars(Answering) /\ WF_vars(Lapse /\ UNCHANGED view)

----------------------------------------------------------------------------
(* Hypotheses on the calls of a run.                                       *)

\* A memory that a call of the run edits is not one that a call of the run starts:
\* told again after a deletion, it starts anew, at its first revision.
Edit == {d \in Call : JobOf[d].op \in {"update", "delete"}}
Telling == {c \in Call : JobOf[c].op \in {"remember", "infer", "direct", "ingest"}}
Started == UNION {{LineageOf[c][f] : f \in JobOf[c].speaks} : c \in Telling}
EditsAreNotRetold == \A d \in Edit : JobOf[d].target \in Lineage \ Started

\* Sessions are stored, one process serves the calls of a session, and a process
\* that may fail to save one does not restart.
SessionsOf(c) ==
    IF JobOf[c].op \in {"remember", "recall"} THEN {JobOf[c].session, JobOf[c].fresh} ELSE {}
SessionsAtHome ==
    /\ Persistent
    /\ \A sc \in Scenarios :
         /\ sc.restarts \cap Unsaved = {}
         /\ \A c, d \in sc.calls :
               SessionsOf(c) \cap SessionsOf(d) \cap Session # {} => JobOf[c].proc = JobOf[d].proc

----------------------------------------------------------------------------
(* Properties.                                                             *)

\* Every call is answered, whatever fails and whoever holds a lock (the with
\* blocks of memory.py:683, 5072 and 5166).
EveryCallEnds == <>[](\A c \in Call : Finished(c))

\* The revision that an update or a deletion took away.
Removed(d) ==
    {IF JobOf[d].op = "delete" THEN r.id ELSE <<r.id[1], r.id[2] - 1>> :
        r \in work[d].results}

Changes == Done({"update", "delete"})

\* A user who changed or deleted a memory does not find the old one in the core
\* memories, unless they were read while it changed (invalidate_prefix after the
\* change, memory.py:5083 and 5174).
FreshCore ==
    \A d \in Changes, c \in Call :
        (/\ view[c].entry # None /\ d \in view[c].told
         /\ JobOf[c].proc = JobOf[d].proc /\ JobOf[c].user = JobOf[d].user
         /\ Removed(d) \cap view[c].entry.ids # {})
        => d \in view[c].entry.set /\ d \notin view[c].entry.began

\* Whoever reads, and in whatever process, does so for the time to live of the
\* cache at most (TTLCache, cache.py:44).
StaleCoreEnds ==
    \A d \in Changes, c \in Call :
        (view[c].entry # None /\ d \in view[c].told /\ Removed(d) \cap view[c].entry.ids # {})
        => view[c].at - ended[d] <= CacheTTL

\* A replica that has a session alive in its cache keeps it, and what it knows, until
\* it restarts or opens it anew: whatever other replicas do to the stored session, and
\* whether or not its own writes reach the store (SessionStore.get and the others, which
\* ask the backend for what the cache lacks only, session.py:203 and 229).
Opens(p, s) == \E c \in Call : JobOf[c].proc = p /\ view[c].session = s /\ OpenSession(c)
KeepsCopy(p, s) ==
    /\ cached'[p][s] # Gone
    /\ cached'[p][s].touched >= cached[p][s].touched
    /\ cached[p][s].known \subseteq cached'[p][s].known
LiveCopyKept ==
    [][\A p \in Proc, s \in Session :
          (Alive(cached[p][s]) /\ ~Restart(p) /\ ~Opens(p, s)) => KeepsCopy(p, s)]_vars

\* What a client said is not recalled to it in the same session, once it was
\* processed (_process_remember, api/remember.py:141).
EchoSuppressed ==
    \A c \in Call : \A d \in JobOf[c].after :
        (JobOf[c].op = "recall" /\ JobOf[d].op = "remember"
            /\ view[c].kept /\ view[c].session = JobOf[d].session /\ reply[d] = "ok")
        => view[c].new \cap {r.id : r \in work[d].results} = {}
===============================================================================
