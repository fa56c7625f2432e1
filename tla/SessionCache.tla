---------------------------- MODULE SessionCache ----------------------------
(***************************************************************************)
(* The memory sessions of mnemory/session.py and mnemory/storage/session.py *)
(* in one or several server processes: a cache per process, written through *)
(* to one backend, filled from it on a miss.                                *)
(*                                                                         *)
(* Every operation of SessionStore holds the lock of its process from its  *)
(* lookup to its save, so it is one step; only the sweep is two.           *)
(***************************************************************************)
EXTENDS Integers, Sequences, FiniteSets

CONSTANTS
    Proc,        \* server processes, each with a SessionStore
    Session,     \* session IDs
    Revision,    \* memory revisions a session can know
    Fact,        \* fact texts that can be extracted in it
    Turn,        \* turns of a conversation, each with a summary
    IdleTTL,     \* ttl_seconds
    MaxFacts,    \* REMEMBER_MAX_SESSION_MEMORIES
    Persistent,  \* TRUE for the SQLite and Redis backends
    Unsaved      \* the processes whose writes to the backend may fail

ASSUME SessionAssumption ==
    /\ IdleTTL \in Nat /\ MaxFacts \in Nat \ {0}
    /\ Persistent \in BOOLEAN /\ Unsaved \subseteq Proc

VARIABLES
    backend,  \* the stored sessions
    cached,   \* the sessions in the cache of each process
    now       \* the clock

sessionVars == <<backend, cached, now>>

\* `summary` is the set of turns that the conversation summary accounts for:
\* compaction shortens the text and keeps what it is about.
Record == [touched: Nat, known: SUBSET Revision, facts: Seq(Fact),
           summary: SUBSET Turn]
Gone == [touched |-> -1, known |-> {}, facts |-> <<>>, summary |-> {}]

SessionsTypeOK ==
    /\ backend \in [Session -> Record \cup {Gone}]
    /\ cached \in [Proc -> [Session -> Record \cup {Gone}]]
    /\ now \in Nat

Idle(r) == now - r.touched > IdleTTL
Alive(r) == r # Gone /\ ~Idle(r)

----------------------------------------------------------------------------
\* _load_from_backend, as the value it puts into the cache ...
Loaded(s) == IF Alive(backend[s]) THEN backend[s] ELSE Gone
\* ... and what it leaves in the backend.
AfterLoad(s) == IF Alive(backend[s]) THEN backend ELSE [backend EXCEPT ![s] = Gone]

\* Mutant: the backend answers before the cache.
StoreFirst(p, s) == Loaded(s)

\* The session an operation of process p works on, and the backend then.
Held(p, s) == IF cached[p][s] # Gone THEN cached[p][s] ELSE Loaded(s)
BackendThen(p, s) == IF cached[p][s] # Gone THEN backend ELSE AfterLoad(s)

\* _persist: the backend after the session was written, if it could be.
Saved(p, stored, s, r) ==
    {IF Persistent THEN [stored EXCEPT ![s] = r] ELSE stored}
        \cup (IF p \in Unsaved THEN {stored} ELSE {})

\* create.
CreateSession(p, s) ==
    LET new == [touched |-> now, known |-> {}, facts |-> <<>>, summary |-> {}] IN
    /\ cached' = [cached EXCEPT ![p][s] = new]
    /\ backend' \in Saved(p, backend, s, new)
    /\ UNCHANGED now

\* get: an idle session is removed from the cache and the backend.
GetSession(p, s) ==
    LET r == Held(p, s) IN
    /\ cached' = [cached EXCEPT ![p][s] = IF Alive(r) THEN r ELSE Gone]
    /\ backend' = IF cached[p][s] # Gone /\ Idle(cached[p][s])
                  THEN [backend EXCEPT ![s] = Gone] ELSE BackendThen(p, s)
    /\ UNCHANGED now

\* The shape of every change: a session that is missing or idle is left alone.
Changed(p, s, new) ==
    LET r == Held(p, s) IN
    /\ cached' = [cached EXCEPT ![p][s] = IF Alive(r) THEN new ELSE r]
    /\ IF Alive(r) THEN backend' \in Saved(p, BackendThen(p, s), s, new)
                   ELSE backend' = BackendThen(p, s)
    /\ UNCHANGED now

\* touch.
Touch(p, s) == Changed(p, s, [Held(p, s) EXCEPT !.touched = now])

\* The cap of 10000 known IDs is not reached.
AddKnown(p, s, ids) ==
    IF ids = {} THEN UNCHANGED sessionVars
    ELSE Changed(p, s, [Held(p, s) EXCEPT !.known = @ \cup ids])

\* The last n of a sequence.
Latest(seq, n) == IF Len(seq) <= n THEN seq ELSE SubSeq(seq, Len(seq) - n + 1, Len(seq))

AddExtracted(p, s, texts) ==
    IF texts = <<>> THEN UNCHANGED sessionVars
    ELSE Changed(p, s, [Held(p, s) EXCEPT !.facts = Latest(@ \o texts, MaxFacts)])

AppendSummary(p, s, turns) ==
    Changed(p, s, [Held(p, s) EXCEPT !.summary = @ \cup turns])

SetSummary(p, s, turns) == Changed(p, s, [Held(p, s) EXCEPT !.summary = turns])

\* get_known_ids and get_remember_context: nothing of a missing or idle session.
KnownIds(p, s) == IF Alive(Held(p, s)) THEN Held(p, s).known ELSE {}
Summary(p, s) == IF Alive(Held(p, s)) THEN Held(p, s).summary ELSE {}
Extracted(p, s) ==
    IF Alive(Held(p, s)) THEN {Held(p, s).facts[i] : i \in DOMAIN Held(p, s).facts}
    ELSE {}

\* A read leaves the session in the cache when it had to be loaded.
ReadSession(p, s) ==
    /\ cached' = [cached EXCEPT ![p][s] = Held(p, s)]
    /\ backend' = BackendThen(p, s)
    /\ UNCHANGED now

----------------------------------------------------------------------------
\* _sweep: first the cache, under the lock, then the backend, outside it.
\* A Redis key ends by itself, some time after the session did.
SweepCache(p) ==
    /\ \E s \in Session : cached[p][s] # Gone /\ Idle(cached[p][s])
    /\ cached' = [cached EXCEPT ![p] =
           [s \in Session |-> IF Idle(@[s]) THEN Gone ELSE @[s]]]
    /\ UNCHANGED <<backend, now>>

SweepBackend ==
    /\ \E s \in Session : backend[s] # Gone /\ Idle(backend[s])
    /\ backend' = [s \in Session |-> IF Idle(backend[s]) THEN Gone ELSE backend[s]]
    /\ UNCHANGED <<cached, now>>

\* A process restarts: close, and an empty cache.
DropCache(p) == cached' = [cached EXCEPT ![p] = [s \in Session |-> Gone]]
===============================================================================
