----------------------------- MODULE MemoryStore -----------------------------
(***************************************************************************)
(* What the queries of mnemory/storage/vector.py see of the memories, and  *)
(* the arithmetic of mnemory/ttl.py, as operators on a memory store: a      *)
(* function from lineages to the row of their current revision.            *)
(*                                                                         *)
(* Relevance is abstract: a query may miss any memory it is allowed to see *)
(* (limits, thresholds, ranking), except that memories of one topic are    *)
(* near enough to be candidates for each other.                            *)
(***************************************************************************)
EXTENDS Integers, FiniteSets

CONSTANTS
    None,     \* no agent, no owner, no session, no expiry
    TopicOf,  \* the topic of each fact: facts of one topic replace one another
    RoleOf,   \* "user" or "assistant"
    TTLOf     \* the default ttl_days of its type, or None

NoRow == [state |-> "absent"]

Stored(r) == r.state # "absent"

----------------------------------------------------------------------------
(* Filters.                                                                *)

\* _active_revision_condition.  A row without a state counts as active.
Active(r) == r.state = "active"

\* _build_owner_scope_condition: rows without an owner belong to their user.
Owned(r, user, owner) ==
    IF owner = None THEN r.user = user
    ELSE r.owner = owner \/ (r.owner = None /\ r.user = owner)

\* A query: whose memories, about whom, of which agent.
InScope(r, q) ==
    /\ Active(r)
    /\ Owned(r, q.user, q.owner)
    /\ q.subject # None => r.user = q.subject
    /\ IF q.agent # None THEN r.agent = q.agent ELSE q.shared => r.agent = None

\* is_expired: pinned memories do not expire.
Expired(r, t) == ~r.pinned /\ r.expires # None /\ t >= r.expires

\* should_exclude.
Excluded(r, t) == Expired(r, t) \/ r.decayed

\* search, by its filters.
Search(memory, q, includeDecayed, t) ==
    {m \in DOMAIN memory : InScope(memory[m], q)
                           /\ (includeDecayed \/ ~Expired(memory[m], t))}

\* search_similar.
Similar(memory, q, excludeLayers, t) ==
    {m \in Search(memory, q, FALSE, t) : memory[m].layer \notin excludeLayers}

\* get_all with the filter on pinned; an expired memory passes.
GetAll(memory, q, pinned, excludeLayers) ==
    {m \in DOMAIN memory :
        /\ InScope(memory[m], q) /\ memory[m].pinned = pinned
        /\ memory[m].layer \notin excludeLayers}

\* get_pinned_memories: those of the agent and those of no agent.
GetPinned(memory, q, excludeLayers) ==
    {m \in GetAll(memory, [q EXCEPT !.agent = None], TRUE, excludeLayers) :
        q.agent # None => memory[m].agent \in {None, q.agent}}

\* get_recent_memories: every memory is recent; no agent asks for the shared ones.
GetRecent(memory, q, excludeLayers) ==
    {m \in DOMAIN memory :
        /\ InScope(memory[m], [q EXCEPT !.shared = TRUE])
        /\ memory[m].layer \notin excludeLayers}

\* The ID of the current revision of a lineage; the row of a revision by its
\* ID, as long as it is the current one.
Id(memory, m) == <<m, memory[m].rev>>
IsCurrent(memory, id) == Stored(memory[id[1]]) /\ memory[id[1]].rev = id[2]

----------------------------------------------------------------------------
(* Expiry.                                                                 *)

\* calculate_expiration.
Expiration(ttl, t) == IF ttl = None THEN None ELSE t + ttl

\* build_expiry_metadata, and the row insert makes of a new memory.
Inserted(fact, user, owner, agent, layer, pinned, artifacts, t) ==
    [state |-> "active", rev |-> 1, text |-> fact, user |-> user, owner |-> owner,
     agent |-> agent, layer |-> layer, pinned |-> pinned, artifacts |-> artifacts,
     ttl |-> TTLOf[fact], expires |-> Expiration(TTLOf[fact], t), decayed |-> FALSE]

\* build_reinforcement_metadata for a copy of a row, written to the row.  The
\* counter of accesses is left out.
Reinforced(r, copy, t) ==
    IF copy.ttl = None THEN r
    ELSE [r EXCEPT !.expires = Expiration(copy.ttl, t),
                   !.decayed = IF copy.decayed THEN FALSE ELSE @]

----------------------------------------------------------------------------
(* The queries of one caller.                                              *)

Query(j, subject, agent, shared) ==
    [user |-> j.user, owner |-> j.owner, subject |-> subject, agent |-> agent,
     shared |-> shared]

\* Deduplication looks in the scope of the agent and, for the owner of the
\* agent, in the shared memories.
DedupQueries(j) ==
    {Query(j, j.user, j.agent, FALSE)}
        \cup IF j.agent # None /\ j.owner = j.user
             THEN {Query(j, None, None, TRUE)} ELSE {}

Candidates(memory, j, excludeLayers, t) ==
    UNION {Similar(memory, q, excludeLayers, t) : q \in DedupQueries(j)}

\* search_memories: a caller of no agent sees all of its own.
OneScope(memory, j, includeDecayed, t) ==
    Search(memory, Query(j, None, None, FALSE), includeDecayed, t)

Assistant(memory, ms) == {m \in ms : RoleOf[memory[m].text] = "assistant"}

\* search_memories_dual_scope: what the caller told the agent, and the memories of
\* no agent; a grantee sees the assistant memories of the owner instead.
DualScope(memory, j, includeDecayed, t) ==
    Search(memory, Query(j, j.user, j.agent, FALSE), includeDecayed, t) \cup
    IF j.owner = j.user
    THEN Search(memory, Query(j, None, None, TRUE), includeDecayed, t)
    ELSE Assistant(memory, Search(memory, Query(j, j.owner, j.agent, FALSE), includeDecayed, t))

Visible(memory, j, includeDecayed, t) ==
    IF j.agent = None THEN OneScope(memory, j, includeDecayed, t)
                      ELSE DualScope(memory, j, includeDecayed, t)

----------------------------------------------------------------------------
(* The three reads of get_core_memories, for the owner of the agent and for *)
(* a grantee; raw memories are not core.                                   *)

\* The query without an owner, as the reads of an owner make it.
Own(j, agent, shared) == [Query(j, None, agent, shared) EXCEPT !.owner = None]

OwnPinned(memory, j) ==
    {m \in GetPinned(memory, Own(j, None, FALSE), {"raw"}) :
        memory[m].agent \in {None, j.agent}}

SharedPinned(memory, j) ==
    Assistant(memory, GetPinned(memory, Query(j, j.owner, j.agent, FALSE), {"raw"}))

OwnTop(memory, j) ==
    UNION {GetAll(memory, Own(j, a, TRUE), FALSE, {"raw"}) : a \in {None, j.agent}}

SharedTop(memory, j) ==
    Assistant(memory, GetAll(memory, Query(j, j.owner, j.agent, FALSE), FALSE, {"raw"}))

OwnRecent(memory, j) ==
    UNION {GetRecent(memory, Own(j, a, TRUE), {"raw"}) : a \in {None, j.agent}}

SharedRecent(memory, j) == GetRecent(memory, Query(j, j.user, j.agent, FALSE), {"raw"})

\* One part of the core memories; pinned ones are there whatever their expiry.
CorePart(memory, part, j, t) ==
    LET own == j.owner = j.user
        shown == CASE part = "pinned" -> IF own THEN OwnPinned(memory, j)
                                         ELSE SharedPinned(memory, j)
                   [] part = "top" -> IF own THEN OwnTop(memory, j) ELSE SharedTop(memory, j)
                   [] part = "recent" -> IF own THEN OwnRecent(memory, j)
                                         ELSE SharedRecent(memory, j)
    IN {m \in shown : part # "pinned" => ~Excluded(memory[m], t)}
===============================================================================
