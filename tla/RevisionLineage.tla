--------------------------- MODULE RevisionLineage ---------------------------
(***************************************************************************)
(* One memory lineage of mnemory/revisions.py: its revisions, stored as    *)
(* Qdrant points, the operation journal, and the calls that change them    *)
(* concurrently: revise, retract, mark_source and the reader `current`,    *)
(* with the recovery each of them runs on a claim it finds.                *)
(*                                                                         *)
(* Every write to Qdrant is one step.  Reads that follow one another with  *)
(* no write in between are made in one step; what is read is then held in  *)
(* call-local state and used, possibly stale, by the later steps.          *)
(***************************************************************************)
EXTENDS Integers, FiniteSets

CONSTANTS
    Call,        \* the invocations of the service; each runs once
    Token,       \* transition tokens: fingerprints of (key hash, request)
    Root,        \* the point ID of revision 1, which is the lineage ID
    None,        \* an empty payload field
    KeyHash,     \* idempotency key hashes
    Request,     \* request fingerprints
    Artifact,    \* artifact IDs
    Evidence,    \* evidence root IDs
    KindOf,      \* the service method a call invokes
    RequestOf,   \* the request fingerprint of a call
    ExpectedOf,  \* expected_revision of a call, 0 when the caller gives none
    TokenOf,     \* the token a call derives when its base revision is p
    TokenKey,    \* the key hash inside a token
    TokenRequest,\* the request fingerprint inside a token
    After,       \* the calls a client waits for before it issues a call
    Crashing,    \* the calls whose worker may die at any step
    Guarded,     \* the calls that hold a lease, which a mutation guard checks
    RootArtifacts, RootEvidence  \* annotations of revision 1 at the start

\* _successor_point_id maps a token to one point, so a successor revision is
\* named by the token of the operation that creates it.
PointId == Token \cup {Root}
Kind == {"revise", "retract", "source", "read"}

ASSUME ConstantsAssumption ==
    /\ Root \notin Token /\ None \notin PointId
    /\ KindOf \in [Call -> Kind]
    /\ RequestOf \in [Call -> Request]
    /\ ExpectedOf \in [Call -> Nat]
    /\ TokenOf \in [Call -> [PointId -> Token]]
    /\ TokenKey \in [Token -> KeyHash]
    /\ TokenRequest \in [Token -> Request]
    /\ \A c \in Call, p \in PointId : TokenRequest[TokenOf[c][p]] = RequestOf[c]
    /\ After \in [Call -> SUBSET Call]
    /\ Crashing \subseteq Call /\ Guarded \subseteq Call
    /\ RootArtifacts \subseteq Artifact /\ RootEvidence \subseteq Evidence

\* No two calls carry out one operation: no call repeats the request and the
\* key of another.  A hypothesis of theorems, not an assumption of the module.
OwnTokens(c) == {TokenOf[c][p] : p \in PointId}
ExclusiveTokens ==
    \A c, d \in Call : OwnTokens(c) \cap OwnTokens(d) # {} => c = d

VARIABLES
    point,    \* the memories collection, restricted to this lineage
    journal,  \* the _mnemory_operations rows, by token
    pc,       \* where each call is
    loc,      \* what each call remembers of its reads
    reply     \* what each call answered

vars == <<point, journal, pc, loc, reply>>

----------------------------------------------------------------------------
(* Stored data.                                                            *)

State == {"absent", "pending", "active", "superseded", "source",
          "retracted", "aborted"}

\* A revision that readers have been able to see as the memory's content.
Published == {"active", "superseded", "source", "retracted"}

\* The transition_kind of a claim.  An operation_kind of revise other than
\* "update" (a consolidation, a user event) is recovered in the same way.
ClaimKind == {"revise", "retract"}

\* `op` stands for revision_operation_key_hash and _fingerprint: together they
\* identify the token of the operation that created or retracted the revision.
\* `tok` and `kind` are the transition_* fields, the claim on the revision.
\* transition_successor_id of a revise claim is determined by its token.
\* `src` is the revision_operation_id that mark_source leaves.
Payload ==
    [state: State, rev: Nat, sup: PointId \cup {None}, op: Token \cup {None},
     tok: Token \cup {None}, kind: ClaimKind \cup {None},
     src: Token \cup {None},
     arts: SUBSET Artifact, artRev: Nat,
     roots: SUBSET Evidence, consumed: SUBSET Evidence]

AbsentPoint ==
    [state |-> "absent", rev |-> 0, sup |-> None, op |-> None,
     tok |-> None, kind |-> None, src |-> None, arts |-> {}, artRev |-> 0,
     roots |-> {}, consumed |-> {}]

Result == [status: {"none", "updated", "retracted"}, id: PointId \cup {None}]
NoResult == [status |-> "none", id |-> None]

Row == [status: {"none", "prepared", "pending", "claimed", "activated",
                 "committed", "conflict"},
        result: Result]
NoRow == [status |-> "none", result |-> NoResult]

Reply == [status: {"none", "updated", "retracted", "sourced", "read", "stale",
                   "conflict", "incomplete", "idempotency_conflict"},
          id: PointId \cup {None}]

----------------------------------------------------------------------------
(* Call-local data.                                                        *)

\* Where a call stands: the write, or the read that decides the next write,
\* it makes next.
Running == {"recover", "recover_active", "recover_superseded",
            "recover_retracted", "recover_commit", "resolve_again",
            "finish_predecessor", "finish_journal",
            "upsert", "plan", "claim", "readback", "abort", "conflict",
            "activate", "note_activated", "supersede", "note_claimed",
            "withdraw", "commit", "set_source", "check_source"}
Ended == {"done", "crashed"}

\* mem, cur, pay: the memory ID asked for, the revision it resolved to and the
\*   payload read then; heard: all evidence roots read with it in the lineage.
\* tok: the token of the operation the call is carrying out.
\* from, mine, kind: the claimed revision under recovery and its claim.
\* cand: the token whose key hash the replay check after recovery looks up;
\*   None when that check is skipped.
\* left: successors of the same request whose predecessor is not examined yet.
NoLocal ==
    [mem |-> None, cur |-> None, pay |-> AbsentPoint, heard |-> {},
     tok |-> None, from |-> None, mine |-> None, kind |-> None,
     cand |-> None, left |-> {}]

Local ==
    [mem: PointId \cup {None}, cur: PointId \cup {None}, pay: Payload,
     heard: SUBSET Evidence, tok: Token \cup {None},
     from: PointId \cup {None}, mine: Token \cup {None},
     kind: ClaimKind \cup {None}, cand: Token \cup {None},
     left: SUBSET Token]

TypeOK ==
    /\ point \in [PointId -> Payload]
    /\ journal \in [Token -> Row]
    /\ pc \in [Call -> Running \cup Ended \cup {"idle"}]
    /\ loc \in [Call -> Local]
    /\ reply \in [Call -> Reply]

Init ==
    /\ point = [p \in PointId |->
                  IF p = Root
                  THEN [AbsentPoint EXCEPT !.state = "active", !.rev = 1,
                                           !.arts = RootArtifacts,
                                           !.roots = RootEvidence,
                                           !.consumed = RootEvidence]
                  ELSE AbsentPoint]
    /\ journal = [t \in Token |-> NoRow]
    /\ pc = [c \in Call |-> "idle"]
    /\ loc = [c \in Call |-> NoLocal]
    /\ reply = [c \in Call |-> [status |-> "none", id |-> None]]

----------------------------------------------------------------------------
(* Reading the lineage.                                                    *)

Known == {p \in PointId : point[p].state \in Published}
Active == {p \in PointId : point[p].state = "active"}

\* _resolve: an active revision with the largest revision number, or the
\* revision asked for when none is active.
Heads(m) ==
    IF Active = {} THEN {m}
    ELSE {p \in Active : \A q \in Active : point[q].rev <= point[p].rev}

Heard == UNION {point[p].consumed \cup point[p].roots : p \in PointId}

Snapshot(l, h) ==
    [l EXCEPT !.cur = h, !.pay = point[h], !.heard = Heard]

Goto(c, where, l) ==
    /\ pc' = [pc EXCEPT ![c] = where]
    /\ loc' = [loc EXCEPT ![c] = l]
    /\ UNCHANGED reply

Answer(c, status, id) ==
    /\ pc' = [pc EXCEPT ![c] = "done"]
    /\ loc' = [loc EXCEPT ![c] = NoLocal]
    /\ reply' = [reply EXCEPT ![c] = [status |-> status, id |-> id]]

Tells(c, result) == Answer(c, result.status, result.id)

\* OperationStore.write merges into the row it finds: a result stays there.
Note(t, status) == journal' = [journal EXCEPT ![t].status = status]
Record(t, result) ==
    journal' = [journal EXCEPT ![t] = [status |-> "committed",
                                       result |-> result]]

----------------------------------------------------------------------------
(* _check_replay: the stored answer of an operation, found by its key hash *)
(* in the revisions of the lineage.                                        *)

Keyed(key) == {p \in PointId : /\ point[p].op # None
                               /\ TokenKey[point[p].op] = key}

\* Mutant: a stored revision is taken for this request's whatever it was for.
AnyRequest(c, p) == TRUE

SameRequest(c, p) == TokenRequest[point[p].op] = RequestOf[c]

\* The revisions at which the loop of _check_replay stops for token t.
Answering(c, key, t) ==
    {p \in Keyed(key) :
        \/ ~SameRequest(c, p)
        \/ journal[t].result # NoResult
        \/ point[p].state = "active" /\ point[p].sup # None
        \/ point[p].state = "retracted"}

\* Before the answer is recorded, a replay of an activated revision makes sure
\* that its predecessor, if token t still claims it, is superseded.
Replay(c, l, key, t) ==
    \E p \in Answering(c, key, t) :
        \/ /\ ~SameRequest(c, p)
           /\ Answer(c, "idempotency_conflict", None)
        \/ /\ SameRequest(c, p) /\ journal[t].result # NoResult
           /\ Tells(c, journal[t].result)
        \/ /\ SameRequest(c, p) /\ journal[t].result = NoResult
           /\ Goto(c, IF /\ point[p].state = "active"
                         /\ point[point[p].sup].tok = t
                      THEN "finish_predecessor" ELSE "finish_journal",
                   [l EXCEPT !.cur = p, !.pay = point[p], !.tok = t])

FinishPredecessor(c) ==
    /\ pc[c] = "finish_predecessor"
    /\ point' = [point EXCEPT ![loc[c].pay.sup].state = "superseded"]
    /\ Goto(c, "finish_journal", loc[c])
    /\ UNCHANGED journal

FinishJournal(c) ==
    LET result == [status |-> IF loc[c].pay.state = "retracted"
                              THEN "retracted" ELSE "updated",
                   id |-> loc[c].cur]
    IN  /\ pc[c] = "finish_journal"
        /\ Record(loc[c].tok, result)
        /\ Tells(c, result)
        /\ UNCHANGED point

----------------------------------------------------------------------------
(* The reads every call begins with.                                       *)

IsStale(c, l) ==
    \/ l.pay.state # "active"
    \/ ExpectedOf[c] # 0 /\ ExpectedOf[c] # l.pay.rev

\* The staleness checks, and for revise the look at its successor's point.
Start(c, l) ==
    LET t == TokenOf[c][l.cur] IN
    IF IsStale(c, l) THEN Answer(c, "stale", l.cur)
    ELSE CASE KindOf[c] = "read" -> Answer(c, "read", l.cur)
           [] KindOf[c] = "retract" -> Goto(c, "plan", [l EXCEPT !.tok = t])
           [] OTHER ->
                IF point[t].state = "absent"
                THEN Goto(c, "upsert", [l EXCEPT !.tok = t])
                ELSE IF SameRequest(c, t)
                     THEN Goto(c, "plan", [l EXCEPT !.tok = t])
                     ELSE Answer(c, "idempotency_conflict", None)

Settle(c, l) ==
    LET t == TokenOf[c][l.cur]
        key == TokenKey[t]
    IN  IF KindOf[c] # "read" /\ Answering(c, key, t) # {}
        THEN Replay(c, l, key, t)
        ELSE Start(c, l)

\* Mutant: a claim on the head is not looked at.
IgnoreClaim(c, l) == Settle(c, l)

\* The claim found on the head, with the journal row read before recovery.
RecoverHead(c, l) ==
    LET t == l.pay.tok
        again == /\ KindOf[c] # "read" /\ journal[t] # NoRow
                 /\ TokenRequest[t] = RequestOf[c]
    IN  Goto(c, "recover",
             [l EXCEPT !.from = l.cur, !.mine = t, !.kind = l.pay.kind,
                       !.cand = IF again THEN t ELSE None])

\* Mutant: earlier successors of the same request are not looked for.
NoRepeats(c) == {}

\* revise on an unclaimed head: successors created for the same request, whose
\* predecessor may still carry an unfinished claim.
Repeats(c) ==
    {t \in Token : /\ point[t].op # None /\ SameRequest(c, t)
                   /\ point[t].sup # None}

Examine(c, l) ==
    LET claimed == {t \in l.left : point[point[t].sup].tok # None} IN
    IF claimed = {} THEN Settle(c, [l EXCEPT !.left = {}])
    ELSE \E t \in claimed :
           LET from == point[t].sup IN
           Goto(c, "recover",
                [l EXCEPT !.from = from, !.mine = point[from].tok,
                          !.kind = point[from].kind, !.cand = t,
                          !.left = l.left \ {t}])

Begin(c) ==
    /\ pc[c] = "idle" /\ KindOf[c] # "source"
    /\ \A d \in After[c] : pc[d] \in Ended
    /\ \E m \in Known : \E h \in Heads(m) :
         LET l == Snapshot([NoLocal EXCEPT !.mem = m], h) IN
         IF l.pay.tok # None THEN RecoverHead(c, l)
         ELSE IF KindOf[c] = "revise"
              THEN Examine(c, [l EXCEPT !.left = Repeats(c)])
              ELSE Settle(c, l)
    /\ UNCHANGED <<point, journal>>

----------------------------------------------------------------------------
(* _recover_claimed: finishing the operation whose claim was found.        *)

\* Mutant: a successor that is no longer pending is activated too.
RecoverAnySuccessor(c) ==
    LET l == loc[c] IN
    /\ pc[c] = "recover"
    /\ IF l.kind = "retract"
       THEN IF journal[l.mine] = NoRow
            THEN Answer(c, "incomplete", l.from)
            ELSE Goto(c, "recover_retracted", l)
       ELSE IF point[l.mine].state = "absent"
            THEN Answer(c, "incomplete", l.from)
            ELSE Goto(c, "recover_active", l)
    /\ UNCHANGED <<point, journal>>

\* The reads: the journal row of a retraction, the successor of a revision.
Recover(c) ==
    LET l == loc[c] IN
    /\ pc[c] = "recover"
    /\ IF l.kind = "retract"
       THEN IF journal[l.mine] = NoRow
            THEN Answer(c, "incomplete", l.from)
            ELSE Goto(c, "recover_retracted", l)
       ELSE CASE point[l.mine].state = "absent" ->
                   Answer(c, "incomplete", l.from)
              [] point[l.mine].state = "pending" ->
                   Goto(c, "recover_active", l)
              [] OTHER -> Goto(c, "recover_superseded", l)
    /\ UNCHANGED <<point, journal>>

\* The four writes name their point by ID alone: none looks at its state.
RecoverActive(c) ==
    /\ pc[c] = "recover_active"
    /\ point' = [point EXCEPT ![loc[c].mine].state = "active"]
    /\ Goto(c, "recover_superseded", loc[c])
    /\ UNCHANGED journal

\* Mutant: the recovery leaves the predecessor active.
RecoverSuccessorOnly(c) ==
    /\ pc[c] = "recover_superseded"
    /\ Goto(c, "resolve_again", loc[c])
    /\ UNCHANGED <<point, journal>>

RecoverSuperseded(c) ==
    /\ pc[c] = "recover_superseded"
    /\ point' = [point EXCEPT ![loc[c].from].state = "superseded"]
    /\ Goto(c, "resolve_again", loc[c])
    /\ UNCHANGED journal

RecoverRetracted(c) ==
    /\ pc[c] = "recover_retracted"
    /\ point' = [point EXCEPT ![loc[c].from].state = "retracted",
                              ![loc[c].from].op = loc[c].mine]
    /\ Goto(c, "recover_commit", loc[c])
    /\ UNCHANGED journal

RecoverCommit(c) ==
    /\ pc[c] = "recover_commit"
    /\ Record(loc[c].mine, [status |-> "retracted", id |-> loc[c].from])
    /\ Goto(c, "resolve_again", loc[c])
    /\ UNCHANGED point

\* The call resolves again after a recovery.  A claim on the head it finds now
\* is not looked at: the attempt to claim that head will fail.
ResolveAgain(c) ==
    /\ pc[c] = "resolve_again"
    /\ \E h \in Heads(loc[c].mem) :
         LET l == [Snapshot(loc[c], h) EXCEPT !.from = None, !.mine = None,
                                              !.kind = None, !.cand = None]
             key == TokenKey[loc[c].cand]
         IN  IF loc[c].cand # None /\ Answering(c, key, loc[c].mine) # {}
             THEN Replay(c, [l EXCEPT !.left = {}], key, loc[c].mine)
             ELSE Examine(c, l)
    /\ UNCHANGED <<point, journal>>

----------------------------------------------------------------------------
(* revise and retract: prepare, claim the revision read, change it, commit.*)

\* Mutant: the successor keeps the number of the revision it replaces.
SameNumber(c) ==
    LET l == loc[c] IN
    [state |-> "pending", rev |-> l.pay.rev, sup |-> l.cur, op |-> l.tok,
     tok |-> None, kind |-> None, src |-> None,
     arts |-> l.pay.arts, artRev |-> l.pay.artRev,
     roots |-> {}, consumed |-> l.heard]

\* The successor copies the revision as it was read, claim fields excluded;
\* the change of text withdraws the evidence that supported the old text.
Successor(c) ==
    LET l == loc[c] IN
    [state |-> "pending", rev |-> l.pay.rev + 1, sup |-> l.cur, op |-> l.tok,
     tok |-> None, kind |-> None, src |-> None,
     arts |-> l.pay.arts, artRev |-> l.pay.artRev,
     roots |-> {}, consumed |-> l.heard]

Upsert(c) ==
    /\ pc[c] = "upsert"
    /\ point' = [point EXCEPT ![loc[c].tok] = Successor(c)]
    /\ Goto(c, "plan", loc[c])
    /\ UNCHANGED journal

\* Mutant: the plan is not in the journal when the claim is made.
UnwrittenPlan(c) ==
    /\ pc[c] = "plan"
    /\ Goto(c, "claim", loc[c])
    /\ UNCHANGED <<point, journal>>

Plan(c) ==
    /\ pc[c] = "plan"
    /\ Note(loc[c].tok,
            IF KindOf[c] = "revise" THEN "pending" ELSE "prepared")
    /\ Goto(c, "claim", loc[c])
    /\ UNCHANGED point

\* Mutant: the conditional write does not require the claim fields to be empty.
ClaimOverClaim(c) ==
    LET l == loc[c]
        free == /\ point[l.cur].state = "active"
                /\ point[l.cur].rev = l.pay.rev
    IN  /\ pc[c] = "claim"
        /\ point' = IF free
                    THEN [point EXCEPT ![l.cur].tok = l.tok,
                                       ![l.cur].kind = KindOf[c]]
                    ELSE point
        /\ Goto(c, "readback", l)
        /\ UNCHANGED journal

\* _claim: one conditional write, then a read that tells who holds the claim.
Claim(c) ==
    LET l == loc[c]
        free == /\ point[l.cur].state = "active"
                /\ point[l.cur].rev = l.pay.rev
                /\ point[l.cur].tok = None
    IN  /\ pc[c] = "claim"
        /\ point' = IF free
                    THEN [point EXCEPT ![l.cur].tok = l.tok,
                                       ![l.cur].kind = KindOf[c]]
                    ELSE point
        /\ Goto(c, "readback", l)
        /\ UNCHANGED journal

\* Mutant: the call does not verify that the claim it finds is its own.
TrustClaim(c) ==
    /\ pc[c] = "readback"
    /\ Goto(c, IF KindOf[c] = "revise" THEN "activate" ELSE "note_claimed",
            loc[c])
    /\ UNCHANGED <<point, journal>>

Readback(c) ==
    LET l == loc[c] IN
    /\ pc[c] = "readback"
    /\ CASE point[l.cur].tok = l.tok ->
              Goto(c, IF KindOf[c] = "revise" THEN "activate"
                      ELSE "note_claimed", l)
         [] point[l.cur].tok # l.tok /\ KindOf[c] = "revise" ->
              Goto(c, "abort", l)
         [] OTHER -> Answer(c, "stale", l.cur)
    /\ UNCHANGED <<point, journal>>

\* Mutant: the loser of a claim commits its aborted successor.
AbortAndCommit(c) ==
    /\ pc[c] = "abort"
    /\ point' = [point EXCEPT ![loc[c].tok].state = "aborted"]
    /\ Goto(c, "commit", loc[c])
    /\ UNCHANGED journal

Abort(c) ==
    /\ pc[c] = "abort"
    /\ point' = [point EXCEPT ![loc[c].tok].state = "aborted"]
    /\ Goto(c, "conflict", loc[c])
    /\ UNCHANGED journal

Conflict(c) ==
    /\ pc[c] = "conflict"
    /\ Note(loc[c].tok, "conflict")
    /\ Answer(c, "stale", loc[c].cur)
    /\ UNCHANGED point

Activate(c) ==
    LET t == loc[c].tok IN
    /\ pc[c] = "activate"
    /\ point' = IF point[t].state = "pending" /\ SameRequest(c, t)
                THEN [point EXCEPT ![t].state = "active"] ELSE point
    /\ Goto(c, "note_activated", loc[c])
    /\ UNCHANGED journal

NoteActivated(c) ==
    /\ pc[c] = "note_activated"
    /\ Note(loc[c].tok, "activated")
    /\ Goto(c, "supersede", loc[c])
    /\ UNCHANGED point

Supersede(c) ==
    LET l == loc[c] IN
    /\ pc[c] = "supersede"
    /\ point' = IF point[l.cur].tok = l.tok
                THEN [point EXCEPT ![l.cur].state = "superseded"] ELSE point
    /\ Goto(c, "commit", l)
    /\ UNCHANGED journal

NoteClaimed(c) ==
    /\ pc[c] = "note_claimed"
    /\ Note(loc[c].tok, "claimed")
    /\ Goto(c, "withdraw", loc[c])
    /\ UNCHANGED point

Withdraw(c) ==
    LET l == loc[c] IN
    /\ pc[c] = "withdraw"
    /\ point' = IF point[l.cur].tok = l.tok
                THEN [point EXCEPT ![l.cur].state = "retracted",
                                   ![l.cur].op = l.tok]
                ELSE point
    /\ Goto(c, "commit", l)
    /\ UNCHANGED journal

Commit(c) ==
    LET l == loc[c]
        result == IF KindOf[c] = "revise"
                  THEN [status |-> "updated", id |-> l.tok]
                  ELSE [status |-> "retracted", id |-> l.cur]
    IN  /\ pc[c] = "commit"
        /\ Record(l.tok, result)
        /\ Tells(c, result)
        /\ UNCHANGED point

----------------------------------------------------------------------------
(* mark_source: a revision consumed by a derivation.  It neither resolves  *)
(* the head nor looks at a claim on the revision.                          *)

BeginSource(c) ==
    /\ pc[c] = "idle" /\ KindOf[c] = "source"
    /\ \A d \in After[c] : pc[d] \in Ended
    /\ \E m \in Known : Goto(c, "set_source", [NoLocal EXCEPT !.cur = m])
    /\ UNCHANGED <<point, journal>>

SetSource(c) ==
    LET p == loc[c].cur
        matches == /\ point[p].state = "active"
                   /\ ExpectedOf[c] \in {0, point[p].rev}
    IN  /\ pc[c] = "set_source"
        /\ point' = IF matches
                    THEN [point EXCEPT ![p].state = "source",
                                       ![p].src = TokenOf[c][p]]
                    ELSE point
        /\ Goto(c, "check_source", loc[c])
        /\ UNCHANGED journal

CheckSource(c) ==
    LET p == loc[c].cur IN
    /\ pc[c] = "check_source"
    /\ Answer(c, IF point[p].state = "source" /\ point[p].src = TokenOf[c][p]
                 THEN "sourced" ELSE "conflict", p)
    /\ UNCHANGED <<point, journal>>

----------------------------------------------------------------------------
\* A worker that dies, or whose guard raises, leaves the stores as they are and
\* never continues.
Crash(c) ==
    /\ c \in Crashing /\ pc[c] \in Running
    /\ pc' = [pc EXCEPT ![c] = "crashed"]
    /\ loc' = [loc EXCEPT ![c] = NoLocal]
    /\ UNCHANGED <<point, journal, reply>>

\* The guard just before the claim is inside revise's try: as the error of a lost
\* lease is a conflict, the successor is aborted, whoever has claimed by then.
Fenced(c) ==
    /\ c \in Guarded /\ KindOf[c] = "revise" /\ pc[c] = "claim"
    /\ Goto(c, "abort", loc[c])
    /\ UNCHANGED <<point, journal>>

Step(c) ==
    \/ Recover(c) \/ RecoverActive(c) \/ RecoverSuperseded(c)
    \/ RecoverRetracted(c) \/ RecoverCommit(c) \/ ResolveAgain(c)
    \/ FinishPredecessor(c) \/ FinishJournal(c)
    \/ Upsert(c) \/ Plan(c) \/ Claim(c) \/ Readback(c)
    \/ Abort(c) \/ Conflict(c)
    \/ Activate(c) \/ NoteActivated(c) \/ Supersede(c)
    \/ NoteClaimed(c) \/ Withdraw(c) \/ Commit(c)
    \/ SetSource(c) \/ CheckSource(c)

Next == \E c \in Call : Begin(c) \/ BeginSource(c) \/ Step(c) \/ Crash(c) \/ Fenced(c)

Spec == Init /\ [][Next]_vars

\* A client issues its calls, and a worker that has not died takes its next
\* step: the handlers are straight-line code over calls that return.
FairSpec == Spec /\ \A c \in Call : WF_vars(Begin(c) \/ BeginSource(c) \/ Step(c))

----------------------------------------------------------------------------
(* Properties.                                                             *)

\* The published revisions of a lineage form one history: no two of them have
\* the same revision number, so no accepted change was based on a revision
\* that another accepted change had already replaced (no fork, no lost update).
LinearHistory ==
    \A p, q \in Known : point[p].rev = point[q].rev => p = q

\* At most one active revision is free of a claim: a lineage never offers two
\* heads on which later calls could build independently.
SingleHead ==
    \A p, q \in Active :
        point[p].tok = None /\ point[q].tok = None => p = q

\* A claim found on a revision can always be completed: its journal row or its
\* successor was stored before the claim (the "incomplete" errors of
\* _recover_claimed are never raised).
RecoveryNeverStuck == \A c \in Call : reply[c].status # "incomplete"

\* A revise call that answers "updated" names a revision that readers can have
\* seen, now or before a later call replaced it.
AckedUpdateIsPublished ==
    \A c \in Call : reply[c].status = "updated" => reply[c].id \in Known

\* ... and one that was made for its own request, never another caller's.
AckedUpdateIsOwn ==
    \A c \in Call : reply[c].status = "updated" =>
        /\ reply[c].id \in Token
        /\ TokenRequest[reply[c].id] = RequestOf[c]

\* A reader that starts after a revise call was acknowledged reads that
\* revision or a later one, whatever was left half done before.
ReadSeesAckedUpdate ==
    \A c \in Call : \A d \in After[c] :
        reply[c].status = "read" /\ reply[d].status = "updated" =>
            point[reply[d].id].rev <= point[reply[c].id].rev

\* A reader that starts after a retract call was acknowledged is not given the
\* memory, although an older revision may still wait for its recovery.
ReadHonoursRetract ==
    \A c \in Call : \A d \in After[c] :
        reply[d].status = "retracted" => reply[c].status # "read"

\* A call that repeats a request after the first attempt ended (answered or
\* died) gives the answer the first attempt gave or would have given, and the
\* request is applied once: no second revision is made for it.
RetryAppliesOnce ==
    \A c \in Call : \A d \in After[c] :
        /\ reply[c].status = "updated" /\ KindOf[d] = "revise"
        /\ RequestOf[d] = RequestOf[c]
        => /\ reply[d].status \in {"none", "updated"}
           /\ reply[d].status = "updated" => reply[d].id = reply[c].id
           /\ \A p, q \in Known \cap Token :
                  /\ TokenRequest[p] = RequestOf[c]
                  /\ TokenRequest[q] = RequestOf[c] => p = q

\* A published revision is immutable history: no step un-publishes it or moves
\* it to another place in the chain.
KeepsHistory ==
    \A p \in Known :
        /\ point'[p].state \in Published
        /\ point'[p].rev = point[p].rev /\ point'[p].sup = point[p].sup
HistoryIsImmutable == [][KeepsHistory]_vars

\* The published revisions, claims and states left out.
History == {[id |-> p, rev |-> point[p].rev, sup |-> point[p].sup] : p \in Known}

Memory == INSTANCE VersionedMemory
              WITH Id <- PointId, First <- Root, history <- History

\* revise, retract, mark_source and every recovery implement a versioned
\* memory: whatever they interleave with, they publish one revision at a time,
\* under a new name, on top of the newest one.
ImplementsMemory == Memory!Spec

\* A claim on the head whose worker died does not block the memory for ever: the
\* next call that is issued completes the operation (mark_source does not).
ClaimedHead(p) == /\ p \in Active /\ p \in Heads(p)
                  /\ point[p].tok # None
HeadClaimsComplete ==
    \A p \in PointId :
        ClaimedHead(p) /\ (\E c \in Call : pc[c] = "idle" /\ KindOf[c] # "source")
            ~> ~ClaimedHead(p)

=============================================================================
