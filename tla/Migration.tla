------------------------------- MODULE Migration -------------------------------
(***************************************************************************)
(* The data migrations of mnemory/migration.py, which every instance of    *)
(* the server runs when it starts, before it accepts requests.  What was   *)
(* applied, what runs and how far it came is one document, which each      *)
(* instance reads once and from then on writes as a whole.                 *)
(*                                                                         *)
(* Payload indexes are left out (they change no result), and so is text:   *)
(* a stored point is the set of the fields that migrations add.            *)
(***************************************************************************)
EXTENDS Naturals, FiniteSets

CONSTANTS
    Pod,          \* instances of the server
    Known,        \* the sets of memories that may have an owner before
    Memories,     \* how many memories there are
    Sessions,     \* how many stored sessions
    BatchSize,    \* points per scroll
    Userless,     \* memories whose payload names no user
    LinkOf,       \* the memory by which a raw memory was superseded, 0 for none
    BackLink,     \* the raw memories whose target names them as a source
    FailedOnes,   \* the sessions whose consolidation failed
    Deployments   \* the deployments that are checked

Memory == 1..Memories
SessionId == 1..Sessions
Field == {"data", "user", "bm25", "owner", "active", "source", "projection",
          "classified"}

\* The collections that migrations touch; the journal exists when they run.
Collection == {"main", "temp", "sessions"}

\* The migrations in their order: sparse vectors, the collection of sessions, an
\* index, owners, revisions, validation projections, failed sessions.
Sparse == 1
SessionRows == 2
LayerIndex == 3
Owner == 4
Revision == 5
Projection == 6
Classify == 7
Id == 1..7

\* `addable` says whether the store lets sparse vectors be added to a collection
\* in place, `pods` are the instances that run; `failures` bounds the crashes,
\* restarts and failing store calls, `swallows` says whether one of these may be a
\* call whose failure the migration takes for "no sparse vectors" (Shrug).
Deployment == [addable: BOOLEAN, swallows: BOOLEAN, pods: SUBSET Pod, failures: Nat]

ASSUME MigrationAssumption ==
    /\ Memories \in Nat /\ Sessions \in Nat /\ BatchSize \in Nat \ {0}
    /\ Userless \subseteq Memory /\ BackLink \subseteq Memory
    /\ LinkOf \in [Memory -> 0..Memories] /\ FailedOnes \subseteq SessionId
    /\ Deployments \subseteq Deployment /\ Known \subseteq SUBSET Memory

VARIABLES
    deployment,
    store,    \* the collections
    meta,     \* the document: applied, running, progress
    pc,       \* where an instance is
    run,      \* what it remembers
    failures,
    mishaps   \* the failures that no restart repairs, for the properties
vars == <<deployment, store, meta, pc, run, failures, mishaps>>

----------------------------------------------------------------------------
(* Data.                                                                   *)

\* Offset 0 stands for none: a scroll from the start, or one that is over.
Offset == 0..(IF Memories > Sessions THEN Memories ELSE Sessions)
Progress == [phase: {"none", "scan", "copy_to_temp", "copy_back"}, offset: Offset]
NoProgress == [phase |-> "none", offset |-> 0]
Document == [applied: SUBSET Id, running: SUBSET Id, progress: [Id -> Progress]]

\* `sparse` says whether the collection is configured for sparse vectors.
Contents(name) ==
    [exists: BOOLEAN, sparse: BOOLEAN,
     at: [IF name = "sessions" THEN SessionId ELSE Memory -> SUBSET Field]]
Empty(name, exists, sparse) ==
    [exists |-> exists, sparse |-> sparse,
     at |-> [p \in IF name = "sessions" THEN SessionId ELSE Memory |-> {}]]

\* A point is stored when it has its data.
Points(name) == {p \in DOMAIN store[name].at : "data" \in store[name].at[p]}

\* `id` is the migration under way and `doc` the document as the instance has
\* it; `total` counts the points to be copied; `batch` is what it read and has
\* not written, from `offset`, and `next` the offset after it.
Run == [id: 1..8, doc: Document, total: 0..Memories, offset: Offset,
        next: Offset, batch: SUBSET (Nat \X SUBSET Field)]
NoRun == [id |-> 1, total |-> 0, offset |-> 0, next |-> 0, batch |-> {},
          doc |-> [applied |-> {}, running |-> {},
                   progress |-> [k \in Id |-> NoProgress]]]

Stage == {"down", "load", "choose", "run", "inspect", "copy_start", "drop",
          "rebuild", "copy", "copy_write", "copied", "clean", "sessions",
          "scan", "write", "save", "save_copy", "done", "handler", "up"}

TypeOK ==
    /\ deployment \in Deployments
    /\ \A name \in Collection : store[name] \in Contents(name)
    /\ meta \in Document
    /\ pc \in [Pod -> Stage] /\ run \in [Pod -> Run]
    /\ failures \in 0..deployment.failures
    /\ mishaps \subseteq {"unrecorded", "unread"}

Init ==
    /\ deployment \in Deployments
    /\ \E known \in Known, exists \in BOOLEAN :
         store = [main |-> [exists |-> TRUE, sparse |-> FALSE,
                            at |-> [p \in Memory |->
                                {"data"} \cup (IF p \in Userless THEN {} ELSE {"user"})
                                         \cup (IF p \in known THEN {"owner"} ELSE {})]],
                  temp |-> Empty("temp", FALSE, FALSE),
                  sessions |-> [exists |-> exists, sparse |-> FALSE,
                                at |-> [s \in SessionId |->
                                    IF exists THEN {"data", "user"} ELSE {}]]]
    /\ meta = NoRun.doc
    /\ pc = [i \in Pod |-> "down"] /\ run = [i \in Pod |-> NoRun]
    /\ failures = 0 /\ mishaps = {}

To(i, stage, r) == pc' = [pc EXCEPT ![i] = stage] /\ run' = [run EXCEPT ![i] = r]
Keep == UNCHANGED <<deployment, failures, mishaps>>

\* state_callback: the instance's document replaces the stored one.
Save(i, stage, r) == meta' = r.doc /\ To(i, stage, r)

\* A failure, and what no later start repairs.
Fails == failures < deployment.failures /\ failures' = failures + 1
Befalls(kind, seen) == mishaps' = IF seen THEN mishaps \cup {kind} ELSE mishaps

\* An exception in a migration is caught by run_pending.
Raise(i) == To(i, "handler", run[i]) /\ UNCHANGED <<store, meta>>

----------------------------------------------------------------------------
(* MigrationRunner.run_pending.                                            *)

\* A new instance first makes sure that there is a main collection.
Start(i) ==
    /\ i \in deployment.pods /\ pc[i] = "down"
    /\ store' = IF store["main"].exists THEN store
                ELSE [store EXCEPT !["main"] = Empty("main", TRUE, TRUE)]
    /\ To(i, "load", NoRun)
    /\ Keep /\ UNCHANGED meta

Load(i) ==
    /\ pc[i] = "load"
    /\ To(i, "choose", [NoRun EXCEPT !.doc = meta])
    /\ Keep /\ UNCHANGED <<store, meta>>

\* A document that cannot be read is taken for an empty one.
LoadNothing(i) ==
    /\ pc[i] = "load" /\ Fails
    /\ Befalls("unread", meta # NoRun.doc)
    /\ To(i, "choose", NoRun)
    /\ UNCHANGED <<deployment, store, meta>>

\* The next migration that is not applied is marked as running.
Choose(i) ==
    LET r == run[i]
        open == {k \in Id \ r.doc.applied : k >= r.id}
    IN  /\ pc[i] = "choose"
        /\ IF open = {} THEN To(i, "up", NoRun) /\ UNCHANGED meta
           ELSE \E k \in open :
                  /\ \A j \in open : k <= j
                  /\ Save(i, "run", [r EXCEPT !.doc.running = @ \cup {k}, !.id = k])
        /\ Keep /\ UNCHANGED store

Completed(doc, k) ==
    [doc EXCEPT !.applied = @ \cup {k}, !.running = @ \ {k},
                !.progress[k] = NoProgress]

Complete(i) ==
    LET r == run[i] IN
    /\ pc[i] = "done"
    /\ Save(i, "choose", [r EXCEPT !.doc = Completed(r.doc, r.id), !.id = r.id + 1])
    /\ Keep /\ UNCHANGED store

\* Mutant: the next migration is tried after one has failed.
GoOn(i) ==
    LET r == run[i] IN
    /\ pc[i] = "handler"
    /\ Save(i, "choose", [r EXCEPT !.doc.running = @ \ {r.id}, !.id = r.id + 1])
    /\ Keep /\ UNCHANGED store

\* The marker is removed, and the start of the server fails.
Handler(i) ==
    LET r == run[i] IN
    /\ pc[i] = "handler"
    /\ Save(i, "down", [r EXCEPT !.doc.running = @ \ {r.id}])
    /\ Keep /\ UNCHANGED store

\* Mutant: only the first phase of a recreation is resumed.
Restarts(phase) == phase = "copy_to_temp"

Resumes(phase) == phase \in {"copy_to_temp", "copy_back"}

\* Sparse vectors: a recreation is resumed, else the store is asked first.
RunSparse(i) ==
    LET r == run[i]
        p == r.doc.progress[r.id]
    IN  /\ pc[i] = "run" /\ r.id = Sparse
        /\ IF Resumes(p.phase)
           THEN /\ To(i, IF p.phase = "copy_back" THEN "drop" ELSE "copy_start",
                      [r EXCEPT !.offset = p.offset])
                /\ UNCHANGED store
           ELSE /\ store' = IF deployment.addable /\ store["main"].exists
                            THEN [store EXCEPT !["main"].sparse = TRUE] ELSE store
                /\ To(i, "inspect", [r EXCEPT !.offset = p.offset])
        /\ Keep /\ UNCHANGED meta

\* The collection of sessions is created unless another start has.
CreateSessions(i) ==
    /\ pc[i] = "run" /\ run[i].id = SessionRows
    /\ store' = IF store["sessions"].exists THEN store
                ELSE [store EXCEPT !["sessions"] = Empty("sessions", TRUE, FALSE)]
    /\ To(i, "done", run[i])
    /\ Keep /\ UNCHANGED meta

\* An index only.
AddMemoryLayerIndex(i) ==
    /\ pc[i] = "run" /\ run[i].id = LayerIndex
    /\ To(i, "done", run[i])
    /\ Keep /\ UNCHANGED <<store, meta>>

\* The other migrations resume a scan, the revisions after the sessions.
Begin(i) ==
    LET r == run[i] IN
    /\ pc[i] = "run"
    /\ To(i, IF r.id = Revision THEN "sessions" ELSE "scan",
          [r EXCEPT !.offset = r.doc.progress[r.id].offset])
    /\ Keep /\ UNCHANGED <<store, meta>>

----------------------------------------------------------------------------
(* Scans: a batch is read from an offset, written, and checkpointed.       *)

ScanOf(k) == IF k = Classify THEN "sessions" ELSE "main"

\* The filter of a scan: the points that lack what the migration adds.
Lacks(k, p, fields) ==
    CASE k = Sparse -> TRUE
      [] k = Owner -> "owner" \notin fields
      [] k = Revision -> fields \cap {"active", "source"} = {}
      [] k = Projection -> "projection" \notin fields
      [] OTHER -> p \in FailedOnes /\ "classified" \notin fields

\* A page of a scroll, and the offset of the page after it.
Page(S) == {p \in S : Cardinality({q \in S : q < p}) < BatchSize}

After(S) == LET rest == S \ Page(S) IN
            IF rest = {} THEN 0 ELSE CHOOSE p \in rest : \A q \in rest : p <= q

\* A raw memory that an older version superseded is a source, if its target has
\* the same owner and names it.
IsSource(p, fields) ==
    LET q == LinkOf[p]
        target == store["main"].at[q]
        scope == {"owner", "user"}
    IN  /\ q # 0 /\ p \in BackLink
        /\ "data" \in target
        /\ fields \cap scope = target \cap scope

\* What a migration adds to a point.
Added(k, p, fields) ==
    CASE k = Sparse -> {"bm25"}
      [] k = Owner -> IF "user" \in fields THEN {"owner"} ELSE {}
      [] k = Revision -> IF IsSource(p, fields) THEN {"source"} ELSE {"active"}
      [] k = Projection -> {"projection"}
      [] OTHER -> {"classified"}

\* Which way the vectors are added.
Inspect(i) ==
    /\ pc[i] = "inspect"
    /\ To(i, IF ~(store["main"].exists /\ store["main"].sparse) THEN "copy_start"
             ELSE IF Points("main") = {} THEN "done" ELSE "scan", run[i])
    /\ Keep /\ UNCHANGED <<store, meta>>

BackfillSession(i) ==
    LET lacking == {s \in Points("sessions") :
                      /\ "owner" \notin store["sessions"].at[s]
                      /\ "user" \in store["sessions"].at[s]}
    IN  /\ pc[i] = "sessions"
        /\ IF lacking = {} THEN To(i, "scan", run[i]) /\ UNCHANGED store
           ELSE /\ \E s \in lacking :
                     store' = [store EXCEPT !["sessions"].at[s] = @ \cup {"owner"}]
                /\ UNCHANGED <<pc, run>>
        /\ Keep /\ UNCHANGED meta

Scan(i) ==
    LET r == run[i]
        from == store[ScanOf(r.id)].at
        S == {p \in Points(ScanOf(r.id)) : p >= r.offset /\ Lacks(r.id, p, from[p])}
    IN  /\ pc[i] = "scan"
        /\ IF ~store[ScanOf(r.id)].exists THEN Raise(i)
           ELSE /\ To(i, IF S = {} THEN "done" ELSE "write",
                      [r EXCEPT !.batch = {<<p, from[p]>> : p \in Page(S)},
                                !.next = After(S)])
                /\ UNCHANGED <<store, meta>>
        /\ Keep

\* Owners and revisions are set point by point, the others for the batch.
PointWise == {Owner, Revision}

Write(i) ==
    LET r == run[i]
        name == ScanOf(r.id)
    IN  /\ pc[i] = "write"
        /\ \E part \in SUBSET r.batch :
             /\ IF r.id \in PointWise THEN Cardinality(part) = 1 ELSE part = r.batch
             /\ store' = [store EXCEPT ![name].at =
                    [p \in DOMAIN @ |->
                        @[p] \cup UNION {Added(r.id, p, x[2]) :
                            x \in {y \in part : y[1] = p /\ p \in Points(name)}}]]
             /\ To(i, IF part = r.batch THEN "save" ELSE "write",
                   [r EXCEPT !.batch = @ \ part])
        /\ Keep /\ UNCHANGED meta

\* Mutant: the checkpoint of a copy names the page that was copied.
SamePage(r, phase) == [phase |-> phase, offset |-> r.offset]

\* The checkpoint after a page.
Reached(r, phase) == [phase |-> phase, offset |-> r.next]
Checkpoint(r, k, phase) == [r.doc EXCEPT !.progress[k] = Reached(r, phase)]

SaveScan(i) ==
    LET r == run[i] IN
    /\ pc[i] = "save"
    /\ Save(i, IF r.next = 0 THEN "done" ELSE "scan",
            [r EXCEPT !.doc = Checkpoint(r, r.id, "scan"), !.offset = r.next])
    /\ Keep /\ UNCHANGED store

----------------------------------------------------------------------------
(* Recreation of the main collection through a temporary one.              *)

Phase(r) == IF r.doc.progress[Sparse].phase = "copy_back" THEN "copy_back"
            ELSE "copy_to_temp"
From(r) == IF Phase(r) = "copy_back" THEN "temp" ELSE "main"
Into(r) == IF Phase(r) = "copy_back" THEN "main" ELSE "temp"

\* The temporary collection is created, or taken over from an earlier attempt.
CopyStart(i) ==
    LET r == run[i] IN
    /\ pc[i] = "copy_start"
    /\ IF ~store["main"].exists THEN Raise(i)
       ELSE /\ store' = IF store["temp"].exists \/ Points("main") = {} THEN store
                        ELSE [store EXCEPT !["temp"] = Empty("temp", TRUE, TRUE)]
            /\ To(i, IF Points("main") = {} THEN "done" ELSE "copy",
                  [r EXCEPT !.total = Cardinality(Points("main"))])
            /\ UNCHANGED meta
    /\ Keep

Copy(i) ==
    LET r == run[i]
        S == {p \in Points(From(r)) : p >= r.offset}
    IN  /\ pc[i] = "copy"
        /\ IF ~store[From(r)].exists THEN Raise(i)
           ELSE /\ To(i, IF S = {} THEN "copied" ELSE "copy_write",
                      [r EXCEPT !.next = After(S),
                                !.batch = {<<p, store[From(r)].at[p]>> : p \in Page(S)}])
                /\ UNCHANGED <<store, meta>>
        /\ Keep

\* One upsert of the page, with sparse vectors the first time.
CopyWrite(i) ==
    LET r == run[i]
        more == IF Into(r) = "temp" THEN {"bm25"} ELSE {}
    IN  /\ pc[i] = "copy_write"
        /\ IF ~store[Into(r)].exists THEN Raise(i)
           ELSE /\ store' = [store EXCEPT ![Into(r)].at =
                      [p \in DOMAIN @ |->
                          IF \E x \in r.batch : x[1] = p
                          THEN more \cup UNION {x[2] : x \in {y \in r.batch : y[1] = p}}
                          ELSE @[p]]]
                /\ To(i, "save_copy", [r EXCEPT !.batch = {}])
                /\ UNCHANGED meta
        /\ Keep

SaveCopy(i) ==
    LET r == run[i] IN
    /\ pc[i] = "save_copy"
    /\ Save(i, IF r.next = 0 THEN "copied" ELSE "copy",
            [r EXCEPT !.doc = Checkpoint(r, Sparse, Phase(r)), !.offset = r.next])
    /\ Keep /\ UNCHANGED store

\* Mutant: the copy is not counted.
Trusted(r) == TRUE

\* The copy must have as many points as its source had.
Counted(r) == Cardinality(Points(Into(r))) >= r.total

Turned(doc) == [doc EXCEPT !.progress[Sparse] = [phase |-> "copy_back", offset |-> 0]]

\* The end of a phase: the change of phase is saved before anything is deleted.
Copied(i) ==
    LET r == run[i] IN
    /\ pc[i] = "copied"
    /\ IF ~store[Into(r)].exists \/ ~Counted(r) THEN Raise(i)
       ELSE IF Phase(r) = "copy_back"
       THEN To(i, "clean", r) /\ UNCHANGED <<store, meta>>
       ELSE /\ Save(i, "drop", [r EXCEPT !.offset = 0, !.doc = Turned(r.doc)])
            /\ UNCHANGED store
    /\ Keep

Drop(i) ==
    LET r == run[i] IN
    /\ pc[i] = "drop"
    /\ IF ~store["temp"].exists THEN Raise(i)
       ELSE /\ store' = [store EXCEPT !["main"] = Empty("main", FALSE, FALSE)]
            /\ To(i, "rebuild", [r EXCEPT !.total = Cardinality(Points("temp"))])
            /\ UNCHANGED meta
    /\ Keep

Rebuild(i) ==
    /\ pc[i] = "rebuild"
    /\ IF store["main"].exists THEN Raise(i)
       ELSE /\ store' = [store EXCEPT !["main"] = Empty("main", TRUE, TRUE)]
            /\ To(i, "copy", run[i])
            /\ UNCHANGED meta
    /\ Keep

Clean(i) ==
    /\ pc[i] = "clean"
    /\ store' = [store EXCEPT !["temp"] = Empty("temp", FALSE, FALSE)]
    /\ To(i, "done", run[i])
    /\ Keep /\ UNCHANGED meta

----------------------------------------------------------------------------
(* Failures.                                                               *)

\* The temporary collection is gone, and the record is still at the copy back: no
\* later start gets over that.
Unrecorded(doc) == ~store["temp"].exists /\ doc.progress[Sparse].phase = "copy_back"

\* An instance is stopped.
Crash(i) ==
    /\ pc[i] # "down" /\ Fails
    /\ Befalls("unrecorded", Unrecorded(meta))
    /\ To(i, "down", NoRun)
    /\ UNCHANGED <<deployment, store, meta>>

\* The document in memory is changed before it is saved, so that the handler of a
\* save that raises stores the change.
Drafts(i) ==
    LET r == run[i] IN
    CASE pc[i] = "done" -> {r.doc, Completed(r.doc, r.id)}
      [] pc[i] = "save" -> {r.doc, Checkpoint(r, r.id, "scan")}
      [] pc[i] = "save_copy" -> {r.doc, Checkpoint(r, Sparse, Phase(r))}
      [] /\ pc[i] = "copied" /\ Phase(r) = "copy_to_temp"
         /\ store["temp"].exists /\ Counted(r) -> {r.doc, Turned(r.doc)}
      [] OTHER -> {r.doc}

\* A call of the store raises in a migration, the last one after it took effect
\* or before: stages with no call that can raise are left out.
Fault(i) ==
    /\ pc[i] \notin {"down", "load", "choose", "handler", "up"}
    /\ pc[i] = "run" => run[i].id = SessionRows
    /\ Fails
    /\ \E doc \in Drafts(i) :
         /\ To(i, "handler", [run[i] EXCEPT !.doc = doc])
         /\ Befalls("unrecorded", Unrecorded(doc) /\ Sparse \notin doc.applied)
    /\ UNCHANGED <<deployment, store, meta>>

\* An exception of update_collection, or of the question whether the collection has
\* sparse vectors, is logged and taken for "no": the collection is recreated.
Shrug(i) ==
    LET r == run[i]
        p == r.doc.progress[r.id]
    IN  /\ deployment.swallows /\ Fails
        /\ \/ /\ pc[i] = "run" /\ r.id = Sparse /\ ~Resumes(p.phase)
              /\ To(i, "inspect", [r EXCEPT !.offset = p.offset])
           \/ pc[i] = "inspect" /\ To(i, "copy_start", r)
        /\ UNCHANGED <<deployment, store, meta, mishaps>>

Sweep(i) == Scan(i) \/ Write(i) \/ SaveScan(i)

\* The migrations, each up to its "done".
AddSparseVectors(i) ==
    run[i].id = Sparse /\ (RunSparse(i) \/ Inspect(i) \/ Sweep(i))
CopyPoints(i) == Copy(i) \/ CopyWrite(i) \/ SaveCopy(i)
RunRecreation(i) ==
    \/ CopyStart(i) \/ Drop(i) \/ Rebuild(i) \/ Clean(i)
    \/ CopyPoints(i) \/ Copied(i)
BackfillOwnerId(i) == run[i].id = Owner /\ (Begin(i) \/ Sweep(i))
AddRevisionFoundation(i) ==
    run[i].id = Revision /\ (Begin(i) \/ BackfillSession(i) \/ Sweep(i))
AddValidationProjection(i) == run[i].id = Projection /\ (Begin(i) \/ Sweep(i))
ClassifyLegacyFailures(i) == run[i].id = Classify /\ (Begin(i) \/ Sweep(i))

Step(i) ==
    \/ Load(i) \/ Choose(i) \/ Complete(i) \/ Handler(i)
    \/ AddSparseVectors(i) \/ RunRecreation(i) \/ CreateSessions(i)
    \/ AddMemoryLayerIndex(i) \/ BackfillOwnerId(i) \/ AddRevisionFoundation(i)
    \/ AddValidationProjection(i) \/ ClassifyLegacyFailures(i)

Next == \E i \in Pod :
            \/ Start(i) \/ Step(i)
            \/ LoadNothing(i) \/ Crash(i) \/ Fault(i) \/ Shrug(i)

Spec == Init /\ [][Next]_vars

\* A process that runs goes on, and a deployment starts the instances it has.
FairSpec == Spec /\ \A i \in Pod : WF_vars(Step(i)) /\ WF_vars(Start(i))

----------------------------------------------------------------------------
(* Properties.                                                             *)

\* Whatever stops, fails or is repeated, every memory is in one of the two
\* collections: nothing is deleted that is not copied.
NothingIsLost == \A p \in Memory : p \in Points("main") \cup Points("temp")

\* What is recorded as applied holds of every memory and session, however often
\* a scan was cut off and resumed from its checkpoint.  (An instance that cannot
\* read the document during a recreation takes a half-filled collection for a
\* whole one.)
AppliedIsDone ==
    "unread" \notin mishaps =>
    LET main == store["main"].at
        has(f) == \A p \in Memory : f \in main[p]
    IN  /\ Sparse \in meta.applied =>
              store["main"].exists /\ store["main"].sparse /\ has("bm25")
        /\ Owner \in meta.applied => \A p \in Memory \ Userless : "owner" \in main[p]
        /\ Revision \in meta.applied =>
              /\ \A p \in Memory : main[p] \cap {"active", "source"} # {}
              /\ \A s \in Points("sessions") : "owner" \in store["sessions"].at[s]
        /\ Projection \in meta.applied => has("projection")
        /\ Classify \in meta.applied =>
              \A s \in Points("sessions") \cap FailedOnes :
                  "classified" \in store["sessions"].at[s]

\* A raw memory that was consolidated before there were revisions becomes a
\* source, never an active memory beside what was derived from it.  (Where the
\* document was not read, a half-filled collection lacks the target.)
ConsolidatedIsSource ==
    "unread" \notin mishaps =>
    \A p \in BackLink : (LinkOf[p] # 0 /\ p \notin Userless /\ LinkOf[p] \notin Userless)
        => "active" \notin store["main"].at[p]

\* When failures end the server comes up with everything applied, unless one fell
\* between the deletion of the temporary collection and the record of the end.
ServerComesUp == <>[](meta.applied = Id \/ "unrecorded" \in mishaps)

===============================================================================
