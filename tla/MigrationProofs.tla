---------------------------- MODULE MigrationProofs ----------------------------
(***************************************************************************)
(* What a start of the server may do to the memories and to the record of  *)
(* what was applied, for any number of memories, sessions, instances,      *)
(* crashes and points per page.  In four parts, each an invariant on top   *)
(* of the ones before:                                                     *)
(*                                                                         *)
(*   TypedInv       types, and what is set at which stage;                 *)
(*   InPlaceInv     where sparse vectors are added in place, and no call   *)
(*                  that fails is taken for a refusal of them: the main    *)
(*                  collection keeps every memory, and nothing recreates;  *)
(*   RecreationInv  where one instance may recreate the collection: which  *)
(*                  of the two is full is told by the phase on record;     *)
(*   AppliedNow     what is recorded, and what each instance knows, is     *)
(*                  true of the points: everything before an offset was    *)
(*                  done, or is in the batch that is not written yet.      *)
(*                                                                         *)
(* The last needs the document to have been read: an instance that takes   *)
(* it for an empty one starts again beside a half-filled collection.       *)
(***************************************************************************)
EXTENDS Migration, FiniteSetTheorems, WellFoundedInduction, TLAPS

----------------------------------------------------------------------------
(* Types, stronger than TypeOK.                                            *)

Table(S) == [exists: BOOLEAN, sparse: BOOLEAN, at: [S -> SUBSET Field]]
Stores == {s \in [Collection -> Table(Memory) \cup Table(SessionId)] :
             /\ s["main"] \in Table(Memory) /\ s["temp"] \in Table(Memory)
             /\ s["sessions"] \in Table(SessionId)}

Copying == {"copy", "copy_write", "save_copy", "copied"}
Recreating == Copying \cup {"copy_start", "drop", "rebuild", "clean"}
Scanning == {"scan", "write", "save"}
Working == Recreating \cup Scanning \cup {"run", "inspect", "sessions", "done"}
Scanned == {Sparse, Owner, Revision, Projection, Classify}
CopyPhase == {"copy_to_temp", "copy_back"}

\* Only the first migration copies.
Documents == {d \in Document :
                \A k \in Id : k # Sparse => d.progress[k].phase \notin CopyPhase}

\* What an instance has set at each of its stages.
RunTyped(stage, r) ==
    /\ r \in Run /\ r.doc \in Documents
    /\ stage \in Working => r.id \in Id
    /\ stage \in Recreating \cup {"inspect"} => r.id = Sparse
    /\ stage = "sessions" => r.id = Revision
    /\ stage \in Scanning => r.id \in Scanned

TypedInv ==
    /\ deployment \in Deployments
    /\ store \in Stores /\ meta \in Documents
    /\ pc \in [Pod -> Stage] /\ run \in [Pod -> Run]
    /\ failures \in 0..deployment.failures
    /\ mishaps \subseteq {"unrecorded", "unread"}
    /\ \A i \in Pod : RunTyped(pc[i], run[i])
    /\ \A i \in Pod \ deployment.pods : pc[i] = "down" /\ run[i] = NoRun

LEMMA Constants ==
    /\ Memories \in Nat /\ Sessions \in Nat /\ BatchSize \in Nat \ {0}
    /\ Memory = 1..Memories /\ SessionId = 1..Sessions /\ Id = 1..7
    /\ Offset \subseteq Nat /\ 0 \in Offset
    /\ Memory \subseteq Offset /\ SessionId \subseteq Offset
    /\ Scanned \subseteq Id /\ Sparse \in Id /\ Revision \in Id
  BY MigrationAssumption DEF Memory, SessionId, Id, Offset, Scanned, Sparse,
     Owner, Revision, Projection, Classify

LEMMA DeploymentTyped ==
    ASSUME deployment \in Deployments
    PROVE  /\ deployment.addable \in BOOLEAN /\ deployment.swallows \in BOOLEAN
           /\ deployment.pods \subseteq Pod
           /\ deployment.failures \in Nat
  BY MigrationAssumption DEF Deployment

LEMMA ContentsAreTables ==
    /\ Contents("main") = Table(Memory) /\ Contents("temp") = Table(Memory)
    /\ Contents("sessions") = Table(SessionId)
    /\ \A b, c \in BOOLEAN :
         /\ Empty("main", b, c) \in Table(Memory)
         /\ Empty("temp", b, c) \in Table(Memory)
         /\ Empty("sessions", b, c) \in Table(SessionId)
  BY DEF Contents, Table, Empty

LEMMA TypedInvTypes == TypedInv => TypeOK
  <1> SUFFICES ASSUME TypedInv PROVE TypeOK
    OBVIOUS
  <1>1. \A name \in Collection : store[name] \in Contents(name)
    BY ContentsAreTables DEF TypedInv, Stores, Collection
  <1> QED BY <1>1 DEF TypedInv, TypeOK, Documents

LEMMA TableSet ==
    ASSUME NEW s \in Stores, NEW name \in Collection,
           NEW c, c \in Table(IF name = "sessions" THEN SessionId ELSE Memory)
    PROVE  /\ [s EXCEPT ![name] = c] \in Stores
           /\ [s EXCEPT ![name] = c][name] = c
           /\ \A other \in Collection \ {name} :
                [s EXCEPT ![name] = c][other] = s[other]
  BY DEF Stores, Collection

LEMMA NoRunTyped == /\ NoRun \in Run /\ NoRun.doc \in Documents /\ NoRun.id = 1
                    /\ NoRun.doc.applied = {} /\ NoRun.batch = {}
                    /\ \A k \in Id : NoRun.doc.progress[k] = NoProgress
  BY Constants DEF NoRun, Run, Documents, Document, Progress, NoProgress, CopyPhase

LEMMA InitTyped == Init => TypedInv
  <1> SUFFICES ASSUME Init PROVE TypedInv
    OBVIOUS
  <1>1. store \in Stores
    <2>1. PICK known \in Known, exists \in BOOLEAN :
            store = [main |-> [exists |-> TRUE, sparse |-> FALSE,
                            at |-> [p \in Memory |->
                                {"data"} \cup (IF p \in Userless THEN {} ELSE {"user"})
                                         \cup (IF p \in known THEN {"owner"} ELSE {})]],
                  temp |-> Empty("temp", FALSE, FALSE),
                  sessions |-> [exists |-> exists, sparse |-> FALSE,
                                at |-> [s \in SessionId |->
                                    IF exists THEN {"data", "user"} ELSE {}]]]
      BY DEF Init
    <2>2. /\ store["main"] \in Table(Memory) /\ store["temp"] \in Table(Memory)
          /\ store["sessions"] \in Table(SessionId)
      <3>1. store["main"] \in Table(Memory)
        BY <2>1 DEF Table, Field
      <3>2. store["temp"] \in Table(Memory)
        BY <2>1, ContentsAreTables
      <3>3. store["sessions"] \in Table(SessionId)
        BY <2>1 DEF Table, Field
      <3> QED BY <3>1, <3>2, <3>3
    <2>3. store \in [Collection -> Table(Memory) \cup Table(SessionId)]
      <3>1. store = [name \in Collection |-> store[name]]
        BY <2>1 DEF Collection
      <3> QED BY <2>2, <3>1 DEF Collection
    <2> QED BY <2>2, <2>3 DEF Stores
  <1>2. deployment \in Deployments /\ failures \in 0..deployment.failures
    BY DeploymentTyped DEF Init
  <1>3. \A i \in Pod : pc[i] = "down" /\ run[i] = NoRun /\ RunTyped(pc[i], run[i])
    BY NoRunTyped DEF Init, RunTyped, Working, Recreating, Copying, Scanning
  <1>4. pc \in [Pod -> Stage] /\ run \in [Pod -> Run] /\ meta \in Documents
    BY NoRunTyped DEF Init, Stage
  <1> QED BY <1>1, <1>2, <1>3, <1>4 DEF Init, TypedInv

----------------------------------------------------------------------------
(* Pages.                                                                  *)

Precedes == {ss \in Nat \X Nat : ss[1] < ss[2]}

LEMMA LeastNumber ==
    ASSUME NEW S, S \subseteq Nat, S # {}
    PROVE  \E m \in S : \A k \in S : m <= k
  <1>1. IsWellFoundedOn(Precedes, Nat)
    BY NatLessThanWellFounded DEF OpToRel, Precedes
  <1>2. PICK m \in S : \A k \in S : <<k, m>> \notin Precedes
    BY <1>1, WFMin
  <1>3. \A k \in S : <<k, m>> \in Nat \X Nat /\ <<k, m>>[1] = k /\ <<k, m>>[2] = m
    OBVIOUS
  <1>4. \A k \in S : ~(k < m)
    BY <1>2, <1>3 DEF Precedes
  <1> QED BY <1>4

\* A page leaves nothing out before the offset that follows it.
LEMMA PageCovers ==
    ASSUME NEW n \in Nat, NEW S, S \subseteq 1..n
    PROVE  /\ Page(S) \subseteq S /\ After(S) \in {0} \cup S
           /\ \A p \in S : After(S) = 0 \/ p < After(S) => p \in Page(S)
  <1> DEFINE rest == S \ Page(S)
  <1>1. Page(S) \subseteq S
    BY DEF Page
  <1>2. CASE rest = {}
    BY <1>1, <1>2 DEF After
  <1>3. CASE rest # {}
    <2>1. rest \subseteq Nat
      <3>1. 1..n \subseteq Nat
        OBVIOUS
      <3> QED BY <3>1
    <2>2. \E p \in rest : \A q \in rest : p <= q
      <3> HIDE DEF rest
      <3> QED BY <1>3, <2>1, LeastNumber
    <2>3. /\ After(S) \in rest /\ \A q \in rest : After(S) <= q
      BY <1>3, <2>2 DEF After
    <2>4. ASSUME NEW p \in S, After(S) = 0 \/ p < After(S) PROVE p \in Page(S)
      BY <2>1, <2>3, <2>4
    <2> QED BY <1>1, <2>3, <2>4
  <1> QED BY <1>2, <1>3

----------------------------------------------------------------------------
(* Every step keeps the types.                                             *)

LEMMA MoveTyped ==
    ASSUME TypedInv, NEW i \in deployment.pods, NEW stage \in Stage, NEW r,
           RunTyped(stage, r), To(i, stage, r), deployment' = deployment,
           store' \in Stores, meta' \in Documents,
           failures' \in 0..deployment.failures,
           mishaps' \subseteq {"unrecorded", "unread"}
    PROVE  /\ TypedInv' /\ pc'[i] = stage /\ run'[i] = r
           /\ \A j \in Pod \ {i} : pc'[j] = pc[j] /\ run'[j] = run[j]
  <1>1. i \in Pod
    BY DeploymentTyped DEF TypedInv
  <1>2. /\ pc'[i] = stage /\ run'[i] = r
        /\ \A j \in Pod \ {i} : pc'[j] = pc[j] /\ run'[j] = run[j]
        /\ pc' \in [Pod -> Stage] /\ run' \in [Pod -> Run]
    BY <1>1 DEF TypedInv, To, RunTyped
  <1>3. \A j \in Pod : RunTyped(pc'[j], run'[j])
    BY <1>2 DEF TypedInv
  <1> QED BY <1>2, <1>3 DEF TypedInv

\* An instance that does anything was started.
LEMMA StartedOnes ==
    ASSUME TypedInv, NEW i \in Pod, pc[i] # "down"
    PROVE  i \in deployment.pods
  BY DEF TypedInv


LEMMA PointsTyped ==
    ASSUME TypedInv
    PROVE  /\ Points("main") = {p \in Memory : "data" \in store["main"].at[p]}
           /\ Points("temp") = {p \in Memory : "data" \in store["temp"].at[p]}
           /\ Points("sessions") =
                {s \in SessionId : "data" \in store["sessions"].at[s]}
  BY DEF TypedInv, Stores, Table, Points

LEMMA MemoriesCounted ==
    ASSUME NEW S \in SUBSET Memory
    PROVE  /\ Cardinality(S) \in 0..Memories /\ Cardinality(Memory) = Memories
           /\ Cardinality(S) >= Memories => S = Memory
  <1>1. IsFiniteSet(Memory) /\ Cardinality(Memory) = Memories
    BY Constants, FS_Interval
  <1>2. /\ IsFiniteSet(S) /\ Cardinality(S) <= Cardinality(Memory)
        /\ Cardinality(Memory) = Cardinality(S) => Memory = S
    BY <1>1, FS_Subset
  <1>3. Cardinality(S) \in Nat
    BY <1>2, FS_CardinalityType
  <1> QED BY <1>1, <1>2, <1>3, Constants

\* What a scroll of a collection from an offset gives.
LEMMA ScrollTyped ==
    ASSUME TypedInv, NEW name \in Collection,
           NEW S, S \subseteq Points(name)
    PROVE  /\ After(S) \in Offset
           /\ {<<p, store[name].at[p]>> : p \in Page(S)}
                \in SUBSET (Nat \X SUBSET Field)
  <1>1. PICK n \in Nat : Points(name) \subseteq 1..n /\ 1..n \subseteq Offset
                         /\ \A p \in 1..n : store[name].at[p] \in SUBSET Field
    <2>1. CASE name = "main" \/ name = "temp"
      BY <2>1, PointsTyped, Constants DEF TypedInv, Stores, Table
    <2>2. CASE name = "sessions"
      BY <2>2, PointsTyped, Constants DEF TypedInv, Stores, Table
    <2> QED BY <2>1, <2>2 DEF Collection
  <1>2. /\ Page(S) \subseteq S /\ After(S) \in {0} \cup S
    BY <1>1, PageCovers
  <1> QED BY <1>1, <1>2, Constants

\* The actions of the migrations, one by one.
BeginScan(i) == Begin(i) /\ run[i].id \in {Owner, Revision, Projection, Classify}
Migrating(i) ==
    \/ RunSparse(i) \/ CreateSessions(i) \/ AddMemoryLayerIndex(i)
    \/ BeginScan(i) \/ BackfillSession(i) \/ Inspect(i) \/ Scan(i) \/ Write(i) \/ SaveScan(i)
    \/ CopyStart(i) \/ Copy(i) \/ CopyWrite(i) \/ SaveCopy(i) \/ Copied(i)
    \/ Drop(i) \/ Rebuild(i) \/ Clean(i)
Acts(i) ==
    \/ Start(i) \/ Load(i) \/ LoadNothing(i) \/ Choose(i) \/ Complete(i)
    \/ Handler(i) \/ Migrating(i) \/ Crash(i) \/ Fault(i) \/ Shrug(i)

LEMMA NextActs == [Next]_vars => UNCHANGED vars \/ \E i \in Pod : Acts(i)
  BY DEF Next, Step, Acts, Migrating, BeginScan, AddSparseVectors, RunRecreation,
     CopyPoints, BackfillOwnerId, AddRevisionFoundation, AddValidationProjection,
     ClassifyLegacyFailures, Sweep

\* What the handler of a failure finds in memory.
LEMMA DraftCases ==
    ASSUME NEW i, NEW doc \in Drafts(i)
    PROVE  \/ doc = run[i].doc
           \/ pc[i] = "done" /\ doc = Completed(run[i].doc, run[i].id)
           \/ pc[i] = "save" /\ doc = Checkpoint(run[i], run[i].id, "scan")
           \/ pc[i] = "save_copy" /\ doc = Checkpoint(run[i], Sparse, Phase(run[i]))
           \/ /\ pc[i] = "copied" /\ Phase(run[i]) = "copy_to_temp"
              /\ store["temp"].exists /\ Counted(run[i])
              /\ doc = Turned(run[i].doc)
  BY DEF Drafts

LEMMA DocumentsTyped ==
    ASSUME NEW r \in Run, r.doc \in Documents
    PROVE  /\ \A k \in Id : /\ Completed(r.doc, k) \in Documents
                            /\ Checkpoint(r, k, "scan") \in Documents
           /\ Checkpoint(r, Sparse, Phase(r)) \in Documents
           /\ Turned(r.doc) \in Documents
  <1>1. /\ NoProgress \in Progress /\ NoProgress.phase = "none"
        /\ Reached(r, "scan") \in Progress /\ Reached(r, "scan").phase = "scan"
        /\ Reached(r, Phase(r)) \in Progress
        /\ [phase |-> "copy_back", offset |-> 0] \in Progress
    BY Constants DEF NoProgress, Reached, Progress, Run, Phase
  <1>2. \A k \in Id : Completed(r.doc, k) \in Documents
    BY <1>1 DEF Completed, Documents, Document, CopyPhase
  <1>3. \A k \in Id : Checkpoint(r, k, "scan") \in Documents
    BY <1>1 DEF Checkpoint, Documents, Document, CopyPhase
  <1>4. Checkpoint(r, Sparse, Phase(r)) \in Documents /\ Turned(r.doc) \in Documents
    BY <1>1, Constants DEF Checkpoint, Turned, Documents, Document
  <1> QED BY <1>2, <1>3, <1>4

LEMMA ScansTyped ==
    ASSUME TypedInv, NEW i \in Pod, Scan(i) \/ Write(i) \/ SaveScan(i)
    PROVE  TypedInv'
  <1> DEFINE r == run[i]
             name == ScanOf(r.id)
  <1>1. /\ i \in deployment.pods /\ RunTyped(pc[i], r) /\ r \in Run
        /\ pc[i] \in Stage /\ name \in Collection
        /\ r.id \in Scanned /\ r.id \in Id /\ r.doc \in Documents
    BY StartedOnes, Constants
       DEF TypedInv, Scan, Write, SaveScan, RunTyped, ScanOf, Collection, Scanning
  <1> USE DEF Stage, Working, Recreating, Copying, Scanning
  <1>2. CASE Scan(i)
    <2> DEFINE S == {p \in Points(name) :
                       p >= r.offset /\ Lacks(r.id, p, store[name].at[p])}
               q == [r EXCEPT !.batch = {<<p, store[name].at[p]>> : p \in Page(S)},
                              !.next = After(S)]
    <2>1. q \in Run /\ q.id = r.id /\ q.doc = r.doc
      <3>1. /\ After(S) \in Offset
            /\ {<<p, store[name].at[p]>> : p \in Page(S)} \in SUBSET (Nat \X SUBSET Field)
        BY <1>1, ScrollTyped
      <3> HIDE DEF S
      <3> QED BY <1>1, <3>1 DEF Run
    <2>2. RunTyped("done", q) /\ RunTyped("write", q)
      BY <1>1, <2>1 DEF RunTyped
    <2>3. CASE ~store[name].exists
      <3>1. RunTyped("handler", r) /\ To(i, "handler", r)
        BY <1>1, <1>2, <2>3 DEF Scan, Raise, RunTyped
      <3> QED BY <1>1, <1>2, <2>3, <3>1, MoveTyped DEF Scan, Raise, Keep, TypedInv
    <2>4. CASE store[name].exists
      <3>1. To(i, IF S = {} THEN "done" ELSE "write", q) /\ UNCHANGED <<store, meta>>
        BY <1>2, <2>4 DEF Scan
      <3> HIDE DEF S, q
      <3> QED BY <1>1, <1>2, <2>2, <3>1, MoveTyped DEF Scan, Keep, TypedInv
    <2> QED BY <2>3, <2>4
  <1>3. CASE Write(i)
    <2>1. PICK part \in SUBSET r.batch :
             /\ store' = [store EXCEPT ![name].at =
                    [p \in DOMAIN @ |->
                        @[p] \cup UNION {Added(r.id, p, x[2]) :
                            x \in {y \in part : y[1] = p /\ p \in Points(name)}}]]
             /\ To(i, IF part = r.batch THEN "save" ELSE "write",
                   [r EXCEPT !.batch = @ \ part])
      BY <1>3 DEF Write
    <2> DEFINE add == [p \in DOMAIN store[name].at |-> store[name].at[p] \cup
                          UNION {Added(r.id, p, x[2]) :
                            x \in {y \in part : y[1] = p /\ p \in Points(name)}}]
               q == [r EXCEPT !.batch = @ \ part]
    <2>2. \A p, f : Added(r.id, p, f) \subseteq Field
      BY DEF Added, Field
    <2>3. [store[name] EXCEPT !.at = add]
             \in Table(IF name = "sessions" THEN SessionId ELSE Memory)
      BY <1>1, <2>2 DEF TypedInv, Stores, Table, Collection
    <2>4. store' \in Stores
      <3>1. store' = [store EXCEPT ![name] = [store[name] EXCEPT !.at = add]]
        BY <1>1, <2>1 DEF TypedInv, Stores
      <3> HIDE DEF add, name
      <3> QED BY <1>1, <2>3, <3>1, TableSet DEF TypedInv
    <2>5. q \in Run /\ RunTyped("save", q) /\ RunTyped("write", q)
      BY <1>1 DEF RunTyped, Run
    <2> HIDE DEF q
    <2> QED BY <1>1, <1>3, <2>1, <2>4, <2>5, MoveTyped DEF Write, Keep, TypedInv, q
  <1>4. CASE SaveScan(i)
    <2> DEFINE q == [r EXCEPT !.doc = Checkpoint(r, r.id, "scan"), !.offset = r.next]
    <2>1. q \in Run /\ q.id = r.id /\ q.doc \in Documents
      <3>1. Checkpoint(r, r.id, "scan") \in Documents
        BY <1>1, DocumentsTyped
      <3> QED BY <1>1, <3>1 DEF Run, Documents
    <2>2. RunTyped("done", q) /\ RunTyped("scan", q)
      BY <1>1, <2>1 DEF RunTyped
    <2>3. meta' = q.doc /\ To(i, IF r.next = 0 THEN "done" ELSE "scan", q)
      BY <1>4 DEF SaveScan, Save
    <2> HIDE DEF q
    <2> QED BY <1>1, <1>4, <2>1, <2>2, <2>3, MoveTyped DEF SaveScan, Keep, TypedInv
  <1> QED BY <1>2, <1>3, <1>4

LEMMA CopiesTyped ==
    ASSUME TypedInv, NEW i \in Pod, Copy(i) \/ CopyWrite(i) \/ SaveCopy(i)
    PROVE  TypedInv'
  <1> DEFINE r == run[i]
  <1>1. /\ i \in deployment.pods /\ RunTyped(pc[i], r) /\ r \in Run
        /\ pc[i] \in Stage /\ r.id = Sparse /\ r.doc \in Documents
        /\ From(r) \in {"main", "temp"} /\ Into(r) \in {"main", "temp"}
    BY StartedOnes, Constants
       DEF TypedInv, Copy, CopyWrite, SaveCopy, RunTyped, Recreating, Copying, From, Into
  <1> USE DEF Stage, Working, Recreating, Copying, Scanning
  <1>2. RunTyped("handler", r)
    BY <1>1 DEF RunTyped
  <1>3. CASE Copy(i)
    <2> DEFINE S == {p \in Points(From(r)) : p >= r.offset}
               q == [r EXCEPT !.next = After(S),
                       !.batch = {<<p, store[From(r)].at[p]>> : p \in Page(S)}]
    <2>1. q \in Run /\ q.id = r.id /\ q.doc = r.doc
      <3>1. /\ After(S) \in Offset
            /\ {<<p, store[From(r)].at[p]>> : p \in Page(S)}
                 \in SUBSET (Nat \X SUBSET Field)
        BY <1>1, ScrollTyped DEF Collection
      <3> HIDE DEF S
      <3> QED BY <1>1, <3>1 DEF Run
    <2>2. RunTyped("copied", q) /\ RunTyped("copy_write", q)
      BY <1>1, <2>1, Constants DEF RunTyped
    <2>3. CASE ~store[From(r)].exists
      BY <1>1, <1>2, <1>3, <2>3, MoveTyped DEF Copy, Raise, Keep, TypedInv
    <2>4. CASE store[From(r)].exists
      <3>1. /\ To(i, IF S = {} THEN "copied" ELSE "copy_write", q)
            /\ UNCHANGED <<store, meta>>
        BY <1>3, <2>4 DEF Copy
      <3> HIDE DEF S, q
      <3> QED BY <1>1, <1>3, <2>2, <3>1, MoveTyped DEF Copy, Keep, TypedInv
    <2> QED BY <2>3, <2>4
  <1>4. CASE CopyWrite(i)
    <2> DEFINE q == [r EXCEPT !.batch = {}]
               more == IF Into(r) = "temp" THEN {"bm25"} ELSE {}
               new == [p \in DOMAIN store[Into(r)].at |->
                          IF \E x \in r.batch : x[1] = p
                          THEN more \cup UNION {x[2] : x \in {y \in r.batch : y[1] = p}}
                          ELSE store[Into(r)].at[p]]
    <2>1. q \in Run /\ RunTyped("save_copy", q)
      BY <1>1, Constants DEF RunTyped, Run
    <2>2. CASE ~store[Into(r)].exists
      BY <1>1, <1>2, <1>4, <2>2, MoveTyped DEF CopyWrite, Raise, Keep, TypedInv
    <2>3. CASE store[Into(r)].exists
      <3>1. /\ store' = [store EXCEPT ![Into(r)].at = new]
            /\ To(i, "save_copy", q) /\ UNCHANGED meta
        BY <1>4, <2>3 DEF CopyWrite
      <3>2. [store[Into(r)] EXCEPT !.at = new] \in Table(Memory)
        <4>1. \A x \in r.batch : x[2] \in SUBSET Field
          BY <1>1 DEF Run
        <4>2. store[Into(r)] \in Table(Memory)
          BY <1>1 DEF TypedInv, Stores
        <4> HIDE DEF r
        <4>3. \A p \in Memory : new[p] \in SUBSET Field
          BY <4>1, <4>2 DEF Field, Table
        <4> QED BY <4>2, <4>3 DEF Table
      <3>3. store' \in Stores
        <4>1. store' = [store EXCEPT ![Into(r)] = [store[Into(r)] EXCEPT !.at = new]]
          BY <3>1
        <4> HIDE DEF new
        <4> QED BY <1>1, <3>2, <4>1, TableSet DEF TypedInv, Collection
      <3> HIDE DEF q
      <3> QED BY <1>1, <1>4, <2>1, <3>1, <3>3, MoveTyped DEF CopyWrite, Keep, TypedInv
    <2> QED BY <2>2, <2>3
  <1>5. CASE SaveCopy(i)
    <2> DEFINE q == [r EXCEPT !.doc = Checkpoint(r, Sparse, Phase(r)), !.offset = r.next]
    <2>1. q \in Run /\ q.id = r.id /\ q.doc \in Documents
      <3>1. Checkpoint(r, Sparse, Phase(r)) \in Documents
        BY <1>1, DocumentsTyped
      <3> QED BY <1>1, <3>1 DEF Run, Documents
    <2>2. RunTyped("copied", q) /\ RunTyped("copy", q)
      BY <1>1, <2>1, Constants DEF RunTyped
    <2>3. meta' = q.doc /\ To(i, IF r.next = 0 THEN "copied" ELSE "copy", q)
      BY <1>5 DEF SaveCopy, Save
    <2> HIDE DEF q
    <2> QED BY <1>1, <1>5, <2>1, <2>2, <2>3, MoveTyped DEF SaveCopy, Keep, TypedInv
  <1> QED BY <1>3, <1>4, <1>5

LEMMA RecreationTyped ==
    ASSUME TypedInv, NEW i \in Pod,
           CopyStart(i) \/ Copied(i) \/ Drop(i) \/ Rebuild(i) \/ Clean(i)
    PROVE  TypedInv'
  <1> DEFINE r == run[i]
  <1>1. /\ i \in deployment.pods /\ RunTyped(pc[i], r) /\ r \in Run
        /\ pc[i] \in Stage /\ r.id = Sparse /\ r.doc \in Documents
        /\ Sparse \in Id /\ store \in Stores
    BY StartedOnes, Constants DEF TypedInv, CopyStart, Copied, Drop, Rebuild,
       Clean, RunTyped, Recreating, Copying
  <1> USE DEF Stage, Working, Recreating, Copying, Scanning
  <1>2. ASSUME NEW stage \in Recreating \cup {"handler", "done"} PROVE RunTyped(stage, r)
    BY <1>1, <1>2 DEF RunTyped
  <1>3. \A b, c \in BOOLEAN :
          /\ [store EXCEPT !["main"] = Empty("main", b, c)] \in Stores
          /\ [store EXCEPT !["temp"] = Empty("temp", b, c)] \in Stores
    BY <1>1, ContentsAreTables, TableSet DEF Collection
  <1>4. ASSUME NEW name \in {"main", "temp"}, NEW stage \in {"copy", "rebuild", "done"}
        PROVE  RunTyped(stage, [r EXCEPT !.total = Cardinality(Points(name))])
    <2>1. Cardinality(Points(name)) \in 0..Memories
      BY PointsTyped, MemoriesCounted
    <2> QED BY <1>1, <2>1 DEF RunTyped, Run
  <1>5. CASE CopyStart(i)
    <2>1. CASE ~store["main"].exists
      BY <1>1, <1>2, <1>5, <2>1, MoveTyped DEF CopyStart, Raise, Keep, TypedInv
    <2>2. CASE store["main"].exists
      BY <1>1, <1>3, <1>4, <1>5, <2>2, MoveTyped DEF CopyStart, Keep, TypedInv
    <2> QED BY <2>1, <2>2
  <1>6. CASE Copied(i)
    <2> DEFINE q == [r EXCEPT !.offset = 0, !.doc = Turned(r.doc)]
    <2>1. q \in Run /\ RunTyped("drop", q)
      <3>2. Turned(r.doc) \in Documents
        BY <1>1, DocumentsTyped
      <3>3. q \in Run /\ q.doc \in Documents /\ q.id = r.id
        BY <1>1, <3>2, Constants DEF Run, Documents
      <3> QED BY <1>1, <3>3 DEF RunTyped
    <2>2. q.doc \in Documents
      BY <2>1 DEF RunTyped
    <2>3. \/ Raise(i)
          \/ To(i, "clean", r) /\ UNCHANGED <<store, meta>>
          \/ Save(i, "drop", q) /\ UNCHANGED store
      BY <1>6 DEF Copied
    <2> HIDE DEF q
    <2>4. CASE Raise(i)
      BY <1>1, <1>2, <1>6, <2>4, MoveTyped DEF Copied, Raise, Keep, TypedInv
    <2>5. CASE To(i, "clean", r) /\ UNCHANGED <<store, meta>>
      BY <1>1, <1>2, <1>6, <2>5, MoveTyped DEF Copied, Keep, TypedInv
    <2>6. CASE Save(i, "drop", q) /\ UNCHANGED store
      BY <1>1, <1>6, <2>1, <2>2, <2>6, MoveTyped DEF Copied, Save, Keep, TypedInv
    <2> QED BY <2>3, <2>4, <2>5, <2>6
  <1>7. ASSUME NEW stage \in Stage, NEW q, RunTyped(stage, q), To(i, stage, q),
               store' \in Stores, meta' = meta, Keep
        PROVE  TypedInv'
    BY <1>1, <1>7, MoveTyped DEF Keep, TypedInv
  <1>8. CASE Drop(i)
    <2>1. CASE ~store["temp"].exists
      BY <1>1, <1>2, <1>7, <1>8, <2>1 DEF Drop, Raise
    <2>2. CASE store["temp"].exists
      <3>1. /\ store' = [store EXCEPT !["main"] = Empty("main", FALSE, FALSE)]
            /\ To(i, "rebuild", [r EXCEPT !.total = Cardinality(Points("temp"))])
            /\ UNCHANGED meta /\ Keep
        BY <1>8, <2>2 DEF Drop
      <3>2. store' \in Stores /\ RunTyped("rebuild", [r EXCEPT !.total = Cardinality(Points("temp"))])
        BY <1>3, <1>4, <3>1
      <3> QED BY <1>7, <3>1, <3>2
    <2> QED BY <2>1, <2>2
  <1>9. CASE Rebuild(i)
    <2>1. CASE store["main"].exists
      BY <1>1, <1>2, <1>7, <1>9, <2>1 DEF Rebuild, Raise
    <2>2. CASE ~store["main"].exists
      <3>1. /\ store' = [store EXCEPT !["main"] = Empty("main", TRUE, TRUE)]
            /\ To(i, "copy", r) /\ UNCHANGED meta /\ Keep
        BY <1>9, <2>2 DEF Rebuild
      <3>2. store' \in Stores /\ RunTyped("copy", r)
        BY <1>2, <1>3, <3>1
      <3> QED BY <1>7, <3>1, <3>2
    <2> QED BY <2>1, <2>2
  <1>10. CASE Clean(i)
    <2>1. store' \in Stores /\ RunTyped("done", r)
      BY <1>2, <1>3, <1>10 DEF Clean
    <2> QED BY <1>7, <1>10, <2>1 DEF Clean
  <1> QED BY <1>5, <1>6, <1>8, <1>9, <1>10

LEMMA RunnerTyped ==
    ASSUME TypedInv, NEW i \in Pod,
           \/ Start(i) \/ Load(i) \/ LoadNothing(i) \/ Choose(i) \/ Complete(i)
           \/ Handler(i) \/ Crash(i) \/ Fault(i)
    PROVE  TypedInv'
  <1> DEFINE r == run[i]
  <1>1. /\ i \in deployment.pods /\ RunTyped(pc[i], r) /\ r \in Run
        /\ pc[i] \in Stage /\ r.doc \in Documents /\ store \in Stores
        /\ deployment.failures \in Nat /\ failures \in 0..deployment.failures
        /\ meta \in Documents /\ mishaps \subseteq {"unrecorded", "unread"}
    BY StartedOnes, DeploymentTyped DEF TypedInv, RunTyped, Start, Load,
       LoadNothing, Choose, Complete, Handler, Crash, Fault
  <1>2. ASSUME NEW stage \in Stage, NEW q, RunTyped(stage, q), To(i, stage, q),
               store' \in Stores, meta' \in Documents, Keep
        PROVE  TypedInv'
    BY <1>1, <1>2, MoveTyped DEF Keep, TypedInv
  <1> USE DEF Stage, Working, Recreating, Copying, Scanning
  <1>3. CASE Start(i)
    <2>1. store' \in Stores
      BY <1>1, <1>3, ContentsAreTables, TableSet DEF Start, Collection
    <2>2. RunTyped("load", NoRun)
      BY NoRunTyped DEF RunTyped
    <2>3. To(i, "load", NoRun) /\ Keep /\ meta' = meta
      BY <1>3 DEF Start
    <2> QED BY <1>1, <1>2, <2>1, <2>2, <2>3
  <1>4. CASE Load(i)
    <2> DEFINE q == [NoRun EXCEPT !.doc = meta]
    <2>1. RunTyped("choose", q)
      BY <1>1, NoRunTyped DEF RunTyped, Run, Documents
    <2> QED BY <1>1, <1>2, <1>4, <2>1 DEF Load
  <1>5. CASE LoadNothing(i)
    <2>1. RunTyped("choose", NoRun)
      BY NoRunTyped DEF RunTyped
    <2>2. /\ To(i, "choose", NoRun) /\ UNCHANGED <<deployment, store, meta>>
          /\ failures' \in 0..deployment.failures
          /\ mishaps' \subseteq {"unrecorded", "unread"}
      BY <1>1, <1>5 DEF LoadNothing, Fails, Befalls
    <2> QED BY <1>1, <2>1, <2>2, MoveTyped
  <1>6. CASE Choose(i)
    <2> DEFINE open == {k \in Id \ r.doc.applied : k >= r.id}
    <2>1. CASE open = {}
      <3>1. RunTyped("up", NoRun)
        BY NoRunTyped DEF RunTyped
      <3> QED BY <1>1, <1>2, <1>6, <2>1, <3>1 DEF Choose
    <2>2. CASE open # {}
      <3>1. PICK k \in open :
              Save(i, "run", [r EXCEPT !.doc.running = @ \cup {k}, !.id = k])
        BY <1>6, <2>2 DEF Choose
      <3> DEFINE q == [r EXCEPT !.doc.running = @ \cup {k}, !.id = k]
      <3>2. RunTyped("run", q) /\ q.doc \in Documents
        <4>1. [r.doc EXCEPT !.running = @ \cup {k}] \in Documents
          BY <1>1 DEF Documents, Document
        <4>2. k \in Id /\ k \in 1..8
          BY Constants
        <4>3. q \in Run /\ q.doc \in Documents /\ q.id = k
          BY <1>1, <4>1, <4>2 DEF Run, Documents
        <4> QED BY <4>2, <4>3 DEF RunTyped
      <3>3. meta' = q.doc /\ To(i, "run", q) /\ Keep /\ UNCHANGED store
        BY <1>6, <3>1 DEF Choose, Save
      <3> HIDE DEF q
      <3> QED BY <1>1, <1>2, <3>2, <3>3
    <2> QED BY <2>1, <2>2
  <1>7. CASE Complete(i)
    <2> DEFINE q == [r EXCEPT !.doc = Completed(r.doc, r.id), !.id = r.id + 1]
    <2>1. RunTyped("choose", q) /\ q.doc \in Documents
      <3>1. r.id \in Id
        BY <1>1, <1>7 DEF Complete, RunTyped
      <3>2. NoProgress \in Progress /\ NoProgress.phase = "none"
        BY Constants DEF Progress, NoProgress
      <3>3. Completed(r.doc, r.id) \in Documents
        BY <1>1, <3>1, <3>2 DEF Completed, Documents, Document, CopyPhase
      <3>4. r.id + 1 \in 1..8
        BY <3>1, Constants
      <3>5. q \in Run /\ q.doc \in Documents
        BY <1>1, <3>3, <3>4 DEF Run, Documents
      <3> QED BY <3>5 DEF RunTyped
    <2>2. meta' = q.doc /\ To(i, "choose", q) /\ Keep /\ UNCHANGED store
      BY <1>7 DEF Complete, Save
    <2> HIDE DEF q
    <2> QED BY <1>1, <1>2, <2>1, <2>2
  <1>8. CASE Handler(i)
    <2> DEFINE q == [r EXCEPT !.doc.running = @ \ {r.id}]
    <2>1. RunTyped("down", q) /\ q.doc \in Documents
      <3>1. [r.doc EXCEPT !.running = @ \ {r.id}] \in Documents
        BY <1>1 DEF Documents, Document
      <3>2. q \in Run /\ q.doc \in Documents
        BY <1>1, <3>1 DEF Run, Documents
      <3> QED BY <3>2 DEF RunTyped
    <2>2. meta' = q.doc /\ To(i, "down", q) /\ Keep /\ UNCHANGED store
      BY <1>8 DEF Handler, Save
    <2> HIDE DEF q
    <2> QED BY <1>1, <1>2, <2>1, <2>2
  <1>9. CASE Crash(i)
    <2>1. RunTyped("down", NoRun)
      BY NoRunTyped DEF RunTyped
    <2>2. /\ failures' \in 0..deployment.failures
          /\ mishaps' \subseteq {"unrecorded", "unread"}
      BY <1>1, <1>9 DEF Crash, Fails, Befalls
    <2> QED BY <1>1, <1>9, <2>1, <2>2, MoveTyped DEF Crash
  <1>10. CASE Fault(i)
    <2>1. PICK doc \in Drafts(i) :
             /\ To(i, "handler", [r EXCEPT !.doc = doc])
             /\ mishaps' \subseteq {"unrecorded", "unread"}
      BY <1>1, <1>10 DEF Fault, Befalls
    <2> DEFINE q == [r EXCEPT !.doc = doc]
    <2>2. doc \in Documents
      <3>1. pc[i] \in {"done", "save"} => r.id \in Id
        BY <1>1, Constants DEF RunTyped
      <3> QED BY <1>1, <3>1, DraftCases, DocumentsTyped
    <2>3. RunTyped("handler", q)
      BY <1>1, <2>2 DEF RunTyped, Run, Documents
    <2>4. failures' \in 0..deployment.failures
      BY <1>1, <1>10 DEF Fault, Fails
    <2> HIDE DEF q
    <2>5. To(i, "handler", q)
      BY <2>1 DEF q
    <2> QED BY <1>1, <1>10, <2>1, <2>3, <2>4, <2>5, MoveTyped DEF Fault
  <1> QED BY <1>3, <1>4, <1>5, <1>6, <1>7, <1>8, <1>9, <1>10

LEMMA BeginningsTyped ==
    ASSUME TypedInv, NEW i \in Pod,
           \/ RunSparse(i) \/ CreateSessions(i) \/ AddMemoryLayerIndex(i)
           \/ BeginScan(i) \/ BackfillSession(i) \/ Inspect(i) \/ Shrug(i)
    PROVE  TypedInv'
  <1> DEFINE r == run[i]
  <1>1. /\ i \in deployment.pods /\ RunTyped(pc[i], r) /\ r \in Run
        /\ pc[i] \in Stage /\ r.doc \in Documents /\ store \in Stores
        /\ meta \in Documents /\ i \in Pod
    BY StartedOnes DEF TypedInv, RunTyped, RunSparse, CreateSessions,
       AddMemoryLayerIndex, Begin, BeginScan, BackfillSession, Inspect, Shrug
  <1>2. ASSUME NEW stage \in Stage, NEW q, RunTyped(stage, q), To(i, stage, q),
               store' \in Stores, meta' = meta, Keep
        PROVE  TypedInv'
    BY <1>1, <1>2, MoveTyped DEF Keep, TypedInv
  <1> USE DEF Stage, Working, Recreating, Copying, Scanning
  <1>3. CASE RunSparse(i) \/ BeginScan(i)
    <2> DEFINE q == [r EXCEPT !.offset = r.doc.progress[r.id].offset]
    <2>1. /\ q \in Run /\ q.id = r.id /\ q.doc = r.doc /\ r.id \in Scanned
          /\ r.id \in Id
      <3>1. r.id \in Scanned /\ r.id \in Id
        BY <1>3, Constants DEF RunSparse, BeginScan, Scanned
      <3>2. r.doc.progress[r.id].offset \in Offset
        BY <1>1, <3>1 DEF Documents, Document, Progress
      <3> QED BY <1>1, <3>1, <3>2 DEF Run
    <2>2. CASE RunSparse(i)
      <3>1. \/ To(i, "drop", q) /\ UNCHANGED store
            \/ To(i, "copy_start", q) /\ UNCHANGED store
            \/ /\ To(i, "inspect", q)
               /\ \/ store' = [store EXCEPT !["main"].sparse = TRUE]
                  \/ store' = store
        BY <2>2 DEF RunSparse
      <3>2. RunTyped("drop", q) /\ RunTyped("copy_start", q) /\ RunTyped("inspect", q)
        BY <1>1, <2>1, <2>2 DEF RunTyped, RunSparse
      <3>3. [store EXCEPT !["main"].sparse = TRUE] \in Stores
        <4>1. [store["main"] EXCEPT !.sparse = TRUE] \in Table(Memory)
          BY <1>1 DEF Stores, Table
        <4>2. [store EXCEPT !["main"].sparse = TRUE]
                = [store EXCEPT !["main"] = [store["main"] EXCEPT !.sparse = TRUE]]
          OBVIOUS
        <4> QED BY <1>1, <4>1, <4>2, TableSet DEF Collection
      <3> HIDE DEF q
      <3> QED BY <1>1, <1>2, <2>2, <3>1, <3>2, <3>3 DEF RunSparse
    <2>3. CASE BeginScan(i)
      <3>1. To(i, IF r.id = Revision THEN "sessions" ELSE "scan", q)
        BY <2>3 DEF Begin, BeginScan
      <3>2. RunTyped(IF r.id = Revision THEN "sessions" ELSE "scan", q)
        BY <1>1, <2>1, <2>3 DEF RunTyped, BeginScan
      <3> HIDE DEF q
      <3> QED BY <1>1, <1>2, <2>3, <3>1, <3>2 DEF Begin, BeginScan
    <2> QED BY <1>3, <2>2, <2>3
  <1>4. CASE CreateSessions(i) \/ AddMemoryLayerIndex(i)
    <2>1. RunTyped("done", r)
      BY <1>1, <1>4 DEF RunTyped, CreateSessions, AddMemoryLayerIndex
    <2>2. store' \in Stores
      <3>1. [store EXCEPT !["sessions"] = Empty("sessions", TRUE, FALSE)] \in Stores
        BY <1>1, ContentsAreTables, TableSet DEF Collection
      <3> QED BY <1>1, <1>4, <3>1 DEF CreateSessions, AddMemoryLayerIndex
    <2> QED BY <1>1, <1>2, <1>4, <2>1, <2>2 DEF CreateSessions, AddMemoryLayerIndex
  <1>5. CASE BackfillSession(i)
    <2>1. CASE To(i, "scan", r) /\ UNCHANGED store
      <3>1. RunTyped("scan", r)
        BY <1>1, <1>5 DEF RunTyped, BackfillSession, Scanned
      <3> QED BY <1>1, <1>2, <1>5, <2>1, <3>1 DEF BackfillSession
    <2>2. ASSUME NEW s \in Points("sessions"), UNCHANGED <<pc, run>>,
                 store' = [store EXCEPT !["sessions"].at[s] = @ \cup {"owner"}]
          PROVE  TypedInv'
      <3>1. s \in SessionId
        BY PointsTyped
      <3>2. [store["sessions"] EXCEPT !.at[s] = @ \cup {"owner"}] \in Table(SessionId)
        BY <1>1, <3>1 DEF Stores, Table, Field
      <3>3. store' = [store EXCEPT !["sessions"] =
                        [store["sessions"] EXCEPT !.at[s] = @ \cup {"owner"}]]
        BY <2>2
      <3>4. store' \in Stores
        BY <1>1, <3>2, <3>3, TableSet DEF Collection
      <3> QED BY <1>5, <2>2, <3>4 DEF BackfillSession, Keep, TypedInv
    <2> QED BY <1>5, <2>1, <2>2 DEF BackfillSession
  <1>6. CASE Inspect(i)
    <2>1. RunTyped("copy_start", r) /\ RunTyped("done", r) /\ RunTyped("scan", r)
      BY <1>1, <1>6, Constants DEF RunTyped, Inspect, Scanned
    <2>2. To(i, "copy_start", r) \/ To(i, "done", r) \/ To(i, "scan", r)
      BY <1>6 DEF Inspect
    <2> QED BY <1>1, <1>2, <1>6, <2>1, <2>2 DEF Inspect
  <1>7. CASE Shrug(i)
    <2> DEFINE q == [r EXCEPT !.offset = r.doc.progress[r.id].offset]
    <2>1. pc[i] = "run" /\ r.id = Sparse => RunTyped("inspect", q)
      <3>1. pc[i] = "run" /\ r.id = Sparse => r.doc.progress[r.id].offset \in Offset
        BY <1>1, Constants DEF Documents, Document, Progress
      <3> QED BY <1>1, <3>1 DEF RunTyped, Run
    <2>2. pc[i] = "inspect" => RunTyped("copy_start", r)
      BY <1>1, Constants DEF RunTyped
    <2> HIDE DEF q
    <2>3. /\ \/ pc[i] = "run" /\ r.id = Sparse /\ To(i, "inspect", q)
             \/ pc[i] = "inspect" /\ To(i, "copy_start", r)
          /\ UNCHANGED <<deployment, store, meta, mishaps>>
      BY <1>7 DEF Shrug, q
    <2>4. failures' \in 0..deployment.failures /\ mishaps \subseteq {"unrecorded", "unread"}
      BY <1>7, DeploymentTyped DEF Shrug, Fails, TypedInv
    <2> QED BY <1>1, <2>1, <2>2, <2>3, <2>4, MoveTyped
  <1> QED BY <1>3, <1>4, <1>5, <1>6, <1>7

LEMMA NextTyped == TypedInv /\ [Next]_vars => TypedInv'
  <1> SUFFICES ASSUME TypedInv, [Next]_vars PROVE TypedInv'
    OBVIOUS
  <1>1. CASE UNCHANGED vars
    BY <1>1 DEF vars, TypedInv
  <1>2. ASSUME NEW i \in Pod, Acts(i) PROVE TypedInv'
    BY <1>2, ScansTyped, CopiesTyped, RecreationTyped, RunnerTyped, BeginningsTyped
       DEF Acts, Migrating
  <1> QED BY <1>1, <1>2, NextActs

\* Whatever instances start, stop and fail in whatever order, the document, the
\* collections and what each instance remembers keep their types.
THEOREM TypeCorrect == Spec => []TypeOK
  <1>1. Init => TypedInv
    BY InitTyped
  <1>2. TypedInv /\ [Next]_vars => TypedInv'
    BY NextTyped
  <1>3. TypedInv => TypeOK
    BY TypedInvTypes
  <1> QED BY <1>1, <1>2, <1>3, PTL DEF Spec

----------------------------------------------------------------------------
(* What a step does to the collections, unless it is one of a recreation.  *)

Keeps(s, t) ==
    /\ t["main"].exists = s["main"].exists
    /\ s["main"].sparse => t["main"].sparse
    /\ \A p \in Memory : s["main"].at[p] \subseteq t["main"].at[p]
    /\ \A p \in Memory : "data" \in t["main"].at[p] => "data" \in s["main"].at[p]
    /\ t["temp"] = s["temp"]
    /\ \A x \in SessionId : "data" \in t["sessions"].at[x] =>
          "data" \in s["sessions"].at[x] /\ s["sessions"].at[x] \subseteq t["sessions"].at[x]

Recreates(i) == CopyStart(i) \/ CopyWrite(i) \/ Drop(i) \/ Rebuild(i) \/ Clean(i)

LEMMA WriteAdds ==
    ASSUME TypedInv, NEW i \in Pod, Write(i)
    PROVE  /\ Keeps(store, store')
           /\ store'["main"].sparse = store["main"].sparse
           /\ ScanOf(run[i].id) # "main" => store'["main"] = store["main"]
  <1> DEFINE r == run[i]
             name == ScanOf(r.id)
  <1>1. PICK part \in SUBSET r.batch :
           store' = [store EXCEPT ![name].at =
                    [p \in DOMAIN @ |->
                        @[p] \cup UNION {Added(r.id, p, x[2]) :
                            x \in {y \in part : y[1] = p /\ p \in Points(name)}}]]
    BY DEF Write
  <1> DEFINE add(p) == UNION {Added(r.id, p, x[2]) :
                            x \in {y \in part : y[1] = p /\ p \in Points(name)}}
  <1>2. /\ name \in Collection /\ name \in {"main", "sessions"}
        /\ store \in Stores
    BY DEF ScanOf, Collection, TypedInv
  <1>3. \A p : "data" \notin add(p)
    BY DEF Added
  <1>4. /\ \A other \in Collection : other # name => store'[other] = store[other]
        /\ store'[name].exists = store[name].exists
        /\ store'[name].sparse = store[name].sparse
        /\ \A p \in DOMAIN store[name].at :
              store'[name].at[p] = store[name].at[p] \cup add(p)
    <2> HIDE DEF name, add
    <2>1. store' = [store EXCEPT ![name].at =
                      [p \in DOMAIN @ |-> @[p] \cup add(p)]]
      BY <1>1 DEF add
    <2>2. name \in DOMAIN store /\ DOMAIN store = Collection
          /\ store[name] \in Table(Memory) \cup Table(SessionId)
      BY <1>2 DEF Stores, Collection
    <2> QED BY <2>1, <2>2 DEF Table
  <1> HIDE DEF name, add
  <1>5. CASE name = "main"
    BY <1>2, <1>3, <1>4, <1>5 DEF Keeps, Stores, Table, Collection, name
  <1>6. CASE name = "sessions"
    BY <1>2, <1>3, <1>4, <1>6 DEF Keeps, Stores, Table, Collection, name
  <1> QED BY <1>2, <1>5, <1>6

LEMMA SessionsKept ==
    ASSUME TypedInv, NEW i \in Pod, BackfillSession(i) \/ CreateSessions(i)
    PROVE  /\ Keeps(store, store') /\ store'["main"] = store["main"]
  <1>1. store \in Stores
    BY DEF TypedInv
  <1>2. CASE BackfillSession(i)
    <2>1. CASE store' = store
      BY <2>1 DEF Keeps
    <2>2. ASSUME NEW s \in Points("sessions"),
                 store' = [store EXCEPT !["sessions"].at[s] = @ \cup {"owner"}]
          PROVE  /\ Keeps(store, store') /\ store'["main"] = store["main"]
      BY <1>1, <2>2, PointsTyped DEF Keeps, Stores, Table, Collection
    <2> QED BY <1>2, <2>1, <2>2 DEF BackfillSession
  <1>3. CASE CreateSessions(i)
    <2>1. CASE store' = store
      BY <2>1 DEF Keeps
    <2>2. CASE store' = [store EXCEPT !["sessions"] = Empty("sessions", TRUE, FALSE)]
      BY <1>1, <2>2 DEF Keeps, Stores, Table, Collection, Empty
    <2> QED BY <1>3, <2>1, <2>2 DEF CreateSessions
  <1> QED BY <1>2, <1>3

LEMMA MostStepsKeep ==
    ASSUME TypedInv, NEW i \in Pod, Acts(i), ~Recreates(i),
           Start(i) => store["main"].exists
    PROVE  Keeps(store, store')
  <1>1. CASE UNCHANGED store
    BY <1>1 DEF Keeps
  <1>2. CASE Write(i) \/ BackfillSession(i) \/ CreateSessions(i)
    BY <1>2, WriteAdds, SessionsKept
  <1>3. CASE RunSparse(i)
    <2>1. CASE store' = [store EXCEPT !["main"].sparse = TRUE]
      BY <2>1 DEF Keeps, TypedInv, Stores, Table, Collection
    <2> QED BY <1>1, <1>3, <2>1 DEF RunSparse
  <1>4. CASE Start(i)
    BY <1>1, <1>4 DEF Start
  <1>5. CASE \/ Load(i) \/ LoadNothing(i) \/ Choose(i) \/ Complete(i)
             \/ Handler(i) \/ Crash(i) \/ Fault(i) \/ Shrug(i) \/ AddMemoryLayerIndex(i)
             \/ BeginScan(i) \/ Inspect(i) \/ Scan(i) \/ SaveScan(i)
             \/ Copy(i) \/ SaveCopy(i) \/ Copied(i)
    <2>1. UNCHANGED store
      BY <1>5 DEF Load, LoadNothing, Choose, Complete, Handler, Crash, Fault,
         Shrug, AddMemoryLayerIndex, BeginScan, Begin, Inspect, Scan, SaveScan,
         Copy, SaveCopy, Copied, Raise
    <2> QED BY <1>1, <2>1
  <1> QED BY <1>2, <1>3, <1>4, <1>5 DEF Acts, Migrating, Recreates

----------------------------------------------------------------------------
(* Nothing is lost where sparse vectors are added in place.                *)

MainFull(s) == \A p \in Memory : "data" \in s["main"].at[p]
TempFull(s) == s["temp"].exists /\ \A p \in Memory : "data" \in s["temp"].at[p]
SparsePhase(doc) == doc.progress[Sparse].phase

RunInPlace(stage, r, s) ==
    /\ SparsePhase(r.doc) \notin CopyPhase
    /\ stage \notin Recreating
    /\ stage \in Scanning \cup {"inspect", "done"} /\ r.id = Sparse =>
          s["main"].sparse
InPlaceInv ==
    /\ store["main"].exists /\ MainFull(store)
    /\ SparsePhase(meta) \notin CopyPhase
    /\ \A i \in Pod : RunInPlace(pc[i], run[i], store)

\* How a change of the document changes the phase of the recreation.
LEMMA PhaseChanges ==
    ASSUME NEW r, r.doc \in Documents
    PROVE  /\ \A k : /\ SparsePhase(Completed(r.doc, k)) \in {SparsePhase(r.doc), "none"}
                     /\ SparsePhase(Checkpoint(r, k, "scan")) \in
                            {SparsePhase(r.doc), "scan"}
           /\ SparsePhase(Checkpoint(r, Sparse, Phase(r))) = Phase(r)
           /\ SparsePhase(Turned(r.doc)) = "copy_back"
  BY Constants DEF SparsePhase, Completed, Checkpoint, Turned, Reached, NoProgress,
     Documents, Document

LEMMA InPlaceKept ==
    ASSUME TypedInv, InPlaceInv, deployment.addable, ~deployment.swallows,
           NEW i \in Pod, Acts(i)
    PROVE  InPlaceInv'
  <1> DEFINE r == run[i]
  <1> USE DEF Working, Recreating, Copying, Scanning
  <1>1. /\ RunTyped(pc[i], r) /\ r.doc \in Documents /\ pc[i] \notin Recreating
        /\ SparsePhase(r.doc) \notin CopyPhase /\ meta \in Documents
        /\ RunInPlace(pc[i], r, store)
    BY DEF TypedInv, RunTyped, InPlaceInv, RunInPlace
  <1>2. ~Recreates(i) /\ ~Copy(i) /\ ~SaveCopy(i) /\ ~Copied(i) /\ ~Shrug(i)
    BY <1>1 DEF Recreates, CopyStart, CopyWrite, Drop, Rebuild, Clean, Copy,
       SaveCopy, Copied, Shrug
  <1>3. Keeps(store, store')
    BY <1>2, MostStepsKeep DEF InPlaceInv
  <1>4. MainFull(store') /\ store'["main"].exists
    BY <1>3 DEF InPlaceInv, MainFull, Keeps
  <1>5. ASSUME NEW stage, NEW q, To(i, stage, q), RunInPlace(stage, q, store'),
               SparsePhase(meta') \notin CopyPhase
        PROVE  InPlaceInv'
    <2>1. /\ pc'[i] = stage /\ run'[i] = q
          /\ \A j \in Pod : j # i => pc'[j] = pc[j] /\ run'[j] = run[j]
      BY <1>5 DEF To, TypedInv
    <2>2. ASSUME NEW j \in Pod, j # i PROVE RunInPlace(pc'[j], run'[j], store')
      BY <1>3, <2>1, <2>2 DEF InPlaceInv, RunInPlace, Keeps
    <2> QED BY <1>4, <1>5, <2>1, <2>2 DEF InPlaceInv
  <1>6. SparsePhase(NoRun.doc) \notin CopyPhase
    BY NoRunTyped, Constants DEF SparsePhase, NoProgress, CopyPhase
  <1>7. SparsePhase(meta) \notin CopyPhase
    BY DEF InPlaceInv
  <1>8. CASE Start(i) \/ LoadNothing(i) \/ Crash(i)
    <2>1. meta' = meta /\ \E stage \in {"load", "choose", "down"} : To(i, stage, NoRun)
      BY <1>8 DEF Start, LoadNothing, Crash
    <2> QED BY <1>5, <1>6, <1>7, <2>1 DEF RunInPlace
  <1>9. CASE Load(i)
    BY <1>5, <1>7, <1>9 DEF Load, RunInPlace, NoRun
  <1>10. CASE Fault(i)
    <2>1. PICK doc \in Drafts(i) : To(i, "handler", [r EXCEPT !.doc = doc])
      BY <1>10 DEF Fault
    <2> DEFINE q == [r EXCEPT !.doc = doc]
    <2>2. q.doc = doc
      BY <1>1 DEF RunTyped, Run
    <2>3. SparsePhase(doc) \notin CopyPhase
      <3>1. doc = r.doc \/ doc = Completed(r.doc, r.id) \/ doc = Checkpoint(r, r.id, "scan")
        BY <1>1, DraftCases
      <3>2. \A k : /\ SparsePhase(Completed(r.doc, k)) \in {SparsePhase(r.doc), "none"}
                   /\ SparsePhase(Checkpoint(r, k, "scan")) \in {SparsePhase(r.doc), "scan"}
        BY <1>1, PhaseChanges
      <3> QED BY <1>1, <3>1, <3>2 DEF CopyPhase
    <2>4. To(i, "handler", q) /\ meta' = meta
      BY <1>10, <2>1 DEF Fault
    <2> HIDE DEF q
    <2> QED BY <1>5, <1>7, <2>2, <2>3, <2>4 DEF RunInPlace
  <1>11. CASE Choose(i)
    <2>1. CASE To(i, "up", NoRun) /\ UNCHANGED meta
      BY <1>5, <1>6, <1>7, <2>1 DEF RunInPlace, NoRun
    <2>2. ASSUME NEW k, Save(i, "run", [r EXCEPT !.doc.running = @ \cup {k}, !.id = k])
          PROVE  InPlaceInv'
      <3> DEFINE q == [r EXCEPT !.doc.running = @ \cup {k}, !.id = k]
      <3>1. q.doc.progress = r.doc.progress
        BY <1>1 DEF Documents, Document, RunTyped, Run
      <3>2. SparsePhase(q.doc) \notin CopyPhase
        BY <1>1, <3>1 DEF SparsePhase
      <3>3. To(i, "run", q) /\ meta' = q.doc
        BY <2>2 DEF Save
      <3> HIDE DEF q
      <3> QED BY <1>5, <3>2, <3>3 DEF RunInPlace
    <2> QED BY <1>11, <2>1, <2>2 DEF Choose
  <1>12. CASE Complete(i)
    <2> DEFINE q == [r EXCEPT !.doc = Completed(r.doc, r.id), !.id = r.id + 1]
    <2>1. q.doc.progress = [r.doc.progress EXCEPT ![r.id] = NoProgress]
      BY <1>1 DEF Documents, Document, RunTyped, Run, Completed
    <2>2. SparsePhase(q.doc) \notin CopyPhase
      BY <1>1, <2>1, Constants DEF SparsePhase, NoProgress, Documents, Document, CopyPhase
    <2>3. To(i, "choose", q) /\ meta' = q.doc
      BY <1>12 DEF Complete, Save
    <2> HIDE DEF q
    <2> QED BY <1>5, <2>2, <2>3 DEF RunInPlace
  <1>13. CASE Handler(i)
    <2> DEFINE q == [r EXCEPT !.doc.running = @ \ {r.id}]
    <2>1. q.doc.progress = r.doc.progress
      BY <1>1 DEF Documents, Document, RunTyped, Run
    <2>2. SparsePhase(q.doc) \notin CopyPhase
      BY <1>1, <2>1 DEF SparsePhase
    <2>3. To(i, "down", q) /\ meta' = q.doc
      BY <1>13 DEF Handler, Save
    <2> HIDE DEF q
    <2> QED BY <1>5, <2>2, <2>3 DEF RunInPlace
  <1>14. CASE RunSparse(i)
    <2> DEFINE q == [r EXCEPT !.offset = r.doc.progress[r.id].offset]
    <2>1. /\ ~Resumes(r.doc.progress[r.id].phase)
          /\ q.doc = r.doc
      BY <1>1, <1>14 DEF SparsePhase, RunSparse, Resumes, CopyPhase, RunTyped, Run
    <2>2. /\ To(i, "inspect", q) /\ meta' = meta
          /\ store' = [store EXCEPT !["main"].sparse = TRUE]
      BY <1>14, <2>1 DEF RunSparse, InPlaceInv, Keep
    <2>3. store'["main"].sparse
      BY <2>2 DEF TypedInv, Stores, Table, Collection
    <2> HIDE DEF q
    <2> QED BY <1>1, <1>5, <1>7, <2>1, <2>2, <2>3 DEF RunInPlace
  <1>15. CASE CreateSessions(i) \/ AddMemoryLayerIndex(i)
    <2>1. r.id # Sparse
      <3>1. r.id = SessionRows \/ r.id = LayerIndex
        BY <1>15 DEF CreateSessions, AddMemoryLayerIndex
      <3> QED BY <3>1 DEF Sparse, SessionRows, LayerIndex
    <2> QED BY <1>1, <1>5, <1>7, <1>15, <2>1
            DEF CreateSessions, AddMemoryLayerIndex, RunInPlace
  <1>16. CASE BeginScan(i)
    <2> DEFINE q == [r EXCEPT !.offset = r.doc.progress[r.id].offset]
    <2>1. q.doc = r.doc /\ q.id = r.id /\ r.id # Sparse
      BY <1>1, <1>16 DEF BeginScan, RunTyped, Run, Sparse, Owner, Revision,
         Projection, Classify
    <2>2. To(i, IF r.id = Revision THEN "sessions" ELSE "scan", q) /\ meta' = meta
      BY <1>16 DEF BeginScan, Begin
    <2> HIDE DEF q
    <2> QED BY <1>1, <1>5, <1>7, <2>1, <2>2 DEF RunInPlace
  <1>17. CASE BackfillSession(i)
    <2>1. r.id # Sparse
      BY <1>1, <1>17 DEF RunTyped, BackfillSession, Sparse, Revision
    <2>2. CASE To(i, "scan", r)
      BY <1>1, <1>5, <1>7, <1>17, <2>1, <2>2 DEF BackfillSession, RunInPlace
    <2>3. CASE UNCHANGED <<pc, run>>
      <3>1. \A j \in Pod : RunInPlace(pc'[j], run'[j], store')
        BY <1>3, <2>3 DEF InPlaceInv, RunInPlace, Keeps
      <3> QED BY <1>4, <1>7, <1>17, <3>1 DEF InPlaceInv, BackfillSession
    <2> QED BY <1>17, <2>2, <2>3 DEF BackfillSession
  <1>18. CASE Inspect(i)
    <2>1. store["main"].sparse /\ store' = store /\ meta' = meta
      BY <1>1, <1>18 DEF Inspect, RunInPlace, RunTyped
    <2>2. To(i, "done", r) \/ To(i, "scan", r)
      BY <1>18, <2>1 DEF Inspect, InPlaceInv
    <2> QED BY <1>1, <1>5, <1>7, <2>1, <2>2 DEF RunInPlace
  <1>19. CASE Scan(i)
    <2> DEFINE S == {p \in Points(ScanOf(r.id)) :
                       p >= r.offset /\ Lacks(r.id, p, store[ScanOf(r.id)].at[p])}
               b == {<<p, store[ScanOf(r.id)].at[p]>> : p \in Page(S)}
               q == [r EXCEPT !.batch = b, !.next = After(S)]
    <2>1. /\ \/ To(i, "handler", r) \/ To(i, "done", q) \/ To(i, "write", q)
          /\ meta' = meta /\ store' = store
      BY <1>19 DEF Scan, Raise
    <2>2. q.doc = r.doc /\ q.id = r.id
      BY <1>1 DEF RunTyped, Run
    <2>3. r.id = Sparse => store'["main"].sparse
      BY <1>1, <1>19, <2>1 DEF Scan, RunInPlace
    <2> HIDE DEF q
    <2> QED BY <1>1, <1>5, <1>7, <2>1, <2>2, <2>3 DEF RunInPlace
  <1>20. CASE Write(i)
    <2>1. PICK part : To(i, IF part = r.batch THEN "save" ELSE "write",
                           [r EXCEPT !.batch = @ \ part])
      BY <1>20 DEF Write
    <2> DEFINE q == [r EXCEPT !.batch = @ \ part]
    <2>2. q.doc = r.doc /\ q.id = r.id
      BY <1>1 DEF RunTyped, Run
    <2>3. r.id = Sparse => store'["main"].sparse
      BY <1>1, <1>3, <1>20 DEF Write, RunInPlace, Keeps
    <2> HIDE DEF q
    <2> QED BY <1>1, <1>5, <1>7, <1>20, <2>1, <2>2, <2>3 DEF RunInPlace, Write, q
  <1>21. CASE SaveScan(i)
    <2> DEFINE q == [r EXCEPT !.doc = Checkpoint(r, r.id, "scan"), !.offset = r.next]
    <2>1. /\ To(i, IF r.next = 0 THEN "done" ELSE "scan", q)
          /\ meta' = q.doc /\ store' = store
      BY <1>21 DEF SaveScan, Save
    <2>2. q.doc = Checkpoint(r, r.id, "scan") /\ q.id = r.id
      BY <1>1 DEF RunTyped, Run
    <2>3. SparsePhase(q.doc) \notin CopyPhase
      BY <1>1, <2>2, PhaseChanges DEF CopyPhase
    <2>4. r.id = Sparse => store'["main"].sparse
      BY <1>1, <1>21, <2>1 DEF SaveScan, RunInPlace
    <2> HIDE DEF q
    <2> QED BY <1>5, <2>1, <2>2, <2>3, <2>4 DEF RunInPlace
  <1> QED BY <1>2, <1>8, <1>9, <1>10, <1>11, <1>12, <1>13, <1>14, <1>15, <1>16,
             <1>17, <1>18, <1>19, <1>20, <1>21 DEF Acts, Migrating, Recreates

----------------------------------------------------------------------------
(* Nothing is lost where one instance recreates the collection.            *)

StoreSafe(s) ==
    /\ MainFull(s) \/ TempFull(s)
    /\ ~s["main"].exists => TempFull(s)
DocSafe(doc, s) ==
    SparsePhase(doc) = "copy_back" =>
        TempFull(s) \/ (MainFull(s) /\ ~s["temp"].exists)
RunSafe(stage, r, s, doc) ==
    /\ stage \notin {"down", "load", "choose", "up", "handler"} => r.doc = doc
    /\ stage \notin {"down", "rebuild", "handler"} => s["main"].exists
    /\ stage \in {"inspect", "copy_start"} => SparsePhase(r.doc) # "copy_back"
    /\ stage \in {"drop", "rebuild", "clean"} => SparsePhase(r.doc) = "copy_back"
    /\ stage \in Copying \cup {"rebuild"} => r.total = Memories \/ TempFull(s)
    /\ stage \in Copying \cup {"rebuild"} /\ SparsePhase(r.doc) = "copy_back" =>
          r.total = Memories /\ TempFull(s)
    /\ stage \in Copying \cup {"clean"} /\ SparsePhase(r.doc) = "copy_back" =>
          s["main"].sparse
    /\ stage = "clean" => MainFull(s)
    /\ stage = "copy_write" => \A x \in r.batch : "data" \in x[2]

RecreationInv ==
    /\ StoreSafe(store) /\ DocSafe(meta, store)
    /\ \A i \in Pod : DocSafe(run[i].doc, store)
    /\ \A i \in deployment.pods : RunSafe(pc[i], run[i], store, meta)

Alone(i) == \A j \in deployment.pods : j = i

LEMMA StepsStay ==
    ASSUME NEW i \in Pod, Acts(i) PROVE deployment' = deployment
  BY DEF Acts, Migrating, Start, Load, LoadNothing, Choose, Complete, Handler,
     Crash, Fault, Shrug, RunSparse, CreateSessions, AddMemoryLayerIndex,
     BeginScan, Begin, BackfillSession, Inspect, Scan, Write, SaveScan, CopyStart,
     Copy, CopyWrite, SaveCopy, Copied, Drop, Rebuild, Clean, Keep

LEMMA NoRunSafe ==
    /\ SparsePhase(NoRun.doc) = "none"
    /\ \A s : DocSafe(NoRun.doc, s)
  <1>1. SparsePhase(NoRun.doc) = "none"
    BY NoRunTyped, Constants DEF SparsePhase, NoProgress
  <1> QED BY <1>1 DEF DocSafe

\* The instance goes on to a stage, and the collections are safe in it.
LEMMA MoveSafe ==
    ASSUME TypedInv, RecreationInv, NEW i \in Pod, Alone(i), Acts(i),
           NEW stage, NEW q, To(i, stage, q), StoreSafe(store'),
           DocSafe(meta', store'), DocSafe(q.doc, store'),
           RunSafe(stage, q, store', meta')
    PROVE  RecreationInv'
  <1>1. /\ pc'[i] = stage /\ run'[i] = q /\ deployment' = deployment
        /\ \A j \in Pod : j # i => run'[j] = run[j]
    BY StepsStay DEF To, TypedInv
  <1>2. \A j \in deployment.pods : RunSafe(pc'[j], run'[j], store', meta')
    BY <1>1 DEF Alone
  <1>3. ASSUME NEW j \in Pod, j # i PROVE DocSafe(run'[j].doc, store')
    <2>1. run'[j] = NoRun
      BY <1>1, <1>3 DEF TypedInv, Alone
    <2> QED BY <2>1, NoRunSafe
  <1> QED BY <1>1, <1>2, <1>3 DEF RecreationInv

\* What holds of the collections before a step that keeps them holds after it.
LEMMA KeepSafe ==
    ASSUME NEW s, NEW t, Keeps(s, t)
    PROVE  /\ StoreSafe(s) => StoreSafe(t)
           /\ \A doc : DocSafe(doc, s) => DocSafe(doc, t)
           /\ \A stage, r, doc : RunSafe(stage, r, s, doc) => RunSafe(stage, r, t, doc)
  <1>1. /\ TempFull(s) = TempFull(t)
        /\ MainFull(s) => MainFull(t)
        /\ s["main"].sparse => t["main"].sparse
        /\ t["main"].exists = s["main"].exists /\ t["temp"] = s["temp"]
    BY DEF Keeps, TempFull, MainFull
  <1>2. StoreSafe(s) => StoreSafe(t)
    BY <1>1 DEF StoreSafe
  <1>3. \A doc : DocSafe(doc, s) => DocSafe(doc, t)
    BY <1>1 DEF DocSafe
  <1>4. \A stage, r, doc : RunSafe(stage, r, s, doc) => RunSafe(stage, r, t, doc)
    BY <1>1 DEF RunSafe
  <1> QED BY <1>2, <1>3, <1>4

LEMMA KeepingMoveSafe ==
    ASSUME TypedInv, RecreationInv, NEW i \in Pod, Alone(i), Acts(i),
           Keeps(store, store'), NEW stage, NEW q, To(i, stage, q), DocSafe(meta', store),
           DocSafe(q.doc, store), RunSafe(stage, q, store, meta')
    PROVE  RecreationInv'
  <1>1. /\ StoreSafe(store') /\ DocSafe(meta', store') /\ DocSafe(q.doc, store')
        /\ RunSafe(stage, q, store', meta')
    BY KeepSafe DEF RecreationInv
  <1> QED BY <1>1, MoveSafe

LEMMA FullWhenCounted ==
    ASSUME TypedInv
    PROVE  /\ Cardinality(Points("main")) >= Memories => MainFull(store)
           /\ Cardinality(Points("temp")) >= Memories /\ store["temp"].exists =>
                TempFull(store)
           /\ MainFull(store) => Cardinality(Points("main")) = Memories
           /\ TempFull(store) => Cardinality(Points("temp")) = Memories
  <1>1. Points("main") \in SUBSET Memory /\ Points("temp") \in SUBSET Memory
    BY PointsTyped
  <1>2. /\ Cardinality(Points("main")) >= Memories => Points("main") = Memory
        /\ Cardinality(Points("temp")) >= Memories => Points("temp") = Memory
        /\ Cardinality(Memory) = Memories
    BY <1>1, MemoriesCounted
  <1>3. /\ MainFull(store) <=> Points("main") = Memory
        /\ TempFull(store) <=> Points("temp") = Memory /\ store["temp"].exists
    BY PointsTyped DEF MainFull, TempFull
  <1> QED BY <1>2, <1>3

LEMMA RunnerSafe ==
    ASSUME TypedInv, RecreationInv, NEW i \in Pod, Alone(i),
           \/ Start(i) \/ Load(i) \/ LoadNothing(i) \/ Choose(i) \/ Complete(i)
           \/ Handler(i) \/ Crash(i) \/ Fault(i)
    PROVE  RecreationInv'
  <1> DEFINE r == run[i]
  <1> USE DEF Copying
  <1>1. /\ RunTyped(pc[i], r) /\ r.doc \in Documents /\ meta \in Documents
        /\ DocSafe(r.doc, store) /\ DocSafe(meta, store) /\ Acts(i)
        /\ i \in deployment.pods /\ RunSafe(pc[i], r, store, meta)
        /\ StoreSafe(store) /\ r \in Run
    <2>1. i \in deployment.pods
      BY StartedOnes DEF Start, Load, LoadNothing, Choose, Complete, Handler,
         Crash, Fault
    <2> QED BY <2>1 DEF TypedInv, RunTyped, RecreationInv, Acts
  <1>2. ASSUME NEW stage, NEW q, To(i, stage, q), store' = store,
               DocSafe(meta', store), DocSafe(q.doc, store),
               RunSafe(stage, q, store, meta')
        PROVE  RecreationInv'
    <2>1. Keeps(store, store')
      BY <1>2 DEF Keeps
    <2> QED BY <1>1, <1>2, <2>1, KeepingMoveSafe
  <1>4. CASE Start(i)
    <2>1. CASE store["main"].exists
      <3>1. To(i, "load", NoRun) /\ meta' = meta /\ store' = store
        BY <1>4, <2>1 DEF Start
      <3>2. RunSafe("load", NoRun, store, meta)
        BY <2>1 DEF RunSafe
      <3> QED BY <1>1, <1>2, <3>1, <3>2, NoRunSafe
    <2>2. CASE ~store["main"].exists
      <3>1. /\ store' = [store EXCEPT !["main"] = Empty("main", TRUE, TRUE)]
            /\ To(i, "load", NoRun) /\ meta' = meta
        BY <1>4, <2>2 DEF Start
      <3>2. store'["main"].exists /\ store'["temp"] = store["temp"]
        BY <3>1 DEF TypedInv, Stores, Collection, Empty
      <3>3. TempFull(store')
        BY <1>1, <2>2, <3>2 DEF StoreSafe, TempFull
      <3>4. StoreSafe(store') /\ DocSafe(meta', store')
        BY <1>1, <3>1, <3>2, <3>3 DEF StoreSafe, DocSafe
      <3>5. RunSafe("load", NoRun, store', meta')
        BY <3>2 DEF RunSafe
      <3> QED BY <1>1, <3>1, <3>4, <3>5, MoveSafe, NoRunSafe
    <2> QED BY <2>1, <2>2
  <1>5. CASE Load(i)
    <2> DEFINE q == [NoRun EXCEPT !.doc = meta]
    <2>1. q.doc = meta /\ store["main"].exists
      BY <1>1, <1>5 DEF NoRun, Load, RunSafe
    <2>2. To(i, "choose", q) /\ meta' = meta /\ store' = store
      BY <1>5 DEF Load
    <2> HIDE DEF q
    <2>3. RunSafe("choose", q, store, meta)
      BY <2>1 DEF RunSafe
    <2> QED BY <1>1, <1>2, <2>1, <2>2, <2>3
  <1>6. CASE LoadNothing(i)
    <2>1. RunSafe("choose", NoRun, store, meta)
      BY <1>1, <1>6 DEF RunSafe, LoadNothing
    <2> QED BY <1>1, <1>2, <1>6, <2>1, NoRunSafe DEF LoadNothing
  <1>7. CASE Choose(i)
    <2>1. store["main"].exists /\ store' = store
      BY <1>1, <1>7 DEF RunSafe, Choose
    <2>2. CASE To(i, "up", NoRun) /\ UNCHANGED meta
      <3>1. RunSafe("up", NoRun, store, meta)
        BY <2>1 DEF RunSafe
      <3> QED BY <1>1, <1>2, <2>1, <2>2, <3>1, NoRunSafe
    <2>3. ASSUME NEW k, Save(i, "run", [r EXCEPT !.doc.running = @ \cup {k}, !.id = k])
          PROVE  RecreationInv'
      <3> DEFINE q == [r EXCEPT !.doc.running = @ \cup {k}, !.id = k]
      <3>1. q.doc.progress = r.doc.progress
        BY <1>1 DEF Documents, Document, RunTyped, Run
      <3>2. To(i, "run", q) /\ meta' = q.doc
        BY <2>3 DEF Save
      <3> HIDE DEF q
      <3>3. DocSafe(q.doc, store)
        BY <1>1, <3>1 DEF DocSafe, SparsePhase
      <3>4. RunSafe("run", q, store, q.doc)
        BY <2>1 DEF RunSafe
      <3> QED BY <1>2, <2>1, <3>2, <3>3, <3>4
    <2> QED BY <1>7, <2>2, <2>3 DEF Choose
  <1>8. CASE Complete(i)
    <2> DEFINE q == [r EXCEPT !.doc = Completed(r.doc, r.id), !.id = r.id + 1]
    <2>1. q.doc.progress = [r.doc.progress EXCEPT ![r.id] = NoProgress]
      BY <1>1 DEF Documents, Document, RunTyped, Run, Completed
    <2>2. To(i, "choose", q) /\ meta' = q.doc /\ store' = store
      BY <1>8 DEF Complete, Save
    <2> HIDE DEF q
    <2>3. DocSafe(q.doc, store)
      BY <1>1, <2>1, Constants
         DEF DocSafe, SparsePhase, NoProgress, Documents, Document
    <2>4. RunSafe("choose", q, store, q.doc)
      BY <1>1, <1>8 DEF RunSafe, Complete
    <2> QED BY <1>2, <2>2, <2>3, <2>4
  <1>9. CASE Handler(i)
    <2> DEFINE q == [r EXCEPT !.doc.running = @ \ {r.id}]
    <2>1. q.doc.progress = r.doc.progress
      BY <1>1 DEF Documents, Document, RunTyped, Run
    <2>2. To(i, "down", q) /\ meta' = q.doc /\ store' = store
      BY <1>9 DEF Handler, Save
    <2> HIDE DEF q
    <2>3. DocSafe(q.doc, store)
      BY <1>1, <2>1 DEF DocSafe, SparsePhase
    <2>4. RunSafe("down", q, store, q.doc)
      BY DEF RunSafe
    <2> QED BY <1>2, <2>2, <2>3, <2>4
  <1>10. CASE Crash(i)
    <2>1. RunSafe("down", NoRun, store, meta)
      BY DEF RunSafe
    <2> QED BY <1>1, <1>2, <1>10, <2>1, NoRunSafe DEF Crash
  <1>11. CASE Fault(i)
    <2>1. PICK doc \in Drafts(i) : To(i, "handler", [r EXCEPT !.doc = doc])
      BY <1>11 DEF Fault
    <2> DEFINE q == [r EXCEPT !.doc = doc]
    <2>2. q.doc = doc
      BY <1>1 DEF Run
    <2>3. DocSafe(doc, store)
      <3>1. CASE SparsePhase(doc) \in {SparsePhase(r.doc), "none", "scan", "copy_to_temp"}
        BY <1>1, <3>1 DEF DocSafe
      <3>2. CASE doc = Checkpoint(r, Sparse, Phase(r))
        BY <1>1, <3>1, <3>2, PhaseChanges DEF Phase, SparsePhase
      <3>3. CASE /\ pc[i] = "copied" /\ Phase(r) = "copy_to_temp"
                 /\ store["temp"].exists /\ Counted(r)
        <4>1. r.total = Memories \/ TempFull(store)
          BY <1>1, <3>3 DEF RunSafe
        <4>2. Into(r) = "temp"
          BY <3>3 DEF Into
        <4>3. TempFull(store)
          BY <3>3, <4>1, <4>2, FullWhenCounted DEF Counted
        <4> QED BY <4>3 DEF DocSafe
      <3> QED BY <1>1, <3>1, <3>2, <3>3, DraftCases, PhaseChanges
    <2>4. RunSafe("handler", q, store, meta)
      BY DEF RunSafe
    <2>5. To(i, "handler", q) /\ UNCHANGED <<store, meta>>
      BY <1>11, <2>1 DEF Fault
    <2> HIDE DEF q
    <2> QED BY <1>1, <1>2, <2>2, <2>3, <2>4, <2>5
  <1> QED BY <1>4, <1>5, <1>6, <1>7, <1>8, <1>9, <1>10, <1>11

LEMMA ScansSafe ==
    ASSUME TypedInv, RecreationInv, NEW i \in Pod, Alone(i),
           \/ RunSparse(i) \/ CreateSessions(i) \/ AddMemoryLayerIndex(i)
           \/ BeginScan(i) \/ BackfillSession(i) \/ Inspect(i) \/ Shrug(i)
           \/ Scan(i) \/ Write(i) \/ SaveScan(i)
    PROVE  RecreationInv'
  <1> DEFINE r == run[i]
  <1> USE DEF Copying
  <1>1. /\ RunTyped(pc[i], r) /\ r.doc \in Documents /\ r \in Run
        /\ DocSafe(r.doc, store) /\ DocSafe(meta, store) /\ Acts(i)
        /\ RunSafe(pc[i], r, store, meta) /\ StoreSafe(store)
        /\ i \in deployment.pods
    <2>1. i \in deployment.pods
      BY StartedOnes DEF RunSparse, CreateSessions, AddMemoryLayerIndex, BeginScan,
         Begin, BackfillSession, Inspect, Shrug, Scan, Write, SaveScan
    <2> QED BY <2>1 DEF TypedInv, RunTyped, RecreationInv, Acts, Migrating
  <1>2. pc[i] \in {"run", "sessions", "inspect", "scan", "write", "save"}
    BY DEF RunSparse, CreateSessions, AddMemoryLayerIndex, BeginScan,
         Begin, BackfillSession, Inspect, Shrug, Scan, Write, SaveScan
  <1>3. r.doc = meta /\ store["main"].exists
    BY <1>1, <1>2 DEF RunSafe
  <1>4. Keeps(store, store')
    <2>1. ~Recreates(i) /\ ~Start(i)
      BY <1>2 DEF Recreates, CopyStart, CopyWrite, Drop, Rebuild, Clean, Start
    <2> QED BY <1>1, <2>1, MostStepsKeep
  <1>5. ASSUME NEW stage, NEW q, To(i, stage, q), DocSafe(meta', store),
               q.doc = meta', RunSafe(stage, q, store, meta')
        PROVE  RecreationInv'
    BY <1>1, <1>4, <1>5, KeepingMoveSafe
  <1>6. ASSUME NEW stage \in {"done", "scan", "sessions", "write", "save", "handler"},
               NEW q, q.doc = meta', To(i, stage, q), DocSafe(meta', store)
        PROVE  RecreationInv'
    <2>1. RunSafe(stage, q, store, meta')
      BY <1>3, <1>6 DEF RunSafe
    <2> QED BY <1>5, <1>6, <2>1
  <1>7. CASE RunSparse(i)
    <2> DEFINE q == [r EXCEPT !.offset = r.doc.progress[r.id].offset]
    <2>1. /\ \/ To(i, "drop", q) /\ SparsePhase(r.doc) = "copy_back"
             \/ To(i, "copy_start", q) /\ SparsePhase(r.doc) = "copy_to_temp"
             \/ To(i, "inspect", q) /\ SparsePhase(r.doc) \notin CopyPhase
          /\ meta' = meta
      BY <1>7 DEF RunSparse, Resumes, SparsePhase, Keep, CopyPhase
    <2>2. q.doc = meta
      BY <1>1, <1>3 DEF Run
    <2> HIDE DEF q
    <2>3. CASE To(i, "drop", q) /\ SparsePhase(r.doc) = "copy_back"
      <3>1. RunSafe("drop", q, store, meta')
        BY <1>3, <2>1, <2>2, <2>3 DEF RunSafe
      <3> QED BY <1>1, <1>5, <2>1, <2>2, <2>3, <3>1
    <2>4. CASE To(i, "copy_start", q) /\ SparsePhase(r.doc) = "copy_to_temp"
      <3>1. RunSafe("copy_start", q, store, meta')
        BY <1>1, <1>3, <2>1, <2>2, <2>4 DEF RunSafe, DocSafe
      <3> QED BY <1>1, <1>5, <2>1, <2>2, <2>4, <3>1
    <2>5. CASE To(i, "inspect", q) /\ SparsePhase(r.doc) \notin CopyPhase
      <3>1. RunSafe("inspect", q, store, meta')
        BY <1>3, <2>1, <2>2, <2>5 DEF RunSafe, CopyPhase
      <3> QED BY <1>1, <1>5, <2>1, <2>2, <2>5, <3>1
    <2> QED BY <2>1, <2>3, <2>4, <2>5
  <1>8. CASE CreateSessions(i) \/ AddMemoryLayerIndex(i)
    BY <1>1, <1>3, <1>6, <1>8 DEF CreateSessions, AddMemoryLayerIndex
  <1>9. CASE BeginScan(i)
    <2> DEFINE q == [r EXCEPT !.offset = r.doc.progress[r.id].offset]
    <2>1. q.doc = r.doc
      BY <1>1 DEF Run
    <2>2. To(i, IF r.id = Revision THEN "sessions" ELSE "scan", q) /\ meta' = meta
      BY <1>9 DEF BeginScan, Begin
    <2> HIDE DEF q
    <2> QED BY <1>1, <1>3, <1>6, <2>1, <2>2
  <1>10. CASE BackfillSession(i)
    <2>1. CASE To(i, "scan", r)
      BY <1>1, <1>3, <1>6, <1>10, <2>1 DEF BackfillSession
    <2>2. CASE UNCHANGED <<pc, run>>
      <3>1. To(i, pc[i], r)
        BY <2>2 DEF To, TypedInv
      <3>2. RunSafe(pc[i], r, store, meta') /\ meta' = meta
        BY <1>1, <1>10 DEF BackfillSession
      <3> QED BY <1>1, <1>3, <1>5, <3>1, <3>2
    <2> QED BY <1>10, <2>1, <2>2 DEF BackfillSession
  <1>11. CASE Inspect(i)
    <2>1. /\ To(i, "copy_start", r) \/ To(i, "done", r) \/ To(i, "scan", r)
          /\ meta' = meta
      BY <1>3, <1>11 DEF Inspect
    <2>2. CASE To(i, "copy_start", r)
      <3>1. RunSafe("copy_start", r, store, meta')
        BY <1>1, <1>3, <1>11, <2>1 DEF RunSafe, Inspect
      <3> QED BY <1>1, <1>3, <1>5, <2>1, <2>2, <3>1
    <2> QED BY <1>1, <1>3, <1>6, <2>1, <2>2
  <1>12. CASE Scan(i)
    <2> DEFINE S == {p \in Points(ScanOf(r.id)) :
                       p >= r.offset /\ Lacks(r.id, p, store[ScanOf(r.id)].at[p])}
               b == {<<p, store[ScanOf(r.id)].at[p]>> : p \in Page(S)}
               q == [r EXCEPT !.batch = b, !.next = After(S)]
    <2>1. /\ \/ To(i, "handler", r) \/ To(i, "done", q) \/ To(i, "write", q)
          /\ meta' = meta
      BY <1>12 DEF Scan, Raise
    <2>2. q.doc = r.doc
      BY <1>1 DEF Run
    <2> HIDE DEF q
    <2> QED BY <1>1, <1>3, <1>6, <2>1, <2>2
  <1>13. CASE Write(i)
    <2>1. PICK part : To(i, IF part = r.batch THEN "save" ELSE "write",
                           [r EXCEPT !.batch = @ \ part])
      BY <1>13 DEF Write
    <2> DEFINE q == [r EXCEPT !.batch = @ \ part]
    <2>2. q.doc = r.doc
      BY <1>1 DEF Run
    <2>3. \E stage \in {"write", "save"} : To(i, stage, q)
      BY <2>1
    <2> HIDE DEF q
    <2> QED BY <1>1, <1>3, <1>6, <1>13, <2>2, <2>3 DEF Write
  <1>14. CASE SaveScan(i)
    <2> DEFINE q == [r EXCEPT !.doc = Checkpoint(r, r.id, "scan"), !.offset = r.next]
    <2>1. To(i, IF r.next = 0 THEN "done" ELSE "scan", q) /\ meta' = q.doc
      BY <1>14 DEF SaveScan, Save
    <2>2. q.doc = Checkpoint(r, r.id, "scan")
      BY <1>1 DEF Run
    <2>3. DocSafe(q.doc, store)
      BY <1>1, <2>2, PhaseChanges DEF DocSafe
    <2> HIDE DEF q
    <2> QED BY <1>6, <2>1, <2>3
  <1>15. CASE Shrug(i)
    <2> DEFINE q == [r EXCEPT !.offset = r.doc.progress[r.id].offset]
    <2>1. q.doc = meta
      BY <1>1, <1>3 DEF Run
    <2> HIDE DEF q
    <2>2. /\ \/ /\ pc[i] = "run" /\ To(i, "inspect", q)
                /\ SparsePhase(r.doc) # "copy_back"
             \/ pc[i] = "inspect" /\ To(i, "copy_start", r)
          /\ meta' = meta
      BY <1>15 DEF Shrug, Resumes, SparsePhase, q
    <2>3. RunSafe("inspect", q, store, meta) \/ SparsePhase(r.doc) = "copy_back"
      BY <1>3, <2>1 DEF RunSafe
    <2>4. pc[i] = "inspect" => RunSafe("copy_start", r, store, meta)
      BY <1>1, <1>3 DEF RunSafe
    <2> QED BY <1>1, <1>3, <1>5, <2>1, <2>2, <2>3, <2>4
  <1> QED BY <1>7, <1>8, <1>9, <1>10, <1>11, <1>12, <1>13, <1>14, <1>15

\* Where a copy comes from and goes to.
LEMMA CopyDirection ==
    ASSUME NEW r
    PROVE  /\ SparsePhase(r.doc) = "copy_back" =>
                From(r) = "temp" /\ Into(r) = "main" /\ Phase(r) = "copy_back"
           /\ SparsePhase(r.doc) # "copy_back" =>
                From(r) = "main" /\ Into(r) = "temp" /\ Phase(r) = "copy_to_temp"
  BY DEF SparsePhase, From, Into, Phase

\* A page that is written leaves the other collections, and the collection's
\* settings, as they are.
LEMMA PageWritten ==
    ASSUME TypedInv, NEW i \in Pod, CopyWrite(i),
           store[Into(run[i])].exists
    PROVE  /\ Into(run[i]) = "temp" => store'["main"] = store["main"]
           /\ Into(run[i]) = "main" => store'["temp"] = store["temp"]
           /\ store'["main"].exists = store["main"].exists
           /\ store'["temp"].exists = store["temp"].exists
           /\ store'["main"].sparse = store["main"].sparse
           /\ store'["sessions"] = store["sessions"]
           /\ \A p \in Memory : store'[Into(run[i])].at[p] =
                IF \E x \in run[i].batch : x[1] = p
                THEN (IF Into(run[i]) = "temp" THEN {"bm25"} ELSE {})
                        \cup UNION {x[2] : x \in {y \in run[i].batch : y[1] = p}}
                ELSE store[Into(run[i])].at[p]
  <1> DEFINE r == run[i]
             name == Into(r)
             new(p) == IF \E x \in r.batch : x[1] = p
                       THEN (IF name = "temp" THEN {"bm25"} ELSE {})
                            \cup UNION {x[2] : x \in {y \in r.batch : y[1] = p}}
                       ELSE store[name].at[p]
  <1>1. store' = [store EXCEPT ![name].at = [p \in DOMAIN @ |-> new(p)]]
    BY DEF CopyWrite
  <1>2. name \in {"main", "temp"} /\ store \in Stores
    BY DEF Into, TypedInv
  <1> HIDE DEF name, new
  <1>3. /\ \A other \in Collection : other # name => store'[other] = store[other]
        /\ store'[name].exists = store[name].exists
        /\ store'[name].sparse = store[name].sparse
        /\ \A p \in Memory : store'[name].at[p] = new(p)
    BY <1>1, <1>2 DEF Stores, Collection, Table
  <1> QED BY <1>2, <1>3 DEF name, new, Collection

LEMMA CopiesSafe ==
    ASSUME TypedInv, RecreationInv, NEW i \in Pod, Alone(i),
           \/ Copy(i) \/ CopyWrite(i) \/ SaveCopy(i) \/ Copied(i)
    PROVE  RecreationInv'
  <1> DEFINE r == run[i]
             back == SparsePhase(r.doc) = "copy_back"
  <1> USE DEF Copying
  <1>1. /\ RunTyped(pc[i], r) /\ r.doc \in Documents /\ r \in Run
        /\ DocSafe(r.doc, store) /\ DocSafe(meta, store) /\ Acts(i)
        /\ RunSafe(pc[i], r, store, meta) /\ StoreSafe(store)
        /\ i \in deployment.pods /\ pc[i] \in Copying
    <2>1. i \in deployment.pods /\ pc[i] \in Copying
      BY StartedOnes DEF Copy, CopyWrite, SaveCopy, Copied
    <2> QED BY <2>1 DEF TypedInv, RunTyped, RecreationInv, Acts, Migrating
  <1>2. /\ r.doc = meta /\ store["main"].exists
        /\ r.total = Memories \/ TempFull(store)
        /\ back => r.total = Memories /\ TempFull(store) /\ store["main"].sparse
    BY <1>1 DEF RunSafe
  <1>3. /\ back => From(r) = "temp" /\ Into(r) = "main" /\ Phase(r) = "copy_back"
        /\ ~back => From(r) = "main" /\ Into(r) = "temp" /\ Phase(r) = "copy_to_temp"
    BY CopyDirection
  <1> HIDE DEF back
  <1>4. ASSUME NEW stage, NEW q, To(i, stage, q), store' = store,
               DocSafe(meta', store), DocSafe(q.doc, store),
               RunSafe(stage, q, store, meta')
        PROVE  RecreationInv'
    <2>1. Keeps(store, store')
      BY <1>4 DEF Keeps
    <2> QED BY <1>1, <1>4, <2>1, KeepingMoveSafe
  <1>5. RunSafe("handler", r, store, meta)
    BY <1>2 DEF RunSafe
  <1>6. CASE Copy(i)
    <2> DEFINE S == {p \in Points(From(r)) : p >= r.offset}
               b == {<<p, store[From(r)].at[p]>> : p \in Page(S)}
               q == [r EXCEPT !.next = After(S), !.batch = b]
    <2>1. /\ To(i, "handler", r) \/ To(i, "copied", q) \/ To(i, "copy_write", q)
          /\ meta' = meta /\ store' = store
      BY <1>6 DEF Copy, Raise
    <2>2. q.doc = r.doc /\ q.total = r.total /\ q.batch = b
      BY <1>1 DEF Run
    <2>3. ASSUME NEW x \in b PROVE "data" \in x[2]
      <3>1. PICK p \in Page(S) : x = <<p, store[From(r)].at[p]>>
        BY <2>3
      <3>2. p \in S /\ x[2] = store[From(r)].at[p]
        BY <3>1 DEF Page
      <3> QED BY <3>2 DEF Points
    <2> HIDE DEF q, b
    <2>4. RunSafe("copied", q, store, meta) /\ RunSafe("copy_write", q, store, meta)
      BY <1>2, <2>2, <2>3 DEF RunSafe, back
    <2> QED BY <1>1, <1>2, <1>4, <1>5, <2>1, <2>2, <2>4
  <1>7. CASE CopyWrite(i)
    <2> DEFINE q == [r EXCEPT !.batch = {}]
    <2>1. CASE ~store[Into(r)].exists
      BY <1>1, <1>4, <1>5, <1>7, <2>1 DEF CopyWrite, Raise
    <2>2. CASE store[Into(r)].exists
      <3>1. To(i, "save_copy", q) /\ meta' = meta
        BY <1>7, <2>2 DEF CopyWrite
      <3>2. /\ ~back => store'["main"] = store["main"]
            /\ back => store'["temp"] = store["temp"]
            /\ store'["main"].exists /\ store'["main"].sparse = store["main"].sparse
        BY <1>2, <1>3, <1>7, <2>2, PageWritten
      <3>3. \A p \in Memory : "data" \in store[Into(r)].at[p] =>
                                   "data" \in store'[Into(r)].at[p]
        <4>1. \A x \in r.batch : "data" \in x[2]
          BY <1>1, <1>7 DEF RunSafe, CopyWrite
        <4>2. ASSUME NEW p \in Memory, NEW x \in r.batch, x[1] = p
              PROVE  "data" \in UNION {z[2] : z \in {y \in r.batch : y[1] = p}}
          BY <4>1, <4>2
        <4>3. \A p \in Memory : store'[Into(r)].at[p] =
                IF \E x \in r.batch : x[1] = p
                THEN (IF Into(r) = "temp" THEN {"bm25"} ELSE {})
                        \cup UNION {x[2] : x \in {y \in r.batch : y[1] = p}}
                ELSE store[Into(r)].at[p]
          BY <1>7, <2>2, PageWritten
        <4> HIDE DEF r
        <4> QED BY <4>2, <4>3
      <3>4. ~back /\ TempFull(store) => TempFull(store')
        <4>1. Into(r) = "temp" => store'["temp"].exists
          BY <1>7, <2>2, PageWritten
        <4> QED BY <1>3, <3>3, <4>1 DEF TempFull
      <3>5. back => TempFull(store')
        BY <1>2, <3>2 DEF TempFull
      <3>6. TempFull(store) => TempFull(store')
        BY <3>4, <3>5
      <3>7. MainFull(store) => MainFull(store')
        BY <1>3, <3>2, <3>3 DEF MainFull
      <3>8. StoreSafe(store') /\ DocSafe(meta, store')
        BY <1>1, <1>2, <3>2, <3>5, <3>6, <3>7 DEF StoreSafe, DocSafe, back
      <3>9. q.doc = r.doc /\ q.total = r.total
        BY <1>1 DEF Run
      <3> HIDE DEF q
      <3>10. RunSafe("save_copy", q, store', meta)
        BY <1>2, <3>2, <3>5, <3>6, <3>9 DEF RunSafe, back
      <3> QED BY <1>1, <1>2, <3>1, <3>8, <3>9, <3>10, MoveSafe
    <2> QED BY <2>1, <2>2
  <1>8. CASE SaveCopy(i)
    <2> DEFINE q == [r EXCEPT !.doc = Checkpoint(r, Sparse, Phase(r)), !.offset = r.next]
    <2>1. /\ To(i, "copied", q) \/ To(i, "copy", q)
          /\ meta' = q.doc /\ store' = store
      BY <1>8 DEF SaveCopy, Save
    <2>2. SparsePhase(q.doc) = Phase(r) /\ q.total = r.total
      BY <1>1, PhaseChanges DEF Run
    <2> HIDE DEF q
    <2>3. SparsePhase(q.doc) = "copy_back" <=> back
      BY <1>3, <2>2
    <2>4. DocSafe(q.doc, store)
      BY <1>2, <2>3 DEF DocSafe
    <2>5. RunSafe("copied", q, store, q.doc) /\ RunSafe("copy", q, store, q.doc)
      BY <1>2, <2>2, <2>3 DEF RunSafe
    <2> QED BY <1>4, <2>1, <2>4, <2>5
  <1>9. CASE Copied(i)
    <2> DEFINE q == [r EXCEPT !.offset = 0, !.doc = Turned(r.doc)]
    <2>1. /\ store' = store
          /\ \/ To(i, "handler", r) /\ meta' = meta
             \/ back /\ Counted(r) /\ To(i, "clean", r) /\ meta' = meta
             \/ /\ ~back /\ Counted(r) /\ store["temp"].exists
                /\ To(i, "drop", q) /\ meta' = q.doc
      <3>1. CASE ~store[Into(r)].exists \/ ~Counted(r)
        BY <1>9, <3>1 DEF Copied, Raise
      <3>2. CASE store[Into(r)].exists /\ Counted(r) /\ back
        BY <1>3, <1>9, <3>2 DEF Copied
      <3>3. CASE store[Into(r)].exists /\ Counted(r) /\ ~back
        BY <1>3, <1>9, <3>3 DEF Copied, Save
      <3> QED BY <3>1, <3>2, <3>3
    <2>2. /\ Counted(r) /\ back => MainFull(store)
          /\ Counted(r) /\ ~back /\ store["temp"].exists => TempFull(store)
      BY <1>2, <1>3, FullWhenCounted DEF Counted
    <2>3. CASE To(i, "handler", r) /\ meta' = meta
      BY <1>1, <1>4, <1>5, <2>1, <2>3
    <2>4. CASE back /\ Counted(r) /\ To(i, "clean", r) /\ meta' = meta
      <3>1. RunSafe("clean", r, store, meta)
        BY <1>2, <2>2, <2>4 DEF RunSafe, back
      <3> QED BY <1>1, <1>4, <2>1, <2>4, <3>1
    <2>5. CASE /\ ~back /\ Counted(r) /\ store["temp"].exists
               /\ To(i, "drop", q) /\ meta' = q.doc
      <3>1. SparsePhase(q.doc) = "copy_back"
        BY <1>1, PhaseChanges DEF Run
      <3> HIDE DEF q
      <3>2. DocSafe(q.doc, store)
        BY <2>2, <2>5, <3>1 DEF DocSafe
      <3>3. RunSafe("drop", q, store, q.doc)
        BY <1>2, <3>1 DEF RunSafe
      <3> QED BY <1>4, <2>1, <2>5, <3>2, <3>3
    <2> QED BY <2>1, <2>3, <2>4, <2>5
  <1> QED BY <1>6, <1>7, <1>8, <1>9

LEMMA ReplacementsSafe ==
    ASSUME TypedInv, RecreationInv, NEW i \in Pod, Alone(i),
           CopyStart(i) \/ Drop(i) \/ Rebuild(i) \/ Clean(i)
    PROVE  RecreationInv'
  <1> DEFINE r == run[i]
  <1> USE DEF Copying
  <1>1. /\ RunTyped(pc[i], r) /\ r.doc \in Documents /\ r \in Run
        /\ DocSafe(r.doc, store) /\ DocSafe(meta, store) /\ Acts(i)
        /\ RunSafe(pc[i], r, store, meta) /\ StoreSafe(store)
        /\ i \in deployment.pods /\ store \in Stores
    <2>1. i \in deployment.pods
      BY StartedOnes DEF CopyStart, Drop, Rebuild, Clean
    <2> QED BY <2>1 DEF TypedInv, RunTyped, RecreationInv, Acts, Migrating
  <1>2. r.doc = meta /\ meta' = meta
    BY <1>1 DEF RunSafe, CopyStart, Drop, Rebuild, Clean, Raise
  <1>3. ASSUME To(i, "handler", r), store' = store PROVE RecreationInv'
    <2>1. RunSafe("handler", r, store, meta) /\ Keeps(store, store')
      BY <1>2, <1>3 DEF RunSafe, Keeps
    <2> QED BY <1>1, <1>2, <1>3, <2>1, KeepingMoveSafe
  <1>4. \A b, c \in BOOLEAN, name \in {"main", "temp"} :
          LET new == [store EXCEPT ![name] = Empty(name, b, c)]
          IN  /\ new[name].exists = b /\ new[name].sparse = c
              /\ \A other \in {"main", "temp"} : other # name => new[other] = store[other]
    BY <1>1 DEF Stores, Collection, Empty
  <1>5. CASE CopyStart(i)
    <2> DEFINE q == [r EXCEPT !.total = Cardinality(Points("main"))]
    <2>1. /\ SparsePhase(r.doc) # "copy_back" /\ store["main"].exists
          /\ MainFull(store) \/ TempFull(store)
      BY <1>1, <1>5 DEF RunSafe, CopyStart, StoreSafe
    <2>2. /\ \/ store' = store
             \/ /\ store' = [store EXCEPT !["temp"] = Empty("temp", TRUE, TRUE)]
                /\ ~store["temp"].exists
          /\ To(i, "done", q) \/ To(i, "copy", q)
      BY <1>5, <2>1 DEF CopyStart
    <2>3. store'["main"] = store["main"]
      BY <1>4, <2>2
    <2>4. TempFull(store) => TempFull(store')
      BY <2>2 DEF TempFull
    <2>5. MainFull(store) => MainFull(store')
      BY <2>3 DEF MainFull
    <2>6. StoreSafe(store') /\ DocSafe(meta, store')
      BY <1>2, <2>1, <2>3, <2>4, <2>5 DEF StoreSafe, DocSafe
    <2>7. q.doc = r.doc /\ (q.total = Memories \/ TempFull(store'))
      <3>1. q.doc = r.doc /\ q.total = Cardinality(Points("main"))
        BY <1>1 DEF Run
      <3> QED BY <2>1, <2>4, <3>1, FullWhenCounted
    <2> HIDE DEF q
    <2>8. RunSafe("done", q, store', meta) /\ RunSafe("copy", q, store', meta)
      BY <1>2, <2>1, <2>3, <2>7 DEF RunSafe
    <2> QED BY <1>1, <1>2, <2>2, <2>6, <2>7, <2>8, MoveSafe
  <1>6. CASE Drop(i)
    <2> DEFINE q == [r EXCEPT !.total = Cardinality(Points("temp"))]
    <2>1. CASE ~store["temp"].exists
      BY <1>3, <1>6, <2>1 DEF Drop, Raise
    <2>2. CASE store["temp"].exists
      <3>1. SparsePhase(r.doc) = "copy_back" /\ TempFull(store)
        BY <1>1, <1>2, <1>6, <2>2 DEF RunSafe, DocSafe, Drop
      <3>2. /\ store' = [store EXCEPT !["main"] = Empty("main", FALSE, FALSE)]
            /\ To(i, "rebuild", q)
        BY <1>6, <2>2 DEF Drop
      <3>3. /\ store'["temp"] = store["temp"] /\ ~store'["main"].exists
        BY <1>4, <3>2
      <3>4. TempFull(store')
        BY <3>1, <3>3 DEF TempFull
      <3>5. StoreSafe(store') /\ DocSafe(meta, store')
        BY <1>2, <3>1, <3>4 DEF StoreSafe, DocSafe
      <3>6. q.doc = r.doc /\ q.total = Memories
        BY <1>1, <3>1, FullWhenCounted DEF Run
      <3> HIDE DEF q
      <3>7. RunSafe("rebuild", q, store', meta)
        BY <1>2, <3>1, <3>4, <3>6 DEF RunSafe
      <3> QED BY <1>1, <1>2, <3>2, <3>5, <3>6, <3>7, MoveSafe
    <2> QED BY <2>1, <2>2
  <1>7. CASE Rebuild(i)
    <2>1. CASE store["main"].exists
      BY <1>3, <1>7, <2>1 DEF Rebuild, Raise
    <2>2. CASE ~store["main"].exists
      <3>1. /\ SparsePhase(r.doc) = "copy_back" /\ TempFull(store)
            /\ r.total = Memories
        BY <1>1, <1>7 DEF RunSafe, Rebuild
      <3>2. /\ store' = [store EXCEPT !["main"] = Empty("main", TRUE, TRUE)]
            /\ To(i, "copy", r)
        BY <1>7, <2>2 DEF Rebuild
      <3>3. /\ store'["temp"] = store["temp"] /\ store'["main"].exists
            /\ store'["main"].sparse
        BY <1>4, <3>2
      <3>4. TempFull(store')
        BY <3>1, <3>3 DEF TempFull
      <3>5. StoreSafe(store') /\ DocSafe(meta, store')
        BY <1>2, <3>1, <3>3, <3>4 DEF StoreSafe, DocSafe
      <3>6. RunSafe("copy", r, store', meta)
        BY <1>2, <3>1, <3>3, <3>4 DEF RunSafe
      <3> QED BY <1>1, <1>2, <3>2, <3>5, <3>6, MoveSafe
    <2> QED BY <2>1, <2>2
  <1>8. CASE Clean(i)
    <2>1. /\ SparsePhase(r.doc) = "copy_back" /\ MainFull(store)
          /\ store["main"].exists
      BY <1>1, <1>8 DEF RunSafe, Clean
    <2>2. /\ store' = [store EXCEPT !["temp"] = Empty("temp", FALSE, FALSE)]
          /\ To(i, "done", r)
      BY <1>8 DEF Clean
    <2>3. store'["main"] = store["main"] /\ ~store'["temp"].exists
      BY <1>4, <2>2
    <2>4. MainFull(store') /\ store'["main"].exists
      BY <2>1, <2>3 DEF MainFull
    <2>5. StoreSafe(store') /\ DocSafe(meta, store')
      BY <1>2, <2>1, <2>3, <2>4 DEF StoreSafe, DocSafe
    <2>6. RunSafe("done", r, store', meta)
      BY <1>2, <2>4 DEF RunSafe
    <2> QED BY <1>1, <1>2, <2>2, <2>5, <2>6, MoveSafe
  <1> QED BY <1>5, <1>6, <1>7, <1>8

----------------------------------------------------------------------------
(* Nothing is lost.                                                        *)

\* Where the collection may be recreated, one instance runs: on a store that does
\* not take sparse vectors in place, or a failure of which is taken for that.
InPlace(d) == d.addable /\ ~d.swallows
Sole == \A d \in Deployments : InPlace(d) \/ \A i, j \in d.pods : i = j
Recreation == ~InPlace(deployment)

SafeInv == TypedInv /\ (IF Recreation THEN RecreationInv ELSE InPlaceInv)

LEMMA InitSafe == Init => SafeInv
  <1> SUFFICES ASSUME Init PROVE SafeInv
    OBVIOUS
  <1>1. TypedInv
    BY InitTyped
  <1>2. MainFull(store) /\ store["main"].exists
    BY DEF Init, MainFull
  <1>3. meta = NoRun.doc /\ \A i \in Pod : pc[i] = "down" /\ run[i] = NoRun
    BY DEF Init
  <1>4. SparsePhase(NoRun.doc) \notin CopyPhase
    BY NoRunSafe DEF CopyPhase
  <1>5. InPlaceInv
    BY <1>2, <1>3, <1>4 DEF InPlaceInv, RunInPlace, Recreating, Copying, Scanning
  <1>6. RecreationInv
    <2>1. \A i \in Pod : RunSafe(pc[i], run[i], store, meta)
      BY <1>3 DEF RunSafe, Copying
    <2>2. deployment.pods \subseteq Pod
      BY DeploymentTyped DEF Init
    <2>3. StoreSafe(store)
      BY <1>2 DEF StoreSafe
    <2> QED BY <1>3, <2>1, <2>2, <2>3, NoRunSafe DEF RecreationInv
  <1> QED BY <1>1, <1>5, <1>6 DEF SafeInv

LEMMA AloneWhereSole ==
    ASSUME Sole, TypedInv, Recreation, NEW i \in deployment.pods
    PROVE  Alone(i)
  BY DEF Sole, TypedInv, Alone, Recreation

\* An instance that acts is one of the deployment's.
LEMMA ActorsAreDeployed ==
    ASSUME TypedInv, NEW i \in Pod, Acts(i) PROVE i \in deployment.pods
  <1>1. Start(i) \/ pc[i] # "down"
    BY DEF Acts, Migrating, Load, LoadNothing, Choose, Complete,
     Handler, Crash, Fault, Shrug, RunSparse, CreateSessions, AddMemoryLayerIndex,
     BeginScan, Begin, BackfillSession, Inspect, Scan, Write, SaveScan, CopyStart,
     Copy, CopyWrite, SaveCopy, Copied, Drop, Rebuild, Clean
  <1> QED BY <1>1, StartedOnes DEF Start

LEMMA NextSafe == Sole /\ SafeInv /\ [Next]_vars => SafeInv'
  <1> SUFFICES ASSUME Sole, SafeInv, [Next]_vars PROVE SafeInv'
    OBVIOUS
  <1>1. TypedInv' /\ TypedInv
    BY NextTyped DEF SafeInv
  <1>2. CASE UNCHANGED vars
    BY <1>1, <1>2 DEF vars, SafeInv, InPlaceInv, RecreationInv, Recreation
  <1>3. ASSUME NEW i \in Pod, Acts(i) PROVE SafeInv'
    <2>1. deployment' = deployment
      BY <1>3, StepsStay
    <2>2. CASE ~Recreation
      BY <1>1, <1>3, <2>1, <2>2, InPlaceKept DEF SafeInv, Recreation, InPlace
    <2>3. CASE Recreation
      <3>1. Alone(i) /\ RecreationInv
        BY <1>1, <1>3, <2>3, ActorsAreDeployed, AloneWhereSole DEF SafeInv
      <3>2. RecreationInv'
        BY <1>1, <1>3, <2>3, <3>1, RunnerSafe, ScansSafe, CopiesSafe,
           ReplacementsSafe DEF Acts, Migrating
      <3> QED BY <1>1, <2>1, <2>3, <3>2 DEF SafeInv, Recreation
    <2> QED BY <2>2, <2>3
  <1> QED BY <1>2, <1>3, NextActs

\* Wherever an instance stops, fails or starts again, each memory is in one of the
\* two collections: with however many instances on a store that takes sparse
\* vectors in place and never fails to say so, and with one where the collection
\* may be recreated (with two it is not: run migration_loses).
THEOREM NothingIsLostHolds == Sole /\ Spec => []NothingIsLost
  <1> SUFFICES ASSUME Sole PROVE Spec => []NothingIsLost
    OBVIOUS
  <1>1. Init => SafeInv
    BY InitSafe
  <1>2. SafeInv /\ [Next]_vars => SafeInv'
    BY NextSafe
  <1>3. SafeInv => NothingIsLost
    <2> SUFFICES ASSUME SafeInv PROVE NothingIsLost
      OBVIOUS
    <2>1. MainFull(store) \/ TempFull(store)
      BY DEF SafeInv, InPlaceInv, RecreationInv, StoreSafe
    <2> QED BY <2>1, PointsTyped DEF SafeInv, NothingIsLost, MainFull, TempFull
  <1> QED BY <1>1, <1>2, <1>3, PTL DEF Spec

----------------------------------------------------------------------------
(* What is recorded as applied.                                            *)

\* Raw memories whose target had the same user and names them.
Consolidated == {p \in BackLink :
    LinkOf[p] # 0 /\ p \notin Userless /\ LinkOf[p] \notin Userless}

ScanDomain(k) == IF k = Classify THEN SessionId ELSE Memory
HasData(s, name, p) == "data" \in s[name].at[p]
SessionsOwned(s) ==
    \A x \in SessionId : HasData(s, "sessions", x) => "owner" \in s["sessions"].at[x]

\* Migration k has been done for the point p, up to an offset, and altogether.
DoneAt(k, p, s) ==
    /\ k = Sparse => HasData(s, "main", p) /\ "bm25" \in s["main"].at[p]
    /\ k = Owner => p \in Userless \/ "owner" \in s["main"].at[p]
    /\ k = Revision => "active" \in s["main"].at[p] \/ "source" \in s["main"].at[p]
    /\ k = Projection => "projection" \in s["main"].at[p]
    /\ k = Classify => (HasData(s, "sessions", p) /\ p \in FailedOnes =>
                            "classified" \in s["sessions"].at[p])
DoneTo(k, n, s) == \A p \in ScanDomain(k) : p < n => DoneAt(k, p, s)
Performed(k, s) ==
    /\ \A p \in ScanDomain(k) : DoneAt(k, p, s)
    /\ k = Sparse => s["main"].exists /\ s["main"].sparse
    /\ k = Revision => SessionsOwned(s)

DocTrue(doc, s) ==
    /\ \A k \in doc.applied : Performed(k, s)
    /\ \A k \in Id : doc.progress[k].phase \notin CopyPhase =>
          DoneTo(k, doc.progress[k].offset, s)

\* The points before the next page.
Covered(r, p) == r.next = 0 \/ p < r.next

BatchTrue(stage, r) ==
    /\ stage \in {"write", "copy_write"} /\ r.id # Classify =>
          \A x \in r.batch : x[1] \in Memory /\ (x[1] \notin Userless => "user" \in x[2])
    /\ stage = "write" /\ r.id = Revision =>
          \A x \in r.batch : x[1] \notin Userless => "owner" \in x[2]
    /\ stage = "copy_write" =>
          \A x \in r.batch : /\ x[1] \in Consolidated => "active" \notin x[2]
                             /\ SparsePhase(r.doc) = "copy_back" => "bm25" \in x[2]
RunTrue(stage, r, s) ==
    /\ \A j \in Id : j < r.id => j \in r.doc.applied
    /\ stage \in Working => r.id \notin r.doc.applied
    /\ stage \in {"inspect", "sessions", "scan"} => DoneTo(r.id, r.offset, s)
    /\ stage = "write" => \A p \in ScanDomain(r.id) :
          Covered(r, p) => DoneAt(r.id, p, s) \/ \E x \in r.batch : x[1] = p
    /\ stage = "save" => \A p \in ScanDomain(r.id) : Covered(r, p) => DoneAt(r.id, p, s)
    /\ stage = "done" => Performed(r.id, s)
    /\ stage \in Scanning /\ r.id = Revision => SessionsOwned(s)
    /\ BatchTrue(stage, r)

PointsTrue(s) ==
    /\ \A p \in Memory : HasData(s, "main", p) /\ p \notin Userless =>
          "user" \in s["main"].at[p]
    /\ \A p \in Memory : HasData(s, "temp", p) /\ p \notin Userless =>
          "user" \in s["temp"].at[p]
    /\ \A x \in SessionId : HasData(s, "sessions", x) => "user" \in s["sessions"].at[x]
    /\ \A p \in Memory : HasData(s, "temp", p) => "bm25" \in s["temp"].at[p]
    /\ \A p \in Consolidated : /\ "active" \notin s["main"].at[p]
                               /\ "active" \notin s["temp"].at[p]

\* Where one instance recreates the collection, everything else comes after, and
\* the main collection is whole until the phase on record is the copy back.
MainIndexed(s) ==
    \A p \in Memory : HasData(s, "main", p) => "bm25" \in s["main"].at[p]
DocSole(doc) == Sparse \notin doc.applied =>
    /\ doc.applied = {}
    /\ \A k \in Id \ {Sparse} : doc.progress[k].offset = 0
StoreSole(s, doc) ==
    Sparse \notin doc.applied /\ SparsePhase(doc) # "copy_back" =>
        MainFull(s) /\ s["main"].exists
RunSole(stage, r, s, doc) ==
    /\ DocSole(r.doc)
    /\ stage = "choose" => r.doc = doc
    /\ stage = "handler" => StoreSole(s, r.doc)
    /\ stage \in Scanning /\ r.id = Sparse =>
          SparsePhase(r.doc) # "copy_back" /\ s["main"].sparse
    /\ stage \in Copying \cup {"clean"} /\ SparsePhase(r.doc) = "copy_back" =>
          MainIndexed(s)
SoleTrue ==
    /\ StoreSole(store, meta) /\ DocSole(meta)
    /\ \A i \in deployment.pods : RunSole(pc[i], run[i], store, meta)

AppliedNow ==
    /\ PointsTrue(store) /\ DocTrue(meta, store)
    /\ \A i \in Pod : DocTrue(run[i].doc, store) /\ RunTrue(pc[i], run[i], store)
    /\ Recreation => SoleTrue
Read == "unread" \notin mishaps
AppliedInv == Read => AppliedNow

\* What was done stays done.
LEMMA DoneStays ==
    ASSUME NEW s, NEW t, Keeps(s, t)
    PROVE  /\ \A k \in 1..8 : \A p \in ScanDomain(k) : DoneAt(k, p, s) => DoneAt(k, p, t)
           /\ SessionsOwned(s) => SessionsOwned(t)
           /\ \A k \in 1..8 : Performed(k, s) => Performed(k, t)
           /\ \A k \in 1..8 : \A n : DoneTo(k, n, s) => DoneTo(k, n, t)
           /\ \A doc \in Document : DocTrue(doc, s) => DocTrue(doc, t)
           /\ \A r \in Run : \A stage : RunTrue(stage, r, s) => RunTrue(stage, r, t)
  <1>1. /\ t["main"].exists = s["main"].exists
        /\ s["main"].sparse => t["main"].sparse
        /\ \A p \in Memory : s["main"].at[p] \subseteq t["main"].at[p]
        /\ \A x \in SessionId : "data" \in t["sessions"].at[x] =>
             "data" \in s["sessions"].at[x] /\ s["sessions"].at[x] \subseteq t["sessions"].at[x]
    BY DEF Keeps
  <1>2. ASSUME NEW k \in 1..8, NEW p \in ScanDomain(k), DoneAt(k, p, s)
        PROVE  DoneAt(k, p, t)
    <2>1. CASE k = Classify
      <3>1. p \in SessionId
        BY <1>2, <2>1 DEF ScanDomain
      <3> QED BY <1>1, <1>2, <2>1, <3>1 DEF DoneAt, HasData, Sparse, Owner, Revision,
                 Projection, Classify
    <2>2. CASE k # Classify
      <3>1. p \in Memory
        BY <1>2, <2>2 DEF ScanDomain
      <3> QED BY <1>1, <1>2, <2>2, <3>1 DEF DoneAt, HasData
    <2> QED BY <2>1, <2>2
  <1>3. SessionsOwned(s) => SessionsOwned(t)
    BY <1>1 DEF SessionsOwned, HasData
  <1>4. \A k \in 1..8 : Performed(k, s) => Performed(k, t)
    BY <1>1, <1>2, <1>3 DEF Performed
  <1>5. \A k \in 1..8 : \A n : DoneTo(k, n, s) => DoneTo(k, n, t)
    BY <1>2 DEF DoneTo
  <1>6. \A doc \in Document : DocTrue(doc, s) => DocTrue(doc, t)
    <2>1. Id \subseteq 1..8
      BY Constants
    <2> QED BY <1>4, <1>5, <2>1 DEF DocTrue, Document
  <1>7. ASSUME NEW r \in Run, NEW stage, RunTrue(stage, r, s) PROVE RunTrue(stage, r, t)
    <2>1. r.id \in 1..8
      BY DEF Run
    <2> QED BY <1>2, <1>3, <1>4, <1>5, <1>7, <2>1 DEF RunTrue
  <1> QED BY <1>2, <1>3, <1>4, <1>5, <1>6, <1>7

LEMMA NoRunTrue ==
    /\ DocSole(NoRun.doc) /\ \A s : DocTrue(NoRun.doc, s)
    /\ \A s, stage : stage \in {"down", "load", "choose", "up"} => RunTrue(stage, NoRun, s)
  <1>1. /\ NoRun.doc.applied = {} /\ NoRun.id = 1 /\ NoRun.batch = {}
        /\ \A k \in Id : NoRun.doc.progress[k].offset = 0
    BY NoRunTyped DEF NoProgress
  <1>2. \A k \in Id : \A p \in ScanDomain(k) : ~(p < 0)
    BY Constants DEF ScanDomain
  <1>3. \A s : DocTrue(NoRun.doc, s)
    BY <1>1, <1>2 DEF DocTrue, DoneTo
  <1>4. \A j \in Id : ~(j < 1)
    BY Constants
  <1>5. \A s, stage : stage \in {"down", "load", "choose", "up"} => RunTrue(stage, NoRun, s)
    BY <1>1, <1>4 DEF RunTrue, BatchTrue, Working, Recreating, Copying, Scanning
  <1> QED BY <1>1, <1>3, <1>5 DEF DocSole

LEMMA PointsStay ==
    ASSUME NEW s, NEW t, Keeps(s, t), PointsTrue(s),
           \A p \in Consolidated : "active" \in t["main"].at[p] => "active" \in s["main"].at[p]
    PROVE  PointsTrue(t)
  BY DEF Keeps, PointsTrue, HasData

LEMMA MoveTrue ==
    ASSUME TypedInv, AppliedNow, NEW i \in Pod, Acts(i),
           NEW stage, NEW q, To(i, stage, q),
           Keeps(store, store') \/ Recreation,
           PointsTrue(store'), DocTrue(meta', store'), DocTrue(q.doc, store'),
           RunTrue(stage, q, store'),
           Recreation => /\ Alone(i) /\ StoreSole(store', meta') /\ DocSole(meta')
                         /\ RunSole(stage, q, store', meta')
    PROVE  AppliedNow'
  <1>1. /\ pc'[i] = stage /\ run'[i] = q /\ deployment' = deployment
        /\ \A j \in Pod : j # i => pc'[j] = pc[j] /\ run'[j] = run[j]
    BY StepsStay DEF To, TypedInv
  <1>2. ASSUME NEW j \in Pod, j # i
        PROVE  DocTrue(run'[j].doc, store') /\ RunTrue(pc'[j], run'[j], store')
    <2>1. CASE Keeps(store, store')
      <3>1. run[j] \in Run /\ run[j].doc \in Document
        BY DEF TypedInv, Run
      <3>2. DocTrue(run[j].doc, store) /\ RunTrue(pc[j], run[j], store)
        BY DEF AppliedNow
      <3> QED BY <1>1, <1>2, <2>1, <3>1, <3>2, DoneStays
    <2>2. CASE Recreation
      <3>1. run'[j] = NoRun /\ pc'[j] = "down"
        BY <1>1, <1>2, <2>2 DEF Alone, TypedInv
      <3> QED BY <3>1, NoRunTrue
    <2> QED BY <2>1, <2>2
  <1>3. Recreation' => SoleTrue'
    <2> SUFFICES ASSUME Recreation PROVE SoleTrue'
      BY <1>1 DEF Recreation
    <2>1. \A j \in deployment.pods : RunSole(pc'[j], run'[j], store', meta')
      BY <1>1 DEF Alone
    <2> QED BY <1>1, <2>1 DEF SoleTrue
  <1>4. \A j \in Pod : DocTrue(run'[j].doc, store') /\ RunTrue(pc'[j], run'[j], store')
    BY <1>1, <1>2
  <1> QED BY <1>3, <1>4 DEF AppliedNow

\* A step that keeps the points.
LEMMA KeepingTrue ==
    ASSUME SafeInv, AppliedNow, NEW i \in Pod, Acts(i), Keeps(store, store'),
           \A p \in Consolidated :
              "active" \in store'["main"].at[p] => "active" \in store["main"].at[p],
           Recreation => Alone(i),
           NEW stage, NEW q, To(i, stage, q), DocTrue(meta', store'),
           DocTrue(q.doc, store'), RunTrue(stage, q, store'),
           Recreation => /\ DocSole(meta') /\ RunSole(stage, q, store', meta')
                         /\ StoreSole(store, meta')
    PROVE  AppliedNow'
  <1>1. PointsTrue(store')
    BY PointsStay DEF AppliedNow
  <1>2. StoreSole(store, meta') => StoreSole(store', meta')
    BY DEF StoreSole, MainFull, Keeps
  <1> QED BY <1>1, <1>2, MoveTrue DEF SafeInv

LEMMA SameDoc ==
    ASSUME NEW d, NEW e, d.applied = e.applied, d.progress = e.progress
    PROVE  /\ \A s : DocTrue(d, s) <=> DocTrue(e, s)
           /\ DocSole(d) <=> DocSole(e)
           /\ SparsePhase(d) = SparsePhase(e)
           /\ \A s : StoreSole(s, d) <=> StoreSole(s, e)
  BY DEF DocTrue, DocSole, SparsePhase, StoreSole

\* The temporary collection has no part in what is recorded.
LEMMA SameMain ==
    ASSUME NEW s, NEW t, s["main"] = t["main"], s["sessions"] = t["sessions"]
    PROVE  \A doc : DocTrue(doc, s) => DocTrue(doc, t)
  <1>1. \A k, p : DoneAt(k, p, s) => DoneAt(k, p, t)
    BY DEF DoneAt, HasData
  <1>2. SessionsOwned(s) => SessionsOwned(t)
    BY DEF SessionsOwned, HasData
  <1> QED BY <1>1, <1>2 DEF DocTrue, Performed, DoneTo

\* Where nothing is recorded there is nothing to hold.
LEMMA FreshTrue ==
    ASSUME NEW doc \in Document, DocSole(doc), Sparse \notin doc.applied,
           SparsePhase(doc) \in CopyPhase
    PROVE  \A s : DocTrue(doc, s)
  <1>1. \A k \in Id : \A p \in ScanDomain(k) : ~(p < 0)
    BY Constants DEF ScanDomain
  <1> QED BY <1>1 DEF DocTrue, DocSole, DoneTo, SparsePhase

\* What was performed may be recorded, and what a page covered.
LEMMA CompletedTrue ==
    ASSUME NEW doc \in Document, NEW k \in Id, NEW s, DocTrue(doc, s), Performed(k, s)
    PROVE  /\ DocTrue(Completed(doc, k), s)
           /\ Completed(doc, k).applied = doc.applied \cup {k}
  <1> DEFINE new == Completed(doc, k)
  <1>1. /\ new.progress = [doc.progress EXCEPT ![k] = NoProgress]
        /\ new.applied = doc.applied \cup {k}
    BY DEF Document, Completed
  <1> HIDE DEF new
  <1>2. \A j \in new.applied : Performed(j, s)
    BY <1>1 DEF DocTrue
  <1>3. ASSUME NEW j \in Id, new.progress[j].phase \notin CopyPhase
        PROVE  DoneTo(j, new.progress[j].offset, s)
    <2>1. CASE j = k
      <3>1. new.progress[j].offset = 0
        BY <1>1, <2>1 DEF NoProgress, Document
      <3>2. \A p \in ScanDomain(j) : ~(p < 0)
        BY Constants DEF ScanDomain
      <3> QED BY <3>1, <3>2 DEF DoneTo
    <2>2. CASE j # k
      BY <1>1, <1>3, <2>2 DEF DocTrue, Document
    <2> QED BY <2>1, <2>2
  <1>4. DocTrue(new, s)
    BY <1>2, <1>3 DEF DocTrue
  <1> QED BY <1>1, <1>4 DEF new

LEMMA CheckpointTrue ==
    ASSUME NEW r \in Run, r.doc \in Document, NEW k \in Id, NEW s, DocTrue(r.doc, s),
           \A p \in ScanDomain(k) : Covered(r, p) => DoneAt(k, p, s)
    PROVE  DocTrue(Checkpoint(r, k, "scan"), s)
  <1> DEFINE new == Checkpoint(r, k, "scan")
  <1>1. /\ new.progress = [r.doc.progress EXCEPT ![k] = Reached(r, "scan")]
        /\ new.applied = r.doc.applied
    BY DEF Document, Checkpoint
  <1> HIDE DEF new
  <1>2. ASSUME NEW j \in Id, new.progress[j].phase \notin CopyPhase
        PROVE  DoneTo(j, new.progress[j].offset, s)
    <2>1. CASE j = k
      <3>1. new.progress[j].offset = r.next
        BY <1>1, <2>1 DEF Document, Reached
      <3> QED BY <2>1, <3>1 DEF DoneTo, Covered
    <2>2. CASE j # k
      <3>1. new.progress[j] = r.doc.progress[j]
        BY <1>1, <2>2 DEF Document
      <3> QED BY <1>2, <3>1 DEF DocTrue
    <2> QED BY <2>1, <2>2
  <1>3. DocTrue(new, s)
    BY <1>1, <1>2 DEF DocTrue
  <1> QED BY <1>3 DEF new

\* A checkpoint of the first migration records nothing of the others.
LEMMA CheckpointSole ==
    ASSUME NEW r, r.doc \in Document, DocSole(r.doc)
    PROVE  /\ \A phase : LET new == Checkpoint(r, Sparse, phase)
                         IN  /\ DocSole(new) /\ new.applied = r.doc.applied
           /\ LET new == Turned(r.doc)
              IN  /\ DocSole(new) /\ new.applied = r.doc.applied
           /\ \A k, phase : Checkpoint(r, k, phase).applied = r.doc.applied
  <1>1. ASSUME NEW p, NEW new, new = [r.doc EXCEPT !.progress[Sparse] = p]
        PROVE  DocSole(new) /\ new.applied = r.doc.applied
    <2>1. /\ new.progress = [r.doc.progress EXCEPT ![Sparse] = p]
          /\ new.applied = r.doc.applied
      BY <1>1 DEF Document
    <2>2. \A k \in Id \ {Sparse} : new.progress[k] = r.doc.progress[k]
      BY <2>1 DEF Document
    <2> QED BY <2>1, <2>2 DEF DocSole
  <1>2. \A k, phase : Checkpoint(r, k, phase).applied = r.doc.applied
    BY DEF Checkpoint, Document
  <1> QED BY <1>1, <1>2 DEF Checkpoint, Turned

LEMMA SafeParts ==
    ASSUME SafeInv, NEW i \in Pod, pc[i] # "down"
    PROVE  /\ TypedInv /\ i \in deployment.pods /\ RunTyped(pc[i], run[i])
           /\ run[i] \in Run /\ run[i].doc \in Documents /\ run[i].doc \in Document
           /\ meta \in Documents /\ meta \in Document
           /\ ~Recreation => InPlaceInv /\ RunInPlace(pc[i], run[i], store)
           /\ Recreation => RecreationInv /\ RunSafe(pc[i], run[i], store, meta)
  <1>1. TypedInv /\ i \in deployment.pods
    BY StartedOnes DEF SafeInv
  <1> QED BY <1>1 DEF SafeInv, TypedInv, RunTyped, Documents, InPlaceInv, RecreationInv

\* What the handler may find in memory is true.
LEMMA DraftTrue ==
    ASSUME Sole, SafeInv, AppliedNow, NEW i \in Pod, pc[i] \in Working,
           NEW doc \in Drafts(i)
    PROVE  /\ DocTrue(doc, store) /\ run[i].doc.applied \subseteq doc.applied
           /\ Recreation => DocSole(doc) /\ StoreSole(store, doc)
  <1> DEFINE r == run[i]
  <1>1. pc[i] # "down"
    BY DEF Working, Recreating, Copying, Scanning
  <1>2. /\ TypedInv /\ i \in deployment.pods /\ r \in Run /\ r.doc \in Documents
        /\ r.doc \in Document /\ r.id \in Id
        /\ pc[i] \in Recreating => r.id = Sparse /\ Recreation
        /\ Recreation => RunSafe(pc[i], r, store, meta)
    <2>1. pc[i] \in Recreating => Recreation
      BY <1>1, SafeParts DEF RunInPlace
    <2> QED BY <1>1, <2>1, SafeParts DEF RunTyped
  <1>3. /\ DocTrue(r.doc, store) /\ RunTrue(pc[i], r, store)
        /\ Recreation => SoleTrue /\ RunSole(pc[i], r, store, meta)
    BY <1>2 DEF AppliedNow, SoleTrue
  <1>4. r.id \notin r.doc.applied
    BY <1>3 DEF RunTrue
  <1>5. r.id # Sparse => Sparse \in r.doc.applied
    <2>1. r.id # Sparse => Sparse < r.id
      BY <1>2, Constants DEF Sparse
    <2> QED BY <1>3, <2>1, Constants DEF RunTrue
  <1>6. Recreation => /\ r.doc = meta /\ StoreSole(store, r.doc) /\ DocSole(r.doc)
    <2>1. pc[i] \notin {"down", "load", "choose", "up", "handler"}
      BY DEF Working, Recreating, Copying, Scanning
    <2> QED BY <1>2, <1>3, <2>1 DEF RunSafe, RunSole, SoleTrue
  <1>7. CASE doc = r.doc
    BY <1>3, <1>6, <1>7
  <1>8. CASE pc[i] = "done" /\ doc = Completed(r.doc, r.id)
    <2>1. Performed(r.id, store)
      BY <1>3, <1>8 DEF RunTrue
    <2>2. DocTrue(doc, store) /\ doc.applied = r.doc.applied \cup {r.id}
      BY <1>2, <1>3, <1>8, <2>1, CompletedTrue
    <2>3. Sparse \in doc.applied
      BY <1>5, <2>2
    <2> QED BY <2>2, <2>3 DEF DocSole, StoreSole
  <1>9. CASE pc[i] = "save" /\ doc = Checkpoint(r, r.id, "scan")
    <2>1. \A p \in ScanDomain(r.id) : Covered(r, p) => DoneAt(r.id, p, store)
      BY <1>3, <1>9 DEF RunTrue
    <2>2. DocTrue(doc, store)
      BY <1>2, <1>3, <1>9, <2>1, CheckpointTrue
    <2>3. doc.applied = r.doc.applied
      BY <1>2, <1>9 DEF Checkpoint, Document
    <2>4. Recreation /\ r.id = Sparse => DocSole(doc) /\ StoreSole(store, doc)
      <3>1. Recreation /\ r.id = Sparse => SparsePhase(r.doc) # "copy_back"
        BY <1>3, <1>9 DEF RunSole, Scanning
      <3> QED BY <1>2, <1>4, <1>6, <1>9, <3>1, CheckpointSole DEF StoreSole
    <2>5. r.id # Sparse => DocSole(doc) /\ StoreSole(store, doc)
      BY <1>5, <2>3 DEF DocSole, StoreSole
    <2> QED BY <2>2, <2>3, <2>4, <2>5
  <1>10. ASSUME Recreation, r.id = Sparse, doc.applied = r.doc.applied, DocSole(doc),
                doc \in Document, SparsePhase(doc) \in CopyPhase,
                SparsePhase(r.doc) = "copy_back" => SparsePhase(doc) = "copy_back"
         PROVE  DocTrue(doc, store) /\ StoreSole(store, doc)
    BY <1>4, <1>6, <1>10, FreshTrue DEF StoreSole
  <1>11. CASE pc[i] = "save_copy" /\ doc = Checkpoint(r, Sparse, Phase(r))
    <2>1. Recreation /\ r.id = Sparse
      BY <1>2, <1>11 DEF Recreating, Copying
    <2>2. DocSole(doc) /\ doc.applied = r.doc.applied
      BY <1>2, <1>6, <1>11, <2>1, CheckpointSole
    <2>3. doc \in Document
      BY <1>2, <1>11, DocumentsTyped DEF Documents
    <2>4. SparsePhase(doc) = Phase(r)
      BY <1>2, <1>11, PhaseChanges
    <2> QED BY <1>10, <2>1, <2>2, <2>3, <2>4, CopyDirection DEF CopyPhase
  <1>12. CASE pc[i] = "copied" /\ doc = Turned(r.doc)
    <2>1. Recreation /\ r.id = Sparse
      BY <1>2, <1>12 DEF Recreating, Copying
    <2>2. DocSole(doc) /\ doc.applied = r.doc.applied
      BY <1>2, <1>6, <1>12, <2>1, CheckpointSole
    <2>3. doc \in Document /\ SparsePhase(doc) = "copy_back"
      BY <1>2, <1>12, DocumentsTyped, PhaseChanges DEF Documents
    <2> QED BY <1>10, <2>1, <2>2, <2>3 DEF CopyPhase
  <1> QED BY <1>7, <1>8, <1>9, <1>11, <1>12, DraftCases

LEMMA RunnerTrue ==
    ASSUME Sole, SafeInv, AppliedNow, Read', NEW i \in Pod,
           \/ Start(i) \/ Load(i) \/ LoadNothing(i) \/ Choose(i) \/ Complete(i)
           \/ Handler(i) \/ Crash(i) \/ Fault(i)
    PROVE  AppliedNow'
  <1> DEFINE r == run[i]
             sole == Recreation
  <1>1. /\ TypedInv /\ i \in deployment.pods /\ Acts(i) /\ r \in Run
        /\ r.doc \in Documents /\ meta \in Documents
        /\ r.doc \in Document /\ meta \in Document
        /\ RunTyped(pc[i], r) /\ (sole => Alone(i)) /\ pc[i] \in Stage
    <2>1. Acts(i) /\ TypedInv
      BY DEF Acts, SafeInv
    <2>2. i \in deployment.pods
      BY <2>1, ActorsAreDeployed
    <2> QED BY <2>1, <2>2, AloneWhereSole DEF TypedInv, RunTyped, Documents
  <1>2. /\ PointsTrue(store) /\ DocTrue(meta, store) /\ DocTrue(r.doc, store)
        /\ RunTrue(pc[i], r, store)
        /\ sole => /\ RunSole(pc[i], r, store, meta) /\ DocSole(meta)
                   /\ DocSole(r.doc) /\ StoreSole(store, meta)
    BY <1>1 DEF AppliedNow, SoleTrue, RunSole
  <1> HIDE DEF sole
  <1>3. ASSUME NEW stage, NEW q, To(i, stage, q), store' = store,
               DocTrue(meta', store), DocTrue(q.doc, store), RunTrue(stage, q, store),
               sole => /\ DocSole(meta') /\ RunSole(stage, q, store, meta')
                       /\ StoreSole(store, meta')
        PROVE  AppliedNow'
    <2>1. Keeps(store, store')
      BY <1>3 DEF Keeps
    <2> QED BY <1>1, <1>3, <2>1, KeepingTrue DEF sole
  <1> USE DEF Working, Recreating, Copying, Scanning
  <1>4. CASE Start(i)
    <2>1. RunTrue("load", NoRun, store') /\ DocTrue(NoRun.doc, store')
          /\ RunSole("load", NoRun, store', meta)
      BY NoRunTrue DEF RunSole
    <2>2. To(i, "load", NoRun) /\ meta' = meta
      BY <1>4 DEF Start
    <2>3. CASE store["main"].exists
      <3>1. store' = store
        BY <1>4, <2>3 DEF Start
      <3> QED BY <1>2, <1>3, <2>1, <2>2, <3>1
    <2>4. CASE ~store["main"].exists
      <3>1. sole
        BY <2>4 DEF SafeInv, InPlaceInv, sole
      <3>2. store' = [store EXCEPT !["main"] = Empty("main", TRUE, TRUE)]
        BY <1>4, <2>4 DEF Start
      <3>3. /\ store'["temp"] = store["temp"] /\ store'["sessions"] = store["sessions"]
            /\ \A p \in Memory : store'["main"].at[p] = {}
        BY <1>1, <3>2 DEF TypedInv, Stores, Collection, Empty
      <3>4. PointsTrue(store')
        <4>1. Consolidated \subseteq Memory
          BY MigrationAssumption DEF Consolidated
        <4> QED BY <1>2, <3>3, <4>1 DEF PointsTrue, HasData
      <3>5. Sparse \notin meta.applied
        BY <1>2, <2>4 DEF DocTrue, Performed
      <3>6. SparsePhase(meta) = "copy_back"
        BY <1>2, <2>4, <3>1, <3>5 DEF StoreSole
      <3>7. DocTrue(meta, store')
        BY <1>1, <1>2, <3>1, <3>5, <3>6, FreshTrue DEF CopyPhase
      <3>8. StoreSole(store', meta)
        BY <3>6 DEF StoreSole
      <3> QED BY <1>1, <1>2, <2>1, <2>2, <3>1, <3>4, <3>7, <3>8, MoveTrue DEF sole
    <2> QED BY <2>3, <2>4
  <1>5. CASE Load(i)
    <2> DEFINE q == [NoRun EXCEPT !.doc = meta]
    <2>1. q.doc = meta /\ q.id = 1 /\ q.batch = {}
      BY DEF NoRun
    <2>2. To(i, "choose", q) /\ meta' = meta /\ store' = store
      BY <1>5 DEF Load
    <2> HIDE DEF q
    <2>3. RunTrue("choose", q, store)
      BY <2>1, Constants DEF RunTrue, BatchTrue
    <2>4. sole => RunSole("choose", q, store, meta)
      BY <1>2, <2>1 DEF RunSole
    <2> QED BY <1>2, <1>3, <2>1, <2>2, <2>3, <2>4
  <1>6. CASE LoadNothing(i)
    <2>1. meta = NoRun.doc
      BY <1>6 DEF LoadNothing, Befalls, Read
    <2>2. RunTrue("choose", NoRun, store) /\ RunSole("choose", NoRun, store, meta)
      BY <2>1, NoRunTrue DEF RunSole
    <2> QED BY <1>2, <1>3, <1>6, <2>1, <2>2 DEF LoadNothing
  <1>7. CASE Choose(i)
    <2>1. CASE To(i, "up", NoRun) /\ UNCHANGED meta
      <3>1. RunTrue("up", NoRun, store) /\ RunSole("up", NoRun, store, meta)
            /\ DocTrue(NoRun.doc, store)
        BY NoRunTrue DEF RunSole
      <3> QED BY <1>2, <1>3, <1>7, <2>1, <3>1 DEF Choose
    <2>2. ASSUME NEW k \in Id \ r.doc.applied, k >= r.id,
                 \A j \in Id \ r.doc.applied : j >= r.id => k <= j,
                 Save(i, "run", [r EXCEPT !.doc.running = @ \cup {k}, !.id = k])
          PROVE  AppliedNow'
      <3> DEFINE q == [r EXCEPT !.doc.running = @ \cup {k}, !.id = k]
      <3>1. /\ q.doc.progress = r.doc.progress /\ q.doc.applied = r.doc.applied
            /\ q.id = k
        BY <1>1 DEF Document, Run
      <3>2. To(i, "run", q) /\ meta' = q.doc /\ store' = store
        BY <1>7, <2>2 DEF Save, Choose
      <3> HIDE DEF q
      <3>3. DocTrue(q.doc, store)
        BY <1>2, <3>1, SameDoc
      <3>4. RunTrue("run", q, store)
        <4>1. \A j \in Id : j < k => j \in r.doc.applied
          <5> SUFFICES ASSUME NEW j \in Id, j < k, j \notin r.doc.applied PROVE FALSE
            OBVIOUS
          <5>1. j \in Nat /\ k \in Nat /\ r.id \in Nat
            BY <1>1, Constants DEF Run
          <5>2. j < r.id
            BY <2>2, <5>1
          <5> QED BY <1>2, <5>2 DEF RunTrue
        <4> QED BY <2>2, <3>1, <4>1 DEF RunTrue, BatchTrue
      <3>5. ASSUME sole
            PROVE  /\ DocSole(q.doc) /\ RunSole("run", q, store, q.doc)
                   /\ StoreSole(store, q.doc)
        <4>1. r.doc = meta
          BY <1>2, <1>7, <3>5 DEF RunSole, Choose
        <4> QED BY <1>2, <3>1, <3>5, <4>1, SameDoc DEF RunSole
      <3> QED BY <1>3, <3>2, <3>3, <3>4, <3>5
    <2> QED BY <1>7, <2>1, <2>2 DEF Choose
  <1>8. CASE Complete(i)
    <2> DEFINE q == [r EXCEPT !.doc = Completed(r.doc, r.id), !.id = r.id + 1]
    <2>1. r.id \in Id /\ Performed(r.id, store) /\ Sparse \in r.doc.applied \cup {r.id}
      <3>1. r.id \in Id /\ Performed(r.id, store)
        BY <1>1, <1>2, <1>8 DEF Complete, RunTyped, RunTrue
      <3>2. r.id # Sparse => Sparse < r.id
        BY <3>1, Constants DEF Sparse
      <3> QED BY <1>2, <3>1, <3>2, Constants DEF RunTrue
    <2>2. /\ q.doc.progress = [r.doc.progress EXCEPT ![r.id] = NoProgress]
          /\ q.doc.applied = r.doc.applied \cup {r.id} /\ q.id = r.id + 1
      BY <1>1 DEF Document, Run, Completed
    <2>3. To(i, "choose", q) /\ meta' = q.doc /\ store' = store
      BY <1>8 DEF Complete, Save
    <2> HIDE DEF q
    <2>4. DocTrue(q.doc, store)
      BY <1>1, <1>2, <2>1, CompletedTrue DEF q, Run
    <2>5. RunTrue("choose", q, store)
      <3>1. \A j \in Id : j < r.id + 1 => j = r.id \/ j < r.id
        BY <2>1, Constants
      <3> QED BY <1>2, <2>2, <3>1 DEF RunTrue, BatchTrue
    <2>6. DocSole(q.doc) /\ RunSole("choose", q, store, q.doc) /\ StoreSole(store, q.doc)
      BY <2>1, <2>2 DEF DocSole, RunSole, StoreSole
    <2> QED BY <1>3, <2>3, <2>4, <2>5, <2>6
  <1>9. CASE Handler(i)
    <2> DEFINE q == [r EXCEPT !.doc.running = @ \ {r.id}]
    <2>1. /\ q.doc.progress = r.doc.progress /\ q.doc.applied = r.doc.applied
          /\ q.id = r.id
      BY <1>1 DEF Document, Run
    <2>2. To(i, "down", q) /\ meta' = q.doc /\ store' = store
      BY <1>9 DEF Handler, Save
    <2> HIDE DEF q
    <2>3. DocTrue(q.doc, store)
      BY <1>2, <2>1, SameDoc
    <2>4. RunTrue("down", q, store)
      BY <1>2, <2>1 DEF RunTrue, BatchTrue
    <2>5. sole => /\ DocSole(q.doc) /\ RunSole("down", q, store, q.doc)
                  /\ StoreSole(store, q.doc)
      BY <1>2, <1>9, <2>1, SameDoc DEF RunSole, Handler
    <2> QED BY <1>3, <2>2, <2>3, <2>4, <2>5
  <1>10. CASE Crash(i)
    <2>1. RunTrue("down", NoRun, store) /\ RunSole("down", NoRun, store, meta)
          /\ DocTrue(NoRun.doc, store)
      BY NoRunTrue DEF RunSole
    <2> QED BY <1>2, <1>3, <1>10, <2>1 DEF Crash
  <1>11. CASE Fault(i)
    <2>1. PICK doc \in Drafts(i) : To(i, "handler", [r EXCEPT !.doc = doc])
      BY <1>11 DEF Fault
    <2> DEFINE q == [r EXCEPT !.doc = doc]
    <2>2. q.doc = doc /\ q.id = r.id
      BY <1>1 DEF Run
    <2>3. pc[i] \in Working
      BY <1>1, <1>11 DEF Fault, Stage
    <2>4. /\ DocTrue(doc, store) /\ r.doc.applied \subseteq doc.applied
          /\ Recreation => DocSole(doc) /\ StoreSole(store, doc)
      BY <2>3, DraftTrue
    <2>5. To(i, "handler", q) /\ meta' = meta /\ store' = store
      BY <1>11, <2>1 DEF Fault
    <2> HIDE DEF q
    <2>6. RunTrue("handler", q, store)
      BY <1>2, <2>2, <2>4 DEF RunTrue, BatchTrue
    <2>7. sole => RunSole("handler", q, store, meta)
      BY <2>2, <2>4 DEF RunSole, sole
    <2> QED BY <1>2, <1>3, <2>2, <2>4, <2>5, <2>6, <2>7
  <1> QED BY <1>4, <1>5, <1>6, <1>7, <1>8, <1>9, <1>10, <1>11

\* What a step that recreates nothing leaves true.
LEMMA Carried ==
    ASSUME Sole, SafeInv, AppliedNow, NEW i \in Pod, Acts(i), pc[i] # "down",
           ~Recreates(i)
    PROVE  /\ Keeps(store, store') /\ PointsTrue(store) /\ DocTrue(meta, store')
           /\ DocTrue(run[i].doc, store') /\ RunTrue(pc[i], run[i], store')
           /\ DocTrue(run[i].doc, store) /\ RunTrue(pc[i], run[i], store)
           /\ Recreation =>
                /\ Alone(i) /\ DocSole(meta) /\ StoreSole(store, meta)
                /\ RunSole(pc[i], run[i], store', meta)
  <1>1. /\ TypedInv /\ i \in deployment.pods /\ run[i] \in Run
        /\ run[i].doc \in Document /\ meta \in Document
    BY SafeParts
  <1>2. ~Start(i)
    BY DEF Start
  <1>3. Keeps(store, store')
    BY <1>1, <1>2, MostStepsKeep
  <1>4. /\ PointsTrue(store) /\ DocTrue(meta, store) /\ DocTrue(run[i].doc, store)
        /\ RunTrue(pc[i], run[i], store) /\ (Recreation => SoleTrue)
    BY DEF AppliedNow
  <1>5. /\ DocTrue(meta, store') /\ DocTrue(run[i].doc, store')
        /\ RunTrue(pc[i], run[i], store')
    BY <1>1, <1>3, <1>4, DoneStays
  <1>6. Recreation => Alone(i)
    BY <1>1, AloneWhereSole
  <1>7. RunSole(pc[i], run[i], store, meta) => RunSole(pc[i], run[i], store', meta)
    BY <1>3 DEF RunSole, Keeps, StoreSole, MainFull, MainIndexed, HasData
  <1> QED BY <1>1, <1>3, <1>4, <1>5, <1>6, <1>7 DEF SoleTrue

LEMMA BeginningsTrue ==
    ASSUME Sole, Memories # 0, SafeInv, AppliedNow, NEW i \in Pod,
           \/ RunSparse(i) \/ CreateSessions(i) \/ AddMemoryLayerIndex(i)
           \/ BeginScan(i) \/ BackfillSession(i) \/ Inspect(i) \/ Shrug(i)
    PROVE  AppliedNow'
  <1> DEFINE r == run[i]
             sole == Recreation
  <1>1. /\ pc[i] \in {"run", "sessions", "inspect"} /\ Acts(i) /\ ~Recreates(i)
        /\ meta' = meta
    BY DEF RunSparse, CreateSessions, AddMemoryLayerIndex, BeginScan, Begin,
       BackfillSession, Inspect, Shrug, Acts, Migrating, Recreates, CopyStart,
       CopyWrite, Drop, Rebuild, Clean
  <1>2. /\ TypedInv /\ r \in Run /\ r.doc \in Documents /\ r.id \in Id
        /\ r.doc \in Document /\ RunTyped(pc[i], r)
        /\ ~sole => InPlaceInv /\ RunInPlace(pc[i], r, store)
        /\ sole => RunSafe(pc[i], r, store, meta) /\ r.doc = meta
    <2>1. pc[i] # "down" /\ pc[i] \in Working
      BY <1>1 DEF Working
    <2> QED BY <1>1, <2>1, SafeParts DEF RunSafe, RunTyped
  <1>3. /\ Keeps(store, store') /\ PointsTrue(store) /\ DocTrue(meta, store')
        /\ DocTrue(r.doc, store') /\ RunTrue(pc[i], r, store')
        /\ r.id \notin r.doc.applied
        /\ sole => /\ Alone(i) /\ RunSole(pc[i], r, store', meta)
                   /\ DocSole(meta) /\ StoreSole(store, meta)
    <2>1. pc[i] # "down" /\ pc[i] \in Working
      BY <1>1 DEF Working
    <2>2. RunTrue(pc[i], r, store')
      BY <1>1, <2>1, Carried
    <2>3. r.id \notin r.doc.applied
      BY <2>1, <2>2 DEF RunTrue
    <2> QED BY <1>1, <2>1, <2>2, <2>3, Carried
  <1>4. \A p \in Memory : store'["main"].at[p] = store["main"].at[p]
    <2>1. CASE RunSparse(i)
      BY <1>2, <2>1 DEF RunSparse, TypedInv, Stores, Table, Collection
    <2>2. CASE CreateSessions(i) \/ BackfillSession(i)
      BY <1>2, <2>2, SessionsKept
    <2> QED BY <2>1, <2>2 DEF AddMemoryLayerIndex, BeginScan, Begin, Inspect, Shrug
  <1>5. Consolidated \subseteq Memory
    BY MigrationAssumption DEF Consolidated
  <1> HIDE DEF sole
  <1>6. ASSUME NEW stage, NEW q, To(i, stage, q), q.doc = r.doc,
               RunTrue(stage, q, store'), sole => RunSole(stage, q, store', meta)
        PROVE  AppliedNow'
    BY <1>1, <1>2, <1>3, <1>4, <1>5, <1>6, KeepingTrue DEF sole
  <1>7. sole => DocSole(r.doc)
    BY <1>3 DEF RunSole
  <1>8. ASSUME NEW stage \in {"drop", "copy_start", "inspect", "sessions", "scan", "done"},
               NEW q, To(i, stage, q), q.doc = r.doc, q.id = r.id,
               stage = "done" => Performed(r.id, store'),
               stage \in {"inspect", "sessions", "scan"} => DoneTo(r.id, q.offset, store'),
               stage = "scan" =>
                  /\ r.id = Revision => SessionsOwned(store')
                  /\ sole /\ r.id = Sparse =>
                        SparsePhase(r.doc) # "copy_back" /\ store'["main"].sparse
        PROVE  AppliedNow'
    <2>1. \A j \in Id : j < q.id => j \in q.doc.applied
      BY <1>3, <1>8 DEF RunTrue
    <2>2. BatchTrue(stage, q)
      BY <1>8 DEF BatchTrue
    <2>3. RunTrue(stage, q, store')
      BY <1>3, <1>8, <2>1, <2>2 DEF RunTrue, Scanning
    <2>4. sole => RunSole(stage, q, store', meta)
      BY <1>7, <1>8 DEF RunSole, Scanning, Copying
    <2> QED BY <1>6, <1>8, <2>3, <2>4
  <1>9. CASE RunSparse(i)
    <2> DEFINE q == [r EXCEPT !.offset = r.doc.progress[r.id].offset]
    <2>1. /\ \/ To(i, "drop", q)
             \/ To(i, "copy_start", q)
             \/ To(i, "inspect", q) /\ r.doc.progress[r.id].phase \notin CopyPhase
      BY <1>9 DEF RunSparse, Resumes, CopyPhase
    <2>2. q.doc = r.doc /\ q.id = r.id /\ q.offset = r.doc.progress[r.id].offset
      BY <1>2 DEF Run
    <2> HIDE DEF q
    <2>3. r.doc.progress[r.id].phase \notin CopyPhase => DoneTo(r.id, q.offset, store')
      BY <1>2, <1>3, <2>2 DEF DocTrue
    <2> QED BY <1>8, <2>1, <2>2, <2>3
  <1>10. CASE CreateSessions(i) \/ AddMemoryLayerIndex(i)
    <2>1. r.id = SessionRows \/ r.id = LayerIndex
      BY <1>10 DEF CreateSessions, AddMemoryLayerIndex
    <2>2. Performed(r.id, store')
      BY <2>1 DEF Performed, DoneAt, Sparse, Owner, Revision, Projection, Classify,
         SessionRows, LayerIndex
    <2> QED BY <1>8, <1>10, <2>2 DEF CreateSessions, AddMemoryLayerIndex
  <1>11. CASE BeginScan(i)
    <2> DEFINE q == [r EXCEPT !.offset = r.doc.progress[r.id].offset]
    <2>1. To(i, IF r.id = Revision THEN "sessions" ELSE "scan", q)
      BY <1>11 DEF Begin, BeginScan
    <2>2. q.doc = r.doc /\ q.id = r.id /\ q.offset = r.doc.progress[r.id].offset
      BY <1>2 DEF Run
    <2>3. r.id # Sparse
      BY <1>11 DEF BeginScan, Sparse, Owner, Revision, Projection, Classify
    <2>4. DoneTo(r.id, q.offset, store')
      BY <1>2, <1>3, <2>2, <2>3 DEF DocTrue, Documents
    <2> HIDE DEF q
    <2> QED BY <1>8, <2>1, <2>2, <2>3, <2>4
  <1>12. CASE BackfillSession(i)
    <2>1. CASE /\ To(i, "scan", r) /\ UNCHANGED store
               /\ {s \in Points("sessions") :
                     /\ "owner" \notin store["sessions"].at[s]
                     /\ "user" \in store["sessions"].at[s]} = {}
      <3>1. SessionsOwned(store')
        BY <1>2, <1>3, <2>1, PointsTyped DEF SessionsOwned, PointsTrue, HasData
      <3>2. DoneTo(r.id, r.offset, store') /\ r.id # Sparse
        BY <1>2, <1>3, <1>12 DEF RunTrue, RunTyped, BackfillSession, Sparse, Revision
      <3> QED BY <1>8, <2>1, <3>1, <3>2
    <2>2. CASE UNCHANGED <<pc, run>>
      <3>1. To(i, pc[i], r)
        BY <1>2, <2>2 DEF To, TypedInv
      <3> QED BY <1>3, <1>6, <3>1
    <2> QED BY <1>12, <2>1, <2>2 DEF BackfillSession
  <1>13. CASE Inspect(i)
    <2>1. r.id = Sparse /\ store' = store
      BY <1>2, <1>13 DEF RunTyped, Inspect
    <2>2. CASE To(i, "copy_start", r)
      BY <1>8, <2>2
    <2>3. CASE /\ To(i, "done", r) \/ To(i, "scan", r)
               /\ store["main"].exists /\ store["main"].sparse
               /\ To(i, "done", r) => Points("main") = {}
      <3>1. ~sole \/ SparsePhase(r.doc) # "copy_back"
        BY <1>2, <1>13 DEF RunSafe, Inspect
      <3>2. Points("main") # {}
        <4>1. 1 \in Memory
          BY Constants
        <4>2. MainFull(store)
          BY <1>2, <1>3, <2>1, <3>1 DEF InPlaceInv, StoreSole
        <4> QED BY <1>2, <4>1, <4>2, PointsTyped DEF MainFull
      <3>3. DoneTo(r.id, r.offset, store')
        BY <1>3, <1>13 DEF RunTrue, Inspect
      <3>4. r.id # Revision
        BY <2>1 DEF Sparse, Revision
      <3> QED BY <1>8, <2>1, <2>3, <3>1, <3>2, <3>3, <3>4
    <2> QED
      <3>1. CASE ~(store["main"].exists /\ store["main"].sparse)
        BY <1>13, <2>2, <3>1 DEF Inspect
      <3>2. CASE /\ store["main"].exists /\ store["main"].sparse
                 /\ Points("main") = {}
        BY <1>13, <2>3, <3>2 DEF Inspect
      <3>3. CASE /\ store["main"].exists /\ store["main"].sparse
                 /\ Points("main") # {}
        <4>1. To(i, "scan", r)
          BY <1>13, <3>3 DEF Inspect
        <4>2. ~To(i, "done", r)
          BY <1>2, <4>1 DEF To, TypedInv
        <4> QED BY <2>3, <3>3, <4>1, <4>2
      <3> QED BY <3>1, <3>2, <3>3
  <1>14. CASE Shrug(i)
    <2> DEFINE q == [r EXCEPT !.offset = r.doc.progress[r.id].offset]
    <2>1. \/ To(i, "inspect", q) /\ r.doc.progress[r.id].phase \notin CopyPhase
          \/ To(i, "copy_start", r)
      BY <1>14 DEF Shrug, Resumes, CopyPhase
    <2>2. q.doc = r.doc /\ q.id = r.id /\ q.offset = r.doc.progress[r.id].offset
      BY <1>2 DEF Run
    <2> HIDE DEF q
    <2>3. r.doc.progress[r.id].phase \notin CopyPhase => DoneTo(r.id, q.offset, store')
      BY <1>2, <1>3, <2>2 DEF DocTrue
    <2> QED BY <1>8, <2>1, <2>2, <2>3
  <1> QED BY <1>9, <1>10, <1>11, <1>12, <1>13, <1>14

\* What an instance that scans knows of the collections.
LEMMA ScanningFacts ==
    ASSUME Sole, SafeInv, AppliedNow, NEW i \in Pod, pc[i] \in Scanning
    PROVE  /\ TypedInv /\ run[i] \in Run /\ run[i].doc \in Document
           /\ run[i].id \in Scanned /\ run[i].id \in Id
           /\ run[i].doc \in Documents /\ MainFull(store) /\ PointsTrue(store)
           /\ run[i].id \notin run[i].doc.applied
           /\ run[i].id = Sparse => store["main"].exists /\ store["main"].sparse
           /\ run[i].id = Revision => SessionsOwned(store) /\ Performed(Owner, store)
           /\ run[i].id # Sparse => Sparse \in run[i].doc.applied
           /\ Recreation =>
                /\ run[i].doc = meta /\ DocSole(meta) /\ StoreSole(store, meta)
                /\ run[i].id = Sparse => SparsePhase(run[i].doc) # "copy_back"
  <1> DEFINE r == run[i]
             sole == Recreation
  <1>1. pc[i] # "down" /\ pc[i] \in Working
    BY DEF Working, Scanning
  <1>2. /\ TypedInv /\ r \in Run /\ r.doc \in Documents /\ r.id \in Scanned
        /\ r.id \in Id /\ i \in deployment.pods /\ r.doc \in Document
        /\ ~sole => InPlaceInv /\ RunInPlace(pc[i], r, store)
        /\ sole => RunSafe(pc[i], r, store, meta)
    BY <1>1, SafeParts DEF RunTyped
  <1>3. /\ PointsTrue(store) /\ DocTrue(r.doc, store) /\ RunTrue(pc[i], r, store)
        /\ sole => SoleTrue /\ RunSole(pc[i], r, store, meta)
    BY <1>2 DEF AppliedNow, SoleTrue
  <1>4. sole => r.doc = meta /\ DocSole(meta) /\ StoreSole(store, meta)
    BY <1>2, <1>3 DEF SoleTrue, RunSafe, Scanning
  <1>5. ASSUME NEW k \in Id, k < r.id PROVE k \in r.doc.applied /\ Performed(k, store)
    BY <1>3, <1>5 DEF RunTrue, DocTrue
  <1>6. r.id # Sparse => Sparse \in r.doc.applied /\ Performed(Sparse, store)
    BY <1>2, <1>5, Constants DEF Sparse
  <1>10. r.id \notin r.doc.applied
    BY <1>1, <1>3 DEF RunTrue
  <1>11. sole /\ r.id = Sparse =>
            SparsePhase(r.doc) # "copy_back" /\ store["main"].sparse
    BY <1>3 DEF RunSole
  <1>7. MainFull(store) /\ (r.id = Sparse => store["main"].exists)
    <2>1. CASE ~sole
      BY <1>2, <2>1 DEF InPlaceInv
    <2>2. CASE sole /\ r.id = Sparse
      BY <1>4, <1>10, <1>11, <2>2 DEF StoreSole
    <2>3. CASE sole /\ r.id # Sparse
      BY <1>6, <2>3 DEF Performed, DoneAt, HasData, MainFull, ScanDomain,
         Sparse, Classify
    <2> QED BY <2>1, <2>2, <2>3
  <1>8. r.id = Revision => SessionsOwned(store) /\ Performed(Owner, store)
    BY <1>3, <1>5, Constants DEF RunTrue, Owner, Revision
  <1>9. r.id = Sparse => store["main"].exists /\ store["main"].sparse
    BY <1>2, <1>7, <1>11 DEF InPlaceInv, RunInPlace
  <1> QED BY <1>2, <1>3, <1>4, <1>6, <1>7, <1>8, <1>9, <1>10, <1>11

\* A point that the filter of a scan leaves out has what the migration adds.
LEMMA FilterSound ==
    ASSUME TypedInv, MainFull(store), NEW k \in Scanned, NEW p \in ScanDomain(k),
           ~(p \in Points(ScanOf(k)) /\ Lacks(k, p, store[ScanOf(k)].at[p]))
    PROVE  DoneAt(k, p, store)
  <1> USE DEF Sparse, Owner, Revision, Projection, Classify
  <1>1. CASE k = Classify
    BY <1>1, PointsTyped DEF ScanOf, ScanDomain, Lacks, DoneAt, HasData
  <1>2. CASE k # Classify
    <2>1. p \in Memory /\ p \in Points("main")
      BY <1>2, PointsTyped DEF ScanDomain, MainFull
    <2>2. ~Lacks(k, p, store["main"].at[p])
      BY <1>2, <2>1 DEF ScanOf
    <2>3. CASE k = Sparse
      BY <2>2, <2>3 DEF Lacks
    <2>4. CASE k = Owner
      BY <2>2, <2>4 DEF Lacks, DoneAt
    <2>5. CASE k = Revision
      BY <2>2, <2>5 DEF Lacks, DoneAt
    <2>6. CASE k = Projection
      BY <2>2, <2>6 DEF Lacks, DoneAt
    <2> QED BY <1>2, <2>3, <2>4, <2>5, <2>6 DEF Scanned
  <1> QED BY <1>1, <1>2

\* A scanning instance goes on.
LEMMA ScanMoveTrue ==
    ASSUME Sole, SafeInv, AppliedNow, NEW i \in Pod, pc[i] \in Scanning, Acts(i),
           ~Recreates(i),
           \A p \in Consolidated :
              "active" \in store'["main"].at[p] => "active" \in store["main"].at[p],
           NEW stage \in {"done", "scan", "write", "save", "handler"}, NEW q,
           To(i, stage, q), q.id = run[i].id,
           \/ q.doc = run[i].doc /\ meta' = meta
           \/ q.doc = Checkpoint(run[i], run[i].id, "scan") /\ meta' = q.doc,
           DocTrue(q.doc, store'),
           stage = "scan" => DoneTo(q.id, q.offset, store'),
           stage = "write" => \A p \in ScanDomain(q.id) :
              Covered(q, p) => DoneAt(q.id, p, store') \/ \E x \in q.batch : x[1] = p,
           stage = "save" => \A p \in ScanDomain(q.id) :
              Covered(q, p) => DoneAt(q.id, p, store'),
           stage = "done" => \A p \in ScanDomain(q.id) : DoneAt(q.id, p, store'),
           BatchTrue(stage, q)
    PROVE  AppliedNow'
  <1> DEFINE r == run[i]
             sole == Recreation
  <1>1. pc[i] # "down" /\ pc[i] \in Working
    BY DEF Working, Scanning
  <1>2. /\ r.id \notin r.doc.applied /\ r.id \in Id /\ r.doc \in Document
        /\ r.doc \in Documents
        /\ r.id = Sparse => store["main"].exists /\ store["main"].sparse
        /\ r.id = Revision => SessionsOwned(store)
        /\ r.id # Sparse => Sparse \in r.doc.applied
        /\ sole => /\ r.doc = meta /\ DocSole(meta) /\ StoreSole(store, meta)
                   /\ r.id = Sparse => SparsePhase(r.doc) # "copy_back"
    BY ScanningFacts
  <1>3. /\ Keeps(store, store') /\ DocTrue(meta, store') /\ RunTrue(pc[i], r, store')
        /\ sole => Alone(i)
    BY <1>1, Carried
  <1>4. /\ q.id = Sparse => store'["main"].exists /\ store'["main"].sparse
        /\ q.id = Revision => SessionsOwned(store')
    BY <1>2, <1>3, DoneStays DEF Keeps
  <1>5. stage = "done" => Performed(q.id, store')
    BY <1>4 DEF Performed
  <1>6. q.doc.applied = r.doc.applied
    BY <1>2 DEF Checkpoint, Document
  <1>7. RunTrue(stage, q, store')
    <2>1. \A j \in Id : j < q.id => j \in q.doc.applied
      BY <1>3, <1>6 DEF RunTrue
    <2> QED BY <1>2, <1>4, <1>5, <1>6, <2>1 DEF RunTrue
  <1>8. ASSUME sole
        PROVE  /\ DocSole(q.doc) /\ StoreSole(store, q.doc)
               /\ q.id = Sparse => SparsePhase(q.doc) # "copy_back"
    <2>1. CASE q.doc = r.doc
      BY <1>2, <1>8, <2>1
    <2>2. CASE q.doc = Checkpoint(r, r.id, "scan") /\ r.id = Sparse
      <3>1. SparsePhase(q.doc) # "copy_back"
        BY <1>2, <1>8, <2>2, PhaseChanges
      <3> QED BY <1>2, <1>6, <1>8, <2>2, <3>1, CheckpointSole DEF StoreSole
    <2>3. CASE r.id # Sparse
      BY <1>2, <1>6, <2>3 DEF DocSole, StoreSole
    <2> QED BY <2>1, <2>2, <2>3
  <1>9. ASSUME sole PROVE RunSole(stage, q, store', meta') /\ meta' = q.doc
    <2>1. StoreSole(store, q.doc) => StoreSole(store', q.doc)
      BY <1>3 DEF StoreSole, MainFull, Keeps
    <2>2. meta' = q.doc
      BY <1>2, <1>9
    <2> QED BY <1>4, <1>8, <1>9, <2>1, <2>2 DEF RunSole, Copying
  <1>10. DocTrue(meta', store')
    BY <1>3
  <1> QED BY <1>3, <1>7, <1>8, <1>9, <1>10, KeepingTrue

LEMMA ScanTrue ==
    ASSUME Sole, SafeInv, AppliedNow, NEW i \in Pod, Scan(i)
    PROVE  AppliedNow'
  <1> DEFINE r == run[i]
             name == ScanOf(r.id)
             S == {p \in Points(name) : p >= r.offset /\ Lacks(r.id, p, store[name].at[p])}
             q == [r EXCEPT !.batch = {<<p, store[name].at[p]>> : p \in Page(S)},
                            !.next = After(S)]
  <1>1. /\ pc[i] = "scan" /\ pc[i] \in Scanning /\ Acts(i) /\ ~Recreates(i)
        /\ store' = store /\ meta' = meta
    BY DEF Scan, Scanning, Acts, Migrating, Raise, Recreates, CopyStart, CopyWrite,
       Drop, Rebuild, Clean
  <1>2. /\ TypedInv /\ r \in Run /\ r.id \in Scanned /\ MainFull(store)
        /\ PointsTrue(store)
        /\ r.id = Revision => Performed(Owner, store)
    BY <1>1, ScanningFacts
  <1>3. DocTrue(r.doc, store) /\ DoneTo(r.id, r.offset, store)
    BY <1>1 DEF AppliedNow, RunTrue
  <1>4. q.doc = r.doc /\ q.id = r.id /\ q.next = After(S)
        /\ q.batch = {<<p, store[name].at[p]>> : p \in Page(S)}
    BY <1>2 DEF Run
  <1>5. ASSUME NEW p \in ScanDomain(r.id), p \notin S PROVE DoneAt(r.id, p, store)
    <2>1. CASE p < r.offset
      BY <1>3, <2>1 DEF DoneTo
    <2>2. CASE ~(p < r.offset)
      <3>1. p \in Nat /\ r.offset \in Nat
        BY <1>2, Constants DEF ScanDomain, Run
      <3>2. p >= r.offset
        BY <2>2, <3>1
      <3> QED BY <1>2, <1>5, <3>2, FilterSound
    <2> QED BY <2>1, <2>2
  <1>6. /\ Page(S) \subseteq S
        /\ \A p \in S : After(S) = 0 \/ p < After(S) => p \in Page(S)
    <2>1. \E n \in Nat : S \subseteq 1..n
      BY <1>2, PointsTyped, Constants DEF ScanOf
    <2> HIDE DEF S
    <2> QED BY <2>1, PageCovers
  <1>7. BatchTrue("write", q)
    <2>1. ASSUME NEW x \in q.batch
          PROVE  x[1] \in Points(name) /\ x[2] = store[name].at[x[1]]
      <3>1. S \subseteq Points(name)
        OBVIOUS
      <3> HIDE DEF S, q, name
      <3>2. PICK p \in Page(S) : x = <<p, store[name].at[p]>>
        BY <1>4, <2>1
      <3> QED BY <1>6, <3>1, <3>2
    <2>2. ASSUME NEW x \in q.batch, r.id # Classify
          PROVE  /\ x[1] \in Memory
                 /\ x[1] \notin Userless => "user" \in x[2]
                 /\ x[1] \notin Userless /\ r.id = Revision => "owner" \in x[2]
      <3>1. x[1] \in Memory /\ HasData(store, "main", x[1]) /\ x[2] = store["main"].at[x[1]]
        BY <1>2, <2>1, <2>2, PointsTyped DEF ScanOf, HasData
      <3>2. ScanDomain(Owner) = Memory
        BY DEF ScanDomain, Owner, Classify
      <3>3. Performed(Owner, store) => x[1] \in Userless \/ "owner" \in store["main"].at[x[1]]
        BY <3>1, <3>2 DEF Performed, DoneAt
      <3>4. x[1] \notin Userless => "user" \in store["main"].at[x[1]]
        BY <1>2, <3>1 DEF PointsTrue
      <3> HIDE DEF q, r
      <3> QED BY <1>2, <3>1, <3>3, <3>4
    <2>3. r.id = Revision => r.id # Classify
      BY DEF Revision, Classify
    <2> HIDE DEF q
    <2> QED BY <1>4, <2>2, <2>3 DEF BatchTrue
  <1>8. ASSUME NEW p \in ScanDomain(q.id), Covered(q, p)
        PROVE  DoneAt(q.id, p, store') \/ \E x \in q.batch : x[1] = p
    <2>1. CASE p \in S
      <3>1. p \in Page(S)
        BY <1>4, <1>6, <1>8, <2>1 DEF Covered
      <3>2. <<p, store[name].at[p]>> \in q.batch
        BY <1>4, <3>1
      <3> QED BY <3>2
    <2>2. CASE p \notin S
      BY <1>1, <1>4, <1>5, <1>8, <2>2
    <2> QED BY <2>1, <2>2
  <1>9. \/ To(i, "handler", r)
        \/ To(i, "done", q) /\ S = {}
        \/ To(i, "write", q)
    BY DEF Scan, Raise
  <1>10. BatchTrue("handler", r) /\ BatchTrue("done", q)
    BY DEF BatchTrue
  <1> HIDE DEF q, S, name
  <1>11. CASE To(i, "handler", r)
    BY <1>1, <1>3, <1>10, <1>11, ScanMoveTrue
  <1>12. CASE To(i, "done", q) /\ S = {}
    <2>1. \A p \in ScanDomain(q.id) : DoneAt(q.id, p, store')
      BY <1>1, <1>4, <1>5, <1>12
    <2> QED BY <1>1, <1>3, <1>4, <1>10, <1>12, <2>1, ScanMoveTrue
  <1>13. CASE To(i, "write", q)
    BY <1>1, <1>3, <1>4, <1>7, <1>8, <1>13, ScanMoveTrue
  <1> QED BY <1>9, <1>11, <1>12, <1>13

\* What a write adds to each point.
LEMMA WriteEffect ==
    ASSUME TypedInv, NEW k \in Scanned, NEW part,
           store' = [store EXCEPT ![ScanOf(k)].at =
                    [p \in DOMAIN @ |->
                        @[p] \cup UNION {Added(k, p, x[2]) :
                            x \in {y \in part : y[1] = p /\ p \in Points(ScanOf(k))}}]]
    PROVE  /\ k = Classify => store'["main"] = store["main"]
           /\ \A p \in ScanDomain(k) : store'[ScanOf(k)].at[p] =
                 store[ScanOf(k)].at[p] \cup UNION {Added(k, p, x[2]) :
                     x \in {y \in part : y[1] = p /\ p \in Points(ScanOf(k))}}
  <1> DEFINE name == ScanOf(k)
             add(p) == UNION {Added(k, p, x[2]) :
                            x \in {y \in part : y[1] = p /\ p \in Points(name)}}
  <1>1. /\ name \in Collection /\ store \in Stores
        /\ DOMAIN store[name].at = ScanDomain(k)
        /\ k = Classify => name = "sessions"
        /\ store[name] \in Table(ScanDomain(k))
    BY DEF ScanOf, Collection, TypedInv, Stores, Table, ScanDomain
  <1> HIDE DEF name, add
  <1>2. store' = [store EXCEPT ![name].at = [p \in DOMAIN @ |-> @[p] \cup add(p)]]
    BY DEF add, name
  <1>3. /\ \A other \in Collection : other # name => store'[other] = store[other]
        /\ \A p \in ScanDomain(k) : store'[name].at[p] = store[name].at[p] \cup add(p)
    BY <1>1, <1>2 DEF Stores, Table
  <1>4. "main" \in Collection /\ "main" # "sessions"
    BY DEF Collection
  <1> QED BY <1>1, <1>3, <1>4 DEF add, name

LEMMA WriteTrue ==
    ASSUME Sole, SafeInv, AppliedNow, NEW i \in Pod, Write(i)
    PROVE  AppliedNow'
  <1> DEFINE r == run[i]
             name == ScanOf(r.id)
  <1>1. /\ pc[i] = "write" /\ pc[i] \in Scanning /\ Acts(i) /\ ~Recreates(i)
        /\ pc[i] # "down" /\ meta' = meta
    BY DEF Write, Scanning, Acts, Migrating, Recreates, CopyStart, CopyWrite,
       Drop, Rebuild, Clean
  <1>2. /\ TypedInv /\ r \in Run /\ r.id \in Scanned /\ MainFull(store)
        /\ PointsTrue(store)
        /\ r.id = Revision => Performed(Owner, store)
    BY <1>1, ScanningFacts
  <1>3. /\ DocTrue(r.doc, store') /\ RunTrue("write", r, store')
        /\ Keeps(store, store')
    BY <1>1, Carried
  <1>4. BatchTrue("write", r)
    BY <1>3 DEF RunTrue
  <1>5. PICK part \in SUBSET r.batch :
           /\ store' = [store EXCEPT ![name].at =
                    [p \in DOMAIN @ |->
                        @[p] \cup UNION {Added(r.id, p, x[2]) :
                            x \in {y \in part : y[1] = p /\ p \in Points(name)}}]]
           /\ To(i, IF part = r.batch THEN "save" ELSE "write",
                 [r EXCEPT !.batch = @ \ part])
    BY DEF Write
  <1> DEFINE q == [r EXCEPT !.batch = @ \ part]
  <1>6. q.doc = r.doc /\ q.id = r.id /\ q.next = r.next /\ q.batch = r.batch \ part
    BY <1>2 DEF Run
  <1>7. /\ r.id = Classify => store'["main"] = store["main"]
        /\ \A p \in ScanDomain(r.id) : store'[name].at[p] =
              store[name].at[p] \cup UNION {Added(r.id, p, x[2]) :
                  x \in {y \in part : y[1] = p /\ p \in Points(name)}}
    BY <1>2, <1>5, WriteEffect
  <1> HIDE DEF q, r
  <1>8. ASSUME NEW x \in part, x[1] \in ScanDomain(r.id), x[1] \in Points(name)
        PROVE  Added(r.id, x[1], x[2]) \subseteq store'[name].at[x[1]]
    BY <1>7, <1>8
  <1>9. ASSUME NEW x \in part, x[1] \in ScanDomain(r.id)
        PROVE  DoneAt(r.id, x[1], store')
    <2> USE DEF Sparse, Owner, Revision, Projection, Classify
    <2>1. CASE r.id = Classify
      <3>1. HasData(store', "sessions", x[1]) => x[1] \in Points("sessions")
        BY <1>2, <1>3, <1>9, <2>1, PointsTyped DEF ScanDomain, Keeps, HasData
      <3>2. x[1] \in Points("sessions") => "classified" \in store'["sessions"].at[x[1]]
        BY <1>8, <1>9, <2>1 DEF ScanOf, Added
      <3> QED BY <2>1, <3>1, <3>2 DEF DoneAt
    <2>2. CASE r.id # Classify
      <3>1. x[1] \in Memory /\ name = "main" /\ x[1] \in Points("main")
        BY <1>2, <1>9, <2>2, PointsTyped DEF ScanDomain, ScanOf, MainFull
      <3>2. Added(r.id, x[1], x[2]) \subseteq store'["main"].at[x[1]]
        BY <1>8, <1>9, <3>1
      <3>3. HasData(store', "main", x[1])
        BY <1>2, <1>3, <3>1 DEF HasData, MainFull, Keeps
      <3>4. CASE r.id = Sparse
        BY <3>2, <3>3, <3>4 DEF Added, DoneAt
      <3>5. CASE r.id = Owner
        <4>1. x[1] \notin Userless => "user" \in x[2]
          BY <1>4, <1>5, <1>9, <2>2 DEF BatchTrue
        <4> QED BY <3>2, <3>5, <4>1 DEF Added, DoneAt
      <3>6. CASE r.id = Revision
        <4>1. "active" \in store'["main"].at[x[1]] \/ "source" \in store'["main"].at[x[1]]
          BY <3>2, <3>6 DEF Added
        <4> QED BY <3>6, <4>1 DEF DoneAt
      <3>7. CASE r.id = Projection
        BY <3>2, <3>7 DEF Added, DoneAt
      <3> QED BY <1>2, <2>2, <3>4, <3>5, <3>6, <3>7 DEF Scanned
    <2> QED BY <2>1, <2>2
  <1>10. ASSUME NEW p \in Consolidated, "active" \in store'["main"].at[p],
                "active" \notin store["main"].at[p]
         PROVE  FALSE
    <2>1. r.id # Classify /\ name = "main"
      BY <1>7, <1>10 DEF ScanOf
    <2>2. p \in Memory /\ LinkOf[p] \in Memory /\ p \in BackLink
          /\ LinkOf[p] # 0 /\ p \notin Userless /\ LinkOf[p] \notin Userless
      BY Constants, MigrationAssumption DEF Consolidated
    <2>3. PICK x \in part : x[1] = p /\ "active" \in Added(r.id, p, x[2])
      BY <1>7, <1>10, <2>1, <2>2 DEF ScanDomain
    <2>4. r.id = Revision /\ ~IsSource(p, x[2])
      BY <2>3 DEF Added
    <2>5. "user" \in x[2] /\ "owner" \in x[2]
      BY <1>4, <1>5, <2>1, <2>2, <2>3, <2>4 DEF BatchTrue
    <2>6. /\ "data" \in store["main"].at[LinkOf[p]]
          /\ "user" \in store["main"].at[LinkOf[p]]
      BY <1>2, <2>2 DEF MainFull, PointsTrue, HasData
    <2>7. "owner" \in store["main"].at[LinkOf[p]]
      <3>1. ScanDomain(Owner) = Memory
        BY DEF ScanDomain, Owner, Classify
      <3> QED BY <1>2, <2>2, <2>4, <3>1 DEF Performed, DoneAt
    <2>8. /\ x[2] \cap {"owner", "user"} = {"owner", "user"}
          /\ store["main"].at[LinkOf[p]] \cap {"owner", "user"} = {"owner", "user"}
      BY <2>5, <2>6, <2>7
    <2>9. IsSource(p, x[2])
      BY <2>2, <2>6, <2>8 DEF IsSource
    <2> QED BY <2>4, <2>9
  <1>11. ASSUME NEW p \in ScanDomain(q.id), Covered(q, p)
         PROVE  DoneAt(q.id, p, store') \/ \E x \in q.batch : x[1] = p
    <2>1. DoneAt(r.id, p, store') \/ \E x \in r.batch : x[1] = p
      BY <1>3, <1>6, <1>11 DEF RunTrue, Covered
    <2> QED BY <1>6, <1>9, <1>11, <2>1
  <1>12. BatchTrue("write", q) /\ BatchTrue("save", q)
    BY <1>4, <1>6 DEF BatchTrue
  <1>13. To(i, IF part = r.batch THEN "save" ELSE "write", q)
    BY <1>5 DEF q
  <1>14. CASE part = r.batch
    <2>1. q.batch = {}
      BY <1>6, <1>14
    <2>2. \A p \in ScanDomain(q.id) : Covered(q, p) => DoneAt(q.id, p, store')
      BY <1>11, <2>1
    <2>3. To(i, "save", q)
      BY <1>13, <1>14
    <2> QED BY <1>1, <1>3, <1>6, <1>10, <1>12, <2>2, <2>3, ScanMoveTrue DEF r
  <1>15. CASE part # r.batch
    <2>1. To(i, "write", q)
      BY <1>13, <1>15
    <2> QED BY <1>1, <1>3, <1>6, <1>10, <1>11, <1>12, <2>1, ScanMoveTrue DEF r
  <1> QED BY <1>14, <1>15

LEMMA SaveScanTrue ==
    ASSUME Sole, SafeInv, AppliedNow, NEW i \in Pod, SaveScan(i)
    PROVE  AppliedNow'
  <1> DEFINE r == run[i]
             q == [r EXCEPT !.doc = Checkpoint(r, r.id, "scan"), !.offset = r.next]
  <1>1. /\ pc[i] = "save" /\ pc[i] \in Scanning /\ Acts(i) /\ ~Recreates(i)
        /\ store' = store
    BY DEF SaveScan, Scanning, Acts, Migrating, Recreates, CopyStart, CopyWrite,
       Drop, Rebuild, Clean
  <1>2. r \in Run /\ r.id \in Scanned /\ r.id \in Id /\ r.doc \in Document
    BY <1>1, ScanningFacts
  <1>3. /\ DocTrue(r.doc, store)
        /\ \A p \in ScanDomain(r.id) : Covered(r, p) => DoneAt(r.id, p, store)
    BY <1>1 DEF AppliedNow, RunTrue
  <1>4. q.id = r.id /\ q.doc = Checkpoint(r, r.id, "scan") /\ q.offset = r.next
    BY <1>2 DEF Run
  <1>5. To(i, IF r.next = 0 THEN "done" ELSE "scan", q) /\ meta' = q.doc
    BY DEF SaveScan, Save
  <1>6. DoneTo(r.id, r.next, store)
    BY <1>3 DEF DoneTo, Covered
  <1> HIDE DEF q
  <1>7. DocTrue(q.doc, store)
    BY <1>2, <1>3, <1>4, CheckpointTrue
  <1>8. BatchTrue("done", q) /\ BatchTrue("scan", q)
    BY DEF BatchTrue
  <1>9. CASE r.next = 0
    <2>1. \A p \in ScanDomain(q.id) : DoneAt(q.id, p, store')
      BY <1>1, <1>3, <1>4, <1>9 DEF Covered
    <2>2. To(i, "done", q)
      BY <1>5, <1>9
    <2> QED BY <1>1, <1>4, <1>5, <1>7, <1>8, <2>1, <2>2, ScanMoveTrue
  <1>10. CASE r.next # 0
    <2>1. To(i, "scan", q)
      BY <1>5, <1>10
    <2> QED BY <1>1, <1>4, <1>5, <1>6, <1>7, <1>8, <2>1, ScanMoveTrue
  <1> QED BY <1>9, <1>10

\* What the instance that recreates the collection knows.
LEMMA RecreatingFacts ==
    ASSUME Sole, SafeInv, AppliedNow, NEW i \in Pod, pc[i] \in Recreating
    PROVE  /\ TypedInv /\ Recreation /\ Alone(i) /\ store \in Stores
           /\ run[i] \in Run /\ run[i].doc \in Document /\ run[i].id = Sparse
           /\ run[i].doc = meta /\ Sparse \notin meta.applied
           /\ StoreSafe(store) /\ RunSafe(pc[i], run[i], store, meta)
           /\ PointsTrue(store) /\ StoreSole(store, meta) /\ DocSole(meta)
           /\ BatchTrue(pc[i], run[i]) /\ DocTrue(meta, store)
           /\ RunSole(pc[i], run[i], store, meta) /\ run[i].doc \in Documents
  <1>1. pc[i] # "down" /\ pc[i] \in Working
    BY DEF Working, Recreating, Copying
  <1>2. /\ TypedInv /\ run[i] \in Run /\ run[i].doc \in Document
        /\ run[i].id = Sparse /\ i \in deployment.pods /\ run[i].doc \in Documents
    BY <1>1, SafeParts DEF RunTyped
  <1>3. Recreation
    BY <1>1, SafeParts DEF RunInPlace
  <1>4. RecreationInv /\ RunSafe(pc[i], run[i], store, meta)
    BY <1>1, <1>3, SafeParts
  <1>5. run[i].doc = meta
    BY <1>4 DEF RunSafe, Recreating, Copying
  <1>6. PointsTrue(store) /\ RunTrue(pc[i], run[i], store) /\ SoleTrue
    BY <1>3 DEF AppliedNow
  <1>8. DocTrue(meta, store)
    BY DEF AppliedNow
  <1>7. Sparse \notin meta.applied /\ BatchTrue(pc[i], run[i])
    BY <1>1, <1>2, <1>5, <1>6 DEF RunTrue
  <1> QED BY <1>2, <1>3, <1>4, <1>5, <1>6, <1>7, <1>8, AloneWhereSole
          DEF SoleTrue, RecreationInv, TypedInv

\* It goes on.
LEMMA RecreationMoveTrue ==
    ASSUME Sole, SafeInv, AppliedNow, NEW i \in Pod, pc[i] \in Recreating, Acts(i),
           NEW stage \in Recreating \cup {"done", "handler"}, NEW q,
           To(i, stage, q), q.id = Sparse, q.doc \in Document, q.doc.applied = meta.applied,
           meta' = q.doc, DocSole(q.doc), PointsTrue(store'), DocTrue(q.doc, store'),
           StoreSole(store', q.doc), BatchTrue(stage, q),
           stage \in Copying \cup {"clean"} /\ SparsePhase(q.doc) = "copy_back" =>
              MainIndexed(store'),
           stage = "done" => Performed(Sparse, store')
    PROVE  AppliedNow'
  <1>1. /\ TypedInv /\ Recreation /\ Alone(i) /\ Sparse \notin q.doc.applied
    BY RecreatingFacts
  <1>3. \A j \in Id : ~(j < Sparse)
    BY Constants DEF Sparse
  <1>4. stage \notin Scanning /\ stage \notin {"inspect", "sessions", "choose"}
    BY DEF Recreating, Copying, Scanning
  <1>5. RunTrue(stage, q, store')
    BY <1>1, <1>3, <1>4 DEF RunTrue, Scanning
  <1>6. RunSole(stage, q, store', q.doc)
    BY <1>4 DEF RunSole
  <1> QED BY <1>1, <1>5, <1>6, MoveTrue

LEMMA CopyTrue ==
    ASSUME Sole, SafeInv, AppliedNow, NEW i \in Pod, Copy(i)
    PROVE  AppliedNow'
  <1> DEFINE r == run[i]
             S == {p \in Points(From(r)) : p >= r.offset}
             q == [r EXCEPT !.next = After(S),
                     !.batch = {<<p, store[From(r)].at[p]>> : p \in Page(S)}]
  <1>1. /\ pc[i] = "copy" /\ pc[i] \in Recreating /\ Acts(i)
        /\ store' = store /\ meta' = meta
    BY DEF Copy, Recreating, Copying, Acts, Migrating, Raise
  <1>2. /\ TypedInv /\ r \in Run /\ r.doc \in Document /\ r.id = Sparse
        /\ r.doc = meta /\ PointsTrue(store) /\ StoreSole(store, meta) /\ DocSole(meta)
        /\ DocTrue(meta, store)
        /\ SparsePhase(meta) = "copy_back" => MainIndexed(store)
    BY <1>1, RecreatingFacts DEF RunSole, Copying
  <1>3. /\ q.doc = r.doc /\ q.id = r.id
        /\ q.batch = {<<p, store[From(r)].at[p]>> : p \in Page(S)}
    BY <1>2 DEF Run
  <1>4. Page(S) \subseteq Points(From(r))
    BY DEF Page
  <1>5. \/ To(i, "handler", r) \/ To(i, "copied", q) \/ To(i, "copy_write", q)
    BY DEF Copy, Raise
  <1> HIDE DEF q, S, r
  <1>6. BatchTrue("copy_write", q)
    <2>1. ASSUME NEW x \in q.batch
          PROVE  /\ x[1] \in Memory
                 /\ x[1] \notin Userless => "user" \in x[2]
                 /\ x[1] \in Consolidated => "active" \notin x[2]
                 /\ SparsePhase(r.doc) = "copy_back" => "bm25" \in x[2]
      <3>1. PICK p \in Page(S) : x = <<p, store[From(r)].at[p]>>
        BY <1>3, <2>1
      <3>2. x[1] = p /\ x[2] = store[From(r)].at[p] /\ p \in Points(From(r))
        BY <1>4, <3>1
      <3>3. CASE SparsePhase(r.doc) = "copy_back"
        <4>1. From(r) = "temp"
          BY <3>3, CopyDirection
        <4>2. p \in Memory /\ HasData(store, "temp", p)
          BY <1>2, <3>2, <4>1, PointsTyped DEF HasData
        <4> QED BY <1>2, <3>2, <4>1, <4>2 DEF PointsTrue
      <3>4. CASE SparsePhase(r.doc) # "copy_back"
        <4>1. From(r) = "main"
          BY <3>4, CopyDirection
        <4>2. p \in Memory /\ HasData(store, "main", p)
          BY <1>2, <3>2, <4>1, PointsTyped DEF HasData
        <4> QED BY <1>2, <3>2, <3>4, <4>1, <4>2 DEF PointsTrue
      <3> QED BY <3>3, <3>4
    <2> QED BY <1>3, <2>1 DEF BatchTrue
  <1>7. BatchTrue("copied", q) /\ BatchTrue("handler", r)
    BY DEF BatchTrue
  <1>8. {"copied", "copy_write"} \subseteq Recreating
    BY DEF Recreating, Copying
  <1>9. CASE To(i, "handler", r)
    BY <1>1, <1>2, <1>7, <1>9, RecreationMoveTrue
  <1>10. CASE To(i, "copied", q)
    BY <1>1, <1>2, <1>3, <1>7, <1>8, <1>10, RecreationMoveTrue
  <1>11. CASE To(i, "copy_write", q)
    BY <1>1, <1>2, <1>3, <1>6, <1>8, <1>11, RecreationMoveTrue
  <1> QED BY <1>5, <1>9, <1>10, <1>11

LEMMA CopyWriteTrue ==
    ASSUME Sole, SafeInv, AppliedNow, NEW i \in Pod, CopyWrite(i)
    PROVE  AppliedNow'
  <1> DEFINE r == run[i]
             q == [r EXCEPT !.batch = {}]
             back == SparsePhase(r.doc) = "copy_back"
  <1>1. /\ pc[i] = "copy_write" /\ pc[i] \in Recreating /\ Acts(i) /\ meta' = meta
    BY DEF CopyWrite, Recreating, Copying, Acts, Migrating, Raise
  <1>2. /\ TypedInv /\ r \in Run /\ r.doc \in Document /\ r.id = Sparse
        /\ r.doc = meta /\ PointsTrue(store) /\ StoreSole(store, meta) /\ DocSole(meta)
        /\ BatchTrue("copy_write", r) /\ DocTrue(meta, store)
        /\ Sparse \notin meta.applied /\ (back => MainIndexed(store))
    BY <1>1, RecreatingFacts DEF RunSole, Copying
  <1>3. /\ back => Into(r) = "main"
        /\ ~back => Into(r) = "temp"
    BY CopyDirection
  <1>4. \A x \in r.batch : /\ x[1] \notin Userless => "user" \in x[2]
                           /\ x[1] \in Consolidated => "active" \notin x[2]
                           /\ back => "bm25" \in x[2]
    BY <1>2 DEF BatchTrue, Sparse, Classify
  <1>7. back <=> SparsePhase(meta) = "copy_back"
    BY <1>2
  <1>5. CASE ~store[Into(r)].exists
    <2>1. To(i, "handler", r) /\ store' = store
      BY <1>5 DEF CopyWrite, Raise
    <2>2. BatchTrue("handler", r)
      BY DEF BatchTrue
    <2> QED BY <1>1, <1>2, <2>1, <2>2, RecreationMoveTrue
  <1>6. CASE store[Into(r)].exists
    <2>1. To(i, "save_copy", q) /\ q.doc = r.doc /\ q.id = r.id
      BY <1>2, <1>6 DEF CopyWrite, Run
    <2> HIDE DEF q, r, back
    <2>2. /\ Into(r) = "temp" => store'["main"] = store["main"]
          /\ Into(r) = "main" => store'["temp"] = store["temp"]
          /\ store'["main"].exists = store["main"].exists
          /\ store'["main"].sparse = store["main"].sparse
          /\ store'["sessions"] = store["sessions"]
          /\ \A p \in Memory : store'[Into(r)].at[p] =
                IF \E x \in r.batch : x[1] = p
                THEN (IF Into(r) = "temp" THEN {"bm25"} ELSE {})
                        \cup UNION {x[2] : x \in {y \in r.batch : y[1] = p}}
                ELSE store[Into(r)].at[p]
      BY <1>2, <1>6, PageWritten DEF r
    <2>3. ASSUME NEW p \in Memory, NEW x \in r.batch, x[1] = p
          PROVE  /\ x[2] \subseteq store'[Into(r)].at[p]
                 /\ Into(r) = "temp" => "bm25" \in store'[Into(r)].at[p]
      <3>1. store'[Into(r)].at[p] = (IF Into(r) = "temp" THEN {"bm25"} ELSE {})
                        \cup UNION {z[2] : z \in {y \in r.batch : y[1] = p}}
        BY <2>2, <2>3
      <3>2. x[2] \in {z[2] : z \in {y \in r.batch : y[1] = p}}
        BY <2>3
      <3> QED BY <3>1, <3>2
    <2>4. ASSUME NEW p \in Memory
          PROVE  /\ p \notin Userless /\ "data" \in store'[Into(r)].at[p] =>
                       "user" \in store'[Into(r)].at[p]
                 /\ "data" \in store'[Into(r)].at[p] => "bm25" \in store'[Into(r)].at[p]
                 /\ p \in Consolidated => "active" \notin store'[Into(r)].at[p]
      <3>1. /\ HasData(store, Into(r), p) /\ p \notin Userless =>
                  "user" \in store[Into(r)].at[p]
            /\ p \in Consolidated => "active" \notin store[Into(r)].at[p]
            /\ HasData(store, Into(r), p) => "bm25" \in store[Into(r)].at[p]
        BY <1>2, <1>3 DEF PointsTrue, MainIndexed
      <3>2. CASE \E x \in r.batch : x[1] = p
        <4>1. PICK x \in r.batch : x[1] = p
          BY <3>2
        <4>2. p \notin Userless => "user" \in store'[Into(r)].at[p]
          BY <1>4, <2>3, <4>1
        <4>3. "bm25" \in store'[Into(r)].at[p]
          BY <1>3, <1>4, <2>3, <4>1
        <4>4. p \in Consolidated => "active" \notin store'[Into(r)].at[p]
          <5>1. store'[Into(r)].at[p] = (IF Into(r) = "temp" THEN {"bm25"} ELSE {})
                        \cup UNION {z[2] : z \in {y \in r.batch : y[1] = p}}
            BY <2>2, <3>2
          <5>2. ASSUME p \in Consolidated,
                       NEW z \in {y \in r.batch : y[1] = p}
                PROVE  "active" \notin z[2]
            BY <1>4, <5>2
          <5> QED BY <5>1, <5>2
        <4> QED BY <4>2, <4>3, <4>4
      <3>3. CASE ~\E x \in r.batch : x[1] = p
        <4>1. store'[Into(r)].at[p] = store[Into(r)].at[p]
          BY <2>2, <3>3
        <4> QED BY <3>1, <4>1 DEF HasData
      <3> QED BY <3>2, <3>3
    <2>5. PointsTrue(store')
      <3>1. Consolidated \subseteq Memory
        BY MigrationAssumption DEF Consolidated
      <3>2. CASE Into(r) = "temp"
        BY <1>2, <2>2, <2>4, <3>1, <3>2 DEF PointsTrue, HasData
      <3>3. CASE Into(r) = "main"
        BY <1>2, <2>2, <2>4, <3>1, <3>3 DEF PointsTrue, HasData
      <3> QED BY <1>3, <3>2, <3>3
    <2>6. /\ DocTrue(meta, store') /\ StoreSole(store', meta)
          /\ back => MainIndexed(store')
      <3>1. CASE back
        <4>1. SparsePhase(meta) = "copy_back" /\ Into(r) = "main"
          BY <1>3, <1>7, <3>1
        <4>2. DocTrue(meta, store')
          BY <1>2, <4>1, FreshTrue DEF CopyPhase
        <4>3. MainIndexed(store')
          BY <2>4, <4>1 DEF MainIndexed, HasData
        <4> QED BY <4>1, <4>2, <4>3 DEF StoreSole
      <3>2. CASE ~back
        <4>1. store'["main"] = store["main"] /\ store'["sessions"] = store["sessions"]
          BY <1>3, <2>2, <3>2
        <4>2. DocTrue(meta, store')
          BY <1>2, <4>1, SameMain
        <4> QED BY <1>2, <3>2, <4>1, <4>2 DEF StoreSole, MainFull
      <3> QED BY <3>1, <3>2
    <2>7. BatchTrue("save_copy", q) /\ "save_copy" \in Recreating
      BY DEF BatchTrue, Recreating, Copying
    <2> QED BY <1>1, <1>2, <1>7, <2>1, <2>5, <2>6, <2>7, RecreationMoveTrue
  <1> QED BY <1>5, <1>6

LEMMA CopyCheckpointsTrue ==
    ASSUME Sole, SafeInv, AppliedNow, NEW i \in Pod, SaveCopy(i) \/ Copied(i)
    PROVE  AppliedNow'
  <1> DEFINE r == run[i]
  <1>1. /\ pc[i] \in {"save_copy", "copied"} /\ pc[i] \in Recreating
        /\ pc[i] \in Copying /\ Acts(i) /\ store' = store
    BY DEF SaveCopy, Copied, Recreating, Copying, Acts, Migrating, Raise, Save
  <1>2. /\ TypedInv /\ r \in Run /\ r.doc \in Document /\ r.doc \in Documents
        /\ r.id = Sparse /\ r.doc = meta /\ Sparse \notin meta.applied
        /\ PointsTrue(store) /\ StoreSole(store, meta) /\ DocSole(meta)
        /\ DocTrue(meta, store)
        /\ SparsePhase(r.doc) = "copy_back" => MainIndexed(store)
    BY <1>1, RecreatingFacts DEF RunSole
  <1>3. ASSUME NEW stage \in {"copied", "copy", "drop"}, NEW q, To(i, stage, q),
               q.id = Sparse, meta' = q.doc, q.doc \in Document,
               q.doc.applied = meta.applied, DocSole(q.doc),
               SparsePhase(q.doc) \in CopyPhase,
               SparsePhase(r.doc) = "copy_back" => SparsePhase(q.doc) = "copy_back",
               SparsePhase(q.doc) = "copy_back" =>
                  SparsePhase(r.doc) = "copy_back" \/ stage = "drop"
        PROVE  AppliedNow'
    <2>1. StoreSole(store', q.doc)
      BY <1>1, <1>2, <1>3 DEF StoreSole
    <2>2. DocTrue(q.doc, store')
      BY <1>2, <1>3, FreshTrue
    <2>3. BatchTrue(stage, q) /\ stage \in Recreating /\ stage # "done"
      BY <1>3 DEF BatchTrue, Recreating, Copying
    <2>4. stage \in Copying \cup {"clean"} /\ SparsePhase(q.doc) = "copy_back" =>
            MainIndexed(store')
      BY <1>1, <1>2, <1>3 DEF Copying
    <2> QED BY <1>1, <1>2, <1>3, <2>1, <2>2, <2>3, <2>4, RecreationMoveTrue
  <1>4. ASSUME NEW stage \in {"clean", "handler"}, To(i, stage, r), meta' = meta
        PROVE  AppliedNow'
    <2>1. BatchTrue(stage, r) /\ stage \in Recreating \cup {"done", "handler"}
          /\ stage # "done"
      BY <1>4 DEF BatchTrue, Recreating
    <2> QED BY <1>1, <1>2, <1>4, <2>1, RecreationMoveTrue
  <1>5. CASE SaveCopy(i)
    <2> DEFINE q == [r EXCEPT !.doc = Checkpoint(r, Sparse, Phase(r)), !.offset = r.next]
    <2>1. /\ To(i, "copied", q) \/ To(i, "copy", q)
          /\ meta' = q.doc
      BY <1>5 DEF SaveCopy, Save
    <2>2. q.doc = Checkpoint(r, Sparse, Phase(r)) /\ q.id = Sparse
      BY <1>2 DEF Run
    <2> HIDE DEF q
    <2>3. q.doc \in Document /\ SparsePhase(q.doc) = Phase(r)
      BY <1>2, <2>2, DocumentsTyped, PhaseChanges DEF Documents
    <2>4. DocSole(q.doc) /\ q.doc.applied = meta.applied
      BY <1>2, <2>2, CheckpointSole
    <2>5. /\ SparsePhase(q.doc) \in CopyPhase
          /\ SparsePhase(r.doc) = "copy_back" <=> SparsePhase(q.doc) = "copy_back"
      BY <2>3, CopyDirection DEF CopyPhase
    <2> QED BY <1>3, <2>1, <2>2, <2>3, <2>4, <2>5
  <1>6. CASE Copied(i)
    <2> DEFINE q == [r EXCEPT !.offset = 0, !.doc = Turned(r.doc)]
    <2>1. \/ To(i, "handler", r) /\ meta' = meta
          \/ To(i, "clean", r) /\ meta' = meta
          \/ To(i, "drop", q) /\ meta' = q.doc
      BY <1>6 DEF Copied, Raise, Save
    <2>2. q.doc = Turned(r.doc) /\ q.id = Sparse
      BY <1>2 DEF Run
    <2> HIDE DEF q
    <2>3. /\ q.doc \in Document /\ SparsePhase(q.doc) = "copy_back"
          /\ SparsePhase(q.doc) \in CopyPhase
      BY <1>2, <2>2, DocumentsTyped, PhaseChanges DEF Documents, CopyPhase
    <2>4. DocSole(q.doc) /\ q.doc.applied = meta.applied
      BY <1>2, <2>2, CheckpointSole
    <2> QED BY <1>3, <1>4, <2>1, <2>2, <2>3, <2>4
  <1> QED BY <1>5, <1>6

LEMMA ReplacementsTrue ==
    ASSUME Sole, Memories # 0, SafeInv, AppliedNow, NEW i \in Pod,
           CopyStart(i) \/ Drop(i) \/ Rebuild(i) \/ Clean(i)
    PROVE  AppliedNow'
  <1> DEFINE r == run[i]
  <1>1. /\ pc[i] \in {"copy_start", "drop", "rebuild", "clean"}
        /\ pc[i] \in Recreating /\ Acts(i) /\ meta' = meta
    BY DEF CopyStart, Drop, Rebuild, Clean, Recreating, Acts, Migrating, Raise
  <1>2. /\ TypedInv /\ r \in Run /\ r.doc \in Document /\ r.id = Sparse
        /\ r.doc = meta /\ Sparse \notin meta.applied /\ store \in Stores
        /\ PointsTrue(store) /\ StoreSole(store, meta) /\ DocSole(meta)
        /\ RunSafe(pc[i], r, store, meta) /\ DocTrue(meta, store)
        /\ pc[i] = "clean" => MainIndexed(store)
    <2>1. pc[i] = "clean" => SparsePhase(r.doc) = "copy_back"
      BY <1>1, RecreatingFacts DEF RunSafe
    <2> QED BY <1>1, <2>1, RecreatingFacts DEF RunSole
  <1>3. ASSUME NEW stage \in {"copy", "rebuild", "done", "handler"}, NEW q,
               To(i, stage, q), q.id = Sparse, q.doc = meta, PointsTrue(store'),
               StoreSole(store', meta), DocTrue(meta, store'),
               stage = "copy" /\ SparsePhase(meta) = "copy_back" => MainIndexed(store'),
               stage = "done" => Performed(Sparse, store')
        PROVE  AppliedNow'
    <2>1. /\ BatchTrue(stage, q) /\ stage \in Recreating \cup {"done", "handler"}
          /\ stage \in Copying \cup {"clean"} => stage = "copy"
      BY <1>3 DEF BatchTrue, Recreating, Copying
    <2> QED BY <1>1, <1>2, <1>3, <2>1, RecreationMoveTrue
  <1>4. ASSUME To(i, "handler", r), store' = store PROVE AppliedNow'
    BY <1>2, <1>3, <1>4
  <1>5. \A b \in BOOLEAN, c \in BOOLEAN, name \in {"main", "temp"} :
          LET new == [store EXCEPT ![name] = Empty(name, b, c)]
          IN  /\ new[name].exists = b /\ new[name].sparse = c
              /\ \A p \in Memory : new[name].at[p] = {}
              /\ \A other \in Collection : other # name => new[other] = store[other]
    BY <1>2 DEF Stores, Collection, Empty
  <1>6. Consolidated \subseteq Memory
    BY MigrationAssumption DEF Consolidated
  <1>7. ASSUME NEW b \in BOOLEAN, NEW c \in BOOLEAN, NEW name \in {"main", "temp"},
               store' = [store EXCEPT ![name] = Empty(name, b, c)]
        PROVE  /\ PointsTrue(store')
               /\ store'[name].exists = b /\ store'[name].sparse = c
               /\ name = "temp" => /\ store'["main"] = store["main"]
                                   /\ store'["sessions"] = store["sessions"]
               /\ \A p \in Memory : store'[name].at[p] = {}
    <2>1. /\ store'[name].exists = b /\ store'[name].sparse = c
          /\ \A p \in Memory : store'[name].at[p] = {}
          /\ \A other \in Collection : other # name => store'[other] = store[other]
      BY <1>5, <1>7
    <2>2. PointsTrue(store')
      <3>1. CASE name = "main"
        BY <1>2, <1>6, <2>1, <3>1 DEF PointsTrue, HasData, Collection
      <3>2. CASE name = "temp"
        BY <1>2, <1>6, <2>1, <3>2 DEF PointsTrue, HasData, Collection
      <3> QED BY <3>1, <3>2
    <2> QED BY <2>1, <2>2 DEF Collection
  <1>12. SparsePhase(meta) = "copy_back" => \A s : DocTrue(meta, s) /\ StoreSole(s, meta)
    BY <1>2, FreshTrue DEF CopyPhase, StoreSole
  <1>8. CASE CopyStart(i)
    <2> DEFINE q == [r EXCEPT !.total = Cardinality(Points("main"))]
    <2>1. /\ SparsePhase(meta) # "copy_back" /\ MainFull(store) /\ store["main"].exists
      BY <1>2, <1>8 DEF RunSafe, CopyStart, StoreSole
    <2>2. Points("main") # {}
      <3>1. 1 \in Memory
        BY Constants
      <3> QED BY <1>2, <2>1, <3>1, PointsTyped DEF MainFull
    <2>3. /\ store' = store \/
                 store' = [store EXCEPT !["temp"] = Empty("temp", TRUE, TRUE)]
          /\ To(i, "copy", q)
      BY <1>8, <2>1, <2>2 DEF CopyStart
    <2>4. /\ PointsTrue(store') /\ store'["main"] = store["main"]
          /\ store'["sessions"] = store["sessions"]
      BY <1>2, <1>7, <2>3
    <2>5. StoreSole(store', meta) /\ DocTrue(meta, store')
      BY <1>2, <2>1, <2>4, SameMain DEF StoreSole, MainFull
    <2>6. q.doc = r.doc /\ q.id = r.id
      BY <1>2 DEF Run
    <2> HIDE DEF q
    <2> QED BY <1>2, <1>3, <2>1, <2>3, <2>4, <2>5, <2>6
  <1>9. CASE Drop(i)
    <2> DEFINE q == [r EXCEPT !.total = Cardinality(Points("temp"))]
    <2>1. CASE ~store["temp"].exists
      BY <1>4, <1>9, <2>1 DEF Drop, Raise
    <2>2. CASE store["temp"].exists
      <3>1. /\ store' = [store EXCEPT !["main"] = Empty("main", FALSE, FALSE)]
            /\ To(i, "rebuild", q) /\ SparsePhase(meta) = "copy_back"
        BY <1>2, <1>9, <2>2 DEF Drop, RunSafe
      <3>2. PointsTrue(store')
        BY <1>7, <3>1
      <3>3. q.doc = r.doc /\ q.id = r.id
        BY <1>2 DEF Run
      <3> HIDE DEF q
      <3> QED BY <1>2, <1>3, <1>12, <3>1, <3>2, <3>3
    <2> QED BY <2>1, <2>2
  <1>10. CASE Rebuild(i)
    <2>1. CASE store["main"].exists
      BY <1>4, <1>10, <2>1 DEF Rebuild, Raise
    <2>2. CASE ~store["main"].exists
      <3>1. /\ store' = [store EXCEPT !["main"] = Empty("main", TRUE, TRUE)]
            /\ To(i, "copy", r) /\ SparsePhase(meta) = "copy_back"
        BY <1>2, <1>10, <2>2 DEF Rebuild, RunSafe
      <3>2. PointsTrue(store') /\ MainIndexed(store')
        BY <1>7, <3>1 DEF MainIndexed, HasData
      <3> QED BY <1>2, <1>3, <1>12, <3>1, <3>2
    <2> QED BY <2>1, <2>2
  <1>11. CASE Clean(i)
    <2>1. /\ SparsePhase(meta) = "copy_back" /\ MainFull(store)
          /\ store["main"].exists /\ store["main"].sparse
      BY <1>2, <1>11 DEF RunSafe, Clean
    <2>2. /\ store' = [store EXCEPT !["temp"] = Empty("temp", FALSE, FALSE)]
          /\ To(i, "done", r)
      BY <1>11 DEF Clean
    <2>3. PointsTrue(store') /\ store'["main"] = store["main"]
      BY <1>7, <2>2
    <2>4. Performed(Sparse, store')
      <3>1. ScanDomain(Sparse) = Memory
        BY DEF ScanDomain, Sparse, Classify
      <3>2. \A p \in Memory : HasData(store, "main", p) /\ "bm25" \in store["main"].at[p]
        BY <1>2, <1>11, <2>1 DEF MainIndexed, MainFull, HasData, Clean
      <3> QED BY <2>1, <2>3, <3>1, <3>2 DEF Performed, DoneAt, HasData, Sparse, Owner,
                 Revision, Projection, Classify
    <2> QED BY <1>2, <1>3, <1>12, <2>1, <2>2, <2>3, <2>4
  <1> QED BY <1>8, <1>9, <1>10, <1>11

----------------------------------------------------------------------------
(* What is applied is performed, where the document was read.              *)

LEMMA InitApplied == Init => AppliedNow
  <1> SUFFICES ASSUME Init PROVE AppliedNow
    OBVIOUS
  <1>1. meta = NoRun.doc /\ \A i \in Pod : pc[i] = "down" /\ run[i] = NoRun
    BY DEF Init
  <1>2. MainFull(store) /\ store["main"].exists
    BY DEF Init, MainFull
  <1>3. PointsTrue(store)
    <2>1. PICK known \in Known, exists \in BOOLEAN :
            store = [main |-> [exists |-> TRUE, sparse |-> FALSE,
                            at |-> [p \in Memory |->
                                {"data"} \cup (IF p \in Userless THEN {} ELSE {"user"})
                                         \cup (IF p \in known THEN {"owner"} ELSE {})]],
                  temp |-> Empty("temp", FALSE, FALSE),
                  sessions |-> [exists |-> exists, sparse |-> FALSE,
                                at |-> [s \in SessionId |->
                                    IF exists THEN {"data", "user"} ELSE {}]]]
      BY DEF Init
    <2>2. Consolidated \subseteq Memory
      BY MigrationAssumption DEF Consolidated
    <2>3. \A p \in Memory : store["temp"].at[p] = {}
      BY <2>1 DEF Empty
    <2>4. \A p \in Memory : /\ p \notin Userless => "user" \in store["main"].at[p]
                            /\ "active" \notin store["main"].at[p]
      BY <2>1
    <2>5. \A x \in SessionId : HasData(store, "sessions", x) =>
            "user" \in store["sessions"].at[x]
      BY <2>1 DEF HasData
    <2> QED BY <2>2, <2>3, <2>4, <2>5 DEF PointsTrue, HasData
  <1>4. SoleTrue
    <2>1. deployment.pods \subseteq Pod
      BY DeploymentTyped DEF Init
    <2> QED BY <1>1, <1>2, <2>1, NoRunTrue DEF SoleTrue, StoreSole, RunSole, Scanning, Copying
  <1> QED BY <1>1, <1>3, <1>4, NoRunTrue DEF AppliedNow

\* What was misread stays misread.
LEMMA StillRead ==
    ASSUME [Next]_vars PROVE Read' => Read
  <1>1. CASE UNCHANGED vars
    BY <1>1 DEF vars, Read
  <1>2. ASSUME NEW i \in Pod, Acts(i) PROVE mishaps \subseteq mishaps'
    BY <1>2 DEF Acts, Migrating, Start, Load, LoadNothing, Choose, Complete, Handler,
       Crash, Fault, Shrug, Befalls, RunSparse, CreateSessions, AddMemoryLayerIndex,
       BeginScan, Begin, BackfillSession, Inspect, Scan, Write, SaveScan, CopyStart,
       Copy, CopyWrite, SaveCopy, Copied, Drop, Rebuild, Clean, Keep
  <1> QED BY <1>1, <1>2, NextActs DEF Read

LEMMA NextApplied ==
    Sole /\ Memories # 0 /\ SafeInv /\ AppliedInv /\ [Next]_vars => AppliedInv'
  <1> SUFFICES ASSUME Sole, Memories # 0, SafeInv, AppliedInv, [Next]_vars, Read'
               PROVE  AppliedNow'
    BY DEF AppliedInv
  <1>1. AppliedNow
    BY StillRead DEF AppliedInv
  <1>2. CASE UNCHANGED vars
    BY <1>1, <1>2 DEF vars, AppliedNow, SoleTrue, Recreation
  <1>3. ASSUME NEW i \in Pod, Acts(i) PROVE AppliedNow'
    BY <1>1, <1>3, RunnerTrue, BeginningsTrue, ScanTrue, WriteTrue, SaveScanTrue,
       CopyTrue, CopyWriteTrue, CopyCheckpointsTrue, ReplacementsTrue
       DEF Acts, Migrating
  <1> QED BY <1>2, <1>3, NextActs

LEMMA AppliedInvHolds == Sole /\ Memories # 0 /\ Spec => [](SafeInv /\ AppliedInv)
  <1> SUFFICES ASSUME Sole, Memories # 0 PROVE Spec => [](SafeInv /\ AppliedInv)
    OBVIOUS
  <1>1. Init => SafeInv /\ AppliedInv
    BY InitSafe, InitApplied DEF AppliedInv
  <1>2. SafeInv /\ AppliedInv /\ [Next]_vars => (SafeInv /\ AppliedInv)'
    BY NextSafe, NextApplied
  <1> QED BY <1>1, <1>2, PTL DEF Spec

\* Whatever is recorded as applied holds of every memory and session, wherever an
\* instance was cut off and whatever the others did meanwhile, for collections of
\* any size and pages of any length: a checkpoint never runs ahead of what was
\* written.  (Of the instances that Sole admits: a recreation beside another
\* instance is deleted under its record.  There is a memory: a recreation of an
\* empty collection is recorded without being performed.)
THEOREM AppliedIsDoneHolds == Sole /\ Memories # 0 /\ Spec => []AppliedIsDone
  <1>1. SafeInv /\ AppliedInv => AppliedIsDone
    <2> SUFFICES ASSUME SafeInv, AppliedInv, Read PROVE AppliedIsDone
      BY DEF AppliedIsDone, Read
    <2>1. \A k \in meta.applied : Performed(k, store)
      BY DEF AppliedInv, AppliedNow, DocTrue
    <2>2. /\ ScanDomain(Sparse) = Memory /\ ScanDomain(Owner) = Memory
          /\ ScanDomain(Revision) = Memory /\ ScanDomain(Projection) = Memory
          /\ ScanDomain(Classify) = SessionId
      BY DEF ScanDomain, Sparse, Owner, Revision, Projection, Classify
    <2>3. Points("sessions") = {s \in SessionId : HasData(store, "sessions", s)}
      BY PointsTyped DEF SafeInv, HasData
    <2>4. Sparse \in meta.applied =>
            /\ store["main"].exists /\ store["main"].sparse
            /\ \A p \in Memory : "bm25" \in store["main"].at[p]
      BY <2>1, <2>2 DEF Performed, DoneAt
    <2>5. Owner \in meta.applied =>
            \A p \in Memory \ Userless : "owner" \in store["main"].at[p]
      BY <2>1, <2>2 DEF Performed, DoneAt
    <2>6. Revision \in meta.applied =>
            /\ \A p \in Memory : store["main"].at[p] \cap {"active", "source"} # {}
            /\ \A s \in Points("sessions") : "owner" \in store["sessions"].at[s]
      <3>1. Revision \in meta.applied =>
              /\ \A p \in Memory :
                    "active" \in store["main"].at[p] \/ "source" \in store["main"].at[p]
              /\ SessionsOwned(store)
        BY <2>1, <2>2 DEF Performed, DoneAt
      <3> QED BY <2>3, <3>1 DEF SessionsOwned
    <2>7. Projection \in meta.applied =>
            \A p \in Memory : "projection" \in store["main"].at[p]
      BY <2>1, <2>2 DEF Performed, DoneAt
    <2>8. Classify \in meta.applied =>
            \A s \in Points("sessions") \cap FailedOnes :
                "classified" \in store["sessions"].at[s]
      BY <2>1, <2>2, <2>3 DEF Performed, DoneAt
    <2> QED BY <2>4, <2>5, <2>6, <2>7, <2>8 DEF AppliedIsDone
  <1> QED BY <1>1, AppliedInvHolds, PTL

\* A raw memory that was consolidated before there were revisions is never made an
\* active one, at whatever point the backfill is cut off and by whichever instance
\* it is resumed, if no other recreates the collection meanwhile.
THEOREM ConsolidatedIsSourceHolds == Sole /\ Spec => []ConsolidatedIsSource
  <1>1. CASE Memories = 0
    <2>1. BackLink = {}
      BY <1>1, MigrationAssumption DEF Memory
    <2>2. ConsolidatedIsSource
      BY <2>1 DEF ConsolidatedIsSource
    <2> QED BY <2>2, PTL
  <1>2. CASE Memories # 0
    <2>1. SafeInv /\ AppliedInv => ConsolidatedIsSource
      BY DEF AppliedInv, AppliedNow, PointsTrue, Consolidated, Read, ConsolidatedIsSource
    <2> QED BY <1>2, <2>1, AppliedInvHolds, PTL
  <1> QED BY <1>1, <1>2
===============================================================================
