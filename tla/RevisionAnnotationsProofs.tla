---------------------- MODULE RevisionAnnotationsProofs ----------------------
(***************************************************************************)
(* Proofs about the annotations of a memory.                               *)
(*                                                                         *)
(* The first part is about claims: for every claim of an annotation there  *)
(* is a call that owes its release, because it holds it, recovers it or    *)
(* has failed.  Each step either leaves a claim to whom owed it before or  *)
(* releases it.                                                            *)
(*                                                                         *)
(* The second part is about the evidence roots a confirmation adds.  What  *)
(* a confirmation leaves behind (its claim, its journal row, the plan that *)
(* a recovering call has read from that row) is all about one revision,    *)
(* the one it was decided on, and adds one root, its own; so nothing that  *)
(* writes this revision takes a counted root away.                         *)
(***************************************************************************)
EXTENDS RevisionAnnotations, TLAPS

\* A save whose store calls may raise does not run together with an update.
\* Its cleanup finds the claim it left only on the head it resolves, and an
\* update can make another revision the head.
FaultySavesRunWithoutUpdates ==
    \A s \in Scenarios : \A c \in s \cap Faulty, d \in s :
        TaskOf[c] = "save" => KindOf[d] # "revise"

Updates == \E d \in on : KindOf[d] = "revise"

\* The fields the proof looks at.
Shape ==
    /\ DOMAIN point = PointId
    /\ \A p \in PointId : {"state", "tok", "kind"} \subseteq DOMAIN point[p]
    /\ DOMAIN pc = Call /\ DOMAIN loc = Call /\ DOMAIN reply = Call
    /\ DOMAIN at = Annotator /\ DOMAIN note = Annotator
    /\ \A c \in Annotator :
          {"head", "tok", "claims", "status"} \subseteq DOMAIN note[c]

\* Where an annotating call is while it resolves the head.
RecoversNote == {"recover", "recover_note", "recover_check", "recover_noted",
                 "recover_release", "recover_free"}
Resolving == RecoversNote \cup
             {"recover_active", "recover_superseded", "recover_retracted",
              "recover_commit", "resolve_again"}

LocalShape(l) == {"mem", "cur", "pay", "heard", "tok", "from", "mine", "kind",
                  "cand", "left"} \subseteq DOMAIN l

Resolutions ==
    \A c \in Annotator : pc[c] \notin {"idle", "done"} =>
        /\ pc[c] \in Resolving
        /\ LocalShape(loc[c]) /\ loc[c].mem \in PointId
        /\ loc[c].cand = None /\ loc[c].left = {}

\* Without an update the lineage stays at its first revision.
LocalOne(l) == /\ LocalShape(l) /\ l.mem \in PointId
               /\ l.left = {} /\ l.kind # "revise"

CallOne(c) == pc[c] \notin {"idle", "done"} =>
    /\ pc[c] \notin {"upsert", "activate", "recover_active"}
    /\ KindOf[c] # "source" /\ LocalOne(loc[c])

OneRevision ==
    ~Updates =>
      /\ \A p \in PointId : /\ point[p].state # "pending"
                            /\ point[p].state = "active" => p = Root
                            /\ point[p].kind # "revise"
      /\ \A c \in on : CallOne(c)

\* The calls that answer for a claim.
Holding(c) ==
    \/ at[c] \in {"readback", "claimed", "write", "verify", "release", "free"}
    \/ at[c] = "commit" /\ note[c].claims
Cleaning(c) ==
    /\ c \in Faulty /\ TaskOf[c] = "save"
    /\ \/ at[c] = "failed"
       \/ at[c] = "cleanup" /\ pc[c] = "idle"
Restoring(c) ==
    at[c] = "cleanup" /\ pc[c] \in RecoversNote /\ loc[c].kind \in Task
Broken(c) ==
    \/ at[c] = "found" /\ note[c].status = "failed"
    \/ at[c] = "done" /\ reply[c].status = "failed"
    \/ at[c] = "failed" /\ TaskOf[c] # "save"
    \/ at[c] = "orphaned"

Owes(c, p) ==
    \/ Broken(c)
    \/ /\ Holding(c) \/ Cleaning(c)
       /\ note[c].head = p /\ note[c].tok = point[p].tok
    \/ Restoring(c) /\ loc[c].from = p /\ loc[c].mine = point[p].tok

Noted(p) == point[p].kind \in Task
Live(p) == Updates \/ point[p].state = "active"

ClaimsAreOwed ==
    \A p \in PointId : Noted(p) /\ Live(p) => \E c \in on \cap Annotator : Owes(c, p)

Headed == {"prepare", "claim", "readback", "lost"}
Tokens ==
    /\ \A p \in PointId : Noted(p) => point[p].tok # None
    /\ \A c \in Annotator :
          /\ at[c] \in {"prepare", "claim"} => note[c].tok # None
          /\ at[c] \in Headed => note[c].head \in PointId

Claiming == \A c \in Annotator : at[c] \in {"write", "verify"} => note[c].claims

ClaimsInv ==
    /\ on \in Scenarios
    /\ Shape /\ Resolutions /\ OneRevision /\ Tokens /\ Claiming
    /\ FaultySavesRunWithoutUpdates => ClaimsAreOwed

----------------------------------------------------------------------------
(* What a step leaves alone.                                               *)

\* Only the call's own local state changes.
Alone(c) ==
    /\ on' = on
    /\ \A d \in Annotator \ {c} : at'[d] = at[d] /\ note'[d] = note[d]
    /\ \A d \in Call \ {c} :
          pc'[d] = pc[d] /\ loc'[d] = loc[d] /\ reply'[d] = reply[d]

\* No point gets the claim of an annotation, or another token under one.
Quiet == \A p \in PointId :
            Noted(p)' => Noted(p) /\ point'[p].tok = point[p].tok

PointShape == /\ DOMAIN point = PointId
              /\ \A p \in PointId : {"state", "tok", "kind"} \subseteq DOMAIN point[p]
CallShape == DOMAIN pc = Call /\ DOMAIN loc = Call /\ DOMAIN reply = Call

LEMMA Kinds ==
    ASSUME NEW c \in Call
    PROVE  /\ KindOf[c] \notin Task /\ KindOf[c] \in Kind
           /\ None \notin Task /\ None # "revise"
BY ConstantsAssumption, AnnotationAssumption DEF Kind, Task, ClaimKind

LEMMA AnnotatorsRead ==
    ASSUME NEW c \in Annotator
    PROVE  c \in Call /\ KindOf[c] = "read" /\ TaskOf[c] \in Task
BY AnnotationAssumption

\* The writes of a step of RevisionLineage.
LEMMA StepIsQuiet ==
    ASSUME PointShape, NEW c \in Call, Step(c)
    PROVE  PointShape' /\ Quiet
<1> USE Kinds DEF PointShape, Quiet, Noted, Goto, Answer, Note, Record, Tells
<1>1. CASE point' = point
  BY <1>1
<1>2. CASE RecoverActive(c)
  BY <1>2 DEF RecoverActive
<1>3. CASE RecoverSuperseded(c)
  BY <1>3 DEF RecoverSuperseded
<1>4. CASE RecoverRetracted(c)
  BY <1>4 DEF RecoverRetracted
<1>5. CASE FinishPredecessor(c)
  BY <1>5 DEF FinishPredecessor
<1>6. CASE Upsert(c)
  BY <1>6 DEF Upsert, Successor
<1>7. CASE Claim(c)
  BY <1>7 DEF Claim
<1>8. CASE Abort(c)
  BY <1>8 DEF Abort
<1>9. CASE Activate(c)
  BY <1>9 DEF Activate
<1>10. CASE Supersede(c)
  BY <1>10 DEF Supersede
<1>11. CASE Withdraw(c)
  BY <1>11 DEF Withdraw
<1>12. CASE SetSource(c)
  BY <1>12 DEF SetSource
<1> QED
  BY <1>1, <1>2, <1>3, <1>4, <1>5, <1>6, <1>7, <1>8, <1>9, <1>10, <1>11, <1>12
  DEF Step, Recover, RecoverCommit, ResolveAgain, FinishJournal, Plan, Readback,
      Conflict, NoteActivated, NoteClaimed, Commit, CheckSource

LEMMA RecoverIsQuiet ==
    ASSUME PointShape, NEW c \in Call, RecoverAnnotation(c)
    PROVE  PointShape' /\ Quiet
<1> USE Kinds DEF PointShape, Quiet, Noted
<1>1. CASE point' = point
  BY <1>1
<1>2. CASE RecoverWrite(c)
  BY <1>2 DEF RecoverWrite
<1>3. CASE RecoverFree(c)
  BY <1>3 DEF RecoverFree
<1> QED
  BY <1>1, <1>2, <1>3
  DEF RecoverAnnotation, RecoverNote, RecoverCheck, RecoverNoted, RecoverRelease

LEMMA ServiceIsQuiet ==
    ASSUME PointShape, NEW c \in Call, Revision(c) \/ RecoverAnnotation(c)
    PROVE  PointShape' /\ Quiet
<1>1. CASE Begin(c)
  BY <1>1 DEF Begin, PointShape, Quiet, Noted
<1> QED
  BY <1>1, StepIsQuiet, RecoverIsQuiet DEF Revision

----------------------------------------------------------------------------
(* The steps of an annotation on the head it resolved.                     *)

Keeps(c) ==
    \A p \in PointId : Noted(p)' /\ Live(p)' =>
        \/ Owes(c, p)'
        \/ Noted(p) /\ point'[p].tok = point[p].tok /\ ~Owes(c, p)

Kept(c) ==
    /\ Shape' /\ Tokens' /\ Claiming' /\ Alone(c) /\ Keeps(c)
    /\ \A p \in PointId :
          /\ point'[p].state = point[p].state
          /\ point'[p].kind # point[p].kind => point'[p].kind # "revise"
    /\ \/ pc'[c] \in {"idle", "done"}
       \/ pc'[c] = pc[c] /\ loc'[c] = loc[c]

LEMMA OthersOwe ==
    ASSUME NEW c, NEW d \in on \cap Annotator, d # c, Alone(c),
           NEW p \in PointId, point'[p].tok = point[p].tok, Owes(d, p)
    PROVE  Owes(d, p)'
BY AnnotatorsRead
DEF Alone, Owes, Broken, Holding, Cleaning, Restoring

LEMMA KeptOwed ==
    ASSUME ClaimsAreOwed, NEW c \in on \cap Annotator, Alone(c), Keeps(c),
           \A p \in PointId : Live(p)' => Live(p)
    PROVE  ClaimsAreOwed'
<1> SUFFICES ASSUME NEW p \in PointId, Noted(p)', Live(p)'
             PROVE  \E d \in on' \cap Annotator : Owes(d, p)'
  BY DEF ClaimsAreOwed
<1>1. CASE Owes(c, p)'
  BY <1>1 DEF Alone
<1>2. CASE ~Owes(c, p)'
  <2>1. Noted(p) /\ point'[p].tok = point[p].tok /\ ~Owes(c, p)
    BY <1>2 DEF Keeps
  <2>2. PICK d \in on \cap Annotator : Owes(d, p)
    BY <2>1 DEF ClaimsAreOwed
  <2>3. Owes(d, p)'
    BY <2>1, <2>2, OthersOwe
  <2> QED
    BY <2>3 DEF Alone
<1> QED
  BY <1>1, <1>2

LEMMA KeptInv ==
    ASSUME ClaimsInv, NEW c \in on \cap Annotator, Kept(c)
    PROVE  ClaimsInv'
<1>1. Alone(c) /\ Keeps(c) /\ on' = on
  BY DEF Kept, Alone
<1>2. \A p \in PointId : Live(p)' => Live(p)
  BY <1>1 DEF Kept, Live, Updates
<1>3. FaultySavesRunWithoutUpdates => ClaimsAreOwed'
  BY <1>1, <1>2, KeptOwed DEF ClaimsInv
<1>4. \A d \in Annotator : d # c => pc'[d] = pc[d] /\ loc'[d] = loc[d]
  BY <1>1, AnnotatorsRead DEF Alone
<1>5. Resolutions'
  BY <1>4 DEF Kept, ClaimsInv, Resolutions
<1>6. OneRevision'
  <2>1. c \in Call /\ KindOf[c] = "read"
    BY AnnotatorsRead
  <2>2. \A d \in on : d # c => pc'[d] = pc[d] /\ loc'[d] = loc[d]
    BY <1>1, AnnotationAssumption DEF Alone, ClaimsInv
  <2> QED
    BY <1>1, <2>1, <2>2 DEF Kept, ClaimsInv, OneRevision, Updates, CallOne
<1> QED
  BY <1>1, <1>3, <1>5, <1>6 DEF Kept, ClaimsInv

NoteShape(n) == {"head", "tok", "claims", "status"} \subseteq DOMAIN n

\* The call goes on, and may resolve again or give its answer.
Moves(c, stage, n) ==
    /\ To(c, stage, n) /\ NoteShape(n)
    /\ stage \in {"prepare", "claim"} => n.tok # None
    /\ stage \in Headed => n.head \in PointId
    /\ stage \in {"write", "verify"} => n.claims
    /\ on' = on
    /\ \/ UNCHANGED <<pc, loc, reply>>
       \/ pc' = [pc EXCEPT ![c] = "idle"] /\ UNCHANGED <<loc, reply>>
       \/ \E status, id : Answer(c, status, id)

LEMMA MovesAlone ==
    ASSUME ClaimsInv, NEW c \in on \cap Annotator, NEW stage, NEW n,
           Moves(c, stage, n)
    PROVE  /\ Alone(c) /\ Claiming'
           /\ at'[c] = stage /\ note'[c] = n
           /\ PointShape' => Shape'
           /\ (\A p \in PointId : Noted(p)' => point'[p].tok # None) => Tokens'
           /\ \/ pc'[c] \in {"idle", "done"}
              \/ pc'[c] = pc[c] /\ loc'[c] = loc[c]
<1>1. c \in Call /\ DOMAIN at = Annotator /\ DOMAIN note = Annotator
  BY AnnotatorsRead DEF ClaimsInv, Shape
<1>2. at'[c] = stage /\ note'[c] = n
  BY <1>1 DEF Moves, To
<1>3. \A d \in Annotator \ {c} : at'[d] = at[d] /\ note'[d] = note[d]
  BY <1>1 DEF Moves, To
<1>4. DOMAIN at' = Annotator /\ DOMAIN note' = Annotator
  BY <1>1 DEF Moves, To
<1>5. DOMAIN pc = Call /\ DOMAIN loc = Call /\ DOMAIN reply = Call
  BY DEF ClaimsInv, Shape
<1>6. /\ DOMAIN pc' = Call /\ DOMAIN loc' = Call /\ DOMAIN reply' = Call
      /\ \A d \in Call \ {c} :
            pc'[d] = pc[d] /\ loc'[d] = loc[d] /\ reply'[d] = reply[d]
      /\ \/ pc'[c] \in {"idle", "done"}
         \/ pc'[c] = pc[c] /\ loc'[c] = loc[c]
  BY <1>1, <1>5 DEF Moves, Answer
<1>7. Alone(c)
  BY <1>3, <1>6 DEF Alone, Moves
<1>8. Claiming'
  BY <1>2, <1>3 DEF Claiming, Moves, ClaimsInv
<1>9. PointShape' => Shape'
  BY <1>2, <1>3, <1>4, <1>6
  DEF PointShape, Shape, Moves, NoteShape, ClaimsInv
<1>10. (\A p \in PointId : Noted(p)' => point'[p].tok # None) => Tokens'
  BY <1>2, <1>3 DEF Tokens, Moves, ClaimsInv
<1> QED
  BY <1>2, <1>6, <1>7, <1>8, <1>9, <1>10

\* A step that writes no point keeps the invariant if what the call owed before
\* it owes after.
LEMMA MoveKept ==
    ASSUME ClaimsInv, NEW c \in on \cap Annotator, NEW stage, NEW n,
           Moves(c, stage, n), UNCHANGED point,
           \A p \in PointId : Noted(p) /\ Live(p) /\ Owes(c, p) => Owes(c, p)'
    PROVE  Kept(c)
<1>1. Shape' /\ Tokens'
  BY MovesAlone DEF ClaimsInv, Shape, PointShape, Tokens, Noted
<1>2. Keeps(c)
  BY DEF Keeps, Noted, Live, Moves, Updates
<1> QED
  BY <1>1, <1>2, MovesAlone DEF Kept

\* A step that makes the head its claim, or keeps or gives up the one it has.
LEMMA WriteKept ==
    ASSUME ClaimsInv, NEW c \in on \cap Annotator, NEW stage, NEW n,
           Moves(c, stage, n), PointShape',
           \A p \in PointId :
              /\ point'[p].state = point[p].state
              /\ point'[p].kind # point[p].kind => point'[p].kind # "revise"
              /\ Noted(p)' => /\ point'[p].tok # None
                              /\ \/ Owes(c, p)'
                                 \/ Noted(p) /\ point'[p].tok = point[p].tok
                                             /\ ~Owes(c, p)
    PROVE  Kept(c)
BY MovesAlone DEF Kept, Keeps

----------------------------------------------------------------------------
(* One lemma for each kind of step.                                        *)

LEMMA NoteShapes ==
    ASSUME ClaimsInv, NEW c \in Annotator
    PROVE  NoteShape(note[c]) /\ NoteShape(NoNote)
BY DEF ClaimsInv, Shape, NoteShape, NoNote

\* The steps that make no claim and end none.
LEMMA PlainSteps ==
    ASSUME ClaimsInv, NEW c \in on \cap Annotator,
           \/ Pick(c) \/ StoreBlob(c) \/ Prepare(c) \/ ScanHistory(c)
           \/ References(c) \/ DropBlob(c)
           \/ TryAgain(c) /\ at'[c] # "retry"
           \/ Recovery(c) /\ pc[c] = "resolve_again"
    PROVE  Kept(c)
<1> USE NoteShapes DEF Headed
<1>1. \A p \in PointId : ~Owes(c, p)
  BY DEF Pick, StoreBlob, Prepare, ScanHistory, References, DropBlob, TryAgain,
         Recovery, Owes, Holding, Cleaning, Restoring, Broken
<1>2. CASE Pick(c)
  BY <1>1, <1>2, MoveKept DEF Pick, Moves, NoteShape, NoNote, vars
<1>3. CASE StoreBlob(c)
  BY <1>1, <1>3, MoveKept DEF StoreBlob, Again, To, Moves
<1>4. CASE Prepare(c)
  BY <1>1, <1>4, MoveKept DEF Prepare, Moves, ClaimsInv, Tokens
<1>5. CASE ScanHistory(c)
  BY <1>1, <1>5, MoveKept DEF ScanHistory, Moves, NoteShape, vars
<1>6. CASE References(c)
  BY <1>1, <1>6, MoveKept DEF References, Gives, Moves, NoteShape, vars
<1>7. CASE DropBlob(c)
  BY <1>1, <1>7, MoveKept DEF DropBlob, Gives, Moves, NoteShape, vars
<1>8. CASE TryAgain(c) /\ at'[c] # "retry"
  <2> DEFINE n == [NoNote EXCEPT !.cid = note[c].cid, !.tries = note[c].tries + 1]
  <2>1. NoteShape(n)
    BY DEF NoteShape, NoNote
  <2> HIDE DEF n
  <2>2. /\ UNCHANGED point /\ on' = on
        /\ \/ Again(c, "link", n)
           \/ To(c, "failed", note[c]) /\ UNCHANGED <<pc, loc, reply>>
    BY <1>8 DEF TryAgain, To, ClaimsInv, Shape, n
  <2>3. CASE Again(c, "link", n)
    BY <1>1, <2>1, <2>2, <2>3, MoveKept DEF Again, Moves
  <2>4. CASE To(c, "failed", note[c]) /\ UNCHANGED <<pc, loc, reply>>
    BY <1>1, <2>2, <2>4, MoveKept DEF Moves
  <2> QED
    BY <2>2, <2>3, <2>4
<1>9. CASE Recovery(c) /\ pc[c] = "resolve_again"
  BY <1>1, <1>9, MoveKept DEF Recovery, Again, Moves
<1> QED
  BY <1>2, <1>3, <1>4, <1>5, <1>6, <1>7, <1>8, <1>9

\* Where a call goes after its annotation it owes nothing.
LEMMA OverMoves ==
    ASSUME ClaimsInv, NEW c \in on \cap Annotator, Over(c, note[c]),
           on' = on, UNCHANGED <<pc, loc, reply>>
    PROVE  \E stage, n : Moves(c, stage, n)
<1> USE NoteShapes DEF Headed
<1>1. CASE TaskOf[c] = "delete"
  BY <1>1 DEF Over, Moves
<1>2. CASE TaskOf[c] # "delete"
  BY <1>2 DEF Over, Gives, Moves, NoteShape
<1> QED
  BY <1>1, <1>2

\* The steps under a claim that do not write to the head's claim.
LEMMA ClaimedSteps ==
    ASSUME ClaimsInv, NEW c \in on \cap Annotator,
           \/ ReadClaim(c) \/ WriteClaimed(c) \/ Verify(c) \/ Conclude(c)
           \/ ReadRelease(c)
    PROVE  Kept(c)
<1> USE NoteShapes, MoveKept
    DEF Owes, Holding, Cleaning, Restoring, Broken, To, vars, Headed
<1> c \in DOMAIN at /\ c \in DOMAIN note
  BY DEF ClaimsInv, Shape
<1>1. CASE ReadClaim(c)
  <2>1. CASE point[note[c].head].tok = note[c].tok
    <3>1. Moves(c, "claimed", note[c])
      BY <1>1, <2>1 DEF ReadClaim, Moves
    <3> QED
      BY <1>1, <2>1, <3>1 DEF ReadClaim
  <2>2. CASE point[note[c].head].tok # note[c].tok
    <3>1. Moves(c, "lost", note[c])
      BY <1>1, <2>2 DEF ReadClaim, Moves, ClaimsInv, Tokens
    <3> QED
      BY <1>1, <2>2, <3>1 DEF ReadClaim
  <2> QED
    BY <2>1, <2>2
<1>2. CASE WriteClaimed(c)
  <2> DEFINE n == [note[c] EXCEPT !.claims = TRUE]
  <2>1. Moves(c, "write", n)
    BY <1>2 DEF WriteClaimed, Moves, NoteShape
  <2> QED
    BY <1>2, <2>1 DEF WriteClaimed, NoteShape
<1>3. CASE Verify(c)
  <2>1. CASE point[note[c].head].tok = note[c].tok
    <3>1. Moves(c, "commit", note[c]) /\ note[c].claims
      BY <1>3, <2>1 DEF Verify, Moves, ClaimsInv, Claiming
    <3> QED
      BY <1>3, <2>1, <3>1 DEF Verify
  <2>2. CASE point[note[c].head].tok # note[c].tok
    <3> DEFINE n == [note[c] EXCEPT !.status = "failed"]
    <3>1. Moves(c, "found", n)
      BY <1>3, <2>2 DEF Verify, Moves, Gives, NoteShape
    <3> QED
      BY <1>3, <2>2, <3>1 DEF Verify
  <2> QED
    BY <2>1, <2>2
<1>4. CASE Conclude(c)
  <2>1. CASE note[c].claims
    <3>1. Moves(c, "release", note[c])
      BY <1>4, <2>1 DEF Conclude, Moves
    <3> QED
      BY <1>4, <2>1, <3>1 DEF Conclude
  <2>2. CASE ~note[c].claims
    <3>1. PICK stage, n : Moves(c, stage, n)
      BY <1>4, <2>2, OverMoves DEF Conclude
    <3> QED
      BY <1>4, <2>2, <3>1 DEF Conclude
  <2> QED
    BY <2>1, <2>2
<1>5. CASE ReadRelease(c)
  <2>1. CASE point[note[c].head].tok = note[c].tok
    <3>1. Moves(c, "free", note[c])
      BY <1>5, <2>1 DEF ReadRelease, Moves
    <3> QED
      BY <1>5, <2>1, <3>1 DEF ReadRelease
  <2>2. CASE point[note[c].head].tok # note[c].tok
    <3>1. PICK stage, n : Moves(c, stage, n)
      BY <1>5, <2>2, OverMoves DEF ReadRelease
    <3> QED
      BY <1>5, <2>2, <3>1 DEF ReadRelease
  <2> QED
    BY <2>1, <2>2
<1> QED
  BY <1>1, <1>2, <1>3, <1>4, <1>5

\* The writes of an annotation.
LEMMA WritingSteps ==
    ASSUME ClaimsInv, NEW c \in on \cap Annotator,
           \/ ClaimHead(c) \/ Annotate(c) \/ ReleaseClaim(c)
           \/ Strike(c)
    PROVE  Kept(c)
<1> USE NoteShapes, WriteKept, Kinds, AnnotatorsRead DEF Headed
<1>0. PointShape
  BY DEF ClaimsInv, Shape, PointShape
<1>1. CASE ClaimHead(c)
  <2>1. Moves(c, "readback", note[c]) /\ note[c].tok # None
    BY <1>1 DEF ClaimHead, Moves, To, ClaimsInv, Tokens
  <2>2. at'[c] = "readback" /\ note'[c] = note[c]
    BY <2>1, MovesAlone
  <2>3. \A p \in PointId : ~Owes(c, p)
    BY <1>1 DEF ClaimHead, Owes, Holding, Cleaning, Restoring, Broken
  <2>4. CASE point' = point
    BY <1>0, <2>1, <2>3, <2>4 DEF PointShape, Noted, ClaimsInv, Tokens
  <2>5. CASE point' # point
    <3>1. point' = [point EXCEPT ![note[c].head].tok = note[c].tok,
                                 ![note[c].head].kind = TaskOf[c]]
      BY <1>1, <2>5 DEF ClaimHead
    <3>2. /\ PointShape'
          /\ \A p \in PointId :
                /\ point'[p].state = point[p].state
                /\ p # note[c].head => point'[p] = point[p]
                /\ p = note[c].head => /\ point'[p].tok = note[c].tok
                                       /\ point'[p].kind = TaskOf[c]
      BY <1>0, <3>1 DEF PointShape
    <3>4. TaskOf[c] # "revise"
      BY DEF Task
    <3>3. \A p \in PointId : p = note[c].head => Owes(c, p)'
      BY <2>2, <3>2 DEF Owes, Holding
    <3> QED
      BY <2>1, <2>3, <3>2, <3>3, <3>4 DEF Noted, ClaimsInv, Tokens
  <2> QED
    BY <2>4, <2>5
<1>2. CASE Annotate(c)
  <2>1. note[c].claims
    BY <1>2 DEF Annotate, ClaimsInv, Claiming
  <2> DEFINE s == IF TaskOf[c] = "confirm" THEN "verify" ELSE "commit"
  <2>2. Moves(c, s, note[c])
    BY <1>2, <2>1 DEF Annotate, Moves
  <2>3. at'[c] \in {"verify", "commit"} /\ note'[c] = note[c]
    BY <2>2, MovesAlone
  <2>4. /\ PointShape'
        /\ \A p \in PointId : /\ point'[p].state = point[p].state
                              /\ point'[p].tok = point[p].tok
                              /\ point'[p].kind = point[p].kind
    BY <1>0, <1>2 DEF Annotate, PointShape
  <2>5. \A p \in PointId : Owes(c, p) => Owes(c, p)'
    BY <1>2, <2>1, <2>3, <2>4
    DEF Annotate, Owes, Holding, Cleaning, Restoring, Broken
  <2> QED
    BY <2>2, <2>4, <2>5 DEF Noted, ClaimsInv, Tokens
<1>3. CASE ReleaseClaim(c)
  <2>1. PICK stage, n : Moves(c, stage, n)
    BY <1>3, OverMoves DEF ReleaseClaim
  <2>2. point' = [point EXCEPT ![note[c].head].tok = None,
                               ![note[c].head].kind = None]
    BY <1>3 DEF ReleaseClaim
  <2>3. /\ PointShape'
        /\ \A p \in PointId :
              /\ point'[p].state = point[p].state
              /\ p # note[c].head => point'[p] = point[p]
              /\ p = note[c].head => point'[p].kind = None
    BY <1>0, <2>2 DEF PointShape
  <2>4. \A p \in PointId : p # note[c].head => ~Owes(c, p)
    BY <1>3 DEF ReleaseClaim, Owes, Holding, Cleaning, Restoring, Broken
  <2> QED
    BY <2>1, <2>3, <2>4 DEF Noted, ClaimsInv, Tokens
<1>4. CASE Strike(c)
  <2>1. PICK x \in note[c].lists :
          /\ point' = [point EXCEPT ![x.id].arts = x.arts \ {ArtifactOf[c]}]
          /\ To(c, "strike", [note[c] EXCEPT !.lists = note[c].lists \ {x}])
    BY <1>4 DEF Strike
  <2>2. Moves(c, "strike", [note[c] EXCEPT !.lists = note[c].lists \ {x}])
    BY <1>4, <2>1 DEF Strike, Moves, NoteShape
  <2>3. /\ PointShape'
        /\ \A p \in PointId : /\ point'[p].state = point[p].state
                              /\ point'[p].tok = point[p].tok
                              /\ point'[p].kind = point[p].kind
    BY <1>0, <2>1 DEF PointShape
  <2>4. \A p \in PointId : ~Owes(c, p)
    BY <1>4 DEF Strike, Owes, Holding, Cleaning, Restoring, Broken
  <2> QED
    BY <2>2, <2>3, <2>4 DEF Noted, ClaimsInv, Tokens
<1> QED
  BY <1>1, <1>2, <1>3, <1>4

\* Failures, what follows them, and the answer.
LEMMA EndingSteps ==
    ASSUME ClaimsInv, NEW c \in on \cap Annotator,
           Fault(c) \/ Failed(c) \/ Discard(c) \/ Finish(c)
    PROVE  Kept(c)
<1> USE NoteShapes, MoveKept, AnnotatorsRead DEF Headed
<1> c \in DOMAIN at /\ c \in DOMAIN note /\ c \in DOMAIN pc /\ c \in DOMAIN reply
  BY DEF ClaimsInv, Shape
<1>1. CASE Fault(c)
  <2>1. Moves(c, "failed", note[c])
    BY <1>1 DEF Fault, Moves, vars
  <2>2. at'[c] = "failed" /\ note'[c] = note[c]
    BY <2>1, MovesAlone
  <2> QED
    BY <1>1, <2>1, <2>2
    DEF Fault, vars, Owes, Broken, Holding, Cleaning, Restoring
<1>2. CASE Failed(c)
  <2>1. CASE TaskOf[c] = "save"
    <3>1. Moves(c, "cleanup", note[c]) /\ pc'[c] = "idle"
      BY <1>2, <2>1 DEF Failed, Again, Moves, To
    <3>2. at'[c] = "cleanup" /\ note'[c] = note[c]
      BY <3>1, MovesAlone
    <3> QED
      BY <1>2, <2>1, <3>1, <3>2
      DEF Failed, Owes, Broken, Holding, Cleaning, Restoring
  <2>2. CASE TaskOf[c] # "save"
    <3> DEFINE n == [note[c] EXCEPT !.status = "failed"]
    <3>1. Moves(c, "found", n)
      BY <1>2, <2>2 DEF Failed, Gives, Moves, NoteShape
    <3>2. at'[c] = "found" /\ note'[c].status = "failed"
      BY <3>1, MovesAlone DEF NoteShape
    <3> QED
      BY <1>2, <3>1, <3>2 DEF Failed, Owes, Broken
  <2> QED
    BY <2>1, <2>2
<1>3. CASE Discard(c)
  <2> DEFINE n == [note[c] EXCEPT !.status = "failed"]
  <2>1. Moves(c, "found", n)
    BY <1>3 DEF Discard, Gives, Moves, NoteShape, vars
  <2>2. at'[c] = "found" /\ note'[c].status = "failed"
    BY <2>1, MovesAlone DEF NoteShape
  <2> QED
    BY <1>3, <2>1, <2>2 DEF Discard, vars, Owes, Broken
<1>4. CASE Finish(c)
  <2>1. Moves(c, "done", NoNote) /\ reply'[c].status = note[c].status
    BY <1>4 DEF Finish, Answer, To, Moves
  <2>2. at'[c] = "done"
    BY <2>1, MovesAlone
  <2>3. \A p \in PointId : Owes(c, p) => Broken(c)'
    BY <1>4, <2>1, <2>2
    DEF Finish, Owes, Broken, Holding, Cleaning, Restoring
  <2> QED
    BY <1>4, <2>1, <2>3 DEF Finish, Owes
<1> QED
  BY <1>1, <1>2, <1>3, <1>4

----------------------------------------------------------------------------
(* How a call resolves the head: the steps of RevisionLineage and recovery. *)

OnlyCall(c) ==
    /\ CallShape'
    /\ \A d \in Call \ {c} :
          pc'[d] = pc[d] /\ loc'[d] = loc[d] /\ reply'[d] = reply[d]

LEMMA GotoOnly ==
    ASSUME CallShape, NEW c \in Call, NEW w, NEW m, Goto(c, w, m)
    PROVE  OnlyCall(c) /\ pc'[c] = w /\ loc'[c] = m /\ reply' = reply
BY DEF CallShape, OnlyCall, Goto

LEMMA AnswerOnly ==
    ASSUME CallShape, NEW c \in Call, NEW status, NEW id, Answer(c, status, id)
    PROVE  /\ OnlyCall(c) /\ pc'[c] = "done" /\ CallOne(c)'
           /\ reply'[c] = [status |-> status, id |-> id]
BY DEF CallShape, OnlyCall, Answer, CallOne

\* What a call that does not update keeps while it resolves.
Stays(c, l) == KindOf[c] \notin {"revise", "source"} /\ LocalOne(l) => CallOne(c)'

LEMMA StartOnly ==
    ASSUME CallShape, NEW c \in Call, NEW l, Start(c, l)
    PROVE  OnlyCall(c) /\ Stays(c, l)
<1> DEFINE m == [l EXCEPT !.tok = TokenOf[c][l.cur]]
<1>1. LocalOne(l) => LocalOne(m)
  BY DEF LocalOne, LocalShape
<1>2. CASE \E status, id : Answer(c, status, id)
  BY <1>2, AnswerOnly DEF Stays
<1>3. CASE Goto(c, "plan", m)
  BY <1>1, <1>3, GotoOnly DEF Stays, CallOne
<1>4. CASE KindOf[c] \notin {"read", "retract"} /\ Goto(c, "upsert", m)
  BY <1>4, GotoOnly, Kinds DEF Stays, Kind
<1> QED
  BY <1>2, <1>3, <1>4 DEF Start

LEMMA ReplayOnly ==
    ASSUME CallShape, NEW c \in Call, NEW l, NEW key, NEW t, Replay(c, l, key, t)
    PROVE  OnlyCall(c) /\ Stays(c, l)
<1>1. PICK p \in Answering(c, key, t) :
        \/ Answer(c, "idempotency_conflict", None)
        \/ Tells(c, journal[t].result)
        \/ Goto(c, IF /\ point[p].state = "active"
                      /\ point[point[p].sup].tok = t
                   THEN "finish_predecessor" ELSE "finish_journal",
                [l EXCEPT !.cur = p, !.pay = point[p], !.tok = t])
  BY DEF Replay
<1> DEFINE m == [l EXCEPT !.cur = p, !.pay = point[p], !.tok = t]
<1>2. LocalOne(l) => LocalOne(m)
  BY DEF LocalOne, LocalShape
<1>3. CASE \E status, id : Answer(c, status, id)
  BY <1>3, AnswerOnly DEF Stays
<1>4. CASE \E w \in {"finish_predecessor", "finish_journal"} : Goto(c, w, m)
  BY <1>2, <1>4, GotoOnly DEF Stays, CallOne
<1> QED
  BY <1>1, <1>3, <1>4 DEF Tells

LEMMA SettleOnly ==
    ASSUME CallShape, NEW c \in Call, NEW l, Settle(c, l)
    PROVE  OnlyCall(c) /\ Stays(c, l)
BY StartOnly, ReplayOnly DEF Settle

LEMMA ExamineOnly ==
    ASSUME CallShape, NEW c \in Call, NEW l, Examine(c, l)
    PROVE  OnlyCall(c) /\ Stays(c, l)
<1> DEFINE claimed == {t \in l.left : point[point[t].sup].tok # None}
<1>1. CASE claimed = {}
  <2>1. LocalOne(l) => LocalOne([l EXCEPT !.left = {}])
    BY DEF LocalOne, LocalShape
  <2> QED
    BY <1>1, <2>1, SettleOnly DEF Examine, Stays
<1>2. CASE claimed # {}
  <2>1. PICK t \in claimed :
          LET from == point[t].sup IN
          Goto(c, "recover",
               [l EXCEPT !.from = from, !.mine = point[from].tok,
                         !.kind = point[from].kind, !.cand = t,
                         !.left = l.left \ {t}])
    BY <1>2 DEF Examine
  <2>2. ~LocalOne(l)
    BY <1>2 DEF LocalOne
  <2> QED
    BY <2>1, <2>2, GotoOnly DEF Stays
<1> QED
  BY <1>1, <1>2

\* The head it resolves is a revision.
LEMMA HeadsArePoints ==
    ASSUME NEW m \in PointId, NEW h \in Heads(m)
    PROVE  h \in PointId /\ (Active # {} => h \in Active)
BY DEF Heads, Active

LEMMA SnapshotLocal ==
    ASSUME NEW l, NEW h, LocalShape(l)
    PROVE  /\ LocalShape(Snapshot(l, h))
           /\ Snapshot(l, h).cur = h /\ Snapshot(l, h).pay = point[h]
           /\ Snapshot(l, h).mem = l.mem /\ Snapshot(l, h).left = l.left
           /\ Snapshot(l, h).kind = l.kind /\ Snapshot(l, h).cand = l.cand
BY DEF Snapshot, LocalShape

LEMMA FreshLocal ==
    ASSUME NEW m \in PointId
    PROVE  /\ LocalOne([NoLocal EXCEPT !.mem = m])
           /\ [NoLocal EXCEPT !.mem = m].mem = m
           /\ [NoLocal EXCEPT !.mem = m].left = {}
           /\ [NoLocal EXCEPT !.mem = m].cand = None
BY AnnotationAssumption DEF NoLocal, LocalOne, LocalShape, ClaimKind

OnePoints ==
    \A p \in PointId : /\ point[p].state # "pending"
                       /\ point[p].state = "active" => p = Root
                       /\ point[p].kind # "revise"

LEMMA BeginOnly ==
    ASSUME CallShape, NEW c \in Call, Begin(c)
    PROVE  /\ OnlyCall(c)
           /\ OnePoints /\ KindOf[c] # "revise" => CallOne(c)'
<1>1. PICK m \in Known : \E h \in Heads(m) :
         LET l == Snapshot([NoLocal EXCEPT !.mem = m], h) IN
         IF l.pay.tok # None THEN RecoverHead(c, l)
         ELSE IF KindOf[c] = "revise"
              THEN Examine(c, [l EXCEPT !.left = Repeats(c)])
              ELSE Settle(c, l)
  BY DEF Begin
<1> DEFINE l(h) == Snapshot([NoLocal EXCEPT !.mem = m], h)
<1>2. PICK h \in Heads(m) :
         IF l(h).pay.tok # None THEN RecoverHead(c, l(h))
         ELSE IF KindOf[c] = "revise"
              THEN Examine(c, [l(h) EXCEPT !.left = Repeats(c)])
              ELSE Settle(c, l(h))
  BY <1>1
<1>3. h \in PointId /\ m \in PointId
  BY HeadsArePoints DEF Known
<1>4. LocalOne(l(h)) /\ l(h).pay = point[h]
  <2> DEFINE fresh == [NoLocal EXCEPT !.mem = m]
  <2>1. LocalOne(fresh)
    BY <1>3, FreshLocal
  <2> HIDE DEF fresh
  <2>2. /\ LocalShape(Snapshot(fresh, h)) /\ Snapshot(fresh, h).pay = point[h]
        /\ Snapshot(fresh, h).mem = fresh.mem
        /\ Snapshot(fresh, h).left = fresh.left
        /\ Snapshot(fresh, h).kind = fresh.kind
    BY <2>1, SnapshotLocal DEF LocalOne
  <2>3. LocalOne(Snapshot(fresh, h))
    BY <2>1, <2>2 DEF LocalOne
  <2> QED
    BY <2>2, <2>3 DEF fresh
<1> HIDE DEF l
<1>5. CASE RecoverHead(c, l(h))
  <2>1. PICK t : Goto(c, "recover",
             [l(h) EXCEPT !.from = l(h).cur, !.mine = l(h).pay.tok,
                       !.kind = l(h).pay.kind, !.cand = t])
    BY <1>5 DEF RecoverHead
  <2>2. OnePoints => LocalOne([l(h) EXCEPT !.from = l(h).cur,
                       !.mine = l(h).pay.tok, !.kind = l(h).pay.kind, !.cand = t])
    BY <1>3, <1>4 DEF OnePoints, LocalOne, LocalShape
  <2>3. KindOf[c] # "source"
    BY DEF Begin
  <2> QED
    BY <2>1, <2>2, <2>3, GotoOnly DEF CallOne
<1>6. CASE Settle(c, l(h))
  <2>1. KindOf[c] # "source"
    BY DEF Begin
  <2> QED
    BY <1>4, <1>6, <2>1, SettleOnly DEF Stays
<1>7. CASE KindOf[c] = "revise" /\ Examine(c, [l(h) EXCEPT !.left = Repeats(c)])
  BY <1>7, ExamineOnly
<1> QED
  BY <1>2, <1>5, <1>6, <1>7

LEMMA ResolveAgainOnly ==
    ASSUME CallShape, NEW c \in Call, ResolveAgain(c)
    PROVE  /\ OnlyCall(c)
           /\ CallOne(c) /\ KindOf[c] # "revise" => CallOne(c)'
<1>1. pc[c] = "resolve_again"
  BY DEF ResolveAgain
<1> DEFINE l(h) == [Snapshot(loc[c], h) EXCEPT !.from = None, !.mine = None,
                                              !.kind = None, !.cand = None]
<1>2. PICK h \in Heads(loc[c].mem) :
        \/ Replay(c, [l(h) EXCEPT !.left = {}], TokenKey[loc[c].cand], loc[c].mine)
        \/ Examine(c, l(h))
  BY DEF ResolveAgain
<1>3. LocalOne(loc[c]) => LocalOne(l(h)) /\ LocalOne([l(h) EXCEPT !.left = {}])
  <2> SUFFICES ASSUME LocalOne(loc[c])
               PROVE  LocalOne(l(h)) /\ LocalOne([l(h) EXCEPT !.left = {}])
    OBVIOUS
  <2> DEFINE s == Snapshot(loc[c], h)
  <2>1. LocalShape(s) /\ s.mem = loc[c].mem /\ s.left = loc[c].left
    BY SnapshotLocal DEF LocalOne
  <2> HIDE DEF s
  <2>2. None # "revise"
    BY Kinds
  <2> QED
    BY <2>1, <2>2 DEF LocalOne, LocalShape, s
<1> HIDE DEF l
<1> QED
  BY <1>1, <1>2, <1>3, ReplayOnly, ExamineOnly DEF Stays, CallOne

\* A step that stays on its path takes its local fields along.
LEMMA PathOnly ==
    ASSUME CallShape, NEW c \in Call, pc[c] \notin {"idle", "done"}, NEW w,
           Goto(c, w, loc[c]), w \notin {"upsert", "activate", "recover_active"}
    PROVE  /\ OnlyCall(c)
           /\ CallOne(c) => CallOne(c)'
BY GotoOnly DEF CallOne

LEMMA StepOnly ==
    ASSUME CallShape, NEW c \in Call, Step(c),
           pc[c] = "recover" => loc[c].kind \in ClaimKind
    PROVE  /\ OnlyCall(c)
           /\ CallOne(c) /\ KindOf[c] # "revise" => CallOne(c)'
<1> USE GotoOnly, AnswerOnly, PathOnly
<1>1. CASE Recover(c)
  BY <1>1 DEF Recover, CallOne, LocalOne, ClaimKind
<1>2. CASE ResolveAgain(c)
  BY <1>2, ResolveAgainOnly
<1>3. CASE \/ RecoverActive(c) \/ RecoverSuperseded(c)
           \/ RecoverRetracted(c) \/ RecoverCommit(c)
  BY <1>3 DEF RecoverActive, RecoverSuperseded, RecoverRetracted, RecoverCommit
<1>4. CASE FinishPredecessor(c) \/ FinishJournal(c)
  BY <1>4 DEF FinishPredecessor, FinishJournal, Tells
<1>5. CASE Upsert(c) \/ Plan(c) \/ Claim(c)
  BY <1>5 DEF Upsert, Plan, Claim
<1>6. CASE Readback(c)
  BY <1>6 DEF Readback
<1>7. CASE \/ Abort(c) \/ Conflict(c) \/ Activate(c) \/ NoteActivated(c)
           \/ Supersede(c) \/ NoteClaimed(c)
  BY <1>7
  DEF Abort, Conflict, Activate, NoteActivated, Supersede, NoteClaimed
<1>8. CASE Withdraw(c) \/ Commit(c) \/ SetSource(c) \/ CheckSource(c)
  BY <1>8 DEF Withdraw, Commit, SetSource, CheckSource, Tells
<1> QED
  BY <1>1, <1>2, <1>3, <1>4, <1>5, <1>6, <1>7, <1>8 DEF Step

LEMMA RecoverOnly ==
    ASSUME CallShape, NEW c \in Call, RecoverAnnotation(c)
    PROVE  OnlyCall(c) /\ (CallOne(c) => CallOne(c)')
<1> USE GotoOnly, AnswerOnly, PathOnly
<1>1. CASE RecoverNote(c)
  BY <1>1 DEF RecoverNote
<1>2. CASE RecoverWrite(c)
  BY <1>2 DEF RecoverWrite
<1>3. CASE RecoverCheck(c)
  BY <1>3 DEF RecoverCheck
<1>4. CASE RecoverNoted(c) \/ RecoverRelease(c) \/ RecoverFree(c)
  BY <1>4 DEF RecoverNoted, RecoverRelease, RecoverFree
<1> QED
  BY <1>1, <1>2, <1>3, <1>4 DEF RecoverAnnotation

\* Without an update no revision becomes active.
LEMMA StepPoints ==
    ASSUME PointShape, NEW c \in Call, OnePoints, KindOf[c] # "revise",
           Step(c) \/ RecoverAnnotation(c),
           pc[c] \notin {"upsert", "activate", "recover_active"}
    PROVE  /\ OnePoints'
           /\ \A p \in PointId : point'[p].state = "active" => point[p].state = "active"
<1> USE Kinds DEF PointShape, OnePoints
<1>1. CASE point' = point
  BY <1>1
<1>2. CASE RecoverSuperseded(c)
  BY <1>2 DEF RecoverSuperseded
<1>3. CASE RecoverRetracted(c)
  BY <1>3 DEF RecoverRetracted
<1>4. CASE FinishPredecessor(c)
  BY <1>4 DEF FinishPredecessor
<1>5. CASE Claim(c)
  BY <1>5 DEF Claim
<1>6. CASE Abort(c)
  BY <1>6 DEF Abort
<1>7. CASE Supersede(c)
  BY <1>7 DEF Supersede
<1>8. CASE Withdraw(c)
  BY <1>8 DEF Withdraw
<1>9. CASE SetSource(c)
  BY <1>9 DEF SetSource
<1>10. CASE RecoverWrite(c)
  BY <1>10 DEF RecoverWrite
<1>11. CASE RecoverFree(c)
  BY <1>11 DEF RecoverFree
<1> QED
  BY <1>1, <1>2, <1>3, <1>4, <1>5, <1>6, <1>7, <1>8, <1>9, <1>10, <1>11
  DEF Step, Recover, RecoverActive, RecoverCommit, ResolveAgain, FinishJournal,
      Upsert, Plan, Readback, Activate, Conflict, NoteActivated, NoteClaimed,
      Commit, CheckSource, RecoverAnnotation, RecoverNote, RecoverCheck,
      RecoverNoted, RecoverRelease

----------------------------------------------------------------------------
(* The resolution of a call that annotates: it reads.                      *)

Resolved(c) ==
    \/ /\ pc[c] = "done"
       /\ reply[c].status # "incomplete" => reply[c].id \in PointId
    \/ /\ pc[c] \in Resolving /\ LocalShape(loc[c]) /\ loc[c].mem \in PointId
       /\ loc[c].cand = None /\ loc[c].left = {}

LEMMA ReaderSettles ==
    ASSUME CallShape, NEW c \in Annotator, NEW l, l.cur \in PointId, Settle(c, l)
    PROVE  Resolved(c)'
<1>1. PICK status : Answer(c, status, l.cur)
  BY AnnotatorsRead DEF Settle, Start
<1>2. pc'[c] = "done" /\ reply'[c] = [status |-> status, id |-> l.cur]
  BY <1>1, AnnotatorsRead, AnswerOnly
<1> QED
  BY <1>2 DEF Resolved

LEMMA ReaderBegins ==
    ASSUME CallShape, NEW c \in Annotator, Begin(c)
    PROVE  Resolved(c)'
<1> c \in Call /\ KindOf[c] = "read"
  BY AnnotatorsRead
<1>1. PICK m \in Known : \E h \in Heads(m) :
         LET l == Snapshot([NoLocal EXCEPT !.mem = m], h) IN
         IF l.pay.tok # None THEN RecoverHead(c, l) ELSE Settle(c, l)
  BY DEF Begin
<1> DEFINE l(h) == Snapshot([NoLocal EXCEPT !.mem = m], h)
<1>2. PICK h \in Heads(m) :
         IF l(h).pay.tok # None THEN RecoverHead(c, l(h)) ELSE Settle(c, l(h))
  BY <1>1
<1>3. h \in PointId /\ m \in PointId
  BY HeadsArePoints DEF Known
<1>4. /\ LocalShape(l(h)) /\ l(h).mem = m /\ l(h).cur = h
      /\ l(h).left = {} /\ l(h).cand = None
  BY <1>3 DEF Snapshot, NoLocal, LocalShape
<1> HIDE DEF l
<1>5. CASE RecoverHead(c, l(h))
  <2> DEFINE n == [l(h) EXCEPT !.from = l(h).cur, !.mine = l(h).pay.tok,
                               !.kind = l(h).pay.kind, !.cand = None]
  <2>1. Goto(c, "recover", n)
    BY <1>5 DEF RecoverHead
  <2>2. LocalShape(n) /\ n.mem = m /\ n.left = {} /\ n.cand = None
    BY <1>4 DEF LocalShape
  <2> HIDE DEF n
  <2>3. pc'[c] = "recover" /\ loc'[c] = n
    BY <2>1, GotoOnly
  <2> QED
    BY <1>3, <2>2, <2>3 DEF Resolved, Resolving, RecoversNote
<1>6. CASE Settle(c, l(h))
  BY <1>3, <1>4, <1>6, ReaderSettles
<1> QED
  BY <1>2, <1>5, <1>6

LEMMA ReaderResolves ==
    ASSUME CallShape, NEW c \in Annotator, ResolveAgain(c), Resolved(c)
    PROVE  Resolved(c)'
<1>1. /\ LocalShape(loc[c]) /\ loc[c].mem \in PointId
      /\ loc[c].cand = None /\ loc[c].left = {}
  BY DEF ResolveAgain, Resolved
<1> DEFINE l(h) == [Snapshot(loc[c], h) EXCEPT !.from = None, !.mine = None,
                                              !.kind = None, !.cand = None]
<1>2. PICK h \in Heads(loc[c].mem) : Examine(c, l(h))
  BY <1>1 DEF ResolveAgain
<1>3. h \in PointId
  BY <1>1, HeadsArePoints
<1> DEFINE n == [l(h) EXCEPT !.left = {}]
<1>4. l(h).left = {} /\ n.cur = h
  BY <1>1 DEF Snapshot, LocalShape
<1>5. Settle(c, n)
  <2> HIDE DEF l
  <2> QED
    BY <1>2, <1>4 DEF Examine
<1> HIDE DEF n
<1> QED
  BY <1>3, <1>4, <1>5, ReaderSettles

LEMMA ReaderSteps ==
    ASSUME ClaimsInv, NEW c \in Annotator, Revision(c) \/ RecoverAnnotation(c)
    PROVE  Resolved(c)'
<1>1. c \in Call /\ CallShape
  BY AnnotatorsRead DEF ClaimsInv, Shape, CallShape
<1>2. CASE Begin(c)
  BY <1>1, <1>2, ReaderBegins
<1> SUFFICES ASSUME Step(c) \/ RecoverAnnotation(c)
             PROVE  Resolved(c)'
  BY <1>2 DEF Revision
<1>3. /\ pc[c] \in Resolving /\ LocalShape(loc[c]) /\ loc[c].mem \in PointId
      /\ loc[c].cand = None /\ loc[c].left = {}
  <2>1. pc[c] \notin {"idle", "done"}
    BY DEF Step, Recover, RecoverActive, RecoverSuperseded, RecoverRetracted,
           RecoverCommit, ResolveAgain, FinishPredecessor, FinishJournal, Upsert,
           Plan, Claim, Readback, Abort, Conflict, Activate, NoteActivated,
           Supersede, NoteClaimed, Withdraw, Commit, SetSource, CheckSource,
           RecoverAnnotation, RecoverNote, RecoverWrite, RecoverCheck,
           RecoverNoted, RecoverRelease, RecoverFree
  <2> QED
    BY <2>1 DEF ClaimsInv, Resolutions
<1>4. Resolved(c)
  BY <1>3 DEF Resolved
<1>5. CASE ResolveAgain(c)
  BY <1>1, <1>4, <1>5, ReaderResolves
<1>6. \/ \E w \in Resolving : Goto(c, w, loc[c])
      \/ \E id : Answer(c, "incomplete", id)
      \/ ResolveAgain(c)
  <2>1. CASE Step(c)
    BY <1>3, <2>1
    DEF Resolving, RecoversNote, Step, Recover, RecoverActive, RecoverSuperseded,
        RecoverRetracted, RecoverCommit, FinishPredecessor, FinishJournal, Upsert,
        Plan, Claim, Readback, Abort, Conflict, Activate, NoteActivated,
        Supersede, NoteClaimed, Withdraw, Commit, SetSource, CheckSource
  <2>2. CASE RecoverAnnotation(c)
    BY <2>2
    DEF Resolving, RecoversNote, RecoverAnnotation, RecoverNote, RecoverWrite,
        RecoverCheck, RecoverNoted, RecoverRelease, RecoverFree
  <2> QED
    BY <2>1, <2>2
<1>7. CASE \E w \in Resolving : Goto(c, w, loc[c])
  <2>1. pc'[c] \in Resolving /\ loc'[c] = loc[c]
    BY <1>1, <1>7, GotoOnly
  <2> QED
    BY <1>3, <2>1 DEF Resolved
<1>8. CASE \E id : Answer(c, "incomplete", id)
  <2>1. pc'[c] = "done" /\ reply'[c].status = "incomplete"
    BY <1>1, <1>8 DEF Answer, CallShape
  <2> QED
    BY <2>1 DEF Resolved
<1> QED
  BY <1>5, <1>6, <1>7, <1>8

\* A call that cleans up after itself recovers the claim it left, and releases
\* it or fails.
LEMMA Restored ==
    ASSUME ClaimsInv, FaultySavesRunWithoutUpdates, NEW c \in on \cap Annotator,
           Revision(c) \/ RecoverAnnotation(c), at[c] = "cleanup",
           NEW p \in PointId, Noted(p), Live(p), Owes(c, p), Noted(p)'
    PROVE  \/ /\ pc'[c] \in RecoversNote /\ loc'[c].kind \in Task
              /\ loc'[c].from = p /\ loc'[c].mine = point[p].tok
           \/ pc'[c] = "done" /\ reply'[c].status # "read"
<1>1. c \in Call /\ CallShape /\ KindOf[c] = "read" /\ PointShape
  BY AnnotatorsRead DEF ClaimsInv, Shape, CallShape, PointShape
<1>2. CASE pc[c] = "idle"
  <2>1. c \in Faulty /\ TaskOf[c] = "save"
    BY <1>2 DEF Owes, Broken, Holding, Cleaning, Restoring, RecoversNote
  <2>2. ~Updates
    BY <2>1 DEF FaultySavesRunWithoutUpdates, Updates, ClaimsInv
  <2>3. p \in Active /\ p = Root /\ Active \subseteq {Root}
    BY <2>2 DEF Live, ClaimsInv, OneRevision, Active
  <2>4. Begin(c)
    BY <1>2 DEF Revision, Step, Recover, RecoverActive, RecoverSuperseded,
           RecoverRetracted, RecoverCommit, ResolveAgain, FinishPredecessor,
           FinishJournal, Upsert, Plan, Claim, Readback, Abort, Conflict,
           Activate, NoteActivated, Supersede, NoteClaimed, Withdraw, Commit,
           SetSource, CheckSource, RecoverAnnotation, RecoverNote, RecoverWrite,
           RecoverCheck, RecoverNoted, RecoverRelease, RecoverFree
  <2>5. PICK m \in Known : \E h \in Heads(m) :
           LET l == Snapshot([NoLocal EXCEPT !.mem = m], h) IN
           IF l.pay.tok # None THEN RecoverHead(c, l) ELSE Settle(c, l)
    BY <1>1, <2>4 DEF Begin
  <2> DEFINE l == Snapshot([NoLocal EXCEPT !.mem = m], p)
  <2>6. \A h \in Heads(m) : h = p
    BY <2>3, HeadsArePoints DEF Known
  <2>7. IF l.pay.tok # None THEN RecoverHead(c, l) ELSE Settle(c, l)
    BY <2>5, <2>6
  <2>8. LocalShape(l) /\ l.cur = p /\ l.pay = point[p]
    BY DEF Snapshot, NoLocal, LocalShape
  <2>9. point[p].tok # None
    BY DEF ClaimsInv, Tokens
  <2> HIDE DEF l
  <2> DEFINE n == [l EXCEPT !.from = l.cur, !.mine = l.pay.tok,
                            !.kind = l.pay.kind, !.cand = None]
  <2>10. Goto(c, "recover", n)
    BY <1>1, <2>7, <2>8, <2>9 DEF RecoverHead
  <2>11. n.from = p /\ n.mine = point[p].tok /\ n.kind \in Task
    BY <2>8 DEF LocalShape, Noted
  <2> QED
    BY <1>1, <2>10, <2>11, GotoOnly DEF RecoversNote
<1>3. CASE pc[c] # "idle"
  <2>1. /\ pc[c] \in RecoversNote /\ loc[c].kind \in Task
        /\ loc[c].from = p /\ loc[c].mine = point[p].tok
    BY <1>3 DEF Owes, Broken, Holding, Cleaning, Restoring
  <2>2. RecoverAnnotation(c)
    BY <2>1 DEF RecoversNote, Task, ClaimKind, Revision, Begin, Step, Recover,
           RecoverActive, RecoverSuperseded,
           RecoverRetracted, RecoverCommit, ResolveAgain, FinishPredecessor,
           FinishJournal, Upsert, Plan, Claim, Readback, Abort, Conflict,
           Activate, NoteActivated, Supersede, NoteClaimed, Withdraw, Commit,
           SetSource, CheckSource
  <2>3. ~RecoverFree(c)
    <3> SUFFICES ASSUME RecoverFree(c) PROVE FALSE
      OBVIOUS
    <3>1. point'[p].kind = None
      BY <1>1, <2>1 DEF RecoverFree, PointShape
    <3> QED
      BY <1>1, <3>1, Kinds DEF Noted
  <2>4. \/ \E w \in RecoversNote : Goto(c, w, loc[c])
        \/ \E id : Answer(c, "incomplete", id)
    BY <2>1, <2>2, <2>3
    DEF RecoversNote, RecoverAnnotation, RecoverNote, RecoverWrite,
        RecoverCheck, RecoverNoted, RecoverRelease
  <2>5. CASE \E w \in RecoversNote : Goto(c, w, loc[c])
    <3>1. pc'[c] \in RecoversNote /\ loc'[c] = loc[c]
      BY <1>1, <2>5, GotoOnly
    <3> QED
      BY <2>1, <3>1
  <2>6. CASE \E id : Answer(c, "incomplete", id)
    BY <1>1, <2>6 DEF Answer, CallShape
  <2> QED
    BY <2>4, <2>5, <2>6
<1> QED
  BY <1>2, <1>3

----------------------------------------------------------------------------
(* The steps of resolution keep the invariant.                             *)

LEMMA ServiceFrame ==
    ASSUME ClaimsInv, NEW c \in on \cap Call, Revision(c) \/ RecoverAnnotation(c)
    PROVE  /\ OnlyCall(c) /\ PointShape' /\ Quiet /\ OneRevision' /\ on' = on
           /\ \A p \in PointId : Live(p)' => Live(p)
<1>1. CallShape /\ PointShape
  BY DEF ClaimsInv, Shape, CallShape, PointShape
<1>2. PointShape' /\ Quiet
  BY <1>1, ServiceIsQuiet
<1>3. on' = on
  BY DEF Revision, RecoverAnnotation, RecoverNote, RecoverWrite, RecoverCheck,
         RecoverNoted, RecoverRelease, RecoverFree
<1>4. /\ OnlyCall(c)
      /\ OnePoints /\ CallOne(c) /\ KindOf[c] # "revise" => CallOne(c)'
  <2>1. CASE Begin(c)
    BY <1>1, <2>1, BeginOnly
  <2>2. CASE Revision(c) /\ Step(c)
    BY <1>1, <2>2, StepOnly DEF Revision
  <2>3. CASE RecoverAnnotation(c)
    BY <1>1, <2>3, RecoverOnly
  <2> QED
    BY <2>1, <2>2, <2>3 DEF Revision
<1>5. ASSUME ~Updates
      PROVE  /\ OnePoints' /\ CallOne(c)'
             /\ \A p \in PointId :
                   point'[p].state = "active" => point[p].state = "active"
  <2>1. OnePoints /\ CallOne(c) /\ KindOf[c] # "revise"
    BY <1>5 DEF ClaimsInv, OneRevision, OnePoints, Updates
  <2>2. pc[c] \notin {"upsert", "activate", "recover_active"}
    BY <2>1 DEF CallOne
  <2>3. CASE Begin(c)
    BY <1>4, <2>1, <2>3 DEF Begin, OnePoints
  <2>4. CASE Step(c) \/ RecoverAnnotation(c)
    BY <1>1, <1>4, <2>1, <2>2, <2>4, StepPoints
  <2> QED
    BY <2>3, <2>4 DEF Revision
<1>6. OneRevision'
  <2> SUFFICES ASSUME ~Updates PROVE OnePoints' /\ \A d \in on : CallOne(d)'
    BY <1>3 DEF OneRevision, OnePoints, Updates
  <2>1. \A d \in on : d # c => CallOne(d)'
    BY <1>4, AnnotationAssumption
    DEF OnlyCall, CallOne, ClaimsInv, OneRevision
  <2> QED
    BY <1>5, <2>1
<1>7. \A p \in PointId : Live(p)' => Live(p)
  BY <1>3, <1>5 DEF Live, Updates
<1> QED
  BY <1>2, <1>3, <1>4, <1>6, <1>7

\* A call that does not annotate leaves the claims to those who owe them.
LEMMA ServeInv ==
    ASSUME ClaimsInv, NEW c \in on \ Annotator, Serve(c)
    PROVE  ClaimsInv'
<1> c \in Call
  BY AnnotationAssumption DEF ClaimsInv
<1>1. /\ OnlyCall(c) /\ PointShape' /\ Quiet /\ OneRevision' /\ on' = on
      /\ \A p \in PointId : Live(p)' => Live(p)
  BY ServiceFrame DEF Serve
<1>2. at' = at /\ note' = note
  BY DEF Serve
<1>3. \A d \in Annotator :
         pc'[d] = pc[d] /\ loc'[d] = loc[d] /\ reply'[d] = reply[d]
  BY <1>1, AnnotatorsRead DEF OnlyCall
<1>4. Shape'
  BY <1>1, <1>2 DEF ClaimsInv, Shape, OnlyCall, CallShape, PointShape
<1>5. Resolutions'
  BY <1>3 DEF ClaimsInv, Resolutions
<1>6. Tokens' /\ Claiming'
  BY <1>1, <1>2 DEF ClaimsInv, Tokens, Claiming, Quiet
<1>7. FaultySavesRunWithoutUpdates => ClaimsAreOwed'
  <2> SUFFICES ASSUME FaultySavesRunWithoutUpdates,
                      NEW p \in PointId, Noted(p)', Live(p)'
               PROVE  \E d \in on' \cap Annotator : Owes(d, p)'
    BY DEF ClaimsAreOwed
  <2>1. PICK d \in on \cap Annotator : Owes(d, p)
    BY <1>1 DEF ClaimsInv, ClaimsAreOwed, Quiet
  <2>2. point'[p].tok = point[p].tok
    BY <1>1 DEF Quiet
  <2>3. Owes(d, p)'
    BY <1>2, <1>3, <2>1, <2>2
    DEF Owes, Broken, Holding, Cleaning, Restoring
  <2> QED
    BY <1>1, <2>1, <2>3
<1> QED
  BY <1>1, <1>4, <1>5, <1>6, <1>7 DEF ClaimsInv

\* What an annotating call makes of its resolution.
Turns(c, stage, n) ==
    /\ To(c, stage, n) /\ NoteShape(n)
    /\ stage \in {"prepare", "claim"} => n.tok # None
    /\ stage \in Headed => n.head \in PointId
    /\ stage \notin {"write", "verify"}

LEMMA GivesTurns ==
    ASSUME NEW c, NEW status, NEW n, NoteShape(n), Gives(c, status, n)
    PROVE  Turns(c, "found", [n EXCEPT !.status = status])
BY DEF Gives, Turns, NoteShape, Headed

LEMMA OverTurns ==
    ASSUME NEW c \in Annotator, NEW n, NoteShape(n), Over(c, n)
    PROVE  \E stage, m : Turns(c, stage, m)
<1>1. CASE TaskOf[c] = "delete"
  BY <1>1 DEF Over, Turns, Headed
<1>2. CASE TaskOf[c] # "delete"
  BY <1>2, GivesTurns DEF Over
<1> QED
  BY <1>1, <1>2

LEMMA DecidedTurns ==
    ASSUME ClaimsInv, NEW c \in Annotator, NEW h \in PointId, Decided(c, h)
    PROVE  \E stage, n : Turns(c, stage, n)
<1> DEFINE n == Drafted(c, h)
<1>1. NoteShape(n) /\ n.tok = TokenOf[c][h] /\ n.head = h
  BY NoteShapes DEF Drafted, NoteShape
<1>2. n.tok # None
  BY <1>1, AnnotatorsRead, ConstantsAssumption DEF PointId
<1> HIDE DEF n
<1>3. \/ \E status : Gives(c, status, n)
      \/ Over(c, n)
      \/ \E stage \in {"prepare", "claim", "commit"} : To(c, stage, n)
  BY DEF Decided, n
<1>4. CASE \E status : Gives(c, status, n)
  BY <1>1, <1>4, GivesTurns
<1>5. CASE Over(c, n)
  BY <1>1, <1>5, OverTurns
<1>6. CASE \E stage \in {"prepare", "claim", "commit"} : To(c, stage, n)
  BY <1>1, <1>2, <1>6 DEF Turns
<1> QED
  BY <1>3, <1>4, <1>5, <1>6

LEMMA UsesTurns ==
    ASSUME ClaimsInv, NEW c \in Annotator, NEW h \in PointId, Uses(c, h)
    PROVE  \E stage, n : Turns(c, stage, n)
<1> USE NoteShapes DEF Headed
<1>1. CASE at[c] = "first"
  BY <1>1 DEF Uses, Turns
<1>2. CASE at[c] = "link"
  BY <1>2, DecidedTurns DEF Uses
<1>3. CASE at[c] \notin {"first", "link"} /\ ArtifactOf[c] \in point[h].arts
  <2>1. NoteShape([note[c] EXCEPT !.head = h])
    BY DEF NoteShape
  <2> QED
    BY <1>3, <2>1, GivesTurns DEF Uses
<1>4. CASE at[c] \notin {"first", "link"} /\ ArtifactOf[c] \notin point[h].arts
  BY <1>4 DEF Uses, Turns
<1> QED
  BY <1>1, <1>2, <1>3, <1>4

LEMMA RefusedTurns ==
    ASSUME ClaimsInv, NEW c \in Annotator, NEW status, NEW h, Refused(c, status, h),
           status # "incomplete" => h \in PointId
    PROVE  /\ \E stage, n : Turns(c, stage, n)
           /\ at[c] = "cleanup" =>
                 Turns(c, "found", [note[c] EXCEPT !.status = "failed"])
<1> USE NoteShapes DEF Headed
<1>1. CASE Decided(c, h) /\ at[c] = "link" /\ status = "stale"
  BY <1>1, DecidedTurns
<1>2. CASE To(c, "failed", note[c]) /\ at[c] = "link"
  BY <1>2 DEF Turns
<1>3. CASE Gives(c, "failed", note[c])
  BY <1>3, GivesTurns
<1> QED
  BY <1>1, <1>2, <1>3 DEF Refused

LEMMA TurnsAlone ==
    ASSUME ClaimsInv, NEW c \in on \cap Annotator, NEW stage, NEW n,
           Turns(c, stage, n), OnlyCall(c), PointShape', Quiet, on' = on
    PROVE  /\ Alone(c) /\ Shape' /\ Tokens' /\ Claiming'
           /\ at'[c] = stage /\ note'[c] = n
<1>1. DOMAIN at = Annotator /\ DOMAIN note = Annotator
  BY DEF ClaimsInv, Shape
<1>2. /\ at'[c] = stage /\ note'[c] = n
      /\ DOMAIN at' = Annotator /\ DOMAIN note' = Annotator
      /\ \A d \in Annotator \ {c} : at'[d] = at[d] /\ note'[d] = note[d]
  BY <1>1 DEF Turns, To
<1>3. Alone(c)
  BY <1>2 DEF Alone, OnlyCall
<1>4. Shape'
  BY <1>2 DEF Shape, PointShape, OnlyCall, CallShape, Turns, NoteShape, ClaimsInv
<1>5. Tokens'
  BY <1>2 DEF Tokens, Quiet, ClaimsInv, Turns
<1>6. Claiming'
  BY <1>2 DEF Claiming, ClaimsInv, Turns
<1> QED
  BY <1>2, <1>3, <1>4, <1>5, <1>6

LEMMA ResolveInv ==
    ASSUME ClaimsInv, NEW c \in on \cap Annotator, Resolve(c)
    PROVE  ClaimsInv'
<1>1. c \in Call /\ (Revision(c) \/ RecoverAnnotation(c))
  BY AnnotatorsRead DEF Resolve
<1>2. /\ OnlyCall(c) /\ PointShape' /\ Quiet /\ OneRevision' /\ on' = on
      /\ \A p \in PointId : Live(p)' => Live(p)
  BY <1>1, ServiceFrame
<1>3. Resolved(c)'
  BY <1>1, ReaderSteps
<1>4. Resolutions'
  <2>1. \A d \in Annotator : d # c => pc'[d] = pc[d] /\ loc'[d] = loc[d]
    BY <1>2, AnnotatorsRead DEF OnlyCall
  <2> QED
    BY <1>3, <2>1 DEF Resolved, Resolutions, ClaimsInv
\* What the call owed it still owes, or it has failed to clean up.
<1>5. ASSUME FaultySavesRunWithoutUpdates,
             NEW p \in PointId, Noted(p)', Live(p)', Owes(c, p)
      PROVE  /\ at[c] = "cleanup"
             /\ \/ /\ pc'[c] \in RecoversNote /\ loc'[c].kind \in Task
                   /\ loc'[c].from = p /\ loc'[c].mine = point'[p].tok
                \/ pc'[c] = "done" /\ reply'[c].status # "read"
  <2>1. at[c] = "cleanup"
    BY <1>5 DEF Resolve, Owes, Broken, Holding, Cleaning, Restoring
  <2>2. Noted(p) /\ Live(p) /\ point'[p].tok = point[p].tok
    BY <1>2, <1>5 DEF Quiet
  <2> QED
    BY <1>1, <1>5, <2>1, <2>2, Restored
<1>6. CASE pc'[c] # "done"
  <2>1. at' = at /\ note' = note
    BY <1>6 DEF Resolve
  <2>2. Alone(c) /\ Shape'
    BY <1>2, <2>1
    DEF Alone, OnlyCall, Shape, CallShape, PointShape, ClaimsInv
  <2>3. Tokens' /\ Claiming'
    BY <1>2, <2>1 DEF ClaimsInv, Tokens, Claiming, Quiet
  <2>4. FaultySavesRunWithoutUpdates => Keeps(c)
    BY <1>2, <1>5, <1>6, <2>1 DEF Keeps, Owes, Restoring, Quiet
  <2>5. FaultySavesRunWithoutUpdates => ClaimsAreOwed'
    BY <1>2, <2>2, <2>4, KeptOwed DEF ClaimsInv
  <2> QED
    BY <1>2, <1>4, <2>2, <2>3, <2>5 DEF ClaimsInv
<1>7. CASE pc'[c] = "done"
  <2>1. CASE reply'[c].status = "read"
    <3>1. Uses(c, reply'[c].id) /\ reply'[c].id \in PointId
      BY <1>3, <1>7, <2>1 DEF Resolve, Resolved, Resolving, RecoversNote
    <3>2. PICK stage, n : Turns(c, stage, n)
      BY <3>1, UsesTurns
    <3>3. Alone(c) /\ Shape' /\ Tokens' /\ Claiming'
      BY <1>2, <3>2, TurnsAlone
    <3>4. FaultySavesRunWithoutUpdates => Keeps(c)
      BY <1>2, <1>5, <1>7, <2>1 DEF Keeps, Quiet, RecoversNote
    <3> QED
      BY <1>2, <1>4, <3>3, <3>4, KeptOwed DEF ClaimsInv
  <2>2. CASE reply'[c].status # "read"
    <3>1. /\ Refused(c, reply'[c].status, reply'[c].id)
          /\ reply'[c].status # "incomplete" => reply'[c].id \in PointId
      BY <1>3, <1>7, <2>2 DEF Resolve, Resolved, Resolving, RecoversNote
    <3>2. CASE at[c] = "cleanup"
      <4> DEFINE n == [note[c] EXCEPT !.status = "failed"]
      <4>1. Turns(c, "found", n)
        BY <3>1, <3>2, RefusedTurns
      <4>2. /\ Alone(c) /\ Shape' /\ Tokens' /\ Claiming'
            /\ at'[c] = "found" /\ note'[c] = n
        BY <1>2, <4>1, TurnsAlone
      <4>3. FaultySavesRunWithoutUpdates => Keeps(c)
        BY <4>2, NoteShapes DEF Keeps, Owes, Broken, NoteShape
      <4> QED
        BY <1>2, <1>4, <4>2, <4>3, KeptOwed DEF ClaimsInv
    <3>3. CASE at[c] # "cleanup"
      <4>1. PICK stage, n : Turns(c, stage, n)
        BY <3>1, RefusedTurns
      <4>2. Alone(c) /\ Shape' /\ Tokens' /\ Claiming'
        BY <1>2, <4>1, TurnsAlone
      <4>3. FaultySavesRunWithoutUpdates => Keeps(c)
        BY <1>2, <1>5, <3>3 DEF Keeps, Quiet
      <4> QED
        BY <1>2, <1>4, <4>2, <4>3, KeptOwed DEF ClaimsInv
    <3> QED
      BY <3>2, <3>3
  <2> QED
    BY <2>1, <2>2
<1> QED
  BY <1>6, <1>7

\* The recovery a confirmation runs before it tries again.  It owes nothing then.
LEMMA RecoveryInv ==
    ASSUME ClaimsInv, NEW c \in on \cap Annotator, Recovery(c),
           pc[c] # "resolve_again"
    PROVE  ClaimsInv'
<1>1. /\ c \in Call /\ at[c] = "retry" /\ (Revision(c) \/ RecoverAnnotation(c))
      /\ IF pc'[c] = "done" THEN Gives(c, "failed", note[c])
         ELSE UNCHANGED <<at, note>>
  BY AnnotatorsRead DEF Recovery
<1>2. /\ OnlyCall(c) /\ PointShape' /\ Quiet /\ OneRevision' /\ on' = on
      /\ \A p \in PointId : Live(p)' => Live(p)
  BY <1>1, ServiceFrame
<1>3. Resolved(c)'
  BY <1>1, ReaderSteps
<1>4. Resolutions'
  <2>1. \A d \in Annotator : d # c => pc'[d] = pc[d] /\ loc'[d] = loc[d]
    BY <1>2, AnnotatorsRead DEF OnlyCall
  <2> QED
    BY <1>3, <2>1 DEF Resolved, Resolutions, ClaimsInv
<1>5. \A p \in PointId : ~Owes(c, p)
  BY <1>1 DEF Owes, Broken, Holding, Cleaning, Restoring
<1>6. Keeps(c)
  BY <1>2, <1>5 DEF Keeps, Quiet
<1>7. Alone(c) /\ Shape' /\ Tokens' /\ Claiming'
  <2>1. CASE pc'[c] = "done"
    <3>1. Turns(c, "found", [note[c] EXCEPT !.status = "failed"])
      BY <1>1, <2>1, NoteShapes, GivesTurns
    <3> QED
      BY <1>2, <3>1, TurnsAlone
  <2>2. CASE pc'[c] # "done"
    <3>1. at' = at /\ note' = note
      BY <1>1, <2>2
    <3>2. Alone(c) /\ Shape'
      BY <1>2, <3>1
      DEF Alone, OnlyCall, Shape, CallShape, PointShape, ClaimsInv
    <3> QED
      BY <1>2, <3>1, <3>2 DEF ClaimsInv, Tokens, Claiming, Quiet
  <2> QED
    BY <2>1, <2>2
<1> QED
  BY <1>2, <1>4, <1>6, <1>7, KeptOwed DEF ClaimsInv

\* What a confirmation that lost its claim begins to recover.
Resumes(c) == \E k, l :
    /\ To(c, "retry", [NoNote EXCEPT !.cid = note[c].cid, !.tries = k])
    /\ Goto(c, "recover", l)
    /\ LocalShape(l) /\ l.mem = note[c].head /\ l.from = note[c].head
    /\ l.cur = note[c].head /\ l.pay = point[note[c].head]
    /\ l.mine = point[note[c].head].tok /\ l.kind = point[note[c].head].kind
    /\ l.cand = None /\ l.left = {} /\ l.tok = None
    /\ UNCHANGED <<point, journal, on, blob, plan, held, stale>>
    /\ at[c] = "lost" /\ TaskOf[c] = "confirm"
    /\ point[note[c].head].tok # None

LEMMA AgainResumes ==
    ASSUME ClaimsInv, NEW c \in Annotator, TryAgain(c), at'[c] = "retry"
    PROVE  Resumes(c)
<1> DEFINE n == [NoNote EXCEPT !.cid = note[c].cid, !.tries = note[c].tries + 1]
           p == point[note[c].head]
           l == [NoLocal EXCEPT !.mem = note[c].head, !.cur = note[c].head,
                                !.pay = p, !.from = note[c].head,
                                !.mine = p.tok, !.kind = p.kind]
<1>1. /\ To(c, "retry", n) /\ Goto(c, "recover", l)
      /\ UNCHANGED <<point, journal, on, blob, plan, held, stale>>
      /\ at[c] = "lost" /\ TaskOf[c] = "confirm" /\ p.tok # None
  BY DEF TryAgain, To, Again, ClaimsInv, Shape
<1>2. n = [NoNote EXCEPT !.cid = note[c].cid, !.tries = note[c].tries + 1]
  OBVIOUS
<1>3. /\ LocalShape(l) /\ l.mem = note[c].head /\ l.from = note[c].head
      /\ l.cur = note[c].head /\ l.pay = p /\ l.mine = p.tok /\ l.kind = p.kind
      /\ l.cand = None /\ l.left = {} /\ l.tok = None
  BY DEF LocalShape, NoLocal
<1> HIDE DEF n, l
<1> QED
  BY <1>1, <1>2, <1>3 DEF Resumes

LEMMA ResumesInv ==
    ASSUME ClaimsInv, NEW c \in on \cap Annotator, Resumes(c)
    PROVE  ClaimsInv'
<1> DEFINE n(k) == [NoNote EXCEPT !.cid = note[c].cid, !.tries = k]
<1>1. PICK k, l :
         /\ To(c, "retry", n(k)) /\ Goto(c, "recover", l)
         /\ LocalShape(l) /\ l.mem = note[c].head
         /\ l.kind = point[note[c].head].kind
         /\ l.cand = None /\ l.left = {}
         /\ UNCHANGED <<point, on>> /\ at[c] = "lost"
  BY DEF Resumes
<1>0. NoteShape(n(k))
  BY DEF NoteShape, NoNote
<1> HIDE DEF n
<1>2. /\ c \in Call /\ KindOf[c] = "read" /\ CallShape /\ PointShape
      /\ note[c].head \in PointId
  BY <1>1, AnnotatorsRead
  DEF ClaimsInv, Shape, CallShape, PointShape, Tokens, Headed
<1>3. OnlyCall(c) /\ pc'[c] = "recover" /\ loc'[c] = l /\ reply' = reply
  BY <1>1, <1>2, GotoOnly
<1>4. PointShape' /\ Quiet /\ on' = on /\ \A p \in PointId : Live(p)' => Live(p)
  BY <1>1, <1>2 DEF PointShape, Quiet, Noted, Live, Updates
<1>5. Alone(c) /\ Shape' /\ Tokens' /\ Claiming'
  <2>1. Turns(c, "retry", n(k))
    BY <1>0, <1>1 DEF Turns, Headed
  <2> QED
    BY <1>3, <1>4, <2>1, TurnsAlone
<1>6. Resolutions'
  <2>1. \A d \in Annotator : d # c => pc'[d] = pc[d] /\ loc'[d] = loc[d]
    BY <1>3, AnnotatorsRead DEF OnlyCall
  <2> QED
    BY <1>1, <1>2, <1>3, <2>1
    DEF Resolutions, ClaimsInv, Resolving, RecoversNote
<1>7. OneRevision'
  <2> SUFFICES ASSUME ~Updates PROVE OnePoints' /\ \A d \in on : CallOne(d)'
    BY <1>4 DEF OneRevision, OnePoints, Updates
  <2>1. OnePoints' /\ OnePoints
    BY <1>1 DEF ClaimsInv, OneRevision, OnePoints
  <2>2. \A d \in on : d # c => CallOne(d)'
    BY <1>3, AnnotationAssumption DEF OnlyCall, CallOne, ClaimsInv, OneRevision
  <2>3. CallOne(c)'
    BY <1>1, <1>2, <1>3, <2>1 DEF CallOne, LocalOne, OnePoints
  <2> QED
    BY <2>1, <2>2, <2>3
<1>8. \A p \in PointId : ~Owes(c, p)
  BY <1>1 DEF Owes, Broken, Holding, Cleaning, Restoring
<1>9. Keeps(c)
  BY <1>4, <1>8 DEF Keeps, Quiet
<1> QED
  BY <1>4, <1>5, <1>6, <1>7, <1>9, KeptOwed DEF ClaimsInv

\* The steps of an annotation that are none of a resolution.
Serves(c) == Resolve(c) \/ (Recovery(c) /\ pc[c] # "resolve_again")
Plainly(c) == /\ Annotation(c) /\ ~Serves(c)
              /\ ~(TryAgain(c) /\ at'[c] = "retry")

\* The end of the recovery a confirmation ran.
Resumed(c) == /\ at[c] = "retry" /\ Again(c, "link", note[c])
              /\ UNCHANGED <<point, journal, on, blob, plan, held, stale>>

Plain(c) == \/ Pick(c) \/ Resumed(c) \/ StoreBlob(c) \/ Prepare(c) \/ ClaimHead(c)
            \/ ReadClaim(c) \/ TryAgain(c) \/ WriteClaimed(c) \/ Annotate(c)
            \/ Verify(c) \/ Conclude(c) \/ ReadRelease(c) \/ ReleaseClaim(c)
            \/ ScanHistory(c) \/ Strike(c) \/ References(c) \/ DropBlob(c)
            \/ Fault(c) \/ Failed(c) \/ Discard(c) \/ Finish(c)

LEMMA AnnotationCases ==
    ASSUME NEW c, Annotation(c), ~Serves(c)
    PROVE  Plain(c)
<1>1. ~Resolve(c) /\ (Recovery(c) => pc[c] = "resolve_again")
  <2>1. ~Resolve(c)
    BY Zenon DEF Serves
  <2>2. ~(Recovery(c) /\ pc[c] # "resolve_again")
    BY Zenon DEF Serves
  <2> QED
    BY Zenon, <2>1, <2>2
<1>2. CASE Recovery(c)
  BY <1>1, <1>2 DEF Recovery, Resumed, Plain
<1>3. CASE ~Recovery(c)
  BY Zenon, <1>1, <1>3 DEF Annotation, Plain
<1> QED
  BY <1>2, <1>3

LEMMA PlainlyKept ==
    ASSUME ClaimsInv, NEW c \in on \cap Annotator, Plainly(c)
    PROVE  Kept(c)
<1>1. /\ Annotation(c) /\ ~Resolve(c) /\ ~(TryAgain(c) /\ at'[c] = "retry")
      /\ Recovery(c) => pc[c] = "resolve_again"
  <2>1. Annotation(c) /\ ~Serves(c) /\ ~(TryAgain(c) /\ at'[c] = "retry")
    BY Zenon DEF Plainly
  <2>2. ~Resolve(c)
    BY Zenon, <2>1 DEF Serves
  <2>3. ~(Recovery(c) /\ pc[c] # "resolve_again")
    BY Zenon, <2>1 DEF Serves
  <2> QED
    BY Zenon, <2>1, <2>2, <2>3
<1>2. CASE Recovery(c)
  BY <1>1, <1>2, PlainSteps
<1>3. CASE ~Recovery(c)
  BY <1>1, <1>3, PlainSteps, ClaimedSteps, WritingSteps, EndingSteps
  DEF Annotation
<1> QED
  BY <1>2, <1>3

----------------------------------------------------------------------------
(* The theorem.                                                            *)

LEMMA InitClaims == AnnotationInit => ClaimsInv
<1> SUFFICES ASSUME AnnotationInit PROVE ClaimsInv
  OBVIOUS
<1> USE DEF AnnotationInit, Init, AbsentPoint
<1>1. /\ DOMAIN point = PointId /\ on \in Scenarios
      /\ \A p \in PointId : /\ {"state", "tok", "kind"} \subseteq DOMAIN point[p]
                            /\ point[p].kind = None
                            /\ point[p].state = IF p = Root THEN "active" ELSE "absent"
  OBVIOUS
<1>2. None \notin Task /\ None # "revise"
  BY AnnotationAssumption DEF ClaimKind
<1>3. /\ DOMAIN pc = Call /\ DOMAIN loc = Call /\ DOMAIN reply = Call
      /\ \A c \in Call : pc[c] = "idle"
  OBVIOUS
<1>4. /\ DOMAIN at = Annotator /\ DOMAIN note = Annotator
      /\ \A c \in Annotator : at[c] \in {"first", "link", "pick"} /\ note[c] = NoNote
  OBVIOUS
<1>5. Shape
  BY <1>1, <1>3, <1>4 DEF Shape, NoNote
<1>6. Resolutions
  BY <1>3, AnnotatorsRead DEF Resolutions
<1>7. OneRevision
  BY <1>1, <1>2, <1>3, AnnotationAssumption DEF OneRevision, CallOne
<1>8. Tokens /\ Claiming /\ ClaimsAreOwed
  BY <1>1, <1>2, <1>4 DEF Tokens, Headed, Claiming, ClaimsAreOwed, Noted
<1> QED
  BY <1>1, <1>5, <1>6, <1>7, <1>8 DEF ClaimsInv

LEMMA NextClaims ==
    ASSUME ClaimsInv, [AnnotationNext]_allVars
    PROVE  ClaimsInv'
<1>1. CASE UNCHANGED allVars
  BY <1>1
  DEF allVars, vars, added, ClaimsInv, Shape, Resolutions, OneRevision, Tokens,
      Claiming, ClaimsAreOwed, Updates, CallOne, LocalOne, LocalShape, Noted,
      Live, Owes, Broken, Holding, Cleaning, Restoring
<1>2. CASE \E c \in on \ Annotator : Serve(c)
  BY <1>2, ServeInv
<1>3. ASSUME NEW c \in on \cap Annotator, Annotation(c)
      PROVE  ClaimsInv'
  <2>1. CASE Serves(c)
    BY <2>1, ResolveInv, RecoveryInv DEF Serves
  <2>2. CASE TryAgain(c) /\ at'[c] = "retry"
    BY <2>2, AgainResumes, ResumesInv
  <2>3. CASE Plainly(c)
    BY <2>3, PlainlyKept, KeptInv
  <2> QED
    BY <1>3, <2>1, <2>2, <2>3 DEF Plainly
<1> QED
  BY <1>1, <1>2, <1>3 DEF AnnotationNext

LEMMA OwedReleases == ClaimsInv /\ FaultySavesRunWithoutUpdates => ClaimsAreReleased
<1> SUFFICES ASSUME ClaimsInv, FaultySavesRunWithoutUpdates, AllOver,
                    \A c \in on \cap Annotator : reply[c].status # "failed",
                    NEW p \in Active, Noted(p)
             PROVE  FALSE
  BY DEF ClaimsAreReleased, Noted
<1>1. p \in PointId /\ Live(p)
  BY DEF Active, Live
<1>2. PICK c \in on \cap Annotator : Owes(c, p)
  BY <1>1 DEF ClaimsInv, ClaimsAreOwed
<1>3. at[c] = "done" /\ reply[c].status # "failed"
  BY DEF AllOver
<1> QED
  BY <1>2, <1>3 DEF Owes, Broken, Holding, Cleaning, Restoring

\* When every call has ended and none has failed, no claim of an annotation is
\* left on the head, where a save that fails after its claim recovers it.
THEOREM ClaimsAreReleasedHolds ==
    ASSUME FaultySavesRunWithoutUpdates
    PROVE  AnnotationSpec => []ClaimsAreReleased
<1>1. AnnotationInit => ClaimsInv
  BY InitClaims
<1>2. ClaimsInv /\ [AnnotationNext]_allVars => ClaimsInv'
  BY NextClaims
<1>3. ClaimsInv => ClaimsAreReleased
  BY OwedReleases
<1> QED
  BY <1>1, <1>2, <1>3, PTL DEF AnnotationSpec

----------------------------------------------------------------------------
(* Evidence roots.                                                         *)

Confirms == {c \in Annotator : TaskOf[c] = "confirm"}

\* A revision that was written: its predecessor is stored with it.
Made(p) == p = Root \/ point[p].sup # None

Own == {"upsert", "plan", "claim", "readback", "abort", "conflict", "activate",
        "note_activated", "supersede", "note_claimed", "withdraw", "commit"}
Revising == {"recover_active", "recover_superseded", "recover_retracted",
             "recover_commit"}
Planning == {"recover_note", "recover_check", "recover_noted",
             "recover_release", "recover_free"}
Recovering == {"recover"} \cup Revising \cup Planning \cup {"resolve_again"}
Finishing == {"finish_predecessor", "finish_journal"}

PointsMade ==
    \A p \in PointId :
        /\ point[p].sup \in PointId \cup {None}
        /\ point[p].tok \in Token \cup {None}
        /\ point[p].state \in {"pending", "active"} => Made(p)
        /\ Made(p) => point[p].state # "absent"

Placed(e) ==
    /\ LocalShape(loc[e])
    /\ loc[e].mem \in PointId /\ loc[e].cur \in PointId
    /\ \A t \in loc[e].left : t \in Token /\ point[t].sup # None
    /\ pc[e] \in Own => e \notin Annotator /\ loc[e].tok \in OwnTokens(e)
    /\ pc[e] = "upsert" => ~Made(loc[e].tok)
    /\ pc[e] \in Recovering => loc[e].from \in PointId /\ loc[e].mine \in Token
    /\ pc[e] = "recover_active" => Made(loc[e].mine)
    /\ pc[e] \in Revising => loc[e].kind \in ClaimKind
    /\ pc[e] \in Planning => loc[e].kind \in Task

PlacesOK == \A e \in Call : pc[e] \notin {"idle", "done"} => Placed(e)

RootShape ==
    /\ \A p \in PointId : {"sup", "roots", "consumed"} \subseteq DOMAIN point[p]
    /\ DOMAIN journal = Token
    /\ \A t \in Token : "status" \in DOMAIN journal[t]
    /\ DOMAIN plan = Token /\ DOMAIN held = Call
    /\ \A c \in Annotator :
          /\ {"cid", "roots", "plan"} \subseteq DOMAIN note[c]
          /\ "roots" \in DOMAIN note[c].plan

\* Of the confirmation of C: the root of the call is counted there, and is in
\* the plan of its journal row.
Counted(c, C) == RootOf[c] \in point[C].roots
Drawn(c, C) == RootOf[c] \in plan[TokenOf[c][C]].roots

\* A confirmation that has not begun has left no trace.
Fresh(c) == \A t \in OwnTokens(c) :
    /\ journal[t] = NoRow /\ plan[t].roots = {}
    /\ \A p \in PointId : point[p].tok # t
    /\ \A e \in Call : /\ pc[e] \in Recovering => loc[e].mine # t
                       /\ pc[e] \in Finishing => loc[e].tok # t

\* What a recovery of its claim has read and done.
Recovers(c, C, e) ==
    /\ pc[e] \in Recovering /\ loc[e].mine \in OwnTokens(c) =>
         /\ loc[e].mine = TokenOf[c][C] /\ loc[e].from = C
         /\ loc[e].kind = "confirm"
         /\ pc[e] \in Planning \cup {"resolve_again"} =>
              /\ RootOf[c] \in held[e].roots
              /\ held[e].roots \subseteq point[C].roots \cup {RootOf[c]}
         /\ pc[e] \in {"recover_noted", "recover_release", "recover_free",
                       "resolve_again"} => Counted(c, C)
         /\ pc[e] \in {"recover_release", "recover_free", "resolve_again"} =>
              Drawn(c, C)
    /\ pc[e] \in Finishing /\ loc[e].tok \in OwnTokens(c) =>
         loc[e].tok = TokenOf[c][C] /\ Counted(c, C) /\ Drawn(c, C)

Busy == {"prepare", "claim", "readback", "claimed", "write", "verify", "commit",
         "release", "free"}

ClaimOK(c, C) ==
    \A p \in PointId : point[p].tok \in OwnTokens(c) =>
        p = C /\ point[p].tok = TokenOf[c][C] /\ point[p].kind = "confirm"

RowOK(c, C) ==
    LET t == TokenOf[c][C] IN
    /\ \A s \in OwnTokens(c) : journal[s] # NoRow => s = t /\ Drawn(c, C)
    /\ journal[t].status = "committed" => Counted(c, C)
    /\ plan[t].roots \subseteq point[C].roots \cup {RootOf[c]}

Trace(c, C) ==
    /\ C \in PointId /\ Made(C) /\ ClaimOK(c, C) /\ RowOK(c, C)
    /\ \A e \in Call : Recovers(c, C, e)

StageOK(c, C) ==
    LET n == note[c]
        p == point[C]
        t == TokenOf[c][C]
    IN
    /\ at[c] \in Busy \cup {"link", "lost", "retry", "failed", "found"}
    /\ at[c] \in Busy =>
         /\ n.head = C /\ n.tok = t
         /\ n.roots \subseteq p.roots
         /\ n.plan.roots = n.roots \cup {RootOf[c]}
    /\ at[c] \in {"link", "prepare", "claim", "lost", "retry"} => p.tok # t
    /\ at[c] \in {"readback", "claimed", "write"} /\ p.tok = t =>
         p.roots \subseteq n.plan.roots
    /\ at[c] = "verify" /\ p.tok = t => Counted(c, C)
    /\ at[c] \in {"commit", "release", "free"} => Counted(c, C) /\ n.claims
    /\ at[c] = "found" /\ n.status = "confirmed" => Counted(c, C) /\ n.head = C

Confirming(c) ==
    \E C \in PointId : note[c].cid = C /\ Trace(c, C) /\ StageOK(c, C)

Confirmed(c) ==
    reply[c].status = "confirmed" =>
        /\ reply[c].id \in PointId /\ Made(reply[c].id)
        /\ RootOf[c] \in point[reply[c].id].roots

RootsOK ==
    \A c \in Confirms : /\ at[c] = "pick" => Fresh(c)
                        /\ at[c] \notin {"pick", "done"} => Confirming(c)
                        /\ at[c] = "done" => Confirmed(c)

OthersOK ==
    /\ \A c \in Annotator : at[c] \in Busy => note[c].tok \in OwnTokens(c)
    /\ \A c \in Annotator \ Confirms :
        /\ at[c] # "pick"
        /\ at[c] = "found" => note[c].status # "confirmed"
        /\ at[c] = "done" => reply[c].status # "confirmed"

RootsInv == /\ RootShape /\ PointsMade /\ PlacesOK /\ OthersOK
            /\ "roots" \notin stale => RootsOK

----------------------------------------------------------------------------
(* What a step of a call writes.                                           *)

\* To the revisions.
Rewrites(e, p) ==
    /\ pc[e] = "recover_note" /\ loc[e].kind = "confirm" /\ loc[e].from = p
    /\ point[p].tok = loc[e].mine /\ point'[p].roots = held[e].roots
    /\ "roots" \notin stale' => point[p].roots \subseteq point'[p].roots
Projects(e, p) ==
    /\ e \in Confirms /\ at[e] = "write" /\ note[e].head = p
    /\ point[p].tok = note[e].tok /\ point'[p].roots = note[e].plan.roots

Makes(e, p) == /\ e \notin Annotator /\ ~Made(p)
               /\ p \in OwnTokens(e) /\ point'[p].sup \in PointId
               /\ point'[p].state = "pending"
Claims(e, p) == /\ point'[p].tok \in OwnTokens(e)
                /\ e \in Annotator => at[e] = "claim"

PointFields == {"state", "tok", "kind", "sup", "roots", "consumed"}
FullPoints == /\ DOMAIN point = PointId
              /\ \A p \in PointId : PointFields \subseteq DOMAIN point[p]

Wrote(e) ==
    /\ FullPoints'
    /\ \A p \in PointId :
        /\ point'[p].sup = point[p].sup \/ Makes(e, p)
        /\ point'[p].tok \in {point[p].tok, None} \/ Claims(e, p)
        /\ point'[p].tok # None /\ point'[p].tok = point[p].tok =>
              point'[p].kind = point[p].kind
        /\ \/ point'[p].state = point[p].state
           \/ /\ point'[p].state # "absent"
              /\ point'[p].state \in {"pending", "active"} => Made(p)'
        /\ \/ point'[p].roots = point[p].roots \/ Makes(e, p)
           \/ Rewrites(e, p) \/ Projects(e, p)

LEMMA StepWrote ==
    ASSUME FullPoints, PointsMade, NEW e \in Call, Step(e), Placed(e)
    PROVE  Wrote(e)
<1> USE DEF FullPoints, PointFields, Wrote, Made, Placed
<1>1. CASE point' = point
  BY <1>1
<1>2. CASE RecoverActive(e)
  BY <1>2 DEF RecoverActive
<1>3. CASE RecoverSuperseded(e)
  BY <1>3 DEF RecoverSuperseded
<1>4. CASE RecoverRetracted(e)
  BY <1>4 DEF RecoverRetracted
<1>5. CASE FinishPredecessor(e)
  BY <1>5 DEF FinishPredecessor
<1>6. CASE Upsert(e)
  <2>1. /\ loc[e].tok \in OwnTokens(e) /\ ~Made(loc[e].tok)
        /\ loc[e].cur \in PointId /\ e \notin Annotator
    BY <1>6 DEF Upsert, Own
  <2>2. point' = [point EXCEPT ![loc[e].tok] = Successor(e)]
    BY <1>6 DEF Upsert
  <2>3. /\ PointFields \subseteq DOMAIN Successor(e)
        /\ Successor(e).state = "pending" /\ Successor(e).sup = loc[e].cur
        /\ Successor(e).tok = None
    BY DEF Successor
  <2>4. None \notin PointId
    BY ConstantsAssumption
  <2> QED
    BY <2>1, <2>2, <2>3, <2>4 DEF Makes
<1>7. CASE Claim(e)
  <2>1. loc[e].tok \in OwnTokens(e) /\ e \notin Annotator
    BY <1>7 DEF Claim, Own
  <2>2. CASE point' # point
    <3>1. /\ point[loc[e].cur].tok = None
          /\ point' = [point EXCEPT ![loc[e].cur].tok = loc[e].tok,
                                    ![loc[e].cur].kind = KindOf[e]]
      BY <1>7, <2>2 DEF Claim
    <3> QED
      BY <2>1, <3>1 DEF Claims
  <2> QED
    BY <1>1, <2>2
<1>8. CASE Abort(e)
  BY <1>8 DEF Abort
<1>9. CASE Activate(e)
  BY <1>9 DEF Activate, PointsMade
<1>10. CASE Supersede(e)
  BY <1>10 DEF Supersede
<1>11. CASE Withdraw(e)
  BY <1>11 DEF Withdraw
<1>12. CASE SetSource(e)
  BY <1>12 DEF SetSource
<1> QED
  BY <1>1, <1>2, <1>3, <1>4, <1>5, <1>6, <1>7, <1>8, <1>9, <1>10, <1>11, <1>12
  DEF Step, Recover, RecoverCommit, ResolveAgain, FinishJournal, Plan, Readback,
      Conflict, NoteActivated, NoteClaimed, Commit, CheckSource

LEMMA RecoverWrote ==
    ASSUME FullPoints, NEW e \in Call, RecoverAnnotation(e)
    PROVE  Wrote(e)
<1> USE DEF FullPoints, PointFields, Wrote, Made
<1>1. CASE point' = point
  BY <1>1
<1>2. CASE RecoverWrite(e)
  <2>1. CASE loc[e].kind = "confirm"
    <3>1. CASE point[loc[e].from].tok = loc[e].mine
      <4>1. point' = [point EXCEPT ![loc[e].from].roots = held[e].roots,
                                   ![loc[e].from].consumed = held[e].consumed]
        BY <1>2, <2>1, <3>1 DEF RecoverWrite
      <4>2. "roots" \notin stale' =>
              point[loc[e].from].roots \subseteq held[e].roots
        BY <1>2, <2>1, <3>1 DEF RecoverWrite, Notice
      <4> QED
        BY <1>2, <2>1, <3>1, <4>1, <4>2 DEF RecoverWrite, Rewrites
    <3>2. CASE point[loc[e].from].tok # loc[e].mine
      BY <1>1, <1>2, <2>1, <3>2 DEF RecoverWrite
    <3> QED
      BY <3>1, <3>2
  <2>2. CASE loc[e].kind # "confirm"
    BY <1>2, <2>2 DEF RecoverWrite
  <2> QED
    BY <2>1, <2>2
<1>3. CASE RecoverFree(e)
  BY <1>3 DEF RecoverFree
<1> QED
  BY <1>1, <1>2, <1>3
  DEF RecoverAnnotation, RecoverNote, RecoverCheck, RecoverNoted, RecoverRelease

LEMMA AnnotationWrote ==
    ASSUME FullPoints, NEW e \in Annotator, Annotation(e), ~Serves(e),
           at[e] = "claim" => note[e].tok \in OwnTokens(e)
    PROVE  Wrote(e)
<1> USE DEF FullPoints, PointFields, Wrote, Made
<1>1. CASE point' = point
  BY <1>1
<1>2. CASE ClaimHead(e) /\ point' # point
  <2>1. /\ point[note[e].head].tok = None /\ note[e].tok \in OwnTokens(e)
        /\ at[e] = "claim"
        /\ point' = [point EXCEPT ![note[e].head].tok = note[e].tok,
                                  ![note[e].head].kind = TaskOf[e]]
    BY <1>2 DEF ClaimHead
  <2> QED
    BY <2>1 DEF Claims
<1>3. CASE Annotate(e)
  <2>1. CASE TaskOf[e] = "confirm" /\ point[note[e].head].tok = note[e].tok
    <3>1. point' = [point EXCEPT ![note[e].head].roots = note[e].plan.roots,
                                 ![note[e].head].consumed = note[e].plan.consumed]
      BY <1>3, <2>1 DEF Annotate
    <3>2. e \in Confirms /\ at[e] = "write"
      BY <1>3, <2>1 DEF Annotate, Confirms
    <3> QED
      BY <2>1, <3>1, <3>2 DEF Projects
  <2>2. CASE TaskOf[e] # "confirm" /\ point[note[e].head].tok = note[e].tok
    BY <1>3, <2>2 DEF Annotate
  <2>3. CASE point[note[e].head].tok # note[e].tok
    BY <1>1, <1>3, <2>3 DEF Annotate
  <2> QED
    BY <2>1, <2>2, <2>3
<1>4. CASE ReleaseClaim(e)
  BY <1>4 DEF ReleaseClaim
<1>5. CASE Strike(e)
  BY <1>5 DEF Strike
<1> QED
  BY <1>1, <1>2, <1>3, <1>4, <1>5, AnnotationCases
  DEF Plain, Pick, Resumed, StoreBlob, Prepare, ClaimHead, ReadClaim, TryAgain,
      WriteClaimed, Verify, Conclude, ReadRelease, ScanHistory, References,
      DropBlob, Fault, Failed, Discard, Finish, vars

\* To the journal.
JournalShape == /\ DOMAIN journal = Token
                /\ \A t \in Token : "status" \in DOMAIN journal[t]
                /\ DOMAIN plan = Token /\ DOMAIN held = Call

Journaled(e) ==
    /\ JournalShape'
    /\ \A t \in Token :
        \/ journal'[t] = journal[t] /\ plan'[t] = plan[t]
        \/ t \in OwnTokens(e) /\ (e \in Annotator => at[e] \in Busy)
        \/ /\ t = loc[e].mine
           /\ \/ pc[e] = "recover_commit" /\ plan'[t] = plan[t]
              \/ pc[e] = "recover_noted" /\ plan'[t] = held[e]
        \/ pc[e] = "finish_journal" /\ t = loc[e].tok /\ plan'[t] = plan[t]
    /\ \A d \in Call \ {e} : held'[d] = held[d]
    /\ \/ held'[e] = held[e]
       \/ pc[e] = "recover" /\ held'[e] = plan[loc[e].mine]

LEMMA StepJournaled ==
    ASSUME JournalShape, NEW e \in Call, Step(e), Placed(e), plan' = plan, held' = held
    PROVE  Journaled(e)
<1> USE DEF JournalShape, Journaled, Note, Record
<1>1. CASE journal' = journal
  BY <1>1
<1>2. CASE RecoverCommit(e)
  BY <1>2 DEF RecoverCommit
<1>3. CASE FinishJournal(e)
  BY <1>3 DEF FinishJournal
<1>4. CASE Plan(e) \/ Conflict(e) \/ NoteActivated(e) \/ NoteClaimed(e) \/ Commit(e)
  <2>1. loc[e].tok \in OwnTokens(e) /\ e \notin Annotator
    BY <1>4 DEF Placed, Own, Plan, Conflict, NoteActivated, NoteClaimed, Commit
  <2>2. CASE \E status : journal' = [journal EXCEPT ![loc[e].tok].status = status]
    BY <2>1, <2>2
  <2>3. CASE Commit(e)
    BY <2>1, <2>3 DEF Commit
  <2> QED
    BY <1>4, <2>2, <2>3 DEF Plan, Conflict, NoteActivated, NoteClaimed
<1> QED
  BY <1>1, <1>2, <1>3, <1>4
  DEF Step, Recover, RecoverActive, RecoverSuperseded, RecoverRetracted,
      ResolveAgain, FinishPredecessor, Upsert, Claim, Readback, Abort, Activate,
      Supersede, Withdraw, SetSource, CheckSource

LEMMA RecoverJournaled ==
    ASSUME JournalShape, NEW e \in Call, RecoverAnnotation(e)
    PROVE  Journaled(e)
<1> USE DEF JournalShape, Journaled, Note
<1>1. CASE RecoverNote(e)
  BY <1>1 DEF RecoverNote
<1>2. CASE RecoverNoted(e)
  BY <1>2 DEF RecoverNoted
<1>3. CASE RecoverWrite(e) \/ RecoverCheck(e) \/ RecoverRelease(e) \/ RecoverFree(e)
  BY <1>3 DEF RecoverWrite, RecoverCheck, RecoverRelease, RecoverFree
<1> QED
  BY <1>1, <1>2, <1>3 DEF RecoverAnnotation

LEMMA AnnotationJournaled ==
    ASSUME JournalShape, NEW e \in Annotator, Annotation(e), ~Serves(e),
           at[e] \in Busy => note[e].tok \in OwnTokens(e)
    PROVE  Journaled(e)
<1> USE DEF JournalShape, Journaled, Note, Busy
<1>1. CASE Prepare(e)
  BY <1>1 DEF Prepare
<1>2. CASE WriteClaimed(e)
  BY <1>2 DEF WriteClaimed
<1>3. CASE Conclude(e)
  BY <1>3 DEF Conclude
<1>4. CASE journal' = journal /\ plan' = plan /\ held' = held
  BY <1>4
<1> QED
  BY <1>1, <1>2, <1>3, <1>4, AnnotationCases
  DEF Plain, Pick, Resumed, StoreBlob, ClaimHead, ReadClaim, TryAgain, Annotate,
      Verify, ReadRelease, ReleaseClaim, ScanHistory, Strike, References,
      DropBlob, Fault, Failed, Discard, Finish, vars

LEMMA StaleGrows ==
    ASSUME NEW e, \/ Revision(e) \/ RecoverAnnotation(e)
                  \/ Annotation(e)
    PROVE  stale \subseteq stale'
<1>1. CASE Revision(e) \/ RecoverAnnotation(e)
  BY <1>1 DEF Revision, Notice, RecoverAnnotation, RecoverNote, RecoverWrite,
     RecoverCheck, RecoverNoted, RecoverRelease, RecoverFree
<1>2. CASE Annotation(e)
  BY <1>1, <1>2
  DEF Annotation, Notice, Pick, Resolve, StoreBlob, Prepare, ClaimHead, ReadClaim,
      TryAgain, WriteClaimed, Annotate, Verify, Conclude, ReadRelease,
      ReleaseClaim, ScanHistory, Strike, References, DropBlob, Fault, Failed,
      Discard, Finish, Recovery
<1> QED
  BY <1>1, <1>2

----------------------------------------------------------------------------
(* Where a call that resolves the head lands.                              *)

Looked(l) ==
    /\ LocalShape(l) /\ l.mem \in PointId /\ l.cur \in PointId
    /\ \A t \in l.left : t \in Token /\ point[t].sup # None

\* `t` is the token of a recovered claim, if the call comes from a recovery.
Lands(e, t) ==
    \/ pc'[e] = "done"
    \/ /\ Looked(loc'[e])
       /\ pc'[e] \in {"recover", "plan", "upsert"} \cup Finishing
       /\ pc'[e] = "recover" =>
            LET from == loc'[e].from IN
            /\ from \in PointId /\ point[from].tok # None
            /\ loc'[e].mine = point[from].tok /\ loc'[e].kind = point[from].kind
       /\ pc'[e] \in {"plan", "upsert"} => loc'[e].tok \in OwnTokens(e)
       /\ pc'[e] = "upsert" => ~Made(loc'[e].tok)
       /\ pc'[e] \in Finishing => loc'[e].tok \in OwnTokens(e) \cup {t}

LEMMA StartLands ==
    ASSUME CallShape, PointsMade, NEW c \in Call, NEW l, Looked(l), Start(c, l), NEW t
    PROVE  Lands(c, t)
<1> DEFINE own == TokenOf[c][l.cur]
           m == [l EXCEPT !.tok = own]
<1>1. Looked(m) /\ m.tok = own
  BY DEF Looked, LocalShape
<1>2. own \in OwnTokens(c) /\ own \in PointId
  BY ConstantsAssumption DEF Looked, OwnTokens, PointId
<1>3. CASE \E status, id : Answer(c, status, id)
  BY <1>3 DEF Answer, CallShape, Lands
<1>4. CASE Goto(c, "plan", m)
  <2>1. pc'[c] = "plan" /\ loc'[c] = m
    BY <1>4, GotoOnly
  <2> HIDE DEF own, m
  <2> QED
    BY <1>1, <1>2, <2>1 DEF Lands, Finishing
<1>5. CASE Goto(c, "upsert", m) /\ point[own].state = "absent"
  <2>1. pc'[c] = "upsert" /\ loc'[c] = m
    BY <1>5, GotoOnly
  <2>2. ~Made(own)
    BY <1>2, <1>5 DEF PointsMade
  <2> HIDE DEF own, m
  <2> QED
    BY <1>1, <1>2, <2>1, <2>2 DEF Lands, Finishing
<1> QED
  BY <1>3, <1>4, <1>5 DEF Start

LEMMA ReplayLands ==
    ASSUME CallShape, NEW c \in Call, NEW l, Looked(l), NEW key, NEW t,
           Replay(c, l, key, t)
    PROVE  Lands(c, t)
<1>1. PICK p \in Answering(c, key, t) :
        \/ Answer(c, "idempotency_conflict", None)
        \/ Tells(c, journal[t].result)
        \/ Goto(c, IF /\ point[p].state = "active"
                      /\ point[point[p].sup].tok = t
                   THEN "finish_predecessor" ELSE "finish_journal",
                [l EXCEPT !.cur = p, !.pay = point[p], !.tok = t])
  BY DEF Replay
<1>2. p \in PointId
  BY DEF Answering, Keyed
<1> DEFINE m == [l EXCEPT !.cur = p, !.pay = point[p], !.tok = t]
<1>3. Looked(m) /\ m.tok = t
  BY <1>2 DEF Looked, LocalShape
<1>4. CASE \E status, id : Answer(c, status, id)
  BY <1>4 DEF Answer, CallShape, Lands
<1>5. CASE \E w \in Finishing : Goto(c, w, m)
  <2>1. pc'[c] \in Finishing /\ loc'[c] = m
    BY <1>5, GotoOnly
  <2> HIDE DEF m
  <2> QED
    BY <1>3, <2>1 DEF Lands, Finishing
<1> QED
  BY <1>1, <1>4, <1>5 DEF Tells, Finishing

LEMMA SettleLands ==
    ASSUME CallShape, PointsMade, NEW c \in Call, NEW l, Looked(l), Settle(c, l), NEW t
    PROVE  Lands(c, t)
<1>1. TokenOf[c][l.cur] \in OwnTokens(c)
  BY DEF Looked, OwnTokens
<1>2. CASE \E key : Replay(c, l, key, TokenOf[c][l.cur])
  BY <1>1, <1>2, ReplayLands DEF Lands
<1>3. CASE Start(c, l)
  BY <1>3, StartLands
<1> QED
  BY <1>2, <1>3 DEF Settle

LEMMA ExamineLands ==
    ASSUME CallShape, PointsMade, NEW c \in Call, NEW l, Looked(l), Examine(c, l),
           NEW t
    PROVE  Lands(c, t)
<1> DEFINE claimed == {s \in l.left : point[point[s].sup].tok # None}
<1>1. CASE claimed = {}
  <2> DEFINE m == [l EXCEPT !.left = {}]
  <2>1. Looked(m)
    BY DEF Looked, LocalShape
  <2> QED
    BY <1>1, <2>1, SettleLands DEF Examine
<1>2. CASE claimed # {}
  <2>1. PICK s \in claimed :
          LET from == point[s].sup IN
          Goto(c, "recover",
               [l EXCEPT !.from = from, !.mine = point[from].tok,
                         !.kind = point[from].kind, !.cand = s,
                         !.left = l.left \ {s}])
    BY <1>2 DEF Examine
  <2> DEFINE from == point[s].sup
             m == [l EXCEPT !.from = from, !.mine = point[from].tok,
                            !.kind = point[from].kind, !.cand = s,
                            !.left = l.left \ {s}]
  <2>2. from \in PointId /\ point[from].tok # None
    BY DEF Looked, PointsMade, PointId
  <2>3. /\ Looked(m) /\ m.from = from /\ m.mine = point[from].tok
        /\ m.kind = point[from].kind
    BY DEF Looked, LocalShape
  <2>4. pc'[c] = "recover" /\ loc'[c] = m
    BY <2>1, GotoOnly
  <2> HIDE DEF from, m
  <2> QED
    BY <2>2, <2>3, <2>4 DEF Lands, Finishing
<1> QED
  BY <1>1, <1>2

LEMMA BeginLands ==
    ASSUME CallShape, PointsMade, NEW c \in Call, Begin(c)
    PROVE  Lands(c, None)
<1>1. PICK m \in Known : \E h \in Heads(m) :
         LET l == Snapshot([NoLocal EXCEPT !.mem = m], h) IN
         IF l.pay.tok # None THEN RecoverHead(c, l)
         ELSE IF KindOf[c] = "revise"
              THEN Examine(c, [l EXCEPT !.left = Repeats(c)])
              ELSE Settle(c, l)
  BY DEF Begin
<1> DEFINE l(h) == Snapshot([NoLocal EXCEPT !.mem = m], h)
<1>2. PICK h \in Heads(m) :
         IF l(h).pay.tok # None THEN RecoverHead(c, l(h))
         ELSE IF KindOf[c] = "revise"
              THEN Examine(c, [l(h) EXCEPT !.left = Repeats(c)])
              ELSE Settle(c, l(h))
  BY <1>1
<1>3. h \in PointId /\ m \in PointId
  BY HeadsArePoints DEF Known
<1>4. /\ LocalShape(l(h)) /\ l(h).mem = m /\ l(h).cur = h
      /\ l(h).left = {} /\ l(h).pay = point[h]
  BY <1>3 DEF Snapshot, NoLocal, LocalShape
<1> HIDE DEF l
<1>5. Looked(l(h)) /\ Looked([l(h) EXCEPT !.left = Repeats(c)])
  BY <1>3, <1>4 DEF Looked, LocalShape, Repeats
<1>6. CASE l(h).pay.tok # None /\ RecoverHead(c, l(h))
  <2>1. PICK t : Goto(c, "recover",
             [l(h) EXCEPT !.from = l(h).cur, !.mine = l(h).pay.tok,
                       !.kind = l(h).pay.kind, !.cand = t])
    BY <1>6 DEF RecoverHead
  <2> DEFINE n == [l(h) EXCEPT !.from = l(h).cur, !.mine = l(h).pay.tok,
                               !.kind = l(h).pay.kind, !.cand = t]
  <2>2. /\ Looked(n) /\ n.from = h /\ n.mine = point[h].tok
        /\ n.kind = point[h].kind
    BY <1>4, <1>5 DEF Looked, LocalShape
  <2>3. pc'[c] = "recover" /\ loc'[c] = n
    BY <2>1, GotoOnly
  <2> HIDE DEF n
  <2> QED
    BY <1>3, <1>4, <1>6, <2>2, <2>3 DEF Lands, Finishing
<1>7. CASE Settle(c, l(h))
  BY <1>5, <1>7, SettleLands
<1>8. CASE Examine(c, [l(h) EXCEPT !.left = Repeats(c)])
  BY <1>5, <1>8, ExamineLands
<1> QED
  BY <1>2, <1>6, <1>7, <1>8

LEMMA ResolveAgainLands ==
    ASSUME CallShape, PointsMade, NEW c \in Call, ResolveAgain(c), Placed(c)
    PROVE  Lands(c, loc[c].mine)
<1> DEFINE l(h) == [Snapshot(loc[c], h) EXCEPT !.from = None, !.mine = None,
                                              !.kind = None, !.cand = None]
<1>1. PICK h \in Heads(loc[c].mem) :
        \/ Replay(c, [l(h) EXCEPT !.left = {}], TokenKey[loc[c].cand], loc[c].mine)
        \/ Examine(c, l(h))
  BY DEF ResolveAgain
<1>2. h \in PointId
  BY HeadsArePoints DEF Placed
<1>3. /\ LocalShape(l(h)) /\ l(h).mem = loc[c].mem /\ l(h).cur = h
      /\ l(h).left = loc[c].left
  BY DEF Snapshot, LocalShape, Placed
<1> HIDE DEF l
<1>4. Looked(l(h)) /\ Looked([l(h) EXCEPT !.left = {}])
  BY <1>2, <1>3 DEF Looked, LocalShape, Placed
<1> QED
  BY <1>1, <1>4, ReplayLands, ExamineLands

LEMMA MadeStays ==
    ASSUME NEW e, Wrote(e), NEW p \in PointId
    PROVE  /\ Made(p) => Made(p)'
           /\ point[p].sup # None => point'[p].sup # None
BY ConstantsAssumption DEF Wrote, Made, Makes

\* A call keeps its local fields on its path.
LEMMA PathPlaced ==
    ASSUME CallShape, NEW e \in Call, Placed(e), Wrote(e), NEW w, Goto(e, w, loc[e]),
           w \in Own => pc[e] \in Own /\ w # "upsert",
           w \in Recovering => pc[e] \in Recovering,
           w = "recover_active" => Made(loc[e].mine),
           w \in Revising => loc[e].kind \in ClaimKind,
           w \in Planning => loc[e].kind \in Task
    PROVE  Placed(e)'
<1>1. pc'[e] = w /\ loc'[e] = loc[e]
  BY GotoOnly
<1>2. \A t \in loc[e].left : t \in Token /\ point'[t].sup # None
  BY MadeStays DEF Placed, PointId
<1>3. w = "recover_active" =>
        loc[e].mine = Root \/ point'[loc[e].mine].sup # None
  BY MadeStays DEF Placed, Recovering, Revising, PointId, Made
<1> QED
  BY <1>1, <1>2, <1>3
  DEF Placed, LocalShape, Recovering, Own, Revising, Planning, Made

LEMMA LandsPlaced ==
    ASSUME PointsMade, NEW e \in Call, NEW t, Lands(e, t), UNCHANGED point,
           e \in Annotator => Resolved(e)'
    PROVE  pc'[e] = "done" \/ Placed(e)'
<1> SUFFICES ASSUME pc'[e] # "done" PROVE Placed(e)'
  OBVIOUS
<1>1. /\ LocalShape(loc'[e]) /\ loc'[e].mem \in PointId /\ loc'[e].cur \in PointId
      /\ \A s \in loc'[e].left : s \in Token /\ point'[s].sup # None
  BY DEF Lands, Looked
<1>2. pc'[e] \in Own => e \notin Annotator /\ loc'[e].tok \in OwnTokens(e)
  BY DEF Lands, Own, Finishing, Resolved, Resolving, RecoversNote
<1>3. pc'[e] = "upsert" =>
        loc'[e].tok # Root /\ point'[loc'[e].tok].sup = None
  BY DEF Lands, Made
<1>4. pc'[e] \in Recovering => pc'[e] = "recover"
  BY DEF Lands, Recovering, Finishing, Revising, Planning
<1>5. pc'[e] = "recover" => loc'[e].from \in PointId /\ loc'[e].mine \in Token
  BY DEF Lands, PointsMade
<1> QED
  BY <1>1, <1>2, <1>3, <1>4, <1>5
  DEF Placed, Recovering, Revising, Planning, LocalShape, Made

LEMMA ServicePlaced ==
    ASSUME CallShape, FullPoints, PointsMade, NEW e \in Call,
           Revision(e) \/ RecoverAnnotation(e), pc[e] \notin {"idle", "done"} => Placed(e),
           e \in Annotator => Resolved(e)'
    PROVE  pc'[e] = "done" \/ Placed(e)'
<1>1. CASE Begin(e)
  BY <1>1, BeginLands, LandsPlaced DEF Begin
<1>2. CASE Step(e) /\ Revision(e)
  <2>1. pc[e] \notin {"idle", "done"}
    BY <1>2
    DEF Step, Recover, RecoverActive, RecoverSuperseded, RecoverRetracted,
        RecoverCommit, ResolveAgain, FinishPredecessor, FinishJournal, Upsert,
        Plan, Claim, Readback, Abort, Conflict, Activate, NoteActivated,
        Supersede, NoteClaimed, Withdraw, Commit, SetSource, CheckSource
  <2>2. Placed(e) /\ Wrote(e)
    BY <1>2, <2>1, StepWrote
  <2> USE <2>2, PathPlaced DEF Own, Recovering, Revising, Planning
  <2>3. CASE \E status, id : Answer(e, status, id)
    BY <2>3 DEF Answer, CallShape
  <2>4. CASE ResolveAgain(e)
    BY <2>2, <2>4, ResolveAgainLands, LandsPlaced DEF ResolveAgain
  <2>5. CASE Recover(e)
    <3>1. loc[e].kind \in ClaimKind
      BY <1>2, <2>5 DEF Revision, Recover
    <3>2. point[loc[e].mine].state = "pending" => Made(loc[e].mine)
      BY <2>5 DEF Recover, Placed, PointsMade, PointId
    <3> QED
      BY <2>3, <2>5, <3>1, <3>2 DEF Recover
  <2>6. CASE \/ RecoverActive(e) \/ RecoverSuperseded(e)
             \/ RecoverRetracted(e) \/ RecoverCommit(e)
    BY <2>6
    DEF RecoverActive, RecoverSuperseded, RecoverRetracted, RecoverCommit, Placed
  <2>7. CASE FinishPredecessor(e) \/ FinishJournal(e)
    BY <2>3, <2>7 DEF FinishPredecessor, FinishJournal, Tells
  <2>8. CASE Upsert(e) \/ Plan(e) \/ Claim(e) \/ Readback(e)
    BY <2>3, <2>8 DEF Upsert, Plan, Claim, Readback
  <2>9. CASE \/ Abort(e) \/ Conflict(e) \/ Activate(e) \/ NoteActivated(e)
             \/ Supersede(e) \/ NoteClaimed(e)
    BY <2>3, <2>9
    DEF Abort, Conflict, Activate, NoteActivated, Supersede, NoteClaimed
  <2>10. CASE Withdraw(e) \/ Commit(e) \/ SetSource(e) \/ CheckSource(e)
    BY <2>3, <2>10 DEF Withdraw, Commit, SetSource, CheckSource, Tells
  <2> QED
    BY <1>2, <2>3, <2>4, <2>5, <2>6, <2>7, <2>8, <2>9, <2>10 DEF Step
<1>3. CASE RecoverAnnotation(e)
  <2>1. pc[e] \notin {"idle", "done"}
    BY <1>3
    DEF RecoverAnnotation, RecoverNote, RecoverWrite, RecoverCheck,
        RecoverNoted, RecoverRelease, RecoverFree
  <2>2. Placed(e) /\ Wrote(e)
    BY <1>3, <2>1, RecoverWrote
  <2> USE <2>2, PathPlaced DEF Own, Recovering, Revising, Planning
  <2>3. CASE \E status, id : Answer(e, status, id)
    BY <2>3 DEF Answer, CallShape
  <2>4. CASE RecoverNote(e)
    BY <2>3, <2>4 DEF RecoverNote
  <2>5. CASE RecoverWrite(e) \/ RecoverCheck(e) \/ RecoverNoted(e)
    BY <2>3, <2>5 DEF RecoverWrite, RecoverCheck, RecoverNoted, Placed
  <2>6. CASE RecoverRelease(e) \/ RecoverFree(e)
    BY <2>6 DEF RecoverRelease, RecoverFree, Placed
  <2> QED
    BY <1>3, <2>4, <2>5, <2>6 DEF RecoverAnnotation
<1> QED
  BY <1>1, <1>2, <1>3 DEF Revision

----------------------------------------------------------------------------
(* The trace of a confirmation, in a step of any call.                     *)

OthersStay(e) ==
    \A d \in Call \ {e} : /\ pc'[d] = pc[d] /\ loc'[d] = loc[d]
                          /\ reply'[d] = reply[d]

Moved(e) ==
    /\ Wrote(e) /\ Journaled(e) /\ stale \subseteq stale' /\ OthersStay(e)
    /\ \A d \in Annotator \ {e} : at'[d] = at[d] /\ note'[d] = note[d]

LEMMA Exclusive ==
    ASSUME ExclusiveTokens, NEW c \in Call, NEW d \in Call, c # d,
           NEW t \in OwnTokens(c)
    PROVE  t \notin OwnTokens(d)
BY DEF ExclusiveTokens

LEMMA TokensOfCalls ==
    ASSUME NEW c \in Call, NEW p \in PointId
    PROVE  /\ TokenOf[c][p] \in OwnTokens(c)
           /\ OwnTokens(c) \subseteq Token /\ OwnTokens(c) \subseteq PointId
           /\ None \notin OwnTokens(c)
BY ConstantsAssumption DEF OwnTokens, PointId

LEMMA SamePlaced ==
    ASSUME ExclusiveTokens, NEW e \in Call, NEW d \in Call, d # e \/ d \in Annotator,
           Wrote(e), pc'[d] = pc[d], loc'[d] = loc[d], Placed(d)
    PROVE  Placed(d)'
<1>1. pc'[d] = pc[d] /\ loc'[d] = loc[d]
  OBVIOUS
<1>2. \A t \in loc[d].left : t \in Token /\ point'[t].sup # None
  BY MadeStays DEF Placed, PointId
<1>3. pc[d] = "recover_active" =>
        loc[d].mine = Root \/ point'[loc[d].mine].sup # None
  BY MadeStays DEF Placed, Recovering, Revising, PointId, Made
<1>4. pc[d] = "upsert" => loc[d].tok # Root /\ point'[loc[d].tok].sup = None
  <2> SUFFICES ASSUME pc[d] = "upsert"
               PROVE  loc[d].tok # Root /\ point'[loc[d].tok].sup = None
    OBVIOUS
  <2>1. loc[d].tok \in OwnTokens(d) /\ ~Made(loc[d].tok)
    BY DEF Placed, Own
  <2>2. loc[d].tok \in PointId /\ loc[d].tok \notin OwnTokens(e)
    <3>1. Root \in PointId /\ d # e
      BY DEF PointId, Placed, Own
    <3> QED
      BY <2>1, <3>1, Exclusive, TokensOfCalls
  <2> QED
    BY <2>1, <2>2 DEF Wrote, Makes, Made
<1> QED
  BY <1>1, <1>2, <1>3, <1>4
  DEF Placed, LocalShape, Recovering, Own, Revising, Planning, Made

\* The roots of a revision only grow.
LEMMA Growth ==
    ASSUME RootsOK, NEW e \in Call, Wrote(e), "roots" \notin stale',
           NEW p \in PointId, Made(p)
    PROVE  point[p].roots \subseteq point'[p].roots
<1>1. CASE Projects(e, p)
  <2>1. at[e] \in Busy /\ Confirming(e)
    BY <1>1 DEF Projects, RootsOK, Busy
  <2>2. PICK C \in PointId : Trace(e, C) /\ StageOK(e, C)
    BY <2>1 DEF Confirming
  <2>3. C = p /\ note[e].tok = TokenOf[e][p]
    BY <1>1, <2>1, <2>2 DEF StageOK, Projects
  <2> QED
    BY <1>1, <2>1, <2>2, <2>3 DEF StageOK, Projects
<1>2. CASE ~Projects(e, p)
  BY <1>2 DEF Wrote, Makes, Rewrites
<1> QED
  BY <1>1, <1>2

\* Under the claim of a confirmation only its root is added.
LEMMA Bounded ==
    ASSUME NEW c \in Confirms, NEW C, Trace(c, C), NEW e \in Call, Wrote(e),
           point[C].tok = TokenOf[c][C], ~Projects(e, C)
    PROVE  point'[C].roots \subseteq point[C].roots \cup {RootOf[c]}
<1>1. C \in PointId /\ Made(C) /\ Recovers(c, C, e)
  BY DEF Trace
<1>2. TokenOf[c][C] \in OwnTokens(c)
  BY <1>1, TokensOfCalls, AnnotatorsRead DEF Confirms
<1>3. CASE Rewrites(e, C)
  <2>1. pc[e] \in Recovering /\ pc[e] \in Planning /\ loc[e].mine = TokenOf[c][C]
    BY <1>3 DEF Rewrites, Recovering, Planning
  <2> QED
    BY <1>1, <1>2, <1>3, <2>1 DEF Recovers, Rewrites
<1> QED
  BY <1>1, <1>3 DEF Wrote, Makes

LEMMA NotProjects ==
    ASSUME ExclusiveTokens, NEW c \in Confirms, NEW C, Trace(c, C),
           NEW e \in Call, e = c => at[c] \notin Busy,
           e \in Annotator /\ at[e] \in Busy => note[e].tok \in OwnTokens(e),
           point[C].tok = TokenOf[c][C]
    PROVE  ~Projects(e, C)
<1> SUFFICES ASSUME Projects(e, C) PROVE FALSE
  OBVIOUS
<1>1. e \in Annotator /\ at[e] \in Busy /\ note[e].tok = TokenOf[c][C]
  BY DEF Projects, Busy, Confirms
<1>2. TokenOf[c][C] \in OwnTokens(c) /\ c \in Call
  BY TokensOfCalls, AnnotatorsRead DEF Confirms, Trace
<1> QED
  BY <1>1, <1>2, Exclusive

\* A step of another call, or one in which the call itself resolves.
LEMMA TraceKept ==
    ASSUME ExclusiveTokens, NEW c \in Confirms, NEW C, Trace(c, C),
           NEW e \in Call, Wrote(e), Journaled(e), OthersStay(e),
           e = c => at[c] \notin Busy,
           point[C].roots \subseteq point'[C].roots,
           pc[e] \notin {"idle", "done"} => Placed(e)
    PROVE  /\ C \in PointId /\ Made(C)' /\ ClaimOK(c, C)' /\ RowOK(c, C)'
           /\ Counted(c, C) => Counted(c, C)'
           /\ Drawn(c, C) => Drawn(c, C)'
           /\ \A d \in Call \ {e} : Recovers(c, C, d)'
           /\ point[C].tok # TokenOf[c][C] => point'[C].tok # TokenOf[c][C]
<1> DEFINE T == TokenOf[c][C]
<1>1. C \in PointId /\ c \in Call /\ T \in OwnTokens(c) /\ T \in Token /\ T # None
  BY TokensOfCalls, AnnotatorsRead DEF Confirms, Trace
<1>2. \A t \in OwnTokens(c) : t \in Token /\ t # None /\
         (t \in OwnTokens(e) => e = c)
  BY <1>1, TokensOfCalls, Exclusive
<1>3. Made(C)'
  BY <1>1, MadeStays DEF Trace
<1>4. Counted(c, C) => Counted(c, C)'
  BY DEF Counted
<1>5. c \in Annotator
  BY DEF Confirms
<1>6. \A p \in PointId : point'[p].tok \in OwnTokens(c) =>
         point'[p].tok = point[p].tok /\ point'[p].kind = point[p].kind
  BY <1>2, <1>5 DEF Wrote, Claims, Busy
<1>7. ClaimOK(c, C)'
  BY <1>6 DEF ClaimOK, Trace
\* The rows of the call change only by the recovery of its claim.
<1>8. \A t \in OwnTokens(c) :
         \/ journal'[t] = journal[t] /\ plan'[t] = plan[t]
         \/ /\ t = T /\ Counted(c, C)
            /\ \/ Drawn(c, C) /\ plan'[t] = plan[t]
               \/ /\ RootOf[c] \in plan'[t].roots
                  /\ plan'[t].roots \subseteq point[C].roots \cup {RootOf[c]}
  <2> SUFFICES ASSUME NEW t \in OwnTokens(c),
                      ~(journal'[t] = journal[t] /\ plan'[t] = plan[t])
               PROVE  /\ t = T /\ Counted(c, C)
                      /\ \/ Drawn(c, C) /\ plan'[t] = plan[t]
                         \/ /\ RootOf[c] \in plan'[t].roots
                            /\ plan'[t].roots \subseteq
                                  point[C].roots \cup {RootOf[c]}
    OBVIOUS
  <2>1. Recovers(c, C, e)
    BY DEF Trace
  <2>2. \/ pc[e] = "recover_commit" /\ t = loc[e].mine
        \/ pc[e] = "recover_noted" /\ t = loc[e].mine /\ plan'[t] = held[e]
        \/ pc[e] = "finish_journal" /\ t = loc[e].tok /\ plan'[t] = plan[t]
    BY <1>2, <1>5 DEF Journaled
  <2>3. pc[e] # "recover_commit"
    <3> SUFFICES ASSUME pc[e] = "recover_commit" PROVE FALSE
      OBVIOUS
    <3>1. loc[e].kind \in ClaimKind
      BY DEF Placed, Revising
    <3>2. loc[e].kind = "confirm"
      BY <2>1, <2>2 DEF Recovers, Recovering, Revising
    <3> QED
      BY <3>1, <3>2 DEF ClaimKind
  <2>4. CASE pc[e] = "recover_noted"
    BY <2>1, <2>2, <2>4 DEF Recovers, Recovering, Planning
  <2>5. CASE pc[e] = "finish_journal"
    BY <2>1, <2>2, <2>5 DEF Recovers, Finishing
  <2> QED
    BY <2>2, <2>3, <2>4, <2>5
<1>9. Drawn(c, C) => Drawn(c, C)'
  BY <1>1, <1>8 DEF Drawn
<1>10. RowOK(c, C)'
  <2>1. \A t \in OwnTokens(c) : journal'[t] # NoRow => t = T /\ Drawn(c, C)'
    BY <1>8, <1>9 DEF RowOK, Trace, Drawn
  <2>2. journal'[T].status = "committed" => Counted(c, C)'
    BY <1>1, <1>4, <1>8 DEF RowOK, Trace
  <2>3. plan'[T].roots \subseteq point'[C].roots \cup {RootOf[c]}
    BY <1>1, <1>8 DEF RowOK, Trace
  <2> QED
    BY <2>1, <2>2, <2>3 DEF RowOK
<1>11. \A d \in Call \ {e} : Recovers(c, C, d)'
  <2> SUFFICES ASSUME NEW d \in Call \ {e} PROVE Recovers(c, C, d)'
    OBVIOUS
  <2>1. pc'[d] = pc[d] /\ loc'[d] = loc[d] /\ held'[d] = held[d]
    BY DEF OthersStay, Journaled
  <2>2. Recovers(c, C, d)
    BY DEF Trace
  <2> QED
    BY <1>4, <1>9, <2>1, <2>2 DEF Recovers
<1>12. point[C].tok # T => point'[C].tok # T
  BY <1>1, <1>6
<1> QED
  BY <1>1, <1>3, <1>4, <1>7, <1>9, <1>10, <1>11, <1>12

LEMMA PointsStayMade ==
    ASSUME PointsMade, NEW e \in Call, Wrote(e)
    PROVE  PointsMade'
<1> SUFFICES ASSUME NEW p \in PointId
             PROVE  /\ point'[p].sup \in PointId \cup {None}
                    /\ point'[p].tok \in Token \cup {None}
                    /\ point'[p].state \in {"pending", "active"} => Made(p)'
                    /\ Made(p)' => point'[p].state # "absent"
  BY DEF PointsMade
<1>1. Made(p) => Made(p)'
  BY MadeStays
<1>2. OwnTokens(e) \subseteq Token
  BY TokensOfCalls
<1>3. point'[p].sup \in PointId \cup {None}
  BY DEF Wrote, Makes, PointsMade
<1>4. point'[p].tok \in Token \cup {None}
  BY <1>2 DEF Wrote, Claims, PointsMade
<1>5. point'[p].state \in {"pending", "active"} => Made(p)'
  BY <1>1 DEF Wrote, PointsMade
<1>6. Made(p)' => point'[p].state # "absent"
  <2>1. CASE Makes(e, p)
    BY <2>1 DEF Makes
  <2>2. CASE ~Makes(e, p)
    BY <2>2 DEF Wrote, PointsMade, Made
  <2> QED
    BY <2>1, <2>2
<1> QED
  BY <1>3, <1>4, <1>5, <1>6

\* What a resolution takes over of a claim that it finds or has recovered.
LEMMA LandsRecovers ==
    ASSUME ExclusiveTokens, NEW c \in Confirms, NEW C, ClaimOK(c, C),
           NEW e \in Call, NEW t, Lands(e, t), UNCHANGED <<point, plan>>,
           t \in OwnTokens(c) =>
              t = TokenOf[c][C] /\ Counted(c, C) /\ Drawn(c, C),
           e = c => Resolved(e)'
    PROVE  Recovers(c, C, e)'
<1> c \in Call
  BY AnnotatorsRead DEF Confirms
<1>1. CASE pc'[e] \in {"done", "plan", "upsert"}
  BY <1>1 DEF Recovers, Recovering, Revising, Planning, Finishing
<1>2. CASE pc'[e] = "recover"
  BY <1>2 DEF Lands, ClaimOK, Recovers, Finishing, Planning
<1>3. CASE pc'[e] \in Finishing
  <2>1. e # c
    BY <1>3 DEF Finishing, Resolved, Resolving, RecoversNote
  <2>2. loc'[e].tok \in OwnTokens(c) => loc'[e].tok = t
    BY <1>3, <2>1, Exclusive DEF Lands, Finishing
  <2>3. pc'[e] \notin Recovering
    BY <1>3 DEF Finishing, Recovering, Revising, Planning
  <2> QED
    BY <2>2, <2>3 DEF Recovers, Counted, Drawn
<1> QED
  BY <1>1, <1>2, <1>3 DEF Lands

LEMMA PathRecovers ==
    ASSUME CallShape, NEW c \in Confirms, NEW C, NEW e \in Call, Recovers(c, C, e),
           NEW w, Goto(e, w, loc[e]), held'[e] = held[e],
           point[C].roots \subseteq point'[C].roots,
           Counted(c, C) => Counted(c, C)', Drawn(c, C) => Drawn(c, C)',
           w \in Recovering /\ loc[e].mine \in OwnTokens(c) =>
              /\ pc[e] \in Planning /\ w # "recover"
              /\ w \in {"recover_noted", "recover_release", "recover_free",
                        "resolve_again"} => Counted(c, C)'
              /\ w \in {"recover_release", "recover_free", "resolve_again"} =>
                    Drawn(c, C)',
           w \in Finishing => pc[e] \in Finishing
    PROVE  Recovers(c, C, e)'
<1>1. pc'[e] = w /\ loc'[e] = loc[e]
  BY GotoOnly
<1>2. CASE w \notin Recovering
  BY <1>1, <1>2 DEF Recovers
<1>3. CASE w \in Recovering
  <2>1. w \notin Finishing
    BY <1>3 DEF Finishing, Recovering, Revising, Planning
  <2>2. CASE loc[e].mine \in OwnTokens(c)
    <3>1. pc[e] \in Recovering
      BY <1>3, <2>2 DEF Recovering
    <3>2. /\ RootOf[c] \in held'[e].roots
          /\ held'[e].roots \subseteq point'[C].roots \cup {RootOf[c]}
      BY <1>3, <2>2, <3>1 DEF Recovers
    <3> QED
      BY <1>1, <1>3, <2>1, <2>2, <3>1, <3>2 DEF Recovers
  <2>3. CASE loc[e].mine \notin OwnTokens(c)
    BY <1>1, <2>1, <2>3 DEF Recovers
  <2> QED
    BY <2>2, <2>3
<1> QED
  BY <1>2, <1>3

LEMMA EndRecovers ==
    ASSUME NEW c, NEW C, NEW e, pc'[e] \in {"idle", "done"}
    PROVE  Recovers(c, C, e)'
BY DEF Recovers, Recovering, Revising, Planning, Finishing

\* A step of a service keeps to the revision that a confirmation was decided on.
LEMMA ServiceRecovers ==
    ASSUME ExclusiveTokens, CallShape, JournalShape, FullPoints, PointsMade,
           NEW c \in Confirms, NEW C, Trace(c, C), NEW e \in Call,
           Revision(e) \/ RecoverAnnotation(e),
           pc[e] \notin {"idle", "done"} => Placed(e),
           e = c => Resolved(e)',
           point[C].roots \subseteq point'[C].roots,
           Counted(c, C) => Counted(c, C)', Drawn(c, C) => Drawn(c, C)'
    PROVE  Recovers(c, C, e)'
<1>1. /\ Recovers(c, C, e) /\ ClaimOK(c, C) /\ RowOK(c, C) /\ C \in PointId
      /\ c \in Call
  BY AnnotatorsRead DEF Trace, Confirms
<1>2. None \notin OwnTokens(c)
  BY <1>1, TokensOfCalls
\* A claim to revise is none of a confirmation.
<1>3. pc[e] \in Recovering /\ loc[e].kind # "confirm" => loc[e].mine \notin OwnTokens(c)
  BY <1>1 DEF Recovers
<1>4. "confirm" \notin ClaimKind
  BY DEF ClaimKind
<1>5. CASE Begin(e)
  BY <1>1, <1>2, <1>5, BeginLands, LandsRecovers DEF Begin, Revision,
     RecoverAnnotation, RecoverNote, RecoverWrite, RecoverCheck, RecoverNoted,
     RecoverRelease, RecoverFree
<1>6. CASE Step(e) /\ Revision(e)
  <2>1. /\ plan' = plan /\ held' = held
        /\ pc[e] = "recover" => loc[e].kind \in ClaimKind
    BY <1>6 DEF Revision
  <2>2. Placed(e)
    BY <1>6
    DEF Step, Recover, RecoverActive, RecoverSuperseded, RecoverRetracted,
        RecoverCommit, ResolveAgain, FinishPredecessor, FinishJournal, Upsert,
        Plan, Claim, Readback, Abort, Conflict, Activate, NoteActivated,
        Supersede, NoteClaimed, Withdraw, Commit, SetSource, CheckSource
  <2>3. pc[e] \in Revising \cup {"recover"} => loc[e].mine \notin OwnTokens(c)
    BY <1>3, <1>4, <2>1, <2>2 DEF Placed, Recovering
  <2>4. CASE \E status, id : Answer(e, status, id)
    BY <2>4, EndRecovers DEF Answer, CallShape
  <2>5. CASE \E w : /\ Goto(e, w, loc[e])
                    /\ w \in Recovering => pc[e] \in Revising \cup {"recover"}
                    /\ w \in Finishing => pc[e] \in Finishing
    BY <1>1, <2>1, <2>3, <2>5, PathRecovers
  <2>6. CASE ResolveAgain(e)
    <3>1. Lands(e, loc[e].mine) /\ point' = point
      BY <2>2, <2>6, ResolveAgainLands DEF ResolveAgain
    <3>2. loc[e].mine \in OwnTokens(c) =>
             loc[e].mine = TokenOf[c][C] /\ Counted(c, C) /\ Drawn(c, C)
      BY <1>1, <2>6 DEF ResolveAgain, Recovers, Recovering
    <3> QED
      BY <1>1, <2>1, <3>1, <3>2, LandsRecovers
  <2> USE <2>4, <2>5 DEF Recovering, Revising, Planning, Finishing
  <2>7. CASE Recover(e)
    BY <2>7 DEF Recover
  <2>8. CASE RecoverActive(e) \/ RecoverSuperseded(e)
    BY <2>8 DEF RecoverActive, RecoverSuperseded
  <2>9. CASE RecoverRetracted(e) \/ RecoverCommit(e)
    BY <2>9 DEF RecoverRetracted, RecoverCommit
  <2>10. CASE FinishPredecessor(e) \/ FinishJournal(e)
    BY <2>10 DEF FinishPredecessor, FinishJournal, Tells
  <2>11. CASE Upsert(e) \/ Plan(e) \/ Claim(e) \/ Readback(e)
    BY <2>11 DEF Upsert, Plan, Claim, Readback
  <2>12. CASE \/ Abort(e) \/ Conflict(e) \/ Activate(e) \/ NoteActivated(e)
              \/ Supersede(e) \/ NoteClaimed(e)
    BY <2>12
    DEF Abort, Conflict, Activate, NoteActivated, Supersede, NoteClaimed
  <2>13. CASE Withdraw(e) \/ Commit(e) \/ SetSource(e) \/ CheckSource(e)
    BY <2>13 DEF Withdraw, Commit, SetSource, CheckSource, Tells
  <2> QED
    BY <1>6, <2>6, <2>7, <2>8, <2>9, <2>10, <2>11, <2>12, <2>13 DEF Step
<1>7. CASE RecoverAnnotation(e)
  <2>1. Placed(e)
    BY <1>7
    DEF RecoverAnnotation, RecoverNote, RecoverWrite, RecoverCheck,
        RecoverNoted, RecoverRelease, RecoverFree
  <2>2. CASE \E status, id : Answer(e, status, id)
    BY <2>2, EndRecovers DEF Answer, CallShape
  <2>3. CASE RecoverNote(e) /\ journal[loc[e].mine] # NoRow
    <3>1. pc'[e] = "recover_note" /\ loc'[e] = loc[e]
      BY <2>3, GotoOnly DEF RecoverNote
    <3>2. held'[e] = plan[loc[e].mine] /\ point' = point /\ plan' = plan
      BY <2>3 DEF RecoverNote, JournalShape
    <3>3. loc[e].mine \in OwnTokens(c) =>
             /\ RootOf[c] \in plan[TokenOf[c][C]].roots
             /\ plan[TokenOf[c][C]].roots \subseteq point[C].roots \cup {RootOf[c]}
      BY <1>1, <2>3 DEF RowOK, Drawn
    <3>4. loc[e].mine \in OwnTokens(c) =>
             /\ loc[e].mine = TokenOf[c][C] /\ loc[e].from = C
             /\ loc[e].kind = "confirm"
      BY <1>1, <2>3 DEF RecoverNote, Recovers, Recovering
    <3> QED
      BY <3>1, <3>2, <3>3, <3>4 DEF Recovers, Recovering, Finishing, Planning
  <2>4. CASE RecoverWrite(e)
    <3>1. CASE loc[e].kind = "confirm"
      <4>1. Goto(e, "recover_check", loc[e]) /\ held' = held
        BY <2>4, <3>1 DEF RecoverWrite
      <4>2. pc[e] \in Planning
        BY <2>4 DEF RecoverWrite, Planning
      <4> QED
        BY <1>1, <4>1, <4>2, PathRecovers DEF Finishing
    <3>2. CASE loc[e].kind # "confirm"
      <4>1. Goto(e, "recover_noted", loc[e]) /\ held' = held
        BY <2>4, <3>2 DEF RecoverWrite
      <4>2. loc[e].mine \notin OwnTokens(c)
        BY <1>3, <2>4, <3>2 DEF RecoverWrite, Recovering, Planning
      <4> QED
        BY <1>1, <4>1, <4>2, PathRecovers DEF Finishing
    <3> QED
      BY <3>1, <3>2
  <2>5. CASE RecoverCheck(e)
    <3> SUFFICES ASSUME Goto(e, "recover_noted", loc[e]),
                        point[loc[e].from].roots = held[e].roots
                 PROVE  Recovers(c, C, e)'
      BY <2>2, <2>5 DEF RecoverCheck
    <3>1. pc[e] \in Planning /\ held' = held
      BY <2>5 DEF RecoverCheck, Planning
    <3>2. loc[e].mine \in OwnTokens(c) => Counted(c, C)
      BY <1>1, <3>1 DEF Recovers, Recovering, Counted
    <3> QED
      BY <1>1, <3>1, <3>2, PathRecovers DEF Finishing
  <2>6. CASE RecoverNoted(e)
    <3>1. /\ Goto(e, "recover_release", loc[e]) /\ pc[e] \in Planning
          /\ held' = held /\ plan' = [plan EXCEPT ![loc[e].mine] = held[e]]
      BY <2>6 DEF RecoverNoted, Planning
    <3>2. loc[e].mine \in OwnTokens(c) =>
             /\ loc[e].mine = TokenOf[c][C] /\ Counted(c, C)
             /\ RootOf[c] \in held[e].roots
      BY <1>1, <2>6 DEF RecoverNoted, Recovers, Recovering, Planning
    <3>3. loc[e].mine \in OwnTokens(c) => Counted(c, C)' /\ Drawn(c, C)'
      BY <1>1, <3>1, <3>2, TokensOfCalls DEF Drawn, JournalShape
    <3> QED
      BY <1>1, <3>1, <3>3, PathRecovers DEF Finishing
  <2>7. CASE RecoverRelease(e) \/ RecoverFree(e)
    <3>1. PICK w \in {"recover_free", "resolve_again"} : Goto(e, w, loc[e])
      BY <2>7 DEF RecoverRelease, RecoverFree
    <3>2. /\ pc[e] \in {"recover_release", "recover_free"} /\ pc[e] \in Planning
          /\ held' = held
      BY <2>7 DEF RecoverRelease, RecoverFree, Planning
    <3>3. loc[e].mine \in OwnTokens(c) => Counted(c, C)' /\ Drawn(c, C)'
      BY <1>1, <3>2 DEF Recovers, Recovering
    <3> QED
      BY <1>1, <3>1, <3>2, <3>3, PathRecovers DEF Finishing
  <2> QED
    BY <1>7, <2>2, <2>3, <2>4, <2>5, <2>6, <2>7 DEF RecoverAnnotation, RecoverNote
<1> QED
  BY <1>5, <1>6, <1>7 DEF Revision

\* The tokens a step takes over.
Enters(e) ==
    /\ pc'[e] \in Recovering =>
         \/ pc[e] \in Recovering /\ loc'[e].mine = loc[e].mine
         \/ \E p \in PointId : loc'[e].mine = point[p].tok
    /\ pc'[e] \in Finishing =>
         \/ loc'[e].tok \in OwnTokens(e) \cup {None}
         \/ pc[e] \in Recovering /\ loc'[e].tok = loc[e].mine
         \/ pc[e] \in Finishing /\ loc'[e].tok = loc[e].tok

LEMMA ServiceEnters ==
    ASSUME CallShape, PointsMade, NEW e \in Call,
           Revision(e) \/ RecoverAnnotation(e),
           pc[e] \notin {"idle", "done"} => Placed(e)
    PROVE  Enters(e)
<1>1. CASE \E status, id : Answer(e, status, id)
  BY <1>1 DEF Answer, CallShape, Enters, Recovering, Revising, Planning, Finishing
<1>2. CASE \E w : /\ Goto(e, w, loc[e])
                  /\ w \in Recovering => pc[e] \in Recovering
                  /\ w \in Finishing => pc[e] \in Finishing
  BY <1>2, GotoOnly DEF Enters
<1>4. CASE Begin(e)
  <2>1. Lands(e, None)
    BY <1>4, BeginLands
  <2> QED
    BY <2>1 DEF Lands, Enters, Recovering, Revising, Planning, Finishing
<1>5. CASE ResolveAgain(e)
  <2>1. Lands(e, loc[e].mine) /\ pc[e] \in Recovering
    BY <1>5, ResolveAgainLands DEF ResolveAgain, Recovering
  <2> QED
    BY <2>1 DEF Lands, Enters, Recovering, Revising, Planning, Finishing
<1> USE <1>1, <1>2 DEF Recovering, Revising, Planning, Finishing
<1>6. CASE Recover(e) \/ RecoverActive(e) \/ RecoverSuperseded(e)
  BY <1>6 DEF Recover, RecoverActive, RecoverSuperseded
<1>7. CASE RecoverRetracted(e) \/ RecoverCommit(e)
  BY <1>7 DEF RecoverRetracted, RecoverCommit
<1>8. CASE FinishPredecessor(e) \/ FinishJournal(e)
  BY <1>8 DEF FinishPredecessor, FinishJournal, Tells
<1>9. CASE Upsert(e) \/ Plan(e) \/ Claim(e) \/ Readback(e)
  BY <1>9 DEF Upsert, Plan, Claim, Readback
<1>10. CASE \/ Abort(e) \/ Conflict(e) \/ Activate(e) \/ NoteActivated(e)
            \/ Supersede(e) \/ NoteClaimed(e)
  BY <1>10
  DEF Abort, Conflict, Activate, NoteActivated, Supersede, NoteClaimed
<1>11. CASE Withdraw(e) \/ Commit(e) \/ SetSource(e) \/ CheckSource(e)
  BY <1>11 DEF Withdraw, Commit, SetSource, CheckSource, Tells
<1>12. CASE RecoverNote(e) \/ RecoverWrite(e) \/ RecoverCheck(e)
  BY <1>12 DEF RecoverNote, RecoverWrite, RecoverCheck
<1>13. CASE RecoverNoted(e) \/ RecoverRelease(e) \/ RecoverFree(e)
  BY <1>13 DEF RecoverNoted, RecoverRelease, RecoverFree
<1> QED
  BY <1>4, <1>5, <1>6, <1>7, <1>8, <1>9, <1>10, <1>11, <1>12, <1>13
  DEF Revision, Step, RecoverAnnotation

LEMMA FreshKept ==
    ASSUME ExclusiveTokens, NEW c \in Confirms, Fresh(c), NEW e \in Call, e # c,
           Wrote(e), Journaled(e), OthersStay(e), Enters(e)
    PROVE  Fresh(c)'
<1>1. c \in Call
  BY AnnotatorsRead DEF Confirms
<1> SUFFICES ASSUME NEW t \in OwnTokens(c)
             PROVE  /\ journal'[t] = NoRow /\ plan'[t].roots = {}
                    /\ \A p \in PointId : point'[p].tok # t
                    /\ \A d \in Call : /\ pc'[d] \in Recovering => loc'[d].mine # t
                                       /\ pc'[d] \in Finishing => loc'[d].tok # t
  BY DEF Fresh
<1>2. t \in Token /\ t # None /\ t \notin OwnTokens(e)
  <2>1. Root \in PointId
    BY DEF PointId
  <2> QED
    BY <1>1, <2>1, TokensOfCalls, Exclusive
<1>3. /\ journal[t] = NoRow /\ plan[t].roots = {}
      /\ \A p \in PointId : point[p].tok # t
      /\ \A d \in Call : /\ pc[d] \in Recovering => loc[d].mine # t
                         /\ pc[d] \in Finishing => loc[d].tok # t
  BY DEF Fresh
<1>4. journal'[t] = NoRow /\ plan'[t].roots = {}
  <2>1. ~(pc[e] \in {"recover_commit", "recover_noted"} /\ t = loc[e].mine)
    BY <1>3 DEF Recovering, Revising, Planning
  <2>2. ~(pc[e] = "finish_journal" /\ t = loc[e].tok)
    BY <1>3 DEF Finishing
  <2> QED
    BY <1>2, <1>3, <2>1, <2>2 DEF Journaled
<1>5. \A p \in PointId : point'[p].tok # t
  BY <1>2, <1>3 DEF Wrote, Claims
<1>6. \A d \in Call : /\ pc'[d] \in Recovering => loc'[d].mine # t
                      /\ pc'[d] \in Finishing => loc'[d].tok # t
  BY <1>2, <1>3 DEF OthersStay, Enters
<1> QED
  BY <1>4, <1>5, <1>6

\* A step of an annotation of its own.
Acts(e) ==
    /\ \/ pc'[e] \in {"idle", "done"}
       \/ pc'[e] = pc[e] /\ loc'[e] = loc[e]
    /\ held' = held

\* A step that begins to resolve or to recover.
Opens(e) == Lands(e, None) /\ UNCHANGED <<point, plan, held>>

LEMMA ActsRecovers ==
    ASSUME NEW c \in Confirms, NEW C, NEW e \in Call, Recovers(c, C, e), Acts(e),
           point[C].roots \subseteq point'[C].roots,
           Counted(c, C) => Counted(c, C)', Drawn(c, C) => Drawn(c, C)'
    PROVE  Recovers(c, C, e)'
<1>1. CASE pc'[e] \in {"idle", "done"}
  BY <1>1, EndRecovers
<1>2. CASE pc'[e] = pc[e] /\ loc'[e] = loc[e]
  BY <1>2 DEF Acts, Recovers
<1> QED
  BY <1>1, <1>2 DEF Acts

LEMMA TraceOn ==
    ASSUME ExclusiveTokens, CallShape, JournalShape, FullPoints, PointsMade,
           NEW c \in Confirms, NEW C, Trace(c, C),
           NEW e \in Call, Wrote(e), Journaled(e), OthersStay(e),
           e = c => at[c] \notin Busy /\ Resolved(e)',
           point[C].roots \subseteq point'[C].roots,
           pc[e] \notin {"idle", "done"} => Placed(e),
           Revision(e) \/ RecoverAnnotation(e) \/ Acts(e) \/ Opens(e)
    PROVE  Trace(c, C)'
<1>1. /\ C \in PointId /\ Made(C)' /\ ClaimOK(c, C)' /\ RowOK(c, C)'
      /\ Counted(c, C) => Counted(c, C)'
      /\ Drawn(c, C) => Drawn(c, C)'
      /\ \A d \in Call \ {e} : Recovers(c, C, d)'
  BY TraceKept
<1>2. Recovers(c, C, e)'
  <2>1. Recovers(c, C, e) /\ ClaimOK(c, C) /\ None \notin OwnTokens(c)
    BY <1>1, TokensOfCalls, AnnotatorsRead DEF Trace, Confirms
  <2>2. CASE Opens(e)
    BY <2>1, <2>2, LandsRecovers DEF Opens
  <2> QED
    BY <1>1, <2>1, <2>2, ServiceRecovers, ActsRecovers
<1>3. \A d \in Call : Recovers(c, C, d)'
  <2> SUFFICES ASSUME NEW d \in Call PROVE Recovers(c, C, d)'
    OBVIOUS
  <2>1. CASE d = e
    BY <1>2, <2>1 DEF Recovers
  <2>2. CASE d # e
    BY <1>1, <2>2
  <2> QED
    BY <2>1, <2>2
<1> QED
  BY <1>1, <1>3 DEF Trace

LEMMA ConfirmingKept ==
    ASSUME ExclusiveTokens, CallShape, JournalShape, FullPoints, PointsMade,
           RootsOK, OthersOK, NEW c \in Confirms, Confirming(c),
           NEW e \in Call, Wrote(e), Journaled(e), OthersStay(e),
           at'[c] = at[c], note'[c] = note[c], "roots" \notin stale',
           e = c => at[c] \notin Busy /\ Resolved(e)',
           pc[e] \notin {"idle", "done"} => Placed(e),
           Revision(e) \/ RecoverAnnotation(e) \/ Acts(e) \/ Opens(e)
    PROVE  Confirming(c)'
<1>1. PICK C \in PointId : note[c].cid = C /\ Trace(c, C) /\ StageOK(c, C)
  BY DEF Confirming
<1>2. point[C].roots \subseteq point'[C].roots
  BY <1>1, Growth DEF Trace
<1>3. Trace(c, C)'
  BY <1>1, <1>2, TraceOn
<1>4. /\ Counted(c, C) => Counted(c, C)'
      /\ point[C].tok # TokenOf[c][C] => point'[C].tok # TokenOf[c][C]
  BY <1>1, <1>2, TraceKept
<1>5. at[c] \in Busy /\ point'[C].tok = TokenOf[c][C] =>
        point'[C].roots \subseteq point[C].roots \cup {RootOf[c]}
  <2> SUFFICES ASSUME at[c] \in Busy, point[C].tok = TokenOf[c][C]
               PROVE  point'[C].roots \subseteq point[C].roots \cup {RootOf[c]}
    BY <1>4
  <2>1. ~Projects(e, C)
    BY <1>1, NotProjects DEF OthersOK
  <2> QED
    BY <1>1, <2>1, Bounded
<1>6. StageOK(c, C)'
  BY <1>1, <1>2, <1>4, <1>5 DEF StageOK, Busy
<1>7. note'[c].cid = C
  BY <1>1
<1> QED
  BY <1>3, <1>6, <1>7 DEF Confirming

----------------------------------------------------------------------------
(* The steps of a confirmation.                                            *)

LEMMA OwnTrace ==
    ASSUME NEW c \in Confirms, NEW C, Trace(c, C), \A d \in Call : Acts(d),
           point[C].roots \subseteq point'[C].roots,
           Drawn(c, C) => Drawn(c, C)', Made(C)', ClaimOK(c, C)', RowOK(c, C)'
    PROVE  Trace(c, C)' /\ (Counted(c, C) => Counted(c, C)')
<1>1. Counted(c, C) => Counted(c, C)'
  BY DEF Counted
<1>2. \A d \in Call : Recovers(c, C, d)'
  <2> SUFFICES ASSUME NEW d \in Call PROVE Recovers(c, C, d)'
    OBVIOUS
  <2>1. Recovers(c, C, d)
    BY DEF Trace
  <2> QED
    BY <1>1, <2>1, ActsRecovers
<1>3. C \in PointId
  BY DEF Trace
<1> QED
  BY <1>1, <1>2, <1>3 DEF Trace

LEMMA OwnRow ==
    ASSUME JournalShape, NEW c \in Confirms, NEW C, Trace(c, C), NEW status,
           \A d \in Call : Acts(d), point' = point,
           journal' = [journal EXCEPT ![TokenOf[c][C]].status = status],
           plan' = [plan EXCEPT ![TokenOf[c][C]] = note[c].plan],
           RootOf[c] \in note[c].plan.roots,
           note[c].plan.roots \subseteq point[C].roots \cup {RootOf[c]},
           status = "committed" => Counted(c, C)
    PROVE  Trace(c, C)' /\ (Counted(c, C) => Counted(c, C)')
<1>1. TokenOf[c][C] \in Token /\ TokenOf[c][C] \in OwnTokens(c)
  BY TokensOfCalls, AnnotatorsRead DEF Confirms, Trace
<1>2. Drawn(c, C)'
  BY <1>1 DEF Drawn, JournalShape
<1>3. Made(C)' /\ ClaimOK(c, C)'
  BY DEF Made, ClaimOK, Trace
<1>4. RowOK(c, C)'
  <2>1. \A s \in OwnTokens(c) : journal'[s] # NoRow => s = TokenOf[c][C]
    BY DEF RowOK, Trace
  <2>2. journal'[TokenOf[c][C]].status = "committed" => Counted(c, C)'
    BY <1>1 DEF JournalShape, Counted
  <2>3. plan'[TokenOf[c][C]].roots \subseteq point'[C].roots \cup {RootOf[c]}
    BY <1>1 DEF JournalShape
  <2> QED
    BY <1>2, <2>1, <2>2, <2>3 DEF RowOK
<1> QED
  BY <1>2, <1>3, <1>4, OwnTrace

LEMMA OwnPoint ==
    ASSUME NEW c \in Confirms, NEW C, Trace(c, C), \A d \in Call : Acts(d),
           journal' = journal, plan' = plan, Made(C)', ClaimOK(c, C)',
           point[C].roots \subseteq point'[C].roots
    PROVE  Trace(c, C)' /\ (Counted(c, C) => Counted(c, C)')
<1>1. RowOK(c, C)' /\ (Drawn(c, C) => Drawn(c, C)')
  BY DEF RowOK, Trace, Drawn, Counted
<1> QED
  BY <1>1, OwnTrace

LEMMA OwnUnmoved ==
    ASSUME NEW c \in Confirms, NEW C, Trace(c, C), \A d \in Call : Acts(d),
           UNCHANGED <<point, journal, plan>>
    PROVE  Trace(c, C)' /\ (Counted(c, C) => Counted(c, C)')
<1>1. Made(C)' /\ ClaimOK(c, C)'
  BY DEF Made, ClaimOK, Trace
<1> QED
  BY <1>1, OwnPoint

LEMMA PickConfirms ==
    ASSUME RootShape, PointsMade, NEW c \in Confirms, Fresh(c), Pick(c),
           DOMAIN at = Annotator, DOMAIN note = Annotator
    PROVE  Confirming(c)' /\ at'[c] = "link"
<1>1. PICK C \in Active : To(c, "link", [NoNote EXCEPT !.cid = C])
  BY DEF Pick
<1>2. c \in Annotator /\ c \in Call
  BY AnnotatorsRead DEF Confirms
<1>3. /\ at'[c] = "link" /\ note'[c].cid = C
  BY <1>1, <1>2 DEF To, NoNote
<1>4. UNCHANGED <<point, journal, pc, loc, plan, held>>
  BY DEF Pick, vars
<1>5. C \in PointId /\ Made(C)'
  BY <1>4 DEF PointsMade, Active, Made
<1>6. TokenOf[c][C] \in OwnTokens(c)
  BY <1>2, <1>5, TokensOfCalls
<1>7. ClaimOK(c, C)'
  BY <1>4 DEF Fresh, ClaimOK
<1>8. RowOK(c, C)'
  BY <1>4, <1>6 DEF Fresh, RowOK, NoRow
<1>9. \A d \in Call : Recovers(c, C, d)'
  BY <1>4 DEF Fresh, Recovers
<1>10. StageOK(c, C)'
  BY <1>3, <1>4, <1>5, <1>6 DEF StageOK, Busy, Fresh
<1>11. Trace(c, C)'
  BY <1>5, <1>7, <1>8, <1>9 DEF Trace
<1> QED
  BY <1>3, <1>5, <1>10, <1>11 DEF Confirming

\* What the properties of a step of the call depend on.
LEMMA OwnFrame ==
    ASSUME ClaimsInv, NEW c \in on \cap Annotator, Plainly(c)
    PROVE  /\ \A d \in Call : Acts(d)
           /\ \A d \in Annotator \ {c} : at'[d] = at[d] /\ note'[d] = note[d]
           /\ OthersStay(c)
<1>1. Kept(c)
  BY PlainlyKept
<1>2. held' = held
  <2>1. Plain(c)
    BY AnnotationCases DEF Plainly
  <2> QED
    BY <2>1 DEF Plain, Pick, Resumed, StoreBlob, Prepare, ClaimHead, ReadClaim, TryAgain,
     WriteClaimed, Annotate, Verify, Conclude, ReadRelease, ReleaseClaim,
     ScanHistory, Strike, References, DropBlob, Fault, Failed, Discard, Finish
<1> QED
  BY <1>1, <1>2 DEF Kept, Alone, Acts, OthersStay

LEMMA OwnConfirms ==
    ASSUME ClaimsInv, RootShape, NEW c \in Confirms, c \in on,
           Plainly(c), at[c] # "pick", Confirming(c),
           "roots" \notin stale'
    PROVE  IF at'[c] = "done" THEN Confirmed(c)'
           ELSE at'[c] # "pick" /\ Confirming(c)'
<1>1. PICK C \in PointId : note[c].cid = C /\ Trace(c, C) /\ StageOK(c, C)
  BY DEF Confirming
<1>2. /\ c \in Annotator /\ c \in Call /\ c \in on \cap Annotator
      /\ TaskOf[c] = "confirm"
  BY AnnotatorsRead DEF Confirms
<1>3. \A d \in Call : Acts(d)
  BY <1>2, OwnFrame
<1>4. /\ DOMAIN at = Annotator /\ DOMAIN note = Annotator
      /\ {"cid", "roots", "plan", "head", "tok", "claims", "status"} \subseteq
            DOMAIN note[c]
      /\ DOMAIN point = PointId
      /\ {"sup", "roots", "consumed", "state", "tok", "kind"} \subseteq
            DOMAIN point[C]
      /\ at[c] = "verify" => note[c].claims
  BY <1>1, <1>2 DEF ClaimsInv, Shape, RootShape, Claiming
<1>5. JournalShape
  BY DEF RootShape, JournalShape
<1>6. /\ TokenOf[c][C] \in OwnTokens(c) /\ TokenOf[c][C] # None
      /\ None \notin OwnTokens(c)
  BY <1>1, <1>2, TokensOfCalls
<1>7. Made(C) /\ ClaimOK(c, C)
  BY <1>1 DEF Trace
<1> DEFINE T == TokenOf[c][C]
<1>8. ASSUME Trace(c, C)' /\ (Counted(c, C) => Counted(c, C)'), NEW stage, NEW n,
             To(c, stage, n), n.cid = C, stage \notin {"pick", "done"},
             at'[c] = stage /\ note'[c] = n => StageOK(c, C)'
      PROVE  IF at'[c] = "done" THEN Confirmed(c)'
             ELSE at'[c] # "pick" /\ Confirming(c)'
  <2>1. at'[c] = stage /\ note'[c] = n
    BY <1>2, <1>4, <1>8 DEF To
  <2> QED
    BY <1>8, <2>1 DEF Confirming
<1>9. ASSUME UNCHANGED <<point, journal, plan>>, NEW stage, NEW n,
             To(c, stage, n), n.cid = C, stage \notin {"pick", "done"},
             at'[c] = stage /\ note'[c] = n /\ point' = point => StageOK(c, C)'
      PROVE  IF at'[c] = "done" THEN Confirmed(c)'
             ELSE at'[c] # "pick" /\ Confirming(c)'
  BY <1>1, <1>3, <1>8, <1>9, OwnUnmoved
<1>10. CASE ReadClaim(c)
  <2>1. CASE point[note[c].head].tok = note[c].tok
    BY <1>1, <1>9, <1>10, <2>1 DEF ReadClaim, StageOK, Busy, vars
  <2>2. CASE point[note[c].head].tok # note[c].tok
    BY <1>1, <1>9, <1>10, <2>2 DEF ReadClaim, StageOK, Busy, vars
  <2> QED
    BY <2>1, <2>2
<1>11. CASE TryAgain(c)
  <2> DEFINE n == [NoNote EXCEPT !.cid = note[c].cid, !.tries = note[c].tries + 1]
  <2>1. n.cid = C /\ point[C].tok # T
    BY <1>1, <1>11 DEF TryAgain, NoNote, StageOK
  <2> HIDE DEF n
  <2>2. /\ To(c, "link", n) \/ To(c, "failed", note[c])
        /\ UNCHANGED <<point, journal, plan>>
    BY <1>2, <1>4, <1>11 DEF TryAgain, Again, To, Plainly, n
  <2>3. CASE To(c, "link", n)
    BY <1>1, <1>9, <2>1, <2>2, <2>3 DEF StageOK, Busy
  <2>4. CASE To(c, "failed", note[c])
    BY <1>1, <1>9, <2>2, <2>4 DEF StageOK, Busy
  <2> QED
    BY <2>2, <2>3, <2>4
<1>27. CASE Resumed(c)
  <2>1. To(c, "link", note[c]) /\ UNCHANGED <<point, journal, plan>>
    BY <1>27 DEF Resumed, Again
  <2>2. point[C].tok # T
    BY <1>1, <1>27 DEF Resumed, StageOK
  <2> QED
    BY <1>1, <1>9, <2>1, <2>2 DEF StageOK, Busy
\* An answer that is not "confirmed".
<1>12. ASSUME UNCHANGED <<point, journal, plan>>, Gives(c, "failed", note[c])
       PROVE  IF at'[c] = "done" THEN Confirmed(c)'
              ELSE at'[c] # "pick" /\ Confirming(c)'
  <2> DEFINE n == [note[c] EXCEPT !.status = "failed"]
  <2>1. To(c, "found", n) /\ n.cid = C /\ n.status = "failed"
    BY <1>1, <1>4, <1>12 DEF Gives
  <2> HIDE DEF n
  <2> QED
    BY <1>9, <1>12, <2>1 DEF StageOK, Busy
<1>13. ASSUME Trace(c, C)' /\ (Counted(c, C) => Counted(c, C)'),
              at[c] \in {"release", "free"}, Over(c, note[c])
       PROVE  IF at'[c] = "done" THEN Confirmed(c)'
              ELSE at'[c] # "pick" /\ Confirming(c)'
  <2> DEFINE n == [note[c] EXCEPT !.status = "confirmed"]
  <2>1. To(c, "found", n) /\ n.cid = C /\ n.head = note[c].head
    BY <1>1, <1>2, <1>4, <1>13 DEF Over, Gives
  <2>2. Counted(c, C) /\ note[c].head = C
    BY <1>1, <1>13 DEF StageOK, Busy
  <2> HIDE DEF n
  <2> QED
    BY <1>8, <1>13, <2>1, <2>2 DEF StageOK, Busy
<1>14. CASE Verify(c)
  <2>1. CASE point[note[c].head].tok = note[c].tok
    <3>1. UNCHANGED <<point, journal, plan>> /\ To(c, "commit", note[c])
      BY <1>14, <2>1 DEF Verify, vars
    <3>2. Counted(c, C) /\ note[c].claims
      BY <1>1, <1>4, <1>14, <2>1 DEF Verify, StageOK, Busy
    <3>3. /\ note[c].head = C /\ note[c].tok = T
          /\ note[c].roots \subseteq point[C].roots
          /\ note[c].plan.roots = note[c].roots \cup {RootOf[c]}
      BY <1>1, <1>14 DEF Verify, StageOK, Busy
    <3>4. at'[c] = "commit" /\ note'[c] = note[c] /\ point' = point => StageOK(c, C)'
      BY <3>2, <3>3 DEF StageOK, Busy, Counted
    <3> QED
      BY <1>1, <1>9, <3>1, <3>4
  <2>2. CASE point[note[c].head].tok # note[c].tok
    BY <1>12, <1>14, <2>2 DEF Verify, vars
  <2> QED
    BY <2>1, <2>2
<1>15. CASE ReadRelease(c)
  <2>1. UNCHANGED <<point, journal, plan>> /\ at[c] = "release"
    BY <1>15 DEF ReadRelease, vars
  <2>2. CASE point[note[c].head].tok = note[c].tok
    <3>1. To(c, "free", note[c])
      BY <1>15, <2>2 DEF ReadRelease
    <3>2. at'[c] = "free" /\ note'[c] = note[c] /\ point' = point => StageOK(c, C)'
      BY <1>1, <2>1 DEF StageOK, Busy, Counted
    <3> QED
      BY <1>1, <1>9, <2>1, <3>1, <3>2
  <2>3. CASE point[note[c].head].tok # note[c].tok
    <3>1. Over(c, note[c])
      BY <1>15, <2>3 DEF ReadRelease
    <3> QED
      BY <1>1, <1>3, <1>13, <2>1, <3>1, OwnUnmoved
  <2> QED
    BY <2>2, <2>3
<1>16. CASE Fault(c)
  BY <1>1, <1>9, <1>16 DEF Fault, vars, StageOK, Busy
<1>17. CASE Failed(c)
  BY <1>2, <1>12, <1>17 DEF Failed
<1>18. CASE Prepare(c)
  <2>1. /\ at[c] = "prepare" /\ point' = point /\ To(c, "claim", note[c])
        /\ journal' = [journal EXCEPT ![note[c].tok].status = "prepared"]
        /\ plan' = [plan EXCEPT ![note[c].tok] = note[c].plan]
    BY <1>18 DEF Prepare, Note
  <2>2. /\ note[c].head = C /\ note[c].tok = T /\ point[C].tok # T
        /\ note[c].roots \subseteq point[C].roots
        /\ note[c].plan.roots = note[c].roots \cup {RootOf[c]}
    BY <1>1, <2>1 DEF StageOK, Busy
  <2>3. Trace(c, C)' /\ (Counted(c, C) => Counted(c, C)')
    BY <1>1, <1>3, <1>5, <2>1, <2>2, OwnRow
  <2>4. at'[c] = "claim" /\ note'[c] = note[c] => StageOK(c, C)'
    BY <2>1, <2>2 DEF StageOK, Busy
  <2> QED
    BY <1>1, <1>8, <2>1, <2>3, <2>4
<1>19. CASE WriteClaimed(c)
  <2> DEFINE n == [note[c] EXCEPT !.claims = TRUE]
  <2>1. /\ at[c] = "claimed" /\ point' = point /\ To(c, "write", n)
        /\ journal' = [journal EXCEPT ![note[c].tok].status = "claimed"]
        /\ plan' = [plan EXCEPT ![note[c].tok] = note[c].plan]
    BY <1>19 DEF WriteClaimed, Note
  <2>2. /\ note[c].head = C /\ note[c].tok = T
        /\ note[c].roots \subseteq point[C].roots
        /\ note[c].plan.roots = note[c].roots \cup {RootOf[c]}
        /\ point[C].tok = T => point[C].roots \subseteq note[c].plan.roots
    BY <1>1, <2>1 DEF StageOK, Busy
  <2>3. Trace(c, C)' /\ (Counted(c, C) => Counted(c, C)')
    BY <1>1, <1>3, <1>5, <2>1, <2>2, OwnRow
  <2>4. /\ n.cid = C /\ n.head = note[c].head /\ n.tok = note[c].tok
        /\ n.roots = note[c].roots /\ n.plan = note[c].plan
    BY <1>1
  <2> HIDE DEF n
  <2>5. at'[c] = "write" /\ note'[c] = n => StageOK(c, C)'
    BY <2>1, <2>2, <2>4 DEF StageOK, Busy
  <2> QED
    BY <1>8, <2>1, <2>3, <2>4, <2>5
<1>20. CASE Conclude(c)
  <2>1. note[c].claims /\ Counted(c, C)
    BY <1>1, <1>20 DEF Conclude, StageOK
  <2>2. /\ at[c] = "commit" /\ point' = point /\ To(c, "release", note[c])
        /\ journal' = [journal EXCEPT ![note[c].tok].status = "committed"]
        /\ plan' = [plan EXCEPT ![note[c].tok] = note[c].plan]
    BY <1>20, <2>1 DEF Conclude, Note
  <2>3. /\ note[c].head = C /\ note[c].tok = T
        /\ note[c].roots \subseteq point[C].roots
        /\ note[c].plan.roots = note[c].roots \cup {RootOf[c]}
    BY <1>1, <2>2 DEF StageOK, Busy
  <2>4. Trace(c, C)' /\ (Counted(c, C) => Counted(c, C)')
    BY <1>1, <1>3, <1>5, <2>1, <2>2, <2>3, OwnRow
  <2>5. at'[c] = "release" /\ note'[c] = note[c] => StageOK(c, C)'
    BY <2>1, <2>2, <2>3, <2>4 DEF StageOK, Busy
  <2> QED
    BY <1>1, <1>8, <2>2, <2>4, <2>5
<1>21. CASE ClaimHead(c)
  <2>1. /\ at[c] = "claim" /\ To(c, "readback", note[c])
        /\ journal' = journal /\ plan' = plan
    BY <1>21 DEF ClaimHead
  <2>2. /\ note[c].head = C /\ note[c].tok = T /\ point[C].tok # T
        /\ note[c].roots \subseteq point[C].roots
        /\ note[c].plan.roots = note[c].roots \cup {RootOf[c]}
    BY <1>1, <2>1 DEF StageOK, Busy
  <2>3. CASE point' = point
    <3>1. at'[c] = "readback" /\ note'[c] = note[c] /\ point' = point =>
            StageOK(c, C)'
      BY <2>2 DEF StageOK, Busy
    <3> QED
      BY <1>1, <1>9, <2>1, <2>3, <3>1
  <2>4. CASE point' # point
    <3>1. /\ point' = [point EXCEPT ![C].tok = T, ![C].kind = "confirm"]
          /\ point[C].roots = note[c].roots
      BY <1>2, <1>21, <2>2, <2>4 DEF ClaimHead, Notice
    <3>2. /\ point'[C].roots = point[C].roots /\ point'[C].sup = point[C].sup
          /\ point'[C].tok = T /\ point'[C].kind = "confirm"
          /\ \A p \in PointId \ {C} : point'[p] = point[p]
      BY <1>1, <1>4, <3>1
    <3>3. Made(C)' /\ ClaimOK(c, C)'
      BY <1>7, <3>2 DEF Made, ClaimOK
    <3>4. Trace(c, C)' /\ (Counted(c, C) => Counted(c, C)')
      BY <1>1, <1>3, <2>1, <3>2, <3>3, OwnPoint
    <3>5. at'[c] = "readback" /\ note'[c] = note[c] => StageOK(c, C)'
      BY <2>2, <3>1, <3>2 DEF StageOK, Busy
    <3> QED
      BY <1>1, <1>8, <2>1, <3>4, <3>5
  <2> QED
    BY <2>3, <2>4
<1>22. CASE Annotate(c)
  <2>1. /\ at[c] = "write" /\ To(c, "verify", note[c])
        /\ journal' = journal /\ plan' = plan
    BY <1>2, <1>22 DEF Annotate
  <2>2. /\ note[c].head = C /\ note[c].tok = T
        /\ note[c].roots \subseteq point[C].roots
        /\ note[c].plan.roots = note[c].roots \cup {RootOf[c]}
        /\ point[C].tok = T => point[C].roots \subseteq note[c].plan.roots
    BY <1>1, <2>1 DEF StageOK, Busy
  <2>3. CASE point[C].tok # T
    <3>1. point' = point
      BY <1>2, <1>22, <2>2, <2>3 DEF Annotate
    <3>2. at'[c] = "verify" /\ note'[c] = note[c] /\ point' = point =>
            StageOK(c, C)'
      BY <2>2, <2>3 DEF StageOK, Busy
    <3> QED
      BY <1>1, <1>9, <2>1, <3>1, <3>2
  <2>4. CASE point[C].tok = T
    <3>1. point' = [point EXCEPT ![C].roots = note[c].plan.roots,
                                 ![C].consumed = note[c].plan.consumed]
      BY <1>2, <1>22, <2>2, <2>4 DEF Annotate
    <3>2. /\ point'[C].roots = note[c].plan.roots /\ point'[C].sup = point[C].sup
          /\ \A p \in PointId : /\ point'[p].tok = point[p].tok
                                /\ point'[p].kind = point[p].kind
      BY <1>1, <1>4, <3>1
    <3>3. Made(C)' /\ ClaimOK(c, C)'
      BY <1>7, <3>2 DEF Made, ClaimOK
    <3>4. Trace(c, C)' /\ (Counted(c, C) => Counted(c, C)')
      BY <1>1, <1>3, <2>1, <2>2, <2>4, <3>2, <3>3, OwnPoint
    <3>5. Counted(c, C)'
      BY <2>2, <3>2 DEF Counted
    <3>6. at'[c] = "verify" /\ note'[c] = note[c] => StageOK(c, C)'
      BY <2>2, <3>2, <3>5 DEF StageOK, Busy
    <3> QED
      BY <1>1, <1>8, <2>1, <3>4, <3>6
  <2> QED
    BY <2>3, <2>4
<1>23. CASE ReleaseClaim(c)
  <2>1. /\ at[c] = "free" /\ Over(c, note[c])
        /\ journal' = journal /\ plan' = plan
    BY <1>23 DEF ReleaseClaim
  <2>2. point' = [point EXCEPT ![C].tok = None, ![C].kind = None]
    BY <1>1, <1>23, <2>1 DEF ReleaseClaim, StageOK, Busy
  <2>3. /\ point'[C].roots = point[C].roots /\ point'[C].sup = point[C].sup
        /\ point'[C].tok = None
        /\ \A p \in PointId \ {C} : point'[p] = point[p]
    BY <1>1, <1>4, <2>2
  <2>4. Made(C)' /\ ClaimOK(c, C)'
    BY <1>6, <1>7, <2>3 DEF Made, ClaimOK
  <2>5. Trace(c, C)' /\ (Counted(c, C) => Counted(c, C)')
    BY <1>1, <1>3, <2>1, <2>3, <2>4, OwnPoint
  <2> QED
    BY <1>13, <2>1, <2>5
<1>24. CASE Finish(c)
  <2>1. /\ at[c] = "found" /\ To(c, "done", NoNote) /\ point' = point
        /\ Answer(c, note[c].status, note[c].head)
    BY <1>24 DEF Finish
  <2>2. at'[c] = "done"
    BY <1>2, <1>4, <2>1 DEF To
  <2>3. /\ reply'[c].status = note[c].status /\ reply'[c].id = note[c].head
    BY <1>2, <2>1 DEF Answer, ClaimsInv, Shape
  <2>4. note[c].status = "confirmed" => Counted(c, C) /\ note[c].head = C
    BY <1>1, <2>1 DEF StageOK
  <2>5. Made(C)'
    BY <1>7, <2>1 DEF Made
  <2>6. Confirmed(c)'
    BY <1>1, <1>7, <2>1, <2>3, <2>4 DEF Confirmed, Counted, Made
  <2> QED
    BY <2>2, <2>6
<1>25. at[c] \in Busy \cup {"link", "lost", "retry", "failed", "found"}
  BY <1>1 DEF StageOK
<1>26. ~(\/ Pick(c) \/ StoreBlob(c) \/ ScanHistory(c) \/ Strike(c)
         \/ References(c) \/ DropBlob(c) \/ Discard(c))
  BY <1>25 DEF Busy, Pick, StoreBlob, ScanHistory, Strike, References, DropBlob,
               Discard
<1>28. Plain(c)
  BY AnnotationCases DEF Plainly
<1> QED
  BY <1>10, <1>11, <1>14, <1>15, <1>16, <1>17, <1>18, <1>19, <1>20, <1>21, <1>22,
     <1>23, <1>24, <1>26, <1>27, <1>28
  DEF Plain

LEMMA DecidedConfirms ==
    ASSUME ClaimsInv, RootShape, NEW c \in Confirms, NEW C \in PointId,
           note[c].cid = C, Trace(c, C), Trace(c, C)',
           point[C].roots \subseteq point'[C].roots, point'[C].tok # TokenOf[c][C],
           NEW h, Decided(c, h)
    PROVE  at'[c] \notin {"pick", "done"} /\ Confirming(c)'
<1>1. c \in Annotator /\ TaskOf[c] = "confirm"
  BY DEF Confirms
<1>2. /\ DOMAIN at = Annotator /\ DOMAIN note = Annotator
      /\ {"cid", "roots", "plan", "head", "tok", "claims", "status"} \subseteq
            DOMAIN note[c]
  BY <1>1 DEF ClaimsInv, Shape, RootShape
<1>3. ASSUME NEW stage, NEW m, To(c, stage, m), m.cid = C,
             stage \notin {"pick", "done"},
             at'[c] = stage /\ note'[c] = m => StageOK(c, C)'
      PROVE  at'[c] \notin {"pick", "done"} /\ Confirming(c)'
  <2>1. at'[c] = stage /\ note'[c] = m
    BY <1>1, <1>2, <1>3 DEF To
  <2> QED
    BY <1>3, <2>1 DEF Confirming
<1> DEFINE n == Drafted(c, h)
<1>4. /\ n.cid = C /\ n.head = h /\ n.tok = TokenOf[c][h]
      /\ n.roots = point[h].roots
      /\ n.plan.roots = point[h].roots \cup {RootOf[c]}
      /\ {"cid", "head", "status"} \subseteq DOMAIN n
  BY <1>1, <1>2 DEF Drafted, NoPlan
<1>5. \/ h # C /\ Gives(c, "failed", n)
      \/ /\ h = C /\ journal[TokenOf[c][C]].status = "committed" /\ Over(c, n)
      \/ Gives(c, "skipped", n)
      \/ h = C /\ \E stage \in {"prepare", "claim"} : To(c, stage, n)
  <2> HIDE DEF n
  <2> QED
    BY <1>1, <1>4 DEF Decided, IsCommitted, n
<1> HIDE DEF n
<1>6. ASSUME NEW status, Gives(c, status, n),
             status = "confirmed" => Counted(c, C)' /\ h = C
      PROVE  at'[c] \notin {"pick", "done"} /\ Confirming(c)'
  <2> DEFINE m == [n EXCEPT !.status = status]
  <2>1. /\ To(c, "found", m) /\ m.cid = C /\ m.head = h /\ m.status = status
    BY <1>4, <1>6 DEF Gives
  <2> HIDE DEF m
  <2>2. at'[c] = "found" /\ note'[c] = m => StageOK(c, C)'
    BY <1>6, <2>1 DEF StageOK, Busy
  <2> QED
    BY <1>3, <2>1, <2>2
<1>7. CASE h = C /\ journal[TokenOf[c][C]].status = "committed" /\ Over(c, n)
  <2>1. Gives(c, "confirmed", n)
    BY <1>1, <1>7 DEF Over
  <2>2. Counted(c, C)'
    BY <1>7 DEF RowOK, Trace, Counted
  <2> QED
    BY <1>6, <1>7, <2>1, <2>2
<1>8. CASE h = C /\ \E stage \in {"prepare", "claim"} : To(c, stage, n)
  <2>1. PICK stage \in {"prepare", "claim"} : To(c, stage, n)
    BY <1>8
  <2>2. at'[c] = stage /\ note'[c] = n => StageOK(c, C)'
    BY <1>4, <1>8 DEF StageOK, Busy
  <2> QED
    BY <1>3, <1>4, <2>1, <2>2
<1> QED
  BY <1>5, <1>6, <1>7, <1>8

LEMMA ResolveConfirms ==
    ASSUME ExclusiveTokens, ClaimsInv, RootShape, FullPoints, JournalShape,
           PointsMade, PlacesOK, OthersOK, RootsOK,
           NEW c \in Confirms, c \in on, Resolve(c),
           Wrote(c), Journaled(c), OthersStay(c), "roots" \notin stale'
    PROVE  at'[c] \notin {"pick", "done"} /\ Confirming(c)'
<1>1. /\ c \in Annotator /\ c \in Call /\ TaskOf[c] = "confirm"
      /\ Revision(c) \/ RecoverAnnotation(c)
  BY AnnotatorsRead DEF Confirms, Resolve
<1>2. Confirming(c)
  BY DEF Resolve, RootsOK
<1>3. PICK C \in PointId : note[c].cid = C /\ Trace(c, C) /\ StageOK(c, C)
  BY <1>2 DEF Confirming
<1>4. at[c] = "link" /\ at[c] \notin Busy /\ point[C].tok # TokenOf[c][C]
  BY <1>3 DEF StageOK, Busy, Resolve
<1>5. Resolved(c)' /\ CallShape
  BY <1>1, ReaderSteps DEF ClaimsInv, Shape, CallShape
<1>6. pc[c] \notin {"idle", "done"} => Placed(c)
  BY <1>1 DEF PlacesOK
<1>7. point[C].roots \subseteq point'[C].roots
  BY <1>1, <1>3, Growth DEF Trace
<1>8. Trace(c, C)'
  BY <1>1, <1>3, <1>4, <1>5, <1>6, <1>7, TraceOn
<1>9. point'[C].tok # TokenOf[c][C]
  BY <1>1, <1>3, <1>4, <1>6, <1>7, TraceKept
<1>10. CASE pc'[c] # "done"
  <2>1. at' = at /\ note' = note
    BY <1>10 DEF Resolve
  <2> QED
    BY <1>1, <1>2, <1>4, <1>5, <1>6, <2>1, ConfirmingKept
<1>11. CASE pc'[c] = "done" /\ reply'[c].status = "read"
  <2>1. Decided(c, reply'[c].id)
    BY <1>4, <1>11 DEF Resolve, Uses
  <2> QED
    BY <1>3, <1>7, <1>8, <1>9, <2>1, DecidedConfirms
<1>12. CASE pc'[c] = "done" /\ reply'[c].status # "read"
  <2>1. To(c, "failed", note[c])
    BY <1>1, <1>4, <1>12 DEF Resolve, Refused, Task
  <2>2. at'[c] = "failed" /\ note'[c] = note[c]
    BY <1>1, <2>1 DEF To, ClaimsInv, Shape
  <2>3. StageOK(c, C)'
    BY <2>2 DEF StageOK, Busy
  <2>4. note'[c].cid = C
    BY <1>3, <2>2
  <2> QED
    BY <1>8, <2>2, <2>3, <2>4 DEF Confirming
<1> QED
  BY <1>10, <1>11, <1>12

LEMMA RecoveryConfirms ==
    ASSUME ExclusiveTokens, ClaimsInv, RootShape, FullPoints, JournalShape,
           PointsMade, PlacesOK, OthersOK, RootsOK,
           NEW c \in Confirms, c \in on, Recovery(c), pc[c] # "resolve_again",
           Wrote(c), Journaled(c), OthersStay(c), "roots" \notin stale'
    PROVE  at'[c] \notin {"pick", "done"} /\ Confirming(c)'
<1>1. /\ c \in Annotator /\ c \in Call /\ at[c] = "retry" /\ at[c] \notin Busy
      /\ Revision(c) \/ RecoverAnnotation(c)
      /\ IF pc'[c] = "done" THEN Gives(c, "failed", note[c])
         ELSE UNCHANGED <<at, note>>
  BY AnnotatorsRead DEF Confirms, Recovery, Busy
<1>2. Confirming(c)
  BY <1>1 DEF RootsOK
<1>3. PICK C \in PointId : note[c].cid = C /\ Trace(c, C) /\ StageOK(c, C)
  BY <1>2 DEF Confirming
<1>4. Resolved(c)' /\ CallShape
  BY <1>1, ReaderSteps DEF ClaimsInv, Shape, CallShape
<1>5. pc[c] \notin {"idle", "done"} => Placed(c)
  BY <1>1 DEF PlacesOK
<1>6. CASE pc'[c] # "done"
  <2>1. at' = at /\ note' = note
    BY <1>1, <1>6
  <2> QED
    BY <1>1, <1>2, <1>4, <1>5, <2>1, ConfirmingKept
<1>7. CASE pc'[c] = "done"
  <2>1. point[C].roots \subseteq point'[C].roots
    BY <1>1, <1>3, Growth DEF Trace
  <2>2. Trace(c, C)'
    BY <1>1, <1>3, <1>4, <1>5, <2>1, TraceOn
  <2> DEFINE n == [note[c] EXCEPT !.status = "failed"]
  <2>3. To(c, "found", n) /\ n.cid = C /\ n.status = "failed"
    BY <1>1, <1>3, <1>7 DEF Gives, ClaimsInv, Shape, RootShape
  <2> HIDE DEF n
  <2>4. at'[c] = "found" /\ note'[c] = n
    BY <1>1, <2>3 DEF To, ClaimsInv, Shape
  <2>5. StageOK(c, C)'
    BY <2>3, <2>4 DEF StageOK, Busy
  <2> QED
    BY <2>2, <2>3, <2>4, <2>5 DEF Confirming
<1> QED
  BY <1>6, <1>7

\* A confirmation that begins to recover what it lost its claim to.
LEMMA ResumesOpens ==
    ASSUME ClaimsInv, PointsMade, NEW c \in Annotator, Resumes(c)
    PROVE  /\ Opens(c) /\ Resolved(c)' /\ OnlyCall(c)
           /\ UNCHANGED <<point, journal, plan, held, stale>>
           /\ at'[c] = "retry" /\ note'[c].cid = note[c].cid
           /\ \A d \in Annotator \ {c} : at'[d] = at[d] /\ note'[d] = note[d]
<1>1. PICK k, l :
        /\ To(c, "retry", [NoNote EXCEPT !.cid = note[c].cid, !.tries = k])
        /\ Goto(c, "recover", l)
        /\ LocalShape(l) /\ l.mem = note[c].head /\ l.from = note[c].head
        /\ l.cur = note[c].head
        /\ l.mine = point[note[c].head].tok /\ l.kind = point[note[c].head].kind
        /\ l.cand = None /\ l.left = {}
        /\ UNCHANGED <<point, journal, plan, held, stale>>
        /\ at[c] = "lost" /\ point[note[c].head].tok # None
  BY DEF Resumes
<1>2. /\ c \in Call /\ CallShape /\ note[c].head \in PointId
      /\ DOMAIN at = Annotator /\ DOMAIN note = Annotator
  BY <1>1, AnnotatorsRead DEF ClaimsInv, Shape, CallShape, Tokens, Headed
<1>3. OnlyCall(c) /\ pc'[c] = "recover" /\ loc'[c] = l
  BY <1>1, <1>2, GotoOnly
<1>4. Looked(l)
  BY <1>1, <1>2 DEF Looked
<1>5. Looked(loc'[c])
  BY <1>3, <1>4
<1>6. Opens(c)
  BY <1>1, <1>2, <1>3, <1>5 DEF Opens, Lands, Finishing
<1>7. Resolved(c)'
  BY <1>1, <1>2, <1>3 DEF Resolved, Resolving, RecoversNote
<1>8. /\ at'[c] = "retry" /\ note'[c].cid = note[c].cid
      /\ \A d \in Annotator \ {c} : at'[d] = at[d] /\ note'[d] = note[d]
  BY <1>1, <1>2 DEF To, NoNote
<1> QED
  BY <1>1, <1>3, <1>6, <1>7, <1>8

LEMMA ResumesConfirms ==
    ASSUME ExclusiveTokens, ClaimsInv, RootShape, FullPoints, JournalShape,
           PointsMade, PlacesOK, OthersOK, RootsOK,
           NEW c \in Confirms, Resumes(c), Wrote(c), Journaled(c), OthersStay(c)
    PROVE  at'[c] \notin {"pick", "done"} /\ Confirming(c)'
<1>1. /\ c \in Annotator /\ c \in Call /\ at[c] = "lost" /\ at[c] \notin Busy
  BY AnnotatorsRead DEF Confirms, Resumes, Busy
<1>2. PICK C \in PointId : note[c].cid = C /\ Trace(c, C) /\ StageOK(c, C)
  BY <1>1 DEF RootsOK, Confirming
<1>3. /\ Opens(c) /\ Resolved(c)' /\ point' = point
      /\ at'[c] = "retry" /\ note'[c].cid = C
  BY <1>1, <1>2, ResumesOpens
<1>4. CallShape /\ (pc[c] \notin {"idle", "done"} => Placed(c))
  BY <1>1 DEF PlacesOK, ClaimsInv, Shape, CallShape
<1>5. Trace(c, C)'
  BY <1>1, <1>2, <1>3, <1>4, TraceOn
<1>6. StageOK(c, C)'
  BY <1>1, <1>2, <1>3 DEF StageOK, Busy
<1> QED
  BY <1>3, <1>5, <1>6 DEF Confirming

----------------------------------------------------------------------------
(* What every annotating call remembers.                                   *)

NoteFields(n) == /\ {"cid", "roots", "plan", "status", "tok"} \subseteq DOMAIN n
                 /\ "roots" \in DOMAIN n.plan

Tidy(c) ==
    /\ NoteFields(note[c])
    /\ at[c] \in Busy => note[c].tok \in OwnTokens(c)
    /\ c \notin Confirms =>
         /\ at[c] # "pick"
         /\ at[c] = "found" => note[c].status # "confirmed"
         /\ at[c] = "done" => reply[c].status # "confirmed"

LEMMA TidyTo ==
    ASSUME ClaimsInv, NEW c \in Annotator, NEW stage, NEW n, To(c, stage, n),
           NoteFields(n), stage \in Busy => n.tok \in OwnTokens(c),
           c \notin Confirms => /\ stage \notin {"pick", "done"}
                                /\ stage = "found" => n.status # "confirmed",
           stage # "done"
    PROVE  Tidy(c)'
<1>1. at'[c] = stage /\ note'[c] = n
  BY DEF To, ClaimsInv, Shape
<1> QED
  BY <1>1 DEF Tidy, NoteFields

LEMMA TidyGives ==
    ASSUME ClaimsInv, NEW c \in Annotator, NEW status, NEW n, Gives(c, status, n),
           NoteFields(n), status = "confirmed" => c \in Confirms
    PROVE  Tidy(c)'
<1> DEFINE m == [n EXCEPT !.status = status]
<1>1. To(c, "found", m) /\ NoteFields(m) /\ m.status = status
  BY DEF Gives, NoteFields
<1> HIDE DEF m
<1> QED
  BY <1>1, TidyTo DEF Busy

LEMMA TidyOver ==
    ASSUME ClaimsInv, NEW c \in Annotator, NEW n, Over(c, n), NoteFields(n)
    PROVE  Tidy(c)'
<1>1. CASE TaskOf[c] = "delete"
  BY <1>1, TidyTo DEF Over, Busy
<1>2. CASE TaskOf[c] = "save"
  BY <1>2, TidyGives DEF Over
<1>3. CASE TaskOf[c] \notin {"save", "delete"}
  <2>1. c \in Confirms
    BY <1>3, AnnotatorsRead DEF Task, Confirms
  <2> QED
    BY <1>3, <2>1, TidyGives DEF Over
<1> QED
  BY <1>1, <1>2, <1>3

LEMMA OwnTidy ==
    ASSUME ClaimsInv, NEW c \in Annotator, Tidy(c), Annotation(c), ~Serves(c)
    PROVE  Tidy(c)'
<1>1. NoteFields(note[c])
  BY DEF Tidy
<1>2. CASE \E stage \in {"failed", "cleanup", "lost", "link", "drop"} :
              To(c, stage, note[c])
  BY <1>1, <1>2, TidyTo DEF Busy
<1>3. CASE \E stage \in Busy : To(c, stage, note[c]) /\ at[c] \in Busy
  BY <1>1, <1>3, TidyTo DEF Busy, Tidy
<1>4. CASE \E status \in {"failed", "unlinked"} : Gives(c, status, note[c])
  BY <1>1, <1>4, TidyGives
<1>5. CASE Over(c, note[c])
  BY <1>1, <1>5, TidyOver
<1>6. CASE Pick(c)
  <2>1. PICK p : To(c, "link", [NoNote EXCEPT !.cid = p])
    BY <1>6 DEF Pick
  <2> DEFINE n == [NoNote EXCEPT !.cid = p]
  <2>2. NoteFields(n)
    BY DEF NoteFields, NoNote, NoPlan
  <2> HIDE DEF n
  <2>3. To(c, "link", n)
    BY <2>1 DEF n
  <2> QED
    BY <2>2, <2>3, TidyTo DEF Busy
<1>7. CASE TryAgain(c)
  <2> DEFINE n == [NoNote EXCEPT !.cid = note[c].cid, !.tries = note[c].tries + 1]
  <2>1. \/ \E stage \in {"link", "retry"} : To(c, stage, n)
        \/ To(c, "failed", note[c])
    BY <1>7 DEF TryAgain, Again
  <2>2. NoteFields(n)
    BY DEF NoteFields, NoNote, NoPlan
  <2> HIDE DEF n
  <2> QED
    BY <1>2, <2>1, <2>2, TidyTo DEF Busy
<1>8. CASE WriteClaimed(c)
  <2> DEFINE n == [note[c] EXCEPT !.claims = TRUE]
  <2>1. To(c, "write", n) /\ n.tok = note[c].tok /\ NoteFields(n) /\ at[c] \in Busy
    BY <1>1, <1>8 DEF WriteClaimed, NoteFields, Busy
  <2> HIDE DEF n
  <2> QED
    BY <2>1, TidyTo DEF Busy, Tidy
<1>9. CASE ScanHistory(c) \/ Strike(c)
  <2>1. PICK n : To(c, "strike", n) /\ NoteFields(n)
    <3>1. CASE ScanHistory(c)
      <4> DEFINE lists == {[id |-> p, arts |-> point[p].arts] :
                              p \in Listing(ArtifactOf[c])}
                 known == {p \in PointId : point[p].state # "absent"}
                 n == [note[c] EXCEPT !.lists = lists, !.known = known]
      <4>1. To(c, "strike", n)
        BY <3>1 DEF ScanHistory
      <4> HIDE DEF lists, known
      <4>2. NoteFields(n)
        BY <1>1 DEF NoteFields
      <4> HIDE DEF n
      <4> QED
        BY <4>1, <4>2
    <3>2. CASE Strike(c)
      <4>1. PICK x \in note[c].lists :
               To(c, "strike", [note[c] EXCEPT !.lists = note[c].lists \ {x}])
        BY <3>2 DEF Strike
      <4>2. NoteFields([note[c] EXCEPT !.lists = note[c].lists \ {x}])
        BY <1>1 DEF NoteFields
      <4> QED
        BY <4>1, <4>2
    <3> QED
      BY <1>9, <3>1, <3>2
  <2> QED
    BY <2>1, TidyTo DEF Busy
<1>10. CASE Finish(c)
  <2>1. /\ at'[c] = "done" /\ note'[c] = NoNote /\ at[c] = "found"
        /\ reply'[c].status = note[c].status
    BY <1>10, AnnotatorsRead DEF Finish, To, Answer, ClaimsInv, Shape
  <2> QED
    BY <2>1 DEF Tidy, NoteFields, NoNote, NoPlan, Busy
<1>11. CASE StoreBlob(c) \/ Fault(c) \/ Failed(c) \/ References(c) \/ DropBlob(c)
            \/ Discard(c)
  BY <1>2, <1>4, <1>11
  DEF StoreBlob, Again, Fault, Failed, References, DropBlob, Discard
<1>12. CASE Prepare(c) \/ ClaimHead(c) \/ ReadClaim(c) \/ Annotate(c)
  BY <1>2, <1>3, <1>12 DEF Prepare, ClaimHead, ReadClaim, Annotate, Busy
<1>13. CASE Verify(c) \/ Conclude(c) \/ ReadRelease(c) \/ ReleaseClaim(c)
  BY <1>3, <1>4, <1>5, <1>13 DEF Verify, Conclude, ReadRelease, ReleaseClaim, Busy
<1>14. CASE Resumed(c)
  BY <1>2, <1>14 DEF Resumed, Again
<1> QED
  BY <1>6, <1>7, <1>8, <1>9, <1>10, <1>11, <1>12, <1>13, <1>14, AnnotationCases
  DEF Plain

LEMMA DecidedTidy ==
    ASSUME ClaimsInv, NEW c \in Annotator, Tidy(c), NEW h \in PointId, Decided(c, h)
    PROVE  Tidy(c)'
<1> DEFINE n == Drafted(c, h)
<1>1. NoteFields(n) /\ n.tok = TokenOf[c][h]
  BY DEF Tidy, NoteFields, Drafted, NoPlan
<1>2. n.tok \in OwnTokens(c)
  BY <1>1, AnnotatorsRead, TokensOfCalls
<1>3. \/ \E status \in {"failed", "skipped"} : Gives(c, status, n)
      \/ Over(c, n)
      \/ \E stage \in {"prepare", "claim", "commit"} : To(c, stage, n)
  <2> HIDE DEF n
  <2> QED
    BY DEF Decided, n
<1> HIDE DEF n
<1>4. CASE \E status \in {"failed", "skipped"} : Gives(c, status, n)
  BY <1>1, <1>4, TidyGives
<1>5. CASE Over(c, n)
  BY <1>1, <1>5, TidyOver
<1>6. CASE \E stage \in {"prepare", "claim", "commit"} : To(c, stage, n)
  BY <1>1, <1>2, <1>6, TidyTo
<1> QED
  BY <1>3, <1>4, <1>5, <1>6

LEMMA RecoveryTidy ==
    ASSUME ClaimsInv, NEW c \in Annotator, Tidy(c), Recovery(c),
           pc[c] # "resolve_again"
    PROVE  Tidy(c)'
<1>1. /\ at[c] = "retry"
      /\ IF pc'[c] = "done" THEN Gives(c, "failed", note[c])
         ELSE UNCHANGED <<at, note>>
  BY DEF Recovery
<1>2. CASE pc'[c] # "done"
  BY <1>1, <1>2 DEF Tidy, NoteFields, Busy
<1>3. CASE pc'[c] = "done"
  BY <1>1, <1>3, TidyGives DEF Tidy
<1> QED
  BY <1>2, <1>3

LEMMA ResolveTidy ==
    ASSUME ClaimsInv, NEW c \in Annotator, Tidy(c), Resolve(c)
    PROVE  Tidy(c)'
<1>1. NoteFields(note[c]) /\ (c \notin Confirms => at[c] \notin {"pick", "found", "done"})
  BY DEF Tidy, Resolve
<1>2. at[c] \notin Busy /\ at[c] \notin {"found", "done"}
  BY DEF Resolve, Busy
<1>3. CASE pc'[c] # "done"
  BY <1>1, <1>2, <1>3 DEF Resolve, Tidy, NoteFields
<1>4. ASSUME NEW status, NEW h, Refused(c, status, h),
             status # "incomplete" => h \in PointId
      PROVE  Tidy(c)'
  <2>1. CASE To(c, "failed", note[c])
    BY <1>1, <2>1, TidyTo DEF Busy
  <2>2. CASE Gives(c, "failed", note[c])
    BY <1>1, <2>2, TidyGives
  <2>3. CASE Decided(c, h) /\ status = "stale"
    BY <1>4, <2>3, DecidedTidy
  <2> QED
    BY <1>4, <2>1, <2>2, <2>3 DEF Refused
<1>5. ASSUME NEW h \in PointId, Uses(c, h) PROVE Tidy(c)'
  <2>1. CASE at[c] = "first"
    BY <1>1, <1>5, <2>1, TidyTo DEF Uses, Busy
  <2>2. CASE at[c] \notin {"first", "link"}
    <3> DEFINE n == [note[c] EXCEPT !.head = h]
    <3>1. Gives(c, "saved", n) \/ To(c, "orphaned", note[c])
      BY <1>5, <2>2 DEF Uses
    <3>2. NoteFields(n)
      BY <1>1 DEF NoteFields
    <3> HIDE DEF n
    <3> QED
      BY <1>1, <3>1, <3>2, TidyGives, TidyTo DEF Busy
  <2>3. CASE at[c] = "link"
    BY <1>5, <2>3, DecidedTidy DEF Uses
  <2> QED
    BY <2>1, <2>2, <2>3
<1>6. CASE pc'[c] = "done" /\ reply'[c].status = "read"
  <2>1. Uses(c, reply'[c].id) /\ reply'[c].id \in PointId
    BY <1>6, ReaderSteps DEF Resolve, Resolved, Resolving, RecoversNote
  <2> QED
    BY <1>5, <2>1
<1>7. CASE pc'[c] = "done" /\ reply'[c].status # "read"
  <2>1. /\ Refused(c, reply'[c].status, reply'[c].id)
        /\ reply'[c].status # "incomplete" => reply'[c].id \in PointId
    BY <1>7, ReaderSteps DEF Resolve, Resolved, Resolving, RecoversNote
  <2> QED
    BY <1>4, <2>1
<1> QED
  BY <1>3, <1>6, <1>7

----------------------------------------------------------------------------
(* Every step.                                                             *)

LEMMA Shapes ==
    ASSUME ClaimsInv, RootShape, OthersOK
    PROVE  FullPoints /\ JournalShape /\ CallShape /\ \A c \in Annotator : Tidy(c)
BY DEF ClaimsInv, Shape, RootShape, OthersOK, FullPoints, PointFields, JournalShape,
       CallShape, Tidy, NoteFields

\* What the lemmas on the confirmations need to know of a step.
Goes(e) ==
    /\ Wrote(e) /\ Journaled(e) /\ OthersStay(e) /\ Enters(e)
    /\ stale \subseteq stale'
    /\ Revision(e) \/ RecoverAnnotation(e) \/ Acts(e) \/ Opens(e)
    /\ \A d \in Annotator \ {e} : at'[d] = at[d] /\ note'[d] = note[d]

LEMMA ServiceGoes ==
    ASSUME ClaimsInv, RootShape, PointsMade, PlacesOK, OthersOK,
           NEW e \in on \cap Call, Revision(e) \/ RecoverAnnotation(e),
           \A d \in Annotator \ {e} : at'[d] = at[d] /\ note'[d] = note[d]
    PROVE  Goes(e) /\ (pc'[e] = "done" \/ Placed(e)')
<1>1. FullPoints /\ JournalShape /\ CallShape
  BY Shapes
<1>2. pc[e] \notin {"idle", "done"} => Placed(e)
  BY DEF PlacesOK
<1>3. OthersStay(e)
  BY ServiceFrame DEF OnlyCall, OthersStay
<1>4. Enters(e) /\ stale \subseteq stale'
  BY <1>1, <1>2, ServiceEnters, StaleGrows
<1>5. Wrote(e) /\ Journaled(e)
  <2>1. CASE Begin(e) /\ Revision(e)
    <3>1. /\ point' = point /\ journal' = journal /\ plan' = plan /\ held' = held
      BY <2>1 DEF Begin, Revision
    <3>2. Wrote(e)
      BY <1>1, <3>1 DEF Wrote, FullPoints, Made
    <3>3. Journaled(e)
      BY <1>1, <3>1 DEF Journaled, JournalShape
    <3> QED
      BY <3>2, <3>3
  <2>2. CASE Step(e) /\ Revision(e)
    <3>1. pc[e] \notin {"idle", "done"}
      BY <2>2
      DEF Step, Recover, RecoverActive, RecoverSuperseded, RecoverRetracted,
          RecoverCommit, ResolveAgain, FinishPredecessor, FinishJournal, Upsert,
          Plan, Claim, Readback, Abort, Conflict, Activate, NoteActivated,
          Supersede, NoteClaimed, Withdraw, Commit, SetSource, CheckSource
    <3>2. plan' = plan /\ held' = held
      BY <2>2 DEF Revision
    <3> QED
      BY <1>1, <1>2, <2>2, <3>1, <3>2, StepWrote, StepJournaled
  <2>3. CASE RecoverAnnotation(e)
    BY <1>1, <2>3, RecoverWrote, RecoverJournaled
  <2> QED
    BY <2>1, <2>2, <2>3 DEF Revision
<1>6. pc'[e] = "done" \/ Placed(e)'
  <2>1. e \in Annotator => Resolved(e)'
    BY ReaderSteps
  <2> QED
    BY <1>1, <1>2, <2>1, ServicePlaced
<1> QED
  BY <1>3, <1>4, <1>5, <1>6 DEF Goes

LEMMA OwnGoes ==
    ASSUME ExclusiveTokens, ClaimsInv, RootShape, PointsMade, PlacesOK, OthersOK,
           NEW e \in on \cap Annotator, Plainly(e)
    PROVE  Goes(e) /\ (pc'[e] \notin {"idle", "done"} => Placed(e)')
<1>1. FullPoints /\ JournalShape /\ CallShape /\ e \in Call
  BY Shapes, AnnotatorsRead
<1>2. at[e] \in Busy => note[e].tok \in OwnTokens(e)
  BY DEF OthersOK
<1>3. /\ Acts(e) /\ OthersStay(e)
      /\ \A d \in Annotator \ {e} : at'[d] = at[d] /\ note'[d] = note[d]
  BY <1>1, OwnFrame
<1>4. Wrote(e) /\ Journaled(e)
  BY <1>1, <1>2, AnnotationWrote, AnnotationJournaled DEF Busy, Plainly
<1>5. stale \subseteq stale'
  BY StaleGrows DEF Plainly
<1>6. Enters(e)
  BY <1>3 DEF Acts, Enters, Recovering, Revising, Planning, Finishing
<1>7. ASSUME pc'[e] \notin {"idle", "done"} PROVE Placed(e)'
  <2>1. pc'[e] = pc[e] /\ loc'[e] = loc[e]
    BY <1>3, <1>7 DEF Acts
  <2>2. Placed(e)
    BY <1>1, <1>7, <2>1 DEF PlacesOK
  <2> QED
    BY <1>1, <1>4, <2>1, <2>2, SamePlaced
<1> QED
  BY <1>3, <1>4, <1>5, <1>6, <1>7 DEF Goes

LEMMA ResumesGoes ==
    ASSUME ClaimsInv, RootShape, PointsMade, PlacesOK, OthersOK,
           NEW e \in on \cap Annotator, TryAgain(e), at'[e] = "retry"
    PROVE  /\ Goes(e) /\ Resumes(e) /\ (pc'[e] \notin {"idle", "done"} => Placed(e)')
           /\ Tidy(e)'
<1>1. FullPoints /\ JournalShape /\ CallShape /\ e \in Call /\ Tidy(e)
  BY Shapes, AnnotatorsRead
<1>2. Resumes(e)
  BY AgainResumes
<1>3. /\ Opens(e) /\ Resolved(e)' /\ OnlyCall(e)
      /\ UNCHANGED <<point, journal, plan, held, stale>>
      /\ \A d \in Annotator \ {e} : at'[d] = at[d] /\ note'[d] = note[d]
  BY <1>2, ResumesOpens
<1>4. Annotation(e) /\ ~Serves(e)
  BY DEF Annotation, Serves, TryAgain, Resolve, Recovery
<1>5. at[e] \in Busy => note[e].tok \in OwnTokens(e)
  BY DEF OthersOK
<1>6. Wrote(e) /\ Journaled(e)
  BY <1>1, <1>4, <1>5, AnnotationWrote, AnnotationJournaled DEF Busy
<1>7. Enters(e)
  BY <1>3 DEF Opens, Lands, Enters, Recovering, Revising, Planning, Finishing
<1>8. Goes(e)
  BY <1>3, <1>6, <1>7 DEF Goes, OnlyCall, OthersStay
<1>9. pc'[e] = "done" \/ Placed(e)'
  BY <1>1, <1>3, LandsPlaced DEF Opens
<1>10. Tidy(e)'
  BY <1>1, <1>4, OwnTidy
<1> QED
  BY <1>2, <1>8, <1>9, <1>10

\* The other calls.
LEMMA GoesPlaces ==
    ASSUME ExclusiveTokens, PointsMade, PlacesOK, NEW e \in Call, Goes(e),
           pc'[e] \notin {"idle", "done"} => Placed(e)'
    PROVE  PointsMade' /\ PlacesOK'
<1>1. PointsMade'
  BY PointsStayMade DEF Goes
<1>2. ASSUME NEW d \in Call, pc'[d] \notin {"idle", "done"} PROVE Placed(d)'
  <2>1. CASE d = e
    BY <1>2, <2>1 DEF Placed, Made, LocalShape
  <2>2. CASE d # e
    <3>1. pc'[d] = pc[d] /\ loc'[d] = loc[d]
      BY <2>2 DEF Goes, OthersStay
    <3>2. Placed(d)
      BY <1>2, <3>1 DEF PlacesOK
    <3> QED
      BY <2>2, <3>1, <3>2, SamePlaced DEF Goes
  <2> QED
    BY <2>1, <2>2
<1> QED
  BY <1>1, <1>2 DEF PlacesOK

LEMMA GoesRoots ==
    ASSUME ExclusiveTokens, ClaimsInv, RootsInv, NEW e \in Call, Goes(e),
           "roots" \notin stale', NEW c \in Confirms, c # e
    PROVE  /\ at'[c] = "pick" => Fresh(c)'
           /\ at'[c] \notin {"pick", "done"} => Confirming(c)'
           /\ at'[c] = "done" => Confirmed(c)'
<1>1. /\ RootShape /\ PointsMade /\ PlacesOK /\ OthersOK /\ RootsOK
      /\ FullPoints /\ JournalShape /\ CallShape
  BY Shapes DEF RootsInv, Goes
<1>2. /\ c \in Annotator /\ c \in Call
      /\ at'[c] = at[c] /\ note'[c] = note[c] /\ reply'[c] = reply[c]
  BY AnnotatorsRead DEF Confirms, Goes, OthersStay
<1>3. pc[e] \notin {"idle", "done"} => Placed(e)
  BY <1>1 DEF PlacesOK
<1>4. ASSUME at[c] = "pick" PROVE Fresh(c)'
  BY <1>1, <1>4, FreshKept DEF RootsOK, Goes
<1>5. ASSUME at[c] \notin {"pick", "done"} PROVE Confirming(c)'
  <2>1. Confirming(c)
    BY <1>1, <1>5 DEF RootsOK
  <2> QED
    BY <1>1, <1>2, <1>3, <2>1, ConfirmingKept DEF Goes
<1>6. ASSUME at[c] = "done" PROVE Confirmed(c)'
  <2>1. Confirmed(c)
    BY <1>1, <1>6 DEF RootsOK
  <2>2. ASSUME reply[c].status = "confirmed"
        PROVE  /\ reply[c].id \in PointId
               /\ reply[c].id = Root \/ point'[reply[c].id].sup # None
               /\ RootOf[c] \in point'[reply[c].id].roots
    <3>1. /\ reply[c].id \in PointId /\ Made(reply[c].id)
          /\ RootOf[c] \in point[reply[c].id].roots
      BY <2>1, <2>2 DEF Confirmed
    <3>2. PICK p \in PointId : p = reply[c].id
      BY <3>1
    <3>3. Made(p)
      BY <3>1, <3>2 DEF Made
    <3>4. Made(p)' /\ point[p].roots \subseteq point'[p].roots
      BY <1>1, <3>3, MadeStays, Growth DEF Goes
    <3> QED
      BY <3>1, <3>2, <3>4 DEF Made
  <2> QED
    BY <1>2, <2>2 DEF Confirmed, Made
<1> QED
  BY <1>2, <1>4, <1>5, <1>6

LEMMA TidyShapes ==
    ASSUME FullPoints', JournalShape', \A c \in Annotator : Tidy(c)'
    PROVE  RootShape' /\ OthersOK'
<1>1. RootShape'
  BY DEF RootShape, FullPoints, PointFields, JournalShape, Tidy, NoteFields
<1>2. OthersOK'
  BY DEF OthersOK, Tidy
<1> QED
  BY <1>1, <1>2

LEMMA GoesInv ==
    ASSUME ExclusiveTokens, ClaimsInv, RootsInv, NEW e \in Call, Goes(e),
           pc'[e] \notin {"idle", "done"} => Placed(e)',
           e \in Annotator => Tidy(e)',
           e \in Confirms /\ "roots" \notin stale' =>
              /\ at'[e] = "pick" => Fresh(e)'
              /\ at'[e] \notin {"pick", "done"} => Confirming(e)'
              /\ at'[e] = "done" => Confirmed(e)'
    PROVE  RootsInv'
<1>1. /\ RootShape /\ PointsMade /\ PlacesOK /\ OthersOK
      /\ \A c \in Annotator : Tidy(c)
  BY Shapes DEF RootsInv
<1>2. PointsMade' /\ PlacesOK'
  BY <1>1, GoesPlaces
<1>3. RootShape' /\ OthersOK'
  <2>1. ASSUME NEW c \in Annotator PROVE Tidy(c)'
    <3>1. CASE c = e
      BY <3>1 DEF Tidy, NoteFields
    <3>2. CASE c # e
      <4>1. /\ at'[c] = at[c] /\ note'[c] = note[c] /\ reply'[c] = reply[c]
        BY <3>2, AnnotatorsRead DEF Goes, OthersStay
      <4>2. Tidy(c)
        BY <1>1
      <4> QED
        BY <4>1, <4>2 DEF Tidy, NoteFields
    <3> QED
      BY <3>1, <3>2
  <2>2. FullPoints' /\ JournalShape'
    BY DEF Goes, Wrote, Journaled
  <2> QED
    BY <2>1, <2>2, TidyShapes
<1>4. ASSUME "roots" \notin stale' PROVE RootsOK'
  <2> SUFFICES ASSUME NEW c \in Confirms
               PROVE  /\ at'[c] = "pick" => Fresh(c)'
                      /\ at'[c] \notin {"pick", "done"} => Confirming(c)'
                      /\ at'[c] = "done" => Confirmed(c)'
    BY DEF RootsOK
  <2>1. CASE c = e
    BY <1>4, <2>1 DEF Fresh, Confirming, Confirmed, Trace, ClaimOK, RowOK, Recovers,
       StageOK, Counted, Drawn, Made
  <2>2. CASE c # e
    BY <1>4, <2>2, GoesRoots
  <2> QED
    BY <2>1, <2>2
<1> QED
  BY <1>2, <1>3, <1>4 DEF RootsInv

LEMMA NextRoots ==
    ASSUME ExclusiveTokens, ClaimsInv, RootsInv, [AnnotationNext]_allVars
    PROVE  RootsInv'
<1>1. /\ RootShape /\ PointsMade /\ PlacesOK /\ OthersOK
      /\ FullPoints /\ JournalShape /\ CallShape
      /\ \A c \in Annotator : Tidy(c)
  BY Shapes DEF RootsInv
<1>2. CASE UNCHANGED allVars
  <2>1. UNCHANGED <<point, journal, pc, loc, reply, plan, held, at, note, stale>>
    BY <1>2 DEF allVars, vars, added
  <2>2. RootShape' /\ PointsMade' /\ OthersOK'
    BY <1>1, <2>1 DEF RootShape, PointsMade, OthersOK, Made
  <2>3. PlacesOK'
    BY <1>1, <2>1 DEF PlacesOK, Placed, LocalShape, Made
  <2>4. ASSUME NEW c \in Confirms, NEW C, Trace(c, C) /\ StageOK(c, C)
        PROVE  Trace(c, C)' /\ StageOK(c, C)'
    <3>1. StageOK(c, C)'
      BY <2>1, <2>4 DEF StageOK, Counted
    <3>2. Made(C)' /\ ClaimOK(c, C)' /\ RowOK(c, C)'
      BY <2>1, <2>4 DEF Trace, Made, ClaimOK, RowOK, Drawn, Counted
    <3>3. \A e \in Call : Recovers(c, C, e)'
      BY <2>1, <2>4 DEF Trace, Recovers, Counted, Drawn
    <3> QED
      BY <2>4, <3>1, <3>2, <3>3 DEF Trace
  <2>5. ASSUME RootsOK, NEW c \in Confirms
        PROVE  /\ at'[c] = "pick" => Fresh(c)'
               /\ at'[c] \notin {"pick", "done"} => Confirming(c)'
               /\ at'[c] = "done" => Confirmed(c)'
    <3>1. Fresh(c) => Fresh(c)'
      BY <2>1 DEF Fresh
    <3>2. Confirmed(c) => Confirmed(c)'
      BY <2>1 DEF Confirmed, Made
    <3>3. Confirming(c) => Confirming(c)'
      <4> SUFFICES ASSUME Confirming(c) PROVE Confirming(c)'
        OBVIOUS
      <4>1. PICK C \in PointId : note[c].cid = C /\ Trace(c, C) /\ StageOK(c, C)
        BY DEF Confirming
      <4>2. Trace(c, C)' /\ StageOK(c, C)'
        BY <2>4, <4>1
      <4>3. note'[c].cid = C
        BY <2>1, <4>1
      <4> QED
        BY <4>2, <4>3 DEF Confirming
    <3> QED
      BY <2>1, <2>5, <3>1, <3>2, <3>3 DEF RootsOK
  <2>6. RootsOK => RootsOK'
    BY <2>5 DEF RootsOK
  <2> QED
    BY <2>1, <2>2, <2>3, <2>6 DEF RootsInv
<1>3. ASSUME NEW e \in on \ Annotator, Serve(e) PROVE RootsInv'
  <2>1. e \in on \cap Call /\ e \notin Annotator
    BY AnnotationAssumption DEF ClaimsInv
  <2>2. Goes(e) /\ (pc'[e] = "done" \/ Placed(e)')
    BY <1>1, <1>3, <2>1, ServiceGoes DEF Serve
  <2> QED
    BY <2>1, <2>2, GoesInv DEF Confirms
<1>4. ASSUME NEW e \in on \cap Annotator, Resolve(e) PROVE RootsInv'
  <2>1. /\ e \in on \cap Call /\ Tidy(e)'
        /\ \A d \in Annotator \ {e} : at'[d] = at[d] /\ note'[d] = note[d]
    <3>1. Tidy(e)'
      BY <1>1, <1>4, ResolveTidy
    <3>2. \A d \in Annotator \ {e} : at'[d] = at[d] /\ note'[d] = note[d]
      BY <1>4
      DEF Resolve, Uses, Decided, Over, Gives, Refused, To, ClaimsInv, Shape
    <3> QED
      BY <3>1, <3>2, AnnotatorsRead
  <2>2. Goes(e) /\ (pc'[e] = "done" \/ Placed(e)')
    BY <1>1, <1>4, <2>1, ServiceGoes DEF Resolve
  <2>3. ASSUME e \in Confirms, "roots" \notin stale'
        PROVE  at'[e] \notin {"pick", "done"} /\ Confirming(e)'
    <3>1. RootsOK
      BY <2>2, <2>3 DEF RootsInv, Goes
    <3> QED
      BY <1>1, <1>4, <2>2, <2>3, <3>1, ResolveConfirms DEF Goes
  <2> QED
    BY <2>1, <2>2, <2>3, GoesInv
<1>6. ASSUME NEW e \in on \cap Annotator, Recovery(e), pc[e] # "resolve_again"
      PROVE  RootsInv'
  <2>1. /\ e \in on \cap Call /\ Tidy(e)'
        /\ \A d \in Annotator \ {e} : at'[d] = at[d] /\ note'[d] = note[d]
    <3>1. Tidy(e)'
      BY <1>1, <1>6, RecoveryTidy
    <3>2. \A d \in Annotator \ {e} : at'[d] = at[d] /\ note'[d] = note[d]
      BY <1>6 DEF Recovery, Gives, To, ClaimsInv, Shape
    <3> QED
      BY <3>1, <3>2, AnnotatorsRead
  <2>2. Goes(e) /\ (pc'[e] = "done" \/ Placed(e)')
    BY <1>1, <1>6, <2>1, ServiceGoes DEF Recovery
  <2>3. ASSUME e \in Confirms, "roots" \notin stale'
        PROVE  at'[e] \notin {"pick", "done"} /\ Confirming(e)'
    <3>1. RootsOK
      BY <2>2, <2>3 DEF RootsInv, Goes
    <3> QED
      BY <1>1, <1>6, <2>2, <2>3, <3>1, RecoveryConfirms DEF Goes
  <2> QED
    BY <2>1, <2>2, <2>3, GoesInv
<1>7. ASSUME NEW e \in on \cap Annotator, TryAgain(e), at'[e] = "retry"
      PROVE  RootsInv'
  <2>1. /\ Goes(e) /\ Resumes(e) /\ (pc'[e] \notin {"idle", "done"} => Placed(e)')
        /\ Tidy(e)' /\ e \in Call
    BY <1>1, <1>7, ResumesGoes, AnnotatorsRead
  <2>2. ASSUME e \in Confirms, "roots" \notin stale'
        PROVE  at'[e] \notin {"pick", "done"} /\ Confirming(e)'
    <3>1. RootsOK
      BY <2>1, <2>2 DEF RootsInv, Goes
    <3> QED
      BY <1>1, <2>1, <2>2, <3>1, ResumesConfirms DEF Goes
  <2> QED
    BY <2>1, <2>2, GoesInv
<1>5. ASSUME NEW e \in on \cap Annotator, Plainly(e) PROVE RootsInv'
  <2>1. Tidy(e)' /\ e \in Call
    BY <1>1, <1>5, OwnTidy, AnnotatorsRead DEF Plainly
  <2>2. Goes(e) /\ (pc'[e] \notin {"idle", "done"} => Placed(e)')
    BY <1>1, <1>5, OwnGoes
  <2>3. ASSUME e \in Confirms, "roots" \notin stale'
        PROVE  /\ at'[e] = "pick" => Fresh(e)'
               /\ at'[e] \notin {"pick", "done"} => Confirming(e)'
               /\ at'[e] = "done" => Confirmed(e)'
    <3>1. RootsOK
      BY <2>2, <2>3 DEF RootsInv, Goes
    <3>2. CASE at[e] = "pick"
      <4>1. Pick(e)
        BY <1>5, <3>2
        DEF Plainly, Serves, Recovery, Annotation, Resolve, StoreBlob, Prepare, ClaimHead, ReadClaim, TryAgain,
            WriteClaimed, Annotate, Verify, Conclude, ReadRelease, ReleaseClaim,
            ScanHistory, Strike, References, DropBlob, Fault, Failed, Discard,
            Finish
      <4>2. Fresh(e)
        BY <2>3, <3>1, <3>2 DEF RootsOK
      <4>3. Confirming(e)' /\ at'[e] = "link"
        BY <1>1, <2>3, <4>1, <4>2, PickConfirms DEF ClaimsInv, Shape
      <4> QED
        BY <4>3
    <3>3. CASE at[e] # "pick"
      <4>1. at[e] # "done"
        BY <1>5
        DEF Plainly, Serves, Recovery, Resolve, Annotation, Pick, StoreBlob, Prepare, ClaimHead, ReadClaim, TryAgain,
            WriteClaimed, Annotate, Verify, Conclude, ReadRelease, ReleaseClaim,
            ScanHistory, Strike, References, DropBlob, Fault, Failed, Discard,
            Finish
      <4>2. Confirming(e)
        BY <2>3, <3>1, <3>3, <4>1 DEF RootsOK
      <4>3. IF at'[e] = "done" THEN Confirmed(e)'
            ELSE at'[e] # "pick" /\ Confirming(e)'
        BY <1>1, <1>5, <2>3, <3>3, <4>2, OwnConfirms
      <4> QED
        BY <4>3
    <3> QED
      BY <3>2, <3>3
  <2> QED
    BY <2>1, <2>2, <2>3, GoesInv
<1> QED
  BY <1>2, <1>3, <1>4, <1>5, <1>6, <1>7 DEF AnnotationNext, Plainly, Serves

LEMMA InitRoots == AnnotationInit => RootsInv
<1> SUFFICES ASSUME AnnotationInit PROVE RootsInv
  OBVIOUS
<1> USE DEF AnnotationInit, Init, AbsentPoint
<1>1. /\ DOMAIN point = PointId
      /\ \A p \in PointId :
            /\ {"sup", "roots", "consumed"} \subseteq DOMAIN point[p]
            /\ point[p].sup = None /\ point[p].tok = None
            /\ point[p].state = IF p = Root THEN "active" ELSE "absent"
  OBVIOUS
<1>2. /\ DOMAIN journal = Token /\ \A t \in Token : journal[t] = NoRow
      /\ DOMAIN plan = Token /\ DOMAIN held = Call
      /\ \A t \in Token : plan[t] = NoPlan
  OBVIOUS
<1>3. \A c \in Call : pc[c] = "idle"
  OBVIOUS
<1>4. \A c \in Annotator :
         /\ note[c] = NoNote
         /\ at[c] = CASE TaskOf[c] = "save" -> "first"
                      [] TaskOf[c] = "delete" -> "link"
                      [] OTHER -> "pick"
  OBVIOUS
<1>5. RootShape
  BY <1>1, <1>2, <1>4 DEF RootShape, NoRow, NoNote, NoPlan
<1>6. PointsMade
  BY <1>1 DEF PointsMade, Made
<1>7. PlacesOK
  BY <1>3 DEF PlacesOK
<1>8. OthersOK
  <2>1. \A c \in Annotator \ Confirms : at[c] \in {"first", "link"}
    BY <1>4, AnnotatorsRead DEF Confirms, Task
  <2>2. \A c \in Annotator : at[c] \in {"first", "link", "pick"}
    BY <1>4
  <2> QED
    BY <2>1, <2>2 DEF OthersOK, Busy
<1>9. RootsOK
  <2> SUFFICES ASSUME NEW c \in Confirms PROVE at[c] = "pick" /\ Fresh(c)
    BY DEF RootsOK
  <2>1. at[c] = "pick"
    BY <1>4 DEF Confirms
  <2>2. c \in Call /\ \A t \in OwnTokens(c) : t \in Token /\ t # None
    <3>1. Root \in PointId
      BY DEF PointId
    <3> QED
      BY <3>1, TokensOfCalls, AnnotatorsRead DEF Confirms
  <2>3. Fresh(c)
    BY <1>1, <1>2, <1>3, <2>2
    DEF Fresh, NoPlan, Recovering, Revising, Planning, Finishing
  <2> QED
    BY <2>1, <2>3
<1> QED
  BY <1>5, <1>6, <1>7, <1>8, <1>9 DEF RootsInv

LEMMA RootsCount == ClaimsInv /\ RootsInv => AckedRootIsCounted
<1> SUFFICES ASSUME ClaimsInv, RootsInv, "roots" \notin stale,
                    NEW c \in Annotator, Told(c, "confirmed")
             PROVE  RootOf[c] \in point[reply[c].id].roots
  BY DEF AckedRootIsCounted
<1>1. c \in Confirms /\ at[c] = "done" /\ reply[c].status = "confirmed"
  BY DEF Told, RootsInv, OthersOK
<1> QED
  BY <1>1 DEF RootsInv, RootsOK, Confirmed

\* A confirmation that was acknowledged is counted on its revision for good, unless
\* a projection is written over evidence it did not read.
THEOREM AckedRootIsCountedHolds ==
    ASSUME ExclusiveTokens
    PROVE  AnnotationSpec => []AckedRootIsCounted
<1> DEFINE Inv == ClaimsInv /\ RootsInv
<1>1. AnnotationInit => Inv
  BY InitClaims, InitRoots
<1>2. Inv /\ [AnnotationNext]_allVars => Inv'
  BY NextClaims, NextRoots
<1>3. Inv => AckedRootIsCounted
  BY RootsCount
<1> QED
  BY <1>1, <1>2, <1>3, PTL DEF AnnotationSpec

===============================================================================
