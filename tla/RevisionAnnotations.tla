-------------------------- MODULE RevisionAnnotations --------------------------
(***************************************************************************)
(* The annotations of a memory: artifacts, which save_artifact and         *)
(* delete_artifact of mnemory/memory.py link and unlink, and evidence      *)
(* roots, which `confirm` of mnemory/revisions.py counts.  An annotation   *)
(* changes the head in place, under a claim of the same fields as those of *)
(* revise and retract, so this module runs on the lineage, the calls and   *)
(* the recovery of RevisionLineage and adds what an annotation does.       *)
(*                                                                         *)
(* A call that annotates resolves the head as `current` does: as a call of *)
(* RevisionLineage, whose answer is taken in the step that makes it.       *)
(***************************************************************************)
EXTENDS RevisionLineage

CONSTANTS
    Annotator,    \* the calls that annotate; to RevisionLineage they read
    TaskOf,       \* what each of them does
    ArtifactOf,   \* the artifact a call saves or deletes
    RootOf,       \* the evidence root a call confirms with
    Faulty,       \* the calls of which a store call may raise
    Attempts,     \* how often a lost claim is tried again
    Scenarios     \* sets of calls that run together

Task == {"save", "delete", "confirm"}

ASSUME AnnotationAssumption ==
    /\ Annotator \subseteq Call /\ Faulty \subseteq Annotator
    /\ \A c \in Annotator : KindOf[c] = "read" /\ After[c] = {}
    /\ TaskOf \in [Annotator -> Task]
    /\ ArtifactOf \in [Annotator -> Artifact]
    /\ RootOf \in [Annotator -> Evidence]
    /\ Attempts \in Nat /\ None \notin Task \cup ClaimKind
    /\ Scenarios \subseteq SUBSET Call

VARIABLES
    on,     \* the calls that run
    blob,   \* the contents in the artifact store
    plan,   \* what a journal row says of an annotation, by token
    held,   \* the plan a recovering call has read
    at,     \* where each annotating call is
    note,   \* what it remembers
    stale   \* the kinds of stale writes made so far, for the properties

added == <<on, blob, plan, held, at, note, stale>>
allVars == <<vars, added>>

----------------------------------------------------------------------------
(* Stored and remembered data.                                             *)

\* The fields an annotation writes: `artifacts` with the artifact_revision it
\* expects, or the validation_projection.
Planned == [arts: SUBSET Artifact, artRev: Nat,
            roots: SUBSET Evidence, consumed: SUBSET Evidence]
NoPlan == [arts |-> {}, artRev |-> 0, roots |-> {}, consumed |-> {}]

\* `cid` is the revision a confirmation was decided on; `head`, `rev`, `roots` and
\* `tok` are the revision the call resolved, its number and evidence roots, and
\* the token of the annotation there; `claims` says whether the call claimed it,
\* `tries` counts the claims lost; `lists` are the revisions that still list the
\* artifact, as they were read, `known` all those of that scan; `status` is
\* the answer to be given.
NoNote == [cid |-> None, head |-> None, rev |-> 0, roots |-> {}, tok |-> None,
           plan |-> NoPlan, claims |-> FALSE, tries |-> 0,
           lists |-> {}, known |-> {}, status |-> "none"]
Notes == [cid: PointId \cup {None}, head: PointId \cup {None}, rev: Nat,
          roots: SUBSET Evidence, tok: Token \cup {None}, plan: Planned,
          claims: BOOLEAN, tries: 0..Attempts,
          lists: SUBSET [id: PointId, arts: SUBSET Artifact],
          known: SUBSET PointId,
          status: {"none", "saved", "unlinked", "confirmed", "skipped", "failed"}]

Stage == {"pick", "first", "store", "link", "found", "prepare", "claim",
          "readback", "claimed", "write", "verify", "commit", "release",
          "free", "history", "strike", "drop", "lost", "retry",
          "failed", "cleanup", "orphaned", "done"}

\* The ways in which a call writes over what it did not read.
Stale == {"copy", "recovery", "release", "history", "roots", "repeat"}

AnnotationsOK ==
    /\ \A p \in PointId : point[p] # AbsentPoint =>
          /\ point[p].kind \in ClaimKind \cup Task \cup {None}
          /\ [point[p] EXCEPT !.kind = None] \in Payload
    /\ \A c \in Call : loc[c].kind \in ClaimKind \cup Task \cup {None}
    /\ on \in Scenarios /\ blob \subseteq Artifact
    /\ plan \in [Token -> Planned] /\ held \in [Call -> Planned]
    /\ at \in [Annotator -> Stage] /\ note \in [Annotator -> Notes]
    /\ stale \subseteq Stale

AnnotationInit ==
    /\ Init
    /\ on \in Scenarios
    /\ blob = RootArtifacts
    /\ plan = [t \in Token |-> NoPlan]
    /\ held = [c \in Call |-> NoPlan]
    /\ at = [c \in Annotator |-> CASE TaskOf[c] = "save" -> "first"
                                   [] TaskOf[c] = "delete" -> "link"
                                   [] OTHER -> "pick"]
    /\ note = [c \in Annotator |-> NoNote]
    /\ stale = {}

Notice(kind, seen) == stale' = IF seen THEN stale \cup {kind} ELSE stale

\* A call goes on to a stage of its own; `Again` has it resolve once more.
To(c, stage, n) == /\ at' = [at EXCEPT ![c] = stage]
                   /\ note' = [note EXCEPT ![c] = n]
Again(c, stage, n) ==
    /\ To(c, stage, n)
    /\ pc' = [pc EXCEPT ![c] = "idle"]
    /\ UNCHANGED <<loc, reply>>

----------------------------------------------------------------------------
(* _recover_claimed for the claims of annotations, by any call.            *)

\* The plan is read from the row of the operation that holds the claim.
RecoverNote(c) ==
    LET l == loc[c] IN
    /\ pc[c] = "recover" /\ l.kind \in Task
    /\ IF journal[l.mine] = NoRow THEN Answer(c, "incomplete", l.from)
       ELSE Goto(c, "recover_note", l)
    /\ held' = [held EXCEPT ![c] = plan[l.mine]]
    /\ UNCHANGED <<point, journal, on, blob, plan, stale>>

\* Artifacts are written by ID; a projection where the claim still is.
RecoverWrite(c) ==
    LET p == loc[c].from
        mine == point[p].tok = loc[c].mine
    IN  /\ pc[c] = "recover_note"
        /\ CASE loc[c].kind = "confirm" ->
                  /\ point' = IF mine
                              THEN [point EXCEPT ![p].roots = held[c].roots,
                                                 ![p].consumed = held[c].consumed]
                              ELSE point
                  /\ Notice("roots", mine /\ ~(point[p].roots \subseteq held[c].roots))
             [] OTHER ->
                  /\ point' = [point EXCEPT ![p].arts = held[c].arts,
                                            ![p].artRev = held[c].artRev + 1]
                  /\ Notice("recovery", ~mine)
        /\ Goto(c, IF loc[c].kind = "confirm" THEN "recover_check"
                   ELSE "recover_noted", loc[c])
        /\ UNCHANGED <<journal, on, blob, plan, held>>

\* A projection that is not there has lost its fence.
RecoverCheck(c) ==
    LET p == point[loc[c].from] IN
    /\ pc[c] = "recover_check"
    /\ IF p.roots = held[c].roots /\ p.consumed = held[c].consumed
       THEN Goto(c, "recover_noted", loc[c])
       ELSE Answer(c, "incomplete", loc[c].from)
    /\ UNCHANGED <<point, journal, on, blob, plan, held, stale>>

\* The row is written as it was read, and committed.
RecoverNoted(c) ==
    LET t == loc[c].mine IN
    /\ pc[c] = "recover_noted"
    /\ Note(t, "committed") /\ plan' = [plan EXCEPT ![t] = held[c]]
    /\ Goto(c, "recover_release", loc[c])
    /\ UNCHANGED <<point, on, blob, held, stale>>

\* _release_claim: a read of the token, then a delete of the fields by ID.
RecoverRelease(c) ==
    LET l == loc[c] IN
    /\ pc[c] = "recover_release"
    /\ Goto(c, IF point[l.from].tok = l.mine THEN "recover_free"
               ELSE "resolve_again", l)
    /\ UNCHANGED <<point, journal, on, blob, plan, held, stale>>

RecoverFree(c) ==
    LET p == loc[c].from IN
    /\ pc[c] = "recover_free"
    /\ point' = [point EXCEPT ![p].tok = None, ![p].kind = None]
    /\ Notice("release", point[p].tok \notin {None, loc[c].mine})
    /\ Goto(c, "resolve_again", loc[c])
    /\ UNCHANGED <<journal, on, blob, plan, held>>

RecoverAnnotation(c) ==
    \/ RecoverNote(c) \/ RecoverWrite(c) \/ RecoverCheck(c)
    \/ RecoverNoted(c) \/ RecoverRelease(c) \/ RecoverFree(c)

\* The steps of RevisionLineage: a claim to revise is recovered as it is there.
\* A successor copied before the artifacts of its predecessor changed is stale
\* once the claim of its call succeeds.
Revision(c) ==
    /\ Begin(c) \/ Step(c)
    /\ pc[c] = "recover" => loc[c].kind \in ClaimKind
    /\ Notice("copy", /\ pc[c] = "claim" /\ KindOf[c] = "revise"
                      /\ point' # point
                      /\ point[loc[c].cur].arts # loc[c].pay.arts)
    /\ UNCHANGED <<on, blob, plan, held>>

\* The revisions that refer to an artifact.
Listing(a) == {p \in PointId : a \in point[p].arts}

----------------------------------------------------------------------------
(* set_artifacts and confirm, on the head that the call resolved.          *)

\* A confirmation names the memory a search had found.
Pick(c) ==
    /\ at[c] = "pick"
    /\ \E p \in Active : To(c, "link", [NoNote EXCEPT !.cid = p])
    /\ UNCHANGED <<vars, on, blob, plan, held, stale>>

NewArtifacts(c, h) ==
    IF TaskOf[c] = "save" THEN point[h].arts \cup {ArtifactOf[c]}
    ELSE point[h].arts \ {ArtifactOf[c]}
Desired(c, h) == NewArtifacts(c, h) = point[h].arts


\* The roots that were ever counted, in any revision of the lineage.
Consumed(c, h) == Heard

\* What an annotation reads with the head, and what it plans to write.
Drafted(c, h) ==
    LET p == point[h] IN
    [note[c] EXCEPT
        !.head = h, !.rev = p.rev, !.roots = p.roots, !.tok = TokenOf[c][h],
        !.plan = IF TaskOf[c] = "confirm"
                 THEN [NoPlan EXCEPT
                         !.roots = p.roots \cup {RootOf[c]},
                         !.consumed = Consumed(c, h) \cup {RootOf[c]}]
                 ELSE [NoPlan EXCEPT !.arts = NewArtifacts(c, h),
                                     !.artRev = p.artRev]]

Gives(c, status, n) == To(c, "found", [n EXCEPT !.status = status])

\* What follows set_artifacts or confirm: a delete goes on to the history.
Over(c, n) == CASE TaskOf[c] = "save" -> Gives(c, "saved", n)
                [] TaskOf[c] = "delete" -> To(c, "history", n)
                [] OTHER -> Gives(c, "confirmed", n)

\* Mutant: any row is taken for one that was committed.
AnyRow(row) == row.status # "none"

IsCommitted(row) == row.status = "committed"

\* Where an annotation goes from the head it has read.  A committed row is
\* replayed.  A row together with the wanted state is an earlier attempt that
\* was not committed; a confirmation leaves a row it finds as it is.
Decided(c, h) ==
    LET row == journal[TokenOf[c][h]]
        n == Drafted(c, h)
        confirms == TaskOf[c] = "confirm"
    IN  IF confirms /\ h # n.cid THEN Gives(c, "failed", n)
        ELSE IF IsCommitted(row) THEN Over(c, n)
        ELSE IF confirms /\ RootOf[c] \in Consumed(c, h) THEN Gives(c, "skipped", n)
        ELSE IF row = NoRow THEN To(c, "prepare", n)
        ELSE IF confirms THEN To(c, "claim", n)
        ELSE To(c, IF Desired(c, h) THEN "commit" ELSE "prepare", n)

\* What a call makes of the head it resolved: before its first write, in an
\* attempt to annotate, or when it cleans up after the last.
Uses(c, h) ==
    IF at[c] = "first" THEN To(c, "store", note[c])
    ELSE IF at[c] = "link" THEN Decided(c, h)
    ELSE IF ArtifactOf[c] \in point[h].arts
         THEN Gives(c, "saved", [note[c] EXCEPT !.head = h])
         ELSE To(c, "orphaned", note[c])

\* set_artifacts goes on with a head that is not active, and does not get its
\* claim there; the other refusals are raised.
Refused(c, status, h) ==
    LET claims == /\ status = "stale" /\ at[c] = "link"
                  /\ \/ TaskOf[c] = "save"
                     \/ TaskOf[c] = "delete" /\ note[c].tries > 0
    IN  CASE claims -> Decided(c, h)
          [] ~claims /\ at[c] = "link" -> To(c, "failed", note[c])
          [] OTHER -> Gives(c, "failed", note[c])

\* A call that does not annotate, and the resolution of one that does.
Serve(c) ==
    /\ c \notin Annotator
    /\ Revision(c) \/ RecoverAnnotation(c)
    /\ UNCHANGED <<at, note>>

\* A client deletes an artifact that it has seen in a list.
Issued(c) ==
    TaskOf[c] = "delete" /\ pc[c] = "idle" /\ note[c].tries = 0 =>
        Listing(ArtifactOf[c]) # {}

Resolve(c) ==
    /\ c \in Annotator /\ at[c] \in {"first", "link", "cleanup"} /\ Issued(c)
    /\ Revision(c) \/ RecoverAnnotation(c)
    /\ CASE pc'[c] # "done" -> UNCHANGED <<at, note>>
         [] pc'[c] = "done" /\ reply'[c].status = "read" -> Uses(c, reply'[c].id)
         [] OTHER -> Refused(c, reply'[c].status, reply'[c].id)

\* The recovery that a confirmation runs for a claim it did not get, before it
\* resolves once more.
Recovery(c) ==
    /\ c \in Annotator /\ at[c] = "retry"
    /\ \/ /\ pc[c] # "resolve_again"
          /\ Revision(c) \/ RecoverAnnotation(c)
          /\ IF pc'[c] = "done" THEN Gives(c, "failed", note[c])
             ELSE UNCHANGED <<at, note>>
       \/ /\ pc[c] = "resolve_again"
          /\ Again(c, "link", note[c])
          /\ UNCHANGED <<point, journal, on, blob, plan, held, stale>>

\* save_artifact stores the content before it links it.
StoreBlob(c) ==
    /\ at[c] = "store"
    /\ blob' = blob \cup {ArtifactOf[c]}
    /\ Again(c, "link", note[c])
    /\ UNCHANGED <<point, journal, on, plan, held, stale>>

\* The row is written before the claim.  A change that another call recovered is
\* made once more when the head is another one by then.
Prepare(c) ==
    LET n == note[c] IN
    /\ at[c] = "prepare"
    /\ Notice("repeat", \E p \in PointId : /\ n.tok # TokenOf[c][p]
                                         /\ journal[TokenOf[c][p]].status = "committed")
    /\ Note(n.tok, "prepared") /\ plan' = [plan EXCEPT ![n.tok] = n.plan]
    /\ To(c, "claim", n)
    /\ UNCHANGED <<point, pc, loc, reply, on, blob, held>>

\* Mutant: the claim does not compare the number of the artifacts.
SameArtifacts(c, p) == TRUE

\* set_artifacts claims the artifacts it has read; confirm compares no such
\* number, nor the roots its projection was computed from.
SameAnnotations(c, p) ==
    TaskOf[c] = "confirm" \/ point[p].artRev = note[c].plan.artRev

ClaimHead(c) ==
    LET n == note[c]
        p == n.head
        free == /\ point[p].state = "active" /\ point[p].rev = n.rev
                /\ point[p].tok = None /\ SameAnnotations(c, p)
    IN  /\ at[c] = "claim"
        /\ point' = IF free THEN [point EXCEPT ![p].tok = n.tok, ![p].kind = TaskOf[c]]
                    ELSE point
        /\ Notice("roots", /\ free /\ TaskOf[c] = "confirm"
                           /\ \/ point[p].roots # n.roots
                              \/ ~(n.plan.roots \subseteq plan[n.tok].roots))
        /\ To(c, "readback", n)
        /\ UNCHANGED <<journal, pc, loc, reply, on, blob, plan, held>>

ReadClaim(c) ==
    LET n == note[c] IN
    /\ at[c] = "readback"
    /\ To(c, IF point[n.head].tok = n.tok THEN "claimed" ELSE "lost", n)
    /\ UNCHANGED <<vars, on, blob, plan, held, stale>>


\* A lost claim is tried again on the head that is current then.  confirm first
\* completes the operation whose claim it finds on the revision it could not get.
TryAgain(c) ==
    LET n == note[c]
        p == point[n.head]
        next == [NoNote EXCEPT !.cid = n.cid, !.tries = n.tries + 1]
    IN  /\ at[c] = "lost"
        /\ CASE n.tries >= Attempts ->
                  To(c, "failed", n) /\ UNCHANGED <<pc, loc, reply>>
             [] n.tries < Attempts /\ TaskOf[c] = "confirm" /\ p.tok # None ->
                  /\ To(c, "retry", next)
                  /\ Goto(c, "recover",
                          [NoLocal EXCEPT !.mem = n.head, !.cur = n.head, !.pay = p,
                                          !.from = n.head, !.mine = p.tok,
                                          !.kind = p.kind])
             [] OTHER -> Again(c, "link", next)
        /\ UNCHANGED <<point, journal, on, blob, plan, held, stale>>

WriteClaimed(c) ==
    LET n == note[c] IN
    /\ at[c] = "claimed"
    /\ Note(n.tok, "claimed") /\ plan' = [plan EXCEPT ![n.tok] = n.plan]
    /\ To(c, "write", [n EXCEPT !.claims = TRUE])
    /\ UNCHANGED <<point, pc, loc, reply, on, blob, held, stale>>

\* The change, where the claim still is; only confirm reads it back.
Annotate(c) ==
    LET n == note[c]
        p == n.head
    IN  /\ at[c] = "write"
        /\ point' = CASE point[p].tok # n.tok -> point
                      [] point[p].tok = n.tok /\ TaskOf[c] = "confirm" ->
                            [point EXCEPT ![p].roots = n.plan.roots,
                                          ![p].consumed = n.plan.consumed]
                      [] OTHER -> [point EXCEPT ![p].arts = n.plan.arts,
                                                ![p].artRev = n.plan.artRev + 1]
        /\ To(c, IF TaskOf[c] = "confirm" THEN "verify" ELSE "commit", n)
        /\ UNCHANGED <<journal, pc, loc, reply, on, blob, plan, held, stale>>

Verify(c) ==
    LET n == note[c] IN
    /\ at[c] = "verify"
    /\ IF point[n.head].tok = n.tok THEN To(c, "commit", n)
       ELSE Gives(c, "failed", n)
    /\ UNCHANGED <<vars, on, blob, plan, held, stale>>

Conclude(c) ==
    LET n == note[c] IN
    /\ at[c] = "commit"
    /\ Note(n.tok, "committed")
    /\ plan' = IF n.claims THEN [plan EXCEPT ![n.tok] = n.plan] ELSE plan
    /\ IF n.claims THEN To(c, "release", n) ELSE Over(c, n)
    /\ UNCHANGED <<point, pc, loc, reply, on, blob, held, stale>>

\* Mutant: a claim that did its work is left.
LeaveClaim(c) ==
    /\ at[c] = "release"
    /\ Over(c, note[c])
    /\ UNCHANGED <<vars, on, blob, plan, held, stale>>

ReadRelease(c) ==
    LET n == note[c] IN
    /\ at[c] = "release"
    /\ IF point[n.head].tok = n.tok THEN To(c, "free", n) ELSE Over(c, n)
    /\ UNCHANGED <<vars, on, blob, plan, held, stale>>

ReleaseClaim(c) ==
    LET n == note[c] IN
    /\ at[c] = "free"
    /\ point' = [point EXCEPT ![n.head].tok = None, ![n.head].kind = None]
    /\ Notice("release", point[n.head].tok \notin {None, n.tok})
    /\ Over(c, n)
    /\ UNCHANGED <<journal, pc, loc, reply, on, blob, plan, held>>

----------------------------------------------------------------------------
(* delete_artifact after the head: the other revisions, then the content.  *)

ScanHistory(c) ==
    LET a == ArtifactOf[c] IN
    /\ at[c] = "history"
    /\ To(c, "strike",
          [note[c] EXCEPT
             !.lists = {[id |-> p, arts |-> point[p].arts] : p \in Listing(a)},
             !.known = {p \in PointId : point[p].state # "absent"}])
    /\ UNCHANGED <<vars, on, blob, plan, held, stale>>

\* Each revision gets the list that was read, without the artifact.
Strike(c) ==
    LET n == note[c] IN
    /\ at[c] = "strike" /\ n.lists # {}
    /\ \E x \in n.lists :
         /\ point' = [point EXCEPT ![x.id].arts = x.arts \ {ArtifactOf[c]}]
         /\ Notice("history", point[x.id].arts # x.arts)
         /\ To(c, "strike", [n EXCEPT !.lists = n.lists \ {x}])
    /\ UNCHANGED <<journal, pc, loc, reply, on, blob, plan, held>>

\* A reference from a revision that the scan did not see keeps the content.
References(c) ==
    LET n == note[c] IN
    /\ at[c] = "strike" /\ n.lists = {}
    /\ IF Listing(ArtifactOf[c]) \subseteq n.known THEN To(c, "drop", n)
       ELSE Gives(c, "unlinked", n)
    /\ UNCHANGED <<vars, on, blob, plan, held, stale>>

DropBlob(c) ==
    /\ at[c] = "drop"
    /\ blob' = blob \ {ArtifactOf[c]}
    /\ Gives(c, "unlinked", note[c])
    /\ UNCHANGED <<vars, on, plan, held, stale>>

----------------------------------------------------------------------------
(* Failures and answers.                                                   *)

\* A store call of set_artifacts or confirm raises, before or after its effect.
Fault(c) ==
    /\ c \in Faulty
    /\ at[c] \in {"prepare", "claim", "readback", "claimed", "write", "verify",
                  "commit", "release", "free"}
    /\ To(c, "failed", note[c])
    /\ UNCHANGED <<vars, on, blob, plan, held, stale>>

\* Mutant: a failed save deletes the content without a look at the memory.
DiscardAtOnce(c) ==
    /\ at[c] = "failed"
    /\ IF TaskOf[c] = "save" THEN To(c, "orphaned", note[c])
       ELSE Gives(c, "failed", note[c])
    /\ UNCHANGED <<vars, on, blob, plan, held, stale>>

\* save_artifact then looks whether the artifact is linked all the same.
Failed(c) ==
    /\ at[c] = "failed"
    /\ IF TaskOf[c] = "save" THEN Again(c, "cleanup", note[c])
       ELSE Gives(c, "failed", note[c]) /\ UNCHANGED <<pc, loc, reply>>
    /\ UNCHANGED <<point, journal, on, blob, plan, held, stale>>

Discard(c) ==
    /\ at[c] = "orphaned"
    /\ blob' = blob \ {ArtifactOf[c]}
    /\ Gives(c, "failed", note[c])
    /\ UNCHANGED <<vars, on, plan, held, stale>>

Finish(c) ==
    LET n == note[c] IN
    /\ at[c] = "found"
    /\ To(c, "done", NoNote)
    /\ Answer(c, n.status, n.head)
    /\ UNCHANGED <<point, journal, on, blob, plan, held, stale>>

Annotation(c) ==
    \/ Pick(c) \/ Resolve(c) \/ Recovery(c) \/ StoreBlob(c) \/ Prepare(c) \/ ClaimHead(c)
    \/ ReadClaim(c) \/ TryAgain(c) \/ WriteClaimed(c) \/ Annotate(c) \/ Verify(c)
    \/ Conclude(c) \/ ReadRelease(c) \/ ReleaseClaim(c)
    \/ ScanHistory(c) \/ Strike(c) \/ References(c) \/ DropBlob(c)
    \/ Fault(c) \/ Failed(c) \/ Discard(c) \/ Finish(c)

AnnotationNext ==
    \/ \E c \in on \ Annotator : Serve(c)
    \/ \E c \in on \cap Annotator : Annotation(c)

AnnotationSpec == AnnotationInit /\ [][AnnotationNext]_allVars

----------------------------------------------------------------------------
(* Properties.                                                             *)

Told(c, status) == at[c] = "done" /\ reply[c].status = status
Deleting(a) == \E c \in on \cap Annotator : TaskOf[c] = "delete" /\ ArtifactOf[c] = a

\* The revisions a reader may be given: the newest of the active ones.
Current == IF Active = {} THEN {} ELSE Heads(Root)

\* Without a stale write an artifact whose saving was acknowledged stays on the
\* memory until a client deletes it, and one whose deletion was acknowledged does
\* not come back, whatever updates, confirmations and recoveries follow.
AckedChangeHolds ==
    stale = {} => \A c \in Annotator, p \in Current :
        /\ Told(c, "saved") /\ ~Deleting(ArtifactOf[c]) =>
              ArtifactOf[c] \in point[p].arts
        /\ Told(c, "unlinked") => ArtifactOf[c] \notin point[p].arts

\* An artifact that the memory lists can be fetched: a failed save removes only
\* what is not linked, a deletion only what nothing refers to.
ListedArtifactIsStored ==
    stale = {} => \A p \in Current : point[p].arts \subseteq blob

\* A confirmation that was acknowledged is counted on its revision for good.
AckedRootIsCounted ==
    stale \cap {"roots", "release"} = {} => \A c \in Annotator :
        Told(c, "confirmed") => RootOf[c] \in point[reply[c].id].roots


\* When every call has ended and none has failed, no claim of an annotation is
\* left to block the head.
AllOver == \A c \in on : IF c \in Annotator THEN at[c] = "done" ELSE pc[c] \in Ended
ClaimsAreReleased ==
    /\ AllOver
    /\ \A c \in on \cap Annotator : reply[c].status # "failed"
    => \A p \in Active : point[p].kind \notin Task

===============================================================================
