-------------------------- MODULE ConversationProofs --------------------------
(***************************************************************************)
(* What the calls of a conversation may do to memories, sessions, events   *)
(* and cached core memories, for any calls, processes, sessions, users and *)
(* scenarios.  Each part has an invariant on top of Shape:                 *)
(*                                                                         *)
(*   Shape      what has which fields, and whom a step leaves alone;       *)
(*   EventInv   an accepted event is stored, whichever of the processes    *)
(*              that deliver it claimed, took over or completed it;        *)
(*   EditInv, ReviseInv                                                    *)
(*              what an update or a deletion took away stays superseded,   *)
(*              so that nobody revises it again in ignorance of the edit;  *)
(*   CoreInv    what a cache of core memories, and a call that read them,  *)
(*              may still show of what was changed, and until when;        *)
(*   CopyInv    what a replica keeps of a session.                         *)
(*                                                                         *)
(* EditsAreNotRetold is what RecallPipeline asks of the calls of a run.    *)
(***************************************************************************)
EXTENDS RecallPipeline, TLAPS

----------------------------------------------------------------------------
(* The shape of the state.                                                 *)

\* f is a function on D: what an EXCEPT needs, whatever the values are.
Fn(f, D) == f = [x \in D |-> f[x]]

\* A stored row has a revision number.
RowOK(r) ==
    /\ "state" \in DOMAIN r
    /\ Stored(r) => "rev" \in DOMAIN r /\ r.rev \in Nat

\* What call c may have planned: a fact it tells, and the revision it would replace.
Planned(c, a) ==
    /\ a.fact \in JobOf[c].speaks
    /\ a.do = "UPDATE" => a.target = <<a.target[1], a.target[2]>>

WorkOK(c) ==
    /\ {"lock", "facts", "todo", "now", "results", "ok", "basis"} \subseteq DOMAIN work[c]
    /\ work[c].facts \subseteq JobOf[c].speaks
    /\ \A a \in work[c].todo : Planned(c, a)

Shape ==
    /\ Fn(memory, Lineage) /\ \A m \in Lineage : RowOK(memory[m])
    /\ Fn(pc, Call) /\ Fn(work, Call) /\ Fn(reply, Call) /\ Fn(ended, Call)
    /\ Fn(view, Call) /\ Fn(core, Proc) /\ now \in Nat
    /\ \A c \in Call : /\ WorkOK(c)
                       /\ {"session", "core", "entry", "told", "at", "reads",
                         "known", "kept", "new"} \subseteq DOMAIN view[c]
                       /\ reply[c] # "none" => pc[c] = "done"
                       /\ ended[c] \in Nat /\ ended[c] <= now

----------------------------------------------------------------------------
(* The events that clients deliver.                                        *)

\* The calls that deliver an event, and the phases they go through.
Ingest == DOMAIN RootOf
IngestPhase ==
    {"absent", "idle", "lock", "prepare", "claim", "takeover", "wait", "own", "guard",
     "insert", "complete", "commit", "refresh", "release", "done"}

\* Where a call has bound its event to its memory, and has not ended.
Preparing == {"claim", "takeover", "wait", "own", "guard", "insert", "complete", "commit"}

\* Where call c has stored the memory, or found it stored.
Accepted(c) ==
    \/ pc[c] \in {"complete", "commit", "refresh"}
    \/ pc[c] = "release" /\ work[c].ok
    \/ reply[c] = "ok"

IngestOK(c) ==
    /\ pc[c] \in IngestPhase
    /\ Accepted(c) => Stored(memory[PointOf(c)])
    /\ pc[c] \in Preparing => event[RootOf[c]].bound = PointOf(c)

\* A content is claimed for good only once its memory is stored.
ClaimOK(m) ==
    /\ "status" \in DOMAIN claim[m]
    /\ claim[m].status = "committed" => Stored(memory[m])

\* An event is committed only with a stored memory.
EventOK(r) ==
    /\ {"bound", "committed"} \subseteq DOMAIN event[r]
    /\ event[r].committed => event[r].bound \in Lineage /\ Stored(memory[event[r].bound])

EventInv ==
    /\ Fn(claim, Lineage) /\ Fn(event, Root)
    /\ \A c \in Ingest : IngestOK(c)
    /\ \A m \in Lineage : ClaimOK(m)
    /\ \A r \in Root : EventOK(r)

----------------------------------------------------------------------------
(* What an edit took away.                                                 *)

\* The phases of an update or a deletion.
EditPhase == {"absent", "idle", "lock", "change", "release", "invalidate", "done"}

\* A revision that readers cannot be shown any more.
Superseded(id) ==
    /\ Stored(memory[id[1]])
    /\ memory[id[1]].rev > id[2] \/ memory[id[1]].state = "retracted"

\* What edit d is answered with is in the row, and what it removed is superseded.
EditOK(d) ==
    /\ pc[d] \in EditPhase
    /\ pc[d] \in {"idle", "lock", "change"} => work[d].results = {}
    /\ \A r \in work[d].results :
          /\ r.id = <<JobOf[d].target, r.id[2]>> /\ r.id[2] \in Nat
          /\ Stored(memory[JobOf[d].target]) /\ r.id[2] <= memory[JobOf[d].target].rev
    /\ \A id \in Removed(d) : id[1] = JobOf[d].target /\ id[2] \in Int /\ Superseded(id)

EditInv == \A d \in Edit : EditOK(d)

\* A call about to revise knows of edits done before it looked; what they made is not
\* newer than what it read.
ReviseOK(c) ==
    LET t == work[c].now.target IN
    pc[c] = "revise" =>
        /\ t = <<t[1], t[2]>> /\ work[c].basis \subseteq Acknowledged
        /\ \A d \in work[c].basis : \A r \in work[d].results :
              r.id[1] = t[1] => /\ t[2] \in Nat /\ r.id[2] <= t[2]
                                /\ t[2] <= memory[t[1]].rev

ReviseInv ==
    /\ \A c \in Call : ReviseOK(c)
    /\ \A o \in overruled : o.basis \subseteq Acknowledged

----------------------------------------------------------------------------
(* Cached core memories.                                                   *)

\* An edit that removed one of these IDs; one that invalidates the cache of p for u.
Hits(d, ids) == Removed(d) \cap ids # {}
Near(d, p, u) == JobOf[d].proc = p /\ JobOf[d].user = u

\* An entry that shows what edit d removed was filled no later than d ended, and d had
\* not ended when the entry's reads began.
EntryOK(e) ==
    /\ e.at \in Nat /\ e.at <= now /\ e.began \subseteq Done(Writing)
    /\ \A d \in Changes : Hits(d, e.ids) => e.at <= ended[d] /\ d \notin e.began

\* If d should have invalidated the entry, the entry was put in the cache after that.
CachedOK(p, e) ==
    /\ EntryOK(e)
    /\ \A d \in Changes : (Near(d, p, e.key[1]) /\ Hits(d, e.ids)) => d \in e.set

\* The same of what a call was served, and of what a call that reads the core has read.
ViewCoreOK(c) ==
    /\ view[c].told \subseteq Done(Writing)
    /\ pc[c] \in {"idle", "prolong", "create", "cache"} =>
          view[c].core = {} /\ view[c].entry = None
    /\ pc[c] = "read" =>
          /\ view[c].reads \in {<<>>, <<"recent">>, <<"top", "recent">>,
                                <<"pinned", "top", "recent">>}
          /\ \A d \in Changes : Hits(d, view[c].core) => ended[d] = now /\ d \notin view[c].told
    /\ view[c].entry # None =>
          /\ EntryOK(view[c].entry) /\ view[c].at \in Nat
          /\ view[c].at <= view[c].entry.at + CacheTTL
          /\ \A d \in Changes \cap view[c].told :
                (Near(d, JobOf[c].proc, JobOf[c].user) /\ Hits(d, view[c].entry.ids))
                    => d \in view[c].entry.set

CoreInv ==
    /\ \A p \in Proc : \A e \in core[p] : CachedOK(p, e)
    /\ \A c \in Call : ViewCoreOK(c)

----------------------------------------------------------------------------
(* What a step does to the calls.                                         *)

\* The fields of what a reading call has seen.
ViewOK(c) ==
    {"session", "core", "entry", "told", "at", "reads", "known", "kept", "new"}
        \subseteq DOMAIN view[c]

\* What a step of call c leaves alone, and what it makes of c.
Works(c) ==
    /\ Fn(pc', Call) /\ Fn(work', Call) /\ Fn(reply', Call) /\ Fn(ended', Call)
    /\ \A d \in Call \ {c} : /\ pc'[d] = pc[d] /\ work'[d] = work[d]
                             /\ reply'[d] = reply[d] /\ ended'[d] = ended[d]
    /\ now' = now
    /\ WorkOK(c)'
    /\ \/ reply'[c] = reply[c] /\ ended'[c] = ended[c]
       \/ pc'[c] = "done" /\ ended'[c] = now

Looks(c) ==
    /\ Fn(view', Call) /\ ViewOK(c)'
    /\ \A d \in Call \ {c} : view'[d] = view[d]

\* A stored row is never removed, and its revision number never falls.
Evolves(r, s) ==
    Stored(r) => /\ Stored(s) /\ s.rev >= r.rev
                 /\ s.state = r.state \/ s.state = "retracted"

\* A step does no more than that to rows, except to start one of its own anew.
Keeps ==
    /\ Fn(memory', Lineage)
    /\ \A m \in Lineage : /\ RowOK(memory'[m])
                          /\ \/ Evolves(memory[m], memory'[m])
                             \/ m \in Started /\ Stored(memory'[m])

----------------------------------------------------------------------------
(* Each step leaves a state of the shape.                                  *)

\* A plan is made of the facts that the call tells.
LEMMA PlansSpeak ==
    ASSUME NEW facts, NEW found, NEW trusted,
           NEW todo \in Plans(facts, found, trusted), NEW a \in todo
    PROVE  /\ a.fact \in facts
           /\ a.do = "UPDATE" => a.target = <<a.target[1], a.target[2]>>
<1>1. PICK choice \in [facts -> UNION {Decisions(f, found, trusted) : f \in facts}] :
          /\ \A f \in facts : choice[f] \in Decisions(f, found, trusted)
          /\ todo = {choice[f] : f \in facts}
    BY DEF Plans
<1>2. PICK f \in facts : a = choice[f]
    BY <1>1
<1>3. a \in Decisions(f, found, trusted)
    BY <1>1, <1>2
<1>4. a.fact = f
    BY <1>3 DEF Decisions
<1>5. ASSUME a.do = "UPDATE"
      PROVE  \E m : a.target = Id(memory, m)
    BY <1>3, <1>5 DEF Decisions
<1>. QED
    BY <1>4, <1>5 DEF Id

LEMMA PlansSpeakUntrusted ==
    ASSUME NEW facts, NEW found, NEW todo \in Plans(facts, found, FALSE), NEW a \in todo
    PROVE  /\ a.fact \in facts
           /\ a.do = "UPDATE" => a.target = <<a.target[1], a.target[2]>>
<1>. DEFINE trusted == FALSE
<1>1. todo \in Plans(facts, found, trusted)
    OBVIOUS
<1>. HIDE DEF trusted
<1>. QED
    BY <1>1, PlansSpeak

WorkFields == {"lock", "facts", "todo", "now", "results", "ok", "basis"}

\* A call that moves on, steps, fails, ends or looks leaves the others alone.
LEMMA GotoWorks ==
    ASSUME Shape, NEW c \in Call, NEW phase, NEW w, Goto(c, phase, w), now' = now,
           WorkFields \subseteq DOMAIN w, w.facts \subseteq JobOf[c].speaks,
           \A a \in w.todo : Planned(c, a)
    PROVE  Works(c)
<1>1. Fn(pc', Call) /\ Fn(work', Call) /\ Fn(reply', Call) /\ Fn(ended', Call)
    BY DEF Shape, Goto, Fn
<1>2. \A d \in Call \ {c} : pc'[d] = pc[d] /\ work'[d] = work[d]
    BY DEF Shape, Goto, Fn
<1>3. work'[c] = w
    BY DEF Shape, Goto, Fn
<1>4. WorkOK(c)'
    BY <1>3 DEF WorkOK, WorkFields
<1>. QED
    BY <1>1, <1>2, <1>4 DEF Works, Goto

LEMMA StepWorks ==
    ASSUME Shape, NEW c \in Call, NEW phase, Step(c, phase), now' = now
    PROVE  Works(c)
BY GotoWorks DEF Step, Shape, WorkOK, WorkFields

LEMMA FailWorks ==
    ASSUME Shape, NEW c \in Call, Fail(c), now' = now
    PROVE  Works(c)
<1>. DEFINE w == [work[c] EXCEPT !.ok = FALSE]
<1>1. WorkOK(c)
    BY DEF Shape
<1>2. WorkFields \subseteq DOMAIN w /\ w.facts = work[c].facts /\ w.todo = work[c].todo
    BY <1>1 DEF WorkOK, WorkFields
<1>3. Goto(c, "release", w)
    BY DEF Fail
<1>. QED
    BY <1>1, <1>2, <1>3, GotoWorks DEF WorkOK

LEMMA EndWorks ==
    ASSUME Shape, NEW c \in Call, NEW answer, End(c, answer), now' = now
    PROVE  Works(c)
<1>1. WorkOK(c)'
    BY DEF Shape, End, WorkOK
<1>2. /\ Fn(pc', Call) /\ Fn(work', Call) /\ Fn(reply', Call) /\ Fn(ended', Call)
      /\ pc'[c] = "done" /\ ended'[c] = now
      /\ \A d \in Call \ {c} : /\ pc'[d] = pc[d] /\ work'[d] = work[d]
                              /\ reply'[d] = reply[d] /\ ended'[d] = ended[d]
    BY DEF Shape, End, Fn
<1>. QED
    BY <1>1, <1>2 DEF Works

LEMMA LookWorks ==
    ASSUME Shape, NEW c \in Call, NEW phase, NEW v, Look(c, phase, v), now' = now
    PROVE  /\ Works(c)
           /\ Fn(view', Call) /\ view'[c] = v
           /\ \A d \in Call \ {c} : view'[d] = view[d]
<1>1. WorkOK(c)'
    BY DEF Shape, Look, WorkOK
<1>2. /\ Fn(pc', Call) /\ Fn(work', Call) /\ Fn(reply', Call) /\ Fn(ended', Call)
      /\ reply'[c] = reply[c] /\ ended'[c] = ended[c]
      /\ \A d \in Call \ {c} : /\ pc'[d] = pc[d] /\ work'[d] = work[d]
                              /\ reply'[d] = reply[d] /\ ended'[d] = ended[d]
    BY DEF Shape, Look, Fn
<1>3. Fn(view', Call) /\ view'[c] = v /\ \A d \in Call \ {c} : view'[d] = view[d]
    BY DEF Shape, Look, Fn
<1>. QED
    BY <1>1, <1>2, <1>3 DEF Works

\* Action by action: the calls that write, that read, that deliver an event.
LEMMA WritesWork ==
    ASSUME Shape, NEW c \in Call, Writes(c)
    PROVE  Works(c)
<1>w. /\ WorkFields \subseteq DOMAIN work[c] /\ work[c].facts \subseteq JobOf[c].speaks
      /\ \A a \in work[c].todo : Planned(c, a)
    BY DEF Shape, WorkOK, WorkFields
<1>1. CASE GetLock(c)
    BY <1>1, <1>w, GotoWorks DEF GetLock, WorkFields, sessionVars
<1>2. CASE Acquire(c)
    BY <1>2, <1>w, GotoWorks, StepWorks DEF Acquire, WorkFields, ReadSession, sessionVars
<1>3. CASE Extract(c)
    BY <1>3, <1>w, GotoWorks, StepWorks DEF Extract, WorkFields, sessionVars
<1>4. CASE Plan(c)
  <2>. DEFINE F == Storable(JobOf[c], work[c].facts)
              found == Candidates(memory, JobOf[c], {"consolidated"}, now)
  <2>1. ASSUME NEW todo \in Plans(F, found, JobOf[c].trusted),
               Goto(c, "act", [work[c] EXCEPT !.todo = todo])
        PROVE  Works(c)
    <3>1. \A a \in todo : /\ a.fact \in F
                          /\ a.do = "UPDATE" => a.target = <<a.target[1], a.target[2]>>
        BY PlansSpeak
    <3>2. F \subseteq JobOf[c].speaks
        BY <1>w DEF Storable
    <3>3. now' = now
        BY <1>4 DEF Plan, sessionVars
    <3>. QED
        BY <2>1, <3>1, <3>2, <3>3, <1>w, GotoWorks DEF WorkFields, Planned
  <2>2. CASE Step(c, "act") \/ Fail(c)
    BY <2>2, <1>4, StepWorks, FailWorks DEF Plan, sessionVars
  <2>. QED
    BY <1>4, <2>1, <2>2 DEF Plan
<1>5. CASE Infer(c)
  <2>. DEFINE F == JobOf[c].speaks
  <2>1. ASSUME NEW found, NEW todo \in Plans(F, found, FALSE),
               Goto(c, "act", [work[c] EXCEPT !.todo = todo])
        PROVE  Works(c)
    <3>. HIDE DEF F
    <3>a. \A a \in todo : /\ a.fact \in F
                          /\ a.do = "UPDATE" => a.target = <<a.target[1], a.target[2]>>
        BY PlansSpeakUntrusted
    <3>1. \A a \in todo : Planned(c, a)
        BY <3>a DEF Planned, F
    <3>2. now' = now
        BY <1>5 DEF Infer, sessionVars
    <3>. QED
        BY <2>1, <3>1, <3>2, <1>w, GotoWorks DEF WorkFields
  <2>2. CASE Step(c, "invalidate") \/ End(c, "failed")
    BY <2>2, <1>5, StepWorks, EndWorks DEF Infer, sessionVars
  <2>. QED
    BY <1>5, <2>1, <2>2 DEF Infer
<1>6. CASE Act(c)
    BY <1>6, <1>w, GotoWorks DEF Act, Did, Skip, Add, Check, WorkFields, sessionVars
<1>7. CASE Revise(c)
    BY <1>7, <1>w, GotoWorks DEF Revise, WorkFields, Did, sessionVars
<1>8. CASE Acted(c)
    BY <1>8, <1>w, StepWorks DEF Acted, WorkFields, sessionVars
<1>9. CASE RecordFacts(c)
    BY <1>9, <1>w, StepWorks DEF RecordFacts, WorkFields, Changed, AddExtracted, sessionVars
<1>10. CASE AppendTurn(c)
    BY <1>10, <1>w, StepWorks DEF AppendTurn, WorkFields, Changed, AppendSummary
<1>11. CASE ReadSummary(c)
    BY <1>11, <1>w, GotoWorks DEF ReadSummary, WorkFields, ReadSession
<1>12. CASE Compact(c)
    BY <1>12, <1>w, StepWorks DEF Compact, WorkFields, Changed, SetSummary, sessionVars
<1>13. CASE WriteRow(c)
    BY <1>13, <1>w, StepWorks DEF WriteRow, WorkFields, ReadSession
<1>14. CASE SaveArtifact(c)
    BY <1>14, <1>w, GotoWorks, StepWorks DEF SaveArtifact, WorkFields, sessionVars
<1>15. CASE ReadArtifacts(c)
    BY <1>15, <1>w, GotoWorks DEF ReadArtifacts, WorkFields, sessionVars
<1>16. CASE LinkArtifact(c)
    BY <1>16, <1>w, GotoWorks DEF LinkArtifact, WorkFields, sessionVars
<1>17. CASE Linked(c)
    BY <1>17, <1>w, StepWorks DEF Linked, WorkFields, sessionVars
<1>18. CASE AddDirect(c)
    BY <1>18, <1>w, GotoWorks, StepWorks, EndWorks DEF AddDirect, WorkFields, sessionVars
<1>19. CASE Update(c)
    BY <1>19, <1>w, GotoWorks, FailWorks DEF Update, WorkFields, sessionVars
<1>20. CASE Delete(c)
    BY <1>20, <1>w, GotoWorks, FailWorks DEF Delete, WorkFields, sessionVars
<1>21. CASE Release(c)
    BY <1>21, <1>w, StepWorks, EndWorks DEF Release, Leave, sessionVars
<1>22. CASE Invalidate(c)
    BY <1>22, <1>w, StepWorks, EndWorks DEF Invalidate, WorkFields, sessionVars
<1>23. CASE Prolong(c)
    BY <1>23, <1>w, StepWorks DEF Prolong, WorkFields, Changed, Touch
<1>24. CASE Track(c)
    BY <1>24, <1>w, EndWorks DEF Track, WorkFields, Changed, AddKnown, sessionVars
<1>. QED
    BY <1>1, <1>2, <1>3, <1>4, <1>5, <1>6, <1>7, <1>8, <1>9, <1>10, <1>11, <1>12, <1>13, <1>14,
       <1>15, <1>16, <1>17, <1>18, <1>19, <1>20, <1>21, <1>22, <1>23, <1>24 DEF Writes

LEMMA ReadsWork ==
    ASSUME Shape, NEW c \in Call, Reads(c)
    PROVE  Works(c)
<1>1. CASE Begin(c)
    BY <1>1, LookWorks DEF Begin, GetSession, sessionVars
<1>2. CASE ProlongSession(c)
    BY <1>2, StepWorks DEF ProlongSession, Changed, Touch
<1>3. CASE OpenSession(c)
    BY <1>3, StepWorks DEF OpenSession, CreateSession
<1>4. CASE ReadCache(c)
    BY <1>4, LookWorks DEF ReadCache, sessionVars
<1>5. CASE ReadCore(c)
    BY <1>5, LookWorks, EndWorks DEF ReadCore, sessionVars
<1>6. CASE FillCache(c)
    BY <1>6, LookWorks DEF FillCache, sessionVars
<1>7. CASE DeliverCore(c)
    BY <1>7, StepWorks DEF DeliverCore, Changed, AddKnown, sessionVars
<1>8. CASE ReadKnown(c)
    BY <1>8, LookWorks DEF ReadKnown, ReadSession
<1>9. CASE Find(c)
    BY <1>9, LookWorks DEF Find, sessionVars
<1>10. CASE Deliver(c)
    BY <1>10, LookWorks DEF Deliver, Changed, AddKnown, sessionVars
<1>11. CASE ReadDelivered(c)
    BY <1>11, LookWorks DEF ReadDelivered, sessionVars
<1>12. CASE SearchDecayed(c)
    BY <1>12, LookWorks DEF SearchDecayed, sessionVars
<1>13. CASE MarkDecayed(c)
    BY <1>13, StepWorks DEF MarkDecayed, sessionVars
<1>14. CASE TrackAccess(c)
    BY <1>14, EndWorks DEF TrackAccess, Answer, sessionVars
<1>. QED
    BY <1>1, <1>2, <1>3, <1>4, <1>5, <1>6, <1>7, <1>8, <1>9, <1>10, <1>11, <1>12, <1>13,
       <1>14 DEF Reads

LEMMA IngestsWork ==
    ASSUME Shape, NEW c \in Call, Ingests(c)
    PROVE  Works(c)
<1>w. /\ WorkFields \subseteq DOMAIN work[c] /\ work[c].facts \subseteq JobOf[c].speaks
      /\ \A a \in work[c].todo : Planned(c, a)
    BY DEF Shape, WorkOK, WorkFields
<1>1. CASE Prepare(c)
    BY <1>1, <1>w, StepWorks, FailWorks DEF Prepare, WorkFields, quietly, sessionVars
<1>2. CASE ClaimContent(c)
    BY <1>2, <1>w, StepWorks DEF ClaimContent, WorkFields, Follow, quietly, sessionVars
<1>3. CASE TakeOver(c)
    BY <1>3, <1>w, StepWorks DEF TakeOver, WorkFields, Follow, quietly, sessionVars
<1>4. CASE Wait(c)
    BY <1>4, <1>w, GotoWorks, StepWorks, FailWorks DEF Wait, WorkFields, Kept, quietly,
       sessionVars
<1>5. CASE Resume(c)
    BY <1>5, <1>w, GotoWorks, StepWorks, FailWorks DEF Resume, WorkFields, Kept, quietly,
       sessionVars
<1>6. CASE Guard(c)
    BY <1>6, <1>w, StepWorks, FailWorks DEF Guard, WorkFields, quietly, sessionVars
<1>7. CASE Insert(c)
    BY <1>7, <1>w, GotoWorks DEF Insert, WorkFields, Kept, quietly, sessionVars
<1>8. CASE Complete(c)
    BY <1>8, <1>w, StepWorks, FailWorks DEF Complete, WorkFields, quietly, sessionVars
<1>9. CASE Commit(c)
    BY <1>9, <1>w, StepWorks DEF Commit, WorkFields, quietly, sessionVars
<1>10. CASE Refresh(c)
    BY <1>10, <1>w, StepWorks DEF Refresh, WorkFields, quietly, sessionVars
<1>. QED
    BY <1>1, <1>2, <1>3, <1>4, <1>5, <1>6, <1>7, <1>8, <1>9, <1>10 DEF Ingests

LEMMA ReadsLook ==
    ASSUME Shape, NEW c \in Call, Reads(c)
    PROVE  Looks(c)
<1>v. ViewOK(c)
    BY DEF Shape, ViewOK
<1>a. ASSUME NEW phase, NEW v, Look(c, phase, v),
             {"session", "core", "entry", "told", "at", "reads",
                         "known", "kept", "new"} \subseteq DOMAIN v
      PROVE  Looks(c)
    <2>1. Fn(view', Call) /\ view'[c] = v /\ \A d \in Call \ {c} : view'[d] = view[d]
        BY <1>a DEF Look, Shape, Fn
    <2>. QED
        BY <1>a, <2>1 DEF Looks, ViewOK
<1>b. ASSUME UNCHANGED view
      PROVE  Looks(c)
    BY <1>b, <1>v DEF Looks, Shape, ViewOK, Fn
<1>1. CASE Begin(c)
    BY <1>1, <1>v, <1>a, <1>b DEF Begin, ViewOK, NoView, Shape, Fn, Looks
<1>2. CASE ProlongSession(c)
    BY <1>2, <1>v, <1>a, <1>b DEF ProlongSession, ViewOK, Shape, Fn, Looks
<1>3. CASE OpenSession(c)
    BY <1>3, <1>v, <1>a, <1>b DEF OpenSession, ViewOK, Shape, Fn, Looks
<1>4. CASE ReadCache(c)
    BY <1>4, <1>v, <1>a, <1>b DEF ReadCache, ViewOK, Shape, Fn, Looks
<1>5. CASE ReadCore(c)
    BY <1>5, <1>v, <1>a, <1>b DEF ReadCore, ViewOK, Shape, Fn, Looks
<1>6. CASE FillCache(c)
    BY <1>6, <1>v, <1>a, <1>b DEF FillCache, ViewOK, Shape, Fn, Looks
<1>7. CASE DeliverCore(c)
    BY <1>7, <1>v, <1>a, <1>b DEF DeliverCore, ViewOK, Shape, Fn, Looks
<1>8. CASE ReadKnown(c)
    BY <1>8, <1>v, <1>a, <1>b DEF ReadKnown, ViewOK, Shape, Fn, Looks
<1>9. CASE Find(c)
    BY <1>9, <1>v, <1>a, <1>b DEF Find, ViewOK, Merged, Shape, Fn, Looks
<1>10. CASE Deliver(c)
    BY <1>10, <1>v, <1>a, <1>b DEF Deliver, ViewOK, Shape, Fn, Looks
<1>11. CASE ReadDelivered(c)
    BY <1>11, <1>v, <1>a, <1>b DEF ReadDelivered, ViewOK, Shape, Fn, Looks
<1>12. CASE SearchDecayed(c)
    BY <1>12, <1>v, <1>a, <1>b DEF SearchDecayed, ViewOK, Shape, Fn, Looks
<1>13. CASE MarkDecayed(c)
    BY <1>13, <1>v, <1>a, <1>b DEF MarkDecayed, ViewOK, Shape, Fn, Looks
<1>14. CASE TrackAccess(c)
    BY <1>14, <1>v, <1>a, <1>b DEF TrackAccess, ViewOK, Answer, Shape, Fn, Looks
<1>. QED
    BY <1>1, <1>2, <1>3, <1>4, <1>5, <1>6, <1>7, <1>8, <1>9, <1>10, <1>11, <1>12, <1>13,
       <1>14 DEF Reads

\* Rows that do not change.
LEMMA SameKeeps ==
    ASSUME Shape, memory' = memory
    PROVE  Keeps
BY DEF Shape, Keeps, RowOK, Evolves, Fn

\* One row changes.
LEMMA RowKeeps ==
    ASSUME Shape, NEW m \in Lineage, NEW r, memory' = [memory EXCEPT ![m] = r],
           RowOK(r), Evolves(memory[m], r) \/ (m \in Started /\ Stored(r))
    PROVE  Keeps
BY DEF Shape, Keeps, RowOK, Evolves, Fn

\* A row that is inserted, and one that is revised.
LEMMA InsertedRow ==
    ASSUME NEW fact, NEW user, NEW owner, NEW agent, NEW layer, NEW pinned,
           NEW artifacts, NEW t
    PROVE  LET r == Inserted(fact, user, owner, agent, layer, pinned, artifacts, t) IN
           RowOK(r) /\ Stored(r)
BY DEF Inserted, RowOK, Stored

LEMMA RevisedRow ==
    ASSUME NEW r, NEW fact, NEW layer, RowOK(r), Stored(r)
    PROVE  RowOK(Revised(r, fact, layer)) /\ Evolves(r, Revised(r, fact, layer))
BY DEF Revised, RowOK, Evolves, Stored

\* A memory that a call tells is one that a call may start.
LEMMA StartedOf ==
    ASSUME NEW c \in Call, JobOf[c].op \in {"remember", "infer", "direct", "ingest"},
           NEW f \in JobOf[c].speaks
    PROVE  LineageOf[c][f] \in Started
BY DEF Started, Telling

\* A new row where a call may start one, or nowhere.
LEMMA StartKeeps ==
    ASSUME Shape, NEW m \in Started, NEW r, memory' = [memory EXCEPT ![m] = r],
           RowOK(r), Stored(r)
    PROVE  Keeps
<1>1. CASE m \in Lineage
    BY <1>1, RowKeeps
<1>2. CASE m \notin Lineage
    <2>1. memory' = memory
        BY <1>2 DEF Shape, Fn
    <2>. QED
        BY <2>1, SameKeeps
<1>. QED
    BY <1>1, <1>2

\* Action by action: what happens to the rows.
LEMMA WritesKeep ==
    ASSUME Shape, NEW c \in Call, Writes(c)
    PROVE  Keeps
<1>w. \A a \in work[c].todo : a.fact \in JobOf[c].speaks
    BY DEF Shape, WorkOK, Planned
<1>r. \A m \in Lineage : RowOK(memory[m])
    BY DEF Shape
<1>1. CASE Act(c)
  <2>1. PICK a \in work[c].todo : Skip(c, a) \/ Add(c, a) \/ Check(c, a)
      BY <1>1 DEF Act
  <2>2. CASE memory' = memory
      BY <2>2, SameKeeps
  <2>3. CASE memory' # memory
    <3>. DEFINE r == Inserted(a.fact, JobOf[c].user, JobOf[c].owner, JobOf[c].agent,
                              Layer(c), FALSE, {}, now)
    <3>1. memory' = [memory EXCEPT ![LineageOf[c][a.fact]] = r]
        BY <2>1, <2>3 DEF Skip, Add, Check
    <3>2. LineageOf[c][a.fact] \in Started
        BY <1>1, <1>w, StartedOf DEF Act, At
    <3>3. RowOK(r) /\ Stored(r)
        BY InsertedRow
    <3>. QED
        BY <3>1, <3>2, <3>3, StartKeeps
  <2>. QED
      BY <2>2, <2>3
<1>2. CASE Revise(c)
  <2>. DEFINE m == work[c].now.target[1]
              r == Revised(memory[m], work[c].now.fact, Layer(c))
  <2>1. CASE memory' = memory
      BY <2>1, SameKeeps
  <2>2. CASE memory' # memory
    <3>1. Active(memory[m]) /\ memory' = [memory EXCEPT ![m] = r]
        BY <1>2, <2>2 DEF Revise
    <3>2. m \in Lineage
        BY <3>1, <2>2 DEF Shape, Fn
    <3>3. RowOK(r) /\ Evolves(memory[m], r)
        BY <3>1, <3>2, <1>r, RevisedRow DEF Active, Stored
    <3>. QED
        BY <3>1, <3>2, <3>3, RowKeeps
  <2>. QED
      BY <2>1, <2>2
<1>3. CASE LinkArtifact(c)
  <2>. DEFINE m == work[c].now[1]
              r == [memory[m] EXCEPT !.artifacts = work[c].seen \cup {c}]
  <2>1. CASE memory' = memory
      BY <2>1, SameKeeps
  <2>2. CASE memory' # memory
    <3>1. memory' = [memory EXCEPT ![m] = r]
        BY <1>3, <2>2 DEF LinkArtifact
    <3>2. m \in Lineage
        BY <3>1, <2>2 DEF Shape, Fn
    <3>3. RowOK(r) /\ Evolves(memory[m], r)
        BY <3>2, <1>r DEF RowOK, Evolves, Stored
    <3>. QED
        BY <3>1, <3>2, <3>3, RowKeeps
  <2>. QED
      BY <2>1, <2>2
<1>4. CASE AddDirect(c)
  <2>1. CASE memory' = memory
      BY <2>1, SameKeeps
  <2>2. CASE memory' # memory
    <3>1. PICK f \in JobOf[c].speaks :
              memory' = [memory EXCEPT ![LineageOf[c][f]] =
                  Inserted(f, JobOf[c].user, JobOf[c].owner, JobOf[c].agent,
                           "consolidated", FALSE, IF JobOf[c].long THEN {c} ELSE {}, now)]
        BY <1>4, <2>2 DEF AddDirect
    <3>2. LineageOf[c][f] \in Started
        BY <1>4, StartedOf DEF AddDirect, At
    <3>. QED
        BY <3>1, <3>2, InsertedRow, StartKeeps
  <2>. QED
      BY <2>1, <2>2
<1>5. CASE Update(c)
  <2>. DEFINE m == JobOf[c].target
  <2>1. CASE memory' = memory
      BY <2>1, SameKeeps
  <2>2. CASE memory' # memory
    <3>1. PICK f \in JobOf[c].speaks :
              memory' = [memory EXCEPT ![m].rev = @ + 1, ![m].text = f]
        BY <1>5, <2>2 DEF Update
    <3>2. Active(memory[m])
        BY <1>5, <2>2 DEF Update
    <3>3. m \in Lineage
        BY <3>1, <2>2 DEF Shape, Fn
    <3>. DEFINE r == [memory[m] EXCEPT !.rev = @ + 1, !.text = f]
    <3>4. memory' = [memory EXCEPT ![m] = r]
        BY <3>1, <3>3 DEF Shape, Fn
    <3>5. RowOK(r) /\ Evolves(memory[m], r)
        BY <3>2, <3>3, <1>r DEF RowOK, Evolves, Active, Stored
    <3>. QED
        BY <3>3, <3>4, <3>5, RowKeeps
  <2>. QED
      BY <2>1, <2>2
<1>6. CASE Delete(c)
  <2>. DEFINE m == JobOf[c].target
              r == [memory[m] EXCEPT !.state = "retracted"]
  <2>1. CASE memory' = memory
      BY <2>1, SameKeeps
  <2>2. CASE memory' # memory
    <3>1. Active(memory[m]) /\ memory' = [memory EXCEPT ![m] = r]
        BY <1>6, <2>2 DEF Delete
    <3>2. m \in Lineage
        BY <3>1, <2>2 DEF Shape, Fn
    <3>3. RowOK(r) /\ Evolves(memory[m], r)
        BY <3>1, <3>2, <1>r DEF RowOK, Evolves, Active, Stored
    <3>. QED
        BY <3>1, <3>2, <3>3, RowKeeps
  <2>. QED
      BY <2>1, <2>2
<1>7. ASSUME ~Act(c), ~Revise(c), ~LinkArtifact(c), ~AddDirect(c), ~Update(c), ~Delete(c)
      PROVE  memory' = memory
  <2>1. CASE GetLock(c)
      BY <2>1 DEF GetLock, storeVars
  <2>2. CASE Acquire(c)
      BY <2>2 DEF Acquire, storeVars
  <2>3. CASE Extract(c)
      BY <2>3 DEF Extract, storeVars
  <2>4. CASE Plan(c)
      BY <2>4 DEF Plan, storeVars
  <2>5. CASE Infer(c)
      BY <2>5 DEF Infer, storeVars
  <2>6. CASE Acted(c)
      BY <2>6 DEF Acted, storeVars
  <2>7. CASE RecordFacts(c)
      BY <2>7 DEF RecordFacts, storeVars
  <2>8. CASE AppendTurn(c)
      BY <2>8 DEF AppendTurn, storeVars
  <2>9. CASE ReadSummary(c)
      BY <2>9 DEF ReadSummary, storeVars
  <2>10. CASE Compact(c)
      BY <2>10 DEF Compact, storeVars
  <2>11. CASE WriteRow(c)
      BY <2>11 DEF WriteRow, storeVars
  <2>12. CASE SaveArtifact(c)
      BY <2>12 DEF SaveArtifact, storeVars
  <2>13. CASE ReadArtifacts(c)
      BY <2>13 DEF ReadArtifacts, storeVars
  <2>14. CASE Linked(c)
      BY <2>14 DEF Linked, storeVars
  <2>15. CASE Release(c)
      BY <2>15 DEF Release, storeVars
  <2>16. CASE Invalidate(c)
      BY <2>16 DEF Invalidate, storeVars
  <2>17. CASE Prolong(c)
      BY <2>17 DEF Prolong, storeVars
  <2>18. CASE Track(c)
      BY <2>18 DEF Track, storeVars
  <2>. QED
      BY <1>7, <2>1, <2>2, <2>3, <2>4, <2>5, <2>6, <2>7, <2>8, <2>9, <2>10, <2>11, <2>12, <2>13,
         <2>14, <2>15, <2>16, <2>17, <2>18 DEF Writes
<1>. QED
    BY <1>1, <1>2, <1>3, <1>4, <1>5, <1>6, <1>7, SameKeeps

LEMMA IngestsKeep ==
    ASSUME Shape, NEW c \in Call, Ingests(c)
    PROVE  Keeps
<1>1. CASE Insert(c)
  <2>1. PICK r : memory' = [memory EXCEPT ![PointOf(c)] = r] /\ RowOK(r) /\ Stored(r)
      BY <1>1, InsertedRow DEF Insert
  <2>2. JobOf[c].op = "ingest" /\ c \in DOMAIN RootOf
      BY <1>1, RootAssumption DEF Insert, At
  <2>3. FactOf(c) \in JobOf[c].speaks
      BY <2>2, ContentAssumption DEF FactOf
  <2>4. PointOf(c) \in Started
      BY <2>2, <2>3, StartedOf DEF PointOf
  <2>. QED
      BY <2>1, <2>4, StartKeeps
<1>2. ASSUME ~Insert(c)
      PROVE  memory' = memory
  <2>1. CASE Prepare(c)
      BY <2>1 DEF Prepare
  <2>2. CASE ClaimContent(c)
      BY <2>2 DEF ClaimContent
  <2>3. CASE TakeOver(c)
      BY <2>3 DEF TakeOver
  <2>4. CASE Wait(c)
      BY <2>4 DEF Wait
  <2>5. CASE Resume(c)
      BY <2>5 DEF Resume
  <2>6. CASE Guard(c)
      BY <2>6 DEF Guard
  <2>7. CASE Complete(c)
      BY <2>7 DEF Complete
  <2>8. CASE Commit(c)
      BY <2>8 DEF Commit
  <2>9. CASE Refresh(c)
      BY <2>9 DEF Refresh
  <2>. QED
      BY <1>2, <2>1, <2>2, <2>3, <2>4, <2>5, <2>6, <2>7, <2>8, <2>9 DEF Ingests
<1>. QED
    BY <1>1, <1>2, SameKeeps

LEMMA ReadsKeep ==
    ASSUME Shape, NEW c \in Call, Reads(c)
    PROVE  Keeps
<1>r. \A m \in Lineage : RowOK(memory[m])
    BY DEF Shape
<1>1. CASE MarkDecayed(c)
    BY <1>1, <1>r DEF MarkDecayed, Keeps, Fn, RowOK, Evolves, Stored
<1>2. CASE TrackAccess(c)
  <2>1. ASSUME NEW r, NEW copy, RowOK(r)
        PROVE  RowOK(Reinforced(r, copy, now)) /\ Evolves(r, Reinforced(r, copy, now))
      BY <2>1 DEF Reinforced, RowOK, Evolves, Stored
  <2>2. \A r : RowOK(r) => Evolves(r, r)
      BY DEF RowOK, Evolves
  <2>. DEFINE copies == {x \in view[c].copies : IsCurrent(memory, x.id)}
  <2>3. memory' = [m \in Lineage |->
           IF \E x \in copies : x.id[1] = m
           THEN Reinforced(memory[m], CHOOSE x \in copies : x.id[1] = m, now)
           ELSE memory[m]]
      BY <1>2 DEF TrackAccess
  <2>4. Fn(memory', Lineage)
      BY <2>3 DEF Fn
  <2>. HIDE DEF copies
  <2>5. ASSUME NEW m \in Lineage
        PROVE  RowOK(memory'[m]) /\ Evolves(memory[m], memory'[m])
      BY <2>1, <2>2, <2>3, <1>r
  <2>. QED
      BY <2>4, <2>5 DEF Keeps
<1>3. ASSUME ~MarkDecayed(c), ~TrackAccess(c)
      PROVE  memory' = memory
  <2>1. CASE Begin(c)
      BY <2>1 DEF Begin, quiet, storeVars
  <2>2. CASE ProlongSession(c)
      BY <2>2 DEF ProlongSession, quiet, storeVars
  <2>3. CASE OpenSession(c)
      BY <2>3 DEF OpenSession, quiet, storeVars
  <2>4. CASE ReadCache(c)
      BY <2>4 DEF ReadCache, quiet, storeVars
  <2>5. CASE ReadCore(c)
      BY <2>5 DEF ReadCore, quiet, storeVars
  <2>6. CASE FillCache(c)
      BY <2>6 DEF FillCache, quiet, storeVars
  <2>7. CASE DeliverCore(c)
      BY <2>7 DEF DeliverCore, quiet, storeVars
  <2>8. CASE ReadKnown(c)
      BY <2>8 DEF ReadKnown, quiet, storeVars
  <2>9. CASE Find(c)
      BY <2>9 DEF Find, quiet, storeVars
  <2>10. CASE Deliver(c)
      BY <2>10 DEF Deliver, quiet, storeVars
  <2>11. CASE ReadDelivered(c)
      BY <2>11 DEF ReadDelivered, quiet, storeVars
  <2>12. CASE SearchDecayed(c)
      BY <2>12 DEF SearchDecayed, quiet, storeVars
  <2>. QED
      BY <1>3, <2>1, <2>2, <2>3, <2>4, <2>5, <2>6, <2>7, <2>8, <2>9, <2>10, <2>11,
         <2>12 DEF Reads
<1>. QED
    BY <1>1, <1>2, <1>3, SameKeeps

\* Only invalidations, refreshes, fills and reads of a cache change one.
LEMMA WritesLeaveCore ==
    ASSUME NEW c \in Call, Writes(c), ~Invalidate(c)
    PROVE  UNCHANGED core
<1>1. CASE GetLock(c)
    BY <1>1 DEF GetLock
<1>2. CASE Acquire(c)
    BY <1>2 DEF Acquire
<1>3. CASE Extract(c)
    BY <1>3 DEF Extract
<1>4. CASE Plan(c)
    BY <1>4 DEF Plan
<1>5. CASE Infer(c)
    BY <1>5 DEF Infer
<1>6. CASE Act(c)
    BY <1>6 DEF Act
<1>7. CASE Revise(c)
    BY <1>7 DEF Revise
<1>8. CASE Acted(c)
    BY <1>8 DEF Acted
<1>9. CASE RecordFacts(c)
    BY <1>9 DEF RecordFacts
<1>10. CASE AppendTurn(c)
    BY <1>10 DEF AppendTurn
<1>11. CASE ReadSummary(c)
    BY <1>11 DEF ReadSummary
<1>12. CASE Compact(c)
    BY <1>12 DEF Compact
<1>13. CASE WriteRow(c)
    BY <1>13 DEF WriteRow
<1>14. CASE SaveArtifact(c)
    BY <1>14 DEF SaveArtifact
<1>15. CASE ReadArtifacts(c)
    BY <1>15 DEF ReadArtifacts
<1>16. CASE LinkArtifact(c)
    BY <1>16 DEF LinkArtifact
<1>17. CASE Linked(c)
    BY <1>17 DEF Linked
<1>18. CASE AddDirect(c)
    BY <1>18 DEF AddDirect
<1>19. CASE Update(c)
    BY <1>19 DEF Update
<1>20. CASE Delete(c)
    BY <1>20 DEF Delete
<1>21. CASE Release(c)
    BY <1>21 DEF Release
<1>22. CASE Prolong(c)
    BY <1>22 DEF Prolong
<1>23. CASE Track(c)
    BY <1>23 DEF Track
<1>. QED
    BY <1>1, <1>2, <1>3, <1>4, <1>5, <1>6, <1>7, <1>8, <1>9, <1>10, <1>11, <1>12, <1>13, <1>14,
       <1>15, <1>16, <1>17, <1>18, <1>19, <1>20, <1>21, <1>22, <1>23 DEF Writes

LEMMA IngestsLeaveCore ==
    ASSUME NEW c \in Call, Ingests(c), ~Refresh(c)
    PROVE  UNCHANGED core
<1>1. CASE Prepare(c)
    BY <1>1 DEF Prepare
<1>2. CASE ClaimContent(c)
    BY <1>2 DEF ClaimContent
<1>3. CASE TakeOver(c)
    BY <1>3 DEF TakeOver
<1>4. CASE Wait(c)
    BY <1>4 DEF Wait
<1>5. CASE Resume(c)
    BY <1>5 DEF Resume
<1>6. CASE Guard(c)
    BY <1>6 DEF Guard
<1>7. CASE Insert(c)
    BY <1>7 DEF Insert
<1>8. CASE Complete(c)
    BY <1>8 DEF Complete
<1>9. CASE Commit(c)
    BY <1>9 DEF Commit
<1>. QED
    BY <1>1, <1>2, <1>3, <1>4, <1>5, <1>6, <1>7, <1>8, <1>9 DEF Ingests

LEMMA ReadsLeaveCore ==
    ASSUME NEW c \in Call, Reads(c), ~ReadCache(c), ~FillCache(c)
    PROVE  UNCHANGED core
<1>1. CASE Begin(c)
    BY <1>1 DEF Begin
<1>2. CASE ProlongSession(c)
    BY <1>2 DEF ProlongSession
<1>3. CASE OpenSession(c)
    BY <1>3 DEF OpenSession
<1>4. CASE ReadCore(c)
    BY <1>4 DEF ReadCore
<1>5. CASE DeliverCore(c)
    BY <1>5 DEF DeliverCore
<1>6. CASE ReadKnown(c)
    BY <1>6 DEF ReadKnown
<1>7. CASE Find(c)
    BY <1>7 DEF Find
<1>8. CASE Deliver(c)
    BY <1>8 DEF Deliver
<1>9. CASE ReadDelivered(c)
    BY <1>9 DEF ReadDelivered
<1>10. CASE SearchDecayed(c)
    BY <1>10 DEF SearchDecayed
<1>11. CASE MarkDecayed(c)
    BY <1>11 DEF MarkDecayed
<1>12. CASE TrackAccess(c)
    BY <1>12 DEF TrackAccess
<1>. QED
    BY <1>1, <1>2, <1>3, <1>4, <1>5, <1>6, <1>7, <1>8, <1>9, <1>10, <1>11, <1>12 DEF Reads

\* What every step of a call does.
LEMMA AnswerStep ==
    ASSUME Shape, NEW c \in Call, Reads(c) \/ Stores(c)
    PROVE  Works(c) /\ Looks(c) /\ Keeps /\ Fn(core', Proc)
<1>1. CASE Reads(c)
  <2>1. ReadCache(c) \/ FillCache(c) => Fn(core', Proc)
      BY DEF ReadCache, FillCache, Shape, Fn
  <2>2. UNCHANGED core => Fn(core', Proc)
      BY DEF Shape, Fn
  <2>. QED
    BY <1>1, <2>1, <2>2, ReadsWork, ReadsLook, ReadsKeep, ReadsLeaveCore
<1>2. ASSUME UNCHANGED view
      PROVE  Looks(c)
    BY <1>2 DEF Looks, ViewOK, Shape, Fn
<1>3. CASE Writes(c) /\ UNCHANGED view
  <2>1. Invalidate(c) => Fn(core', Proc)
      BY DEF Invalidate, Shape, Fn
  <2>2. UNCHANGED core => Fn(core', Proc)
      BY DEF Shape, Fn
  <2>. QED
    BY <1>2, <1>3, <2>1, <2>2, WritesWork, WritesKeep, WritesLeaveCore
<1>4. CASE Ingests(c) /\ UNCHANGED view
  <2>1. Refresh(c) => Fn(core', Proc)
      BY DEF Refresh, Shape, Fn
  <2>2. UNCHANGED core => Fn(core', Proc)
      BY DEF Shape, Fn
  <2>. QED
    BY <1>2, <1>4, <2>1, <2>2, IngestsWork, IngestsKeep, IngestsLeaveCore
<1>. QED
    BY <1>1, <1>3, <1>4 DEF Stores

LEMMA ShapeInit ==
    ASSUME Init
    PROVE  Shape
<1>1. Fn(memory, Lineage) /\ \A m \in Lineage : RowOK(memory[m])
  <2>1. memory \in [Lineage -> Row \cup {NoRow}]
      BY PipelineAssumption DEF Init, PipelineInit
  <2>2. \A r \in Row \cup {NoRow} : RowOK(r)
      BY DEF Row, NoRow, RowOK, Stored
  <2>. QED
      BY <2>1, <2>2 DEF Fn
<1>2. Fn(pc, Call) /\ Fn(work, Call) /\ Fn(reply, Call) /\ Fn(ended, Call) /\ Fn(core, Proc)
    BY DEF Init, PipelineInit, Fn
<1>3. Fn(view, Call) /\ \A c \in Call : ViewOK(c)
    BY DEF Init, NoView, ViewOK, Fn
<1>4. \A c \in Call : WorkOK(c)
    BY DEF Init, PipelineInit, NoWork, WorkOK
<1>5. now = 0 /\ \A c \in Call : reply[c] = "none" /\ ended[c] = 0
    BY DEF Init, PipelineInit
<1>. QED
    BY <1>1, <1>2, <1>3, <1>4, <1>5 DEF Shape, ViewOK

LEMMA ShapeStep ==
    ASSUME Shape, [Next]_vars
    PROVE  Shape'
<1>v. Shape <=> /\ Fn(memory, Lineage) /\ \A m \in Lineage : RowOK(memory[m])
                /\ Fn(pc, Call) /\ Fn(work, Call) /\ Fn(reply, Call) /\ Fn(ended, Call)
                /\ Fn(view, Call) /\ Fn(core, Proc) /\ now \in Nat
                /\ \A c \in Call : /\ WorkOK(c) /\ ViewOK(c)
                                   /\ reply[c] # "none" => pc[c] = "done"
                                   /\ ended[c] \in Nat /\ ended[c] <= now
    BY DEF Shape, ViewOK
<1>1. ASSUME NEW c \in Call, ~Finished(c), Reads(c) \/ Stores(c)
      PROVE  Shape'
  <2>1. Works(c) /\ Looks(c) /\ Keeps /\ Fn(core', Proc)
      BY <1>1, AnswerStep
  <2>2. reply[c] = "none"
      BY <1>1 DEF Finished, Shape
  <2>3. ASSUME NEW d \in Call
        PROVE  /\ WorkOK(d)' /\ ViewOK(d)'
               /\ reply'[d] # "none" => pc'[d] = "done"
               /\ ended'[d] \in Nat /\ ended'[d] <= now'
    <3>1. CASE d = c
        BY <1>v, <2>1, <2>2, <3>1 DEF Works, Looks
    <3>2. CASE d # c
        BY <1>v, <2>1, <3>2 DEF Works, Looks, WorkOK, ViewOK
    <3>. QED
        BY <3>1, <3>2
  <2>4. now' \in Nat
      BY <1>v, <2>1 DEF Works
  <2>. QED
      BY <2>1, <2>3, <2>4 DEF Works, Looks, Keeps, Shape, ViewOK
<1>2. ASSUME UNCHANGED <<memory, work, view, ended>>, Fn(pc', Call), Fn(reply', Call),
             Fn(core', Proc), now' \in {now, now + 1},
             \A c \in Call : reply'[c] # "none" => pc'[c] = "done"
      PROVE  Shape'
    BY <1>2 DEF Shape, WorkOK, RowOK, Fn
<1>3. ASSUME NEW p \in Proc, Restart(p), UNCHANGED view
      PROVE  Shape'
  <2>1. UNCHANGED <<memory, work, ended, now>> /\ Fn(core', Proc)
      BY <1>3 DEF Restart, storeVars, Shape, Fn
  <2>2. Fn(pc', Call) /\ Fn(reply', Call)
      BY <1>3 DEF Restart, Fn
  <2>3. ASSUME NEW c \in Call
        PROVE  reply'[c] # "none" => pc'[c] = "done"
      BY <1>3 DEF Restart, Shape
  <2>. QED
      BY <1>2, <1>3, <2>1, <2>2, <2>3
<1>4. CASE Sweep
    BY <1>2, <1>4 DEF Sweep, SweepBackend, SweepCache, quiet, storeVars, flow, Shape
<1>5. CASE Tick
    BY <1>2, <1>5 DEF Tick, storeVars, flow, Shape
<1>6. CASE Lapse /\ UNCHANGED view
    BY <1>2, <1>6 DEF Lapse, pipelineVars, storeVars, flow, sessionVars, Shape
<1>7. CASE UNCHANGED vars
    BY <1>2, <1>7 DEF vars, pipelineVars, storeVars, flow, sessionVars, Shape
<1>. QED
    BY <1>1, <1>3, <1>4, <1>5, <1>6, <1>7 DEF Next, Answering

\* Which calls take which steps.
LEMMA ReadsOp ==
    ASSUME NEW c \in Call, Reads(c)
    PROVE  JobOf[c].op \in Reading
BY DEF Reads, At, Begin, ProlongSession, OpenSession, ReadCache, ReadCore, FillCache,
   DeliverCore, ReadKnown, Find, Deliver, ReadDelivered, SearchDecayed, MarkDecayed,
   TrackAccess,
   Reading

LEMMA IngestsOp ==
    ASSUME NEW c \in Call, Ingests(c)
    PROVE  JobOf[c].op \in {"ingest"}
BY DEF Ingests, At, Prepare, ClaimContent, TakeOver, Wait, Resume, Guard, Insert, Complete,
   Commit, Refresh

----------------------------------------------------------------------------
(* What is accepted is stored.                                             *)

\* A call that delivers an event, and its memory.
LEMMA IngestCalls ==
    ASSUME NEW c \in Ingest
    PROVE  /\ c \in Call /\ JobOf[c].op = "ingest"
           /\ PointOf(c) \in Lineage /\ PointOf(c) # None /\ RootOf[c] \in Root
BY RootAssumption, ContentAssumption DEF Ingest, Root

\* The steps it shares with other calls: the lock of the user, before and after.
LEMMA IngestWrites ==
    ASSUME Shape, NEW c \in Ingest, pc[c] \in IngestPhase, Writes(c)
    PROVE  \/ pc[c] = "idle" /\ pc'[c] = "lock" /\ reply'[c] = reply[c]
           \/ pc[c] = "lock" /\ pc'[c] = "prepare" /\ reply'[c] = reply[c]
           \/ /\ pc[c] = "release" /\ pc'[c] = "done"
              /\ reply'[c] = IF work[c].ok THEN "ok" ELSE "failed"
<1>1. JobOf[c].op = "ingest" /\ c \in Call
    BY IngestCalls
<1>2. GetLock(c) \/ Acquire(c) \/ Release(c)
    BY <1>1 DEF IngestPhase, Writes, At, Locking, Writing, Extract, Plan, Infer,
                Act, Revise, Acted, RecordFacts, AppendTurn, ReadSummary, Compact, WriteRow,
                SaveArtifact, ReadArtifacts, LinkArtifact, Linked, AddDirect, Update, Delete,
                Invalidate, Prolong, Track
<1>3. CASE GetLock(c)
    BY <1>1, <1>3 DEF GetLock, At, Goto, Shape, Fn
<1>4. CASE Acquire(c)
    BY <1>1, <1>4 DEF Acquire, At, Step, Goto, Shape, Fn
<1>5. CASE Release(c)
    BY <1>1, <1>5 DEF Release, At, Leave, End, Shape, Fn
<1>. QED
    BY <1>2, <1>3, <1>4, <1>5

\* What keeps the rows and the journal, and what calls for an event need.
LEMMA EventFrame ==
    ASSUME Shape, EventInv, Keeps, UNCHANGED <<claim, event>>,
           \A c \in Ingest : /\ pc'[c] \in IngestPhase
                             /\ Accepted(c)' => Stored(memory[PointOf(c)])
                             /\ pc'[c] \in Preparing => event[RootOf[c]].bound = PointOf(c)
    PROVE  EventInv'
<1>1. \A m \in Lineage : Stored(memory[m]) => Stored(memory'[m])
    BY DEF Keeps, Evolves
<1>2. \A c \in Ingest : IngestOK(c)'
    BY <1>1, IngestCalls DEF IngestOK
<1>3. \A m \in Lineage : ClaimOK(m)'
    BY <1>1 DEF EventInv, ClaimOK
<1>4. \A r \in Root : EventOK(r)'
    BY <1>1 DEF EventInv, EventOK
<1>. QED
    BY <1>2, <1>3, <1>4 DEF EventInv, Fn

\* Claim by claim: what is recorded of the event is true of the row.
LEMMA IngestsStep ==
    ASSUME Shape, EventInv, NEW c \in Call, Ingests(c), Works(c), Keeps
    PROVE  EventInv'
<1>c. c \in Ingest /\ JobOf[c].op = "ingest" /\ RootOf[c] \in Root
      /\ PointOf(c) \in Lineage /\ PointOf(c) # None
    BY IngestsOp, IngestCalls, RootAssumption DEF Ingest
<1>k. \A m \in Lineage : Stored(memory[m]) => Stored(memory'[m])
    BY DEF Keeps, Evolves
<1>f. Fn(pc, Call) /\ Fn(work, Call) /\ Fn(reply, Call) /\ Fn(claim, Lineage) /\ Fn(event, Root)
    BY DEF Shape, EventInv
<1>i. IngestOK(c) /\ ClaimOK(PointOf(c)) /\ EventOK(RootOf[c])
    BY <1>c DEF EventInv
<1>r. reply[c] = "none"
    BY DEF Shape, Ingests, At, Prepare, ClaimContent, TakeOver, Wait, Resume, Guard, Insert,
           Complete, Commit, Refresh
<1>s. ASSUME NEW phase, Step(c, phase)
      PROVE  pc'[c] = phase /\ work'[c] = work[c] /\ reply'[c] = "none"
    BY <1>s, <1>f, <1>r DEF Step, Goto, Fn
<1>z. ASSUME Fail(c)
      PROVE  pc'[c] = "release" /\ ~Accepted(c)'
  <2>1. pc'[c] = "release" /\ work'[c].ok = FALSE /\ reply'[c] = "none"
      BY <1>z, <1>f, <1>r DEF Fail, Goto, Fn, Shape, WorkOK
  <2>. QED
      BY <2>1 DEF Accepted
<1>g. ASSUME NEW phase, NEW answer, Kept(c, phase, answer)
      PROVE  pc'[c] = phase /\ reply'[c] = "none"
    BY <1>g, <1>f, <1>r DEF Kept, Goto, Fn
<1>d. ASSUME \A d \in Ingest : pc[d] \in Preparing =>
                 event'[RootOf[d]].bound = event[RootOf[d]].bound,
             Fn(claim', Lineage), Fn(event', Root),
             IngestOK(c)',
             \A m \in Lineage \ {PointOf(c)} : claim'[m] = claim[m],
             \A r \in Root \ {RootOf[c]} : event'[r] = event[r],
             ClaimOK(PointOf(c))', EventOK(RootOf[c])'
      PROVE  EventInv'
  <2>1. ASSUME NEW d \in Ingest, d # c
        PROVE  IngestOK(d)'
    <3>1. pc'[d] = pc[d] /\ work'[d] = work[d] /\ reply'[d] = reply[d] /\ IngestOK(d)
        BY <2>1, IngestCalls DEF Works, EventInv
    <3>. QED
        BY <3>1, <1>d, <1>k, IngestCalls DEF IngestOK, Accepted
  <2>2. ASSUME NEW m \in Lineage, m # PointOf(c)
        PROVE  ClaimOK(m)'
      BY <2>2, <1>d, <1>k DEF EventInv, ClaimOK
  <2>3. ASSUME NEW r \in Root, r # RootOf[c]
        PROVE  EventOK(r)'
      BY <2>3, <1>d, <1>k DEF EventInv, EventOK
  <2>. QED
      BY <1>d, <2>1, <2>2, <2>3 DEF EventInv
<1>e. ASSUME UNCHANGED event, claim' = [claim EXCEPT ![PointOf(c)] = claim'[PointOf(c)]],
             IngestOK(c)', ClaimOK(PointOf(c))'
      PROVE  EventInv'
  <2>1. EventOK(RootOf[c])'
      BY <1>e, <1>i, <1>k DEF EventOK
  <2>. QED
      BY <1>e, <1>d, <1>f, <2>1 DEF Fn
<1>u. UNCHANGED claim => /\ claim' = [claim EXCEPT ![PointOf(c)] = claim'[PointOf(c)]]
                         /\ ClaimOK(PointOf(c))'
    BY <1>c, <1>f, <1>i, <1>k DEF Fn, ClaimOK
<1>n. ASSUME Renew(c)
      PROVE  /\ claim' = [claim EXCEPT ![PointOf(c)] = claim'[PointOf(c)]]
             /\ ClaimOK(PointOf(c))'
  <2>1. CASE UNCHANGED claim
      BY <2>1, <1>u
  <2>2. CASE claim' = [claim EXCEPT ![PointOf(c)].live = TRUE]
    <3>1. claim'[PointOf(c)] = [claim[PointOf(c)] EXCEPT !.live = TRUE]
        BY <2>2, <1>c, <1>f DEF Fn
    <3>2. claim' = [claim EXCEPT ![PointOf(c)] = claim'[PointOf(c)]]
        BY <2>2, <3>1, <1>c, <1>f DEF Fn
    <3>. QED
        BY <3>1, <3>2, <1>c, <1>i, <1>k DEF ClaimOK
  <2>. QED
      BY <1>n, <2>1, <2>2 DEF Renew
<1>b. pc[c] \in Preparing => event[RootOf[c]].bound = PointOf(c)
    BY <1>i DEF IngestOK
<1>1. CASE Prepare(c)
  <2>. DEFINE row == Prepared(c)
  <2>1. /\ event' = [event EXCEPT ![RootOf[c]] = row]
        /\ UNCHANGED claim /\ UNCHANGED memory
      BY <1>1 DEF Prepare
  <2>2. row.committed => row = event[RootOf[c]]
      BY DEF Prepared, NoEvent
  <2>3. \A d \in Ingest : pc[d] \in Preparing =>
           event'[RootOf[d]].bound = event[RootOf[d]].bound
    <3>1. ASSUME NEW d \in Ingest, pc[d] \in Preparing, RootOf[d] = RootOf[c]
          PROVE  row = event[RootOf[d]]
      <4>1. event[RootOf[d]].bound # None
          BY <3>1, IngestCalls DEF EventInv, IngestOK
      <4>. QED
          BY <4>1, <3>1 DEF Prepared, NoEvent
    <3>. QED
        BY <3>1, <2>1, <1>f, IngestCalls DEF Fn
  <2>4. IngestOK(c)'
    <3>1. CASE Fail(c)
        BY <3>1, <1>z DEF IngestOK, IngestPhase, Preparing
    <3>2. CASE Step(c, "release") /\ Stored(memory[row.bound]) /\ row.bound = PointOf(c)
        BY <3>2, <1>s, <2>1 DEF IngestOK, IngestPhase, Preparing
    <3>3. CASE Step(c, "claim") /\ row.bound = PointOf(c)
        BY <3>3, <1>s, <1>c, <1>f, <2>1 DEF IngestOK, IngestPhase, Preparing, Accepted, Fn
    <3>. QED
        BY <1>1, <3>1, <3>2, <3>3 DEF Prepare
  <2>5. EventOK(RootOf[c])'
    <3>1. event'[RootOf[c]] = row
        BY <2>1, <1>c, <1>f DEF Fn
    <3>2. {"bound", "committed"} \subseteq DOMAIN row
        BY <1>i DEF Prepared, NoEvent, EventOK
    <3>. QED
        BY <3>1, <3>2, <2>1, <2>2, <1>i DEF EventOK
  <2>. QED
      BY <2>1, <2>3, <2>4, <2>5, <1>c, <1>d, <1>f, <1>u DEF Fn
<1>2. CASE ClaimContent(c)
  <2>1. UNCHANGED <<event, memory>> /\ pc[c] = "claim"
      BY <1>2 DEF ClaimContent, At
  <2>2. /\ claim' = [claim EXCEPT ![PointOf(c)] = claim'[PointOf(c)]]
        /\ ClaimOK(PointOf(c))'
      BY <1>2, <1>c, <1>f, <1>i DEF ClaimContent, Claimed, ClaimOK, Fn
  <2>3. \E phase \in {"takeover", "own", "wait"} : Step(c, phase)
      BY <1>2 DEF ClaimContent, Follow
  <2>4. IngestOK(c)'
      BY <2>1, <2>3, <1>b, <1>s DEF IngestOK, IngestPhase, Preparing, Accepted
  <2>. QED
      BY <2>1, <2>2, <2>4, <1>e
<1>3. CASE TakeOver(c)
  <2>1. UNCHANGED <<event, memory>> /\ pc[c] = "takeover"
      BY <1>3 DEF TakeOver, At
  <2>2. /\ claim' = [claim EXCEPT ![PointOf(c)] = claim'[PointOf(c)]]
        /\ ClaimOK(PointOf(c))'
      BY <1>3, <1>c, <1>f, <1>i DEF TakeOver, Claimed, ClaimOK, Fn
  <2>3. \E phase \in {"own", "wait"} : Step(c, phase)
      BY <1>3 DEF TakeOver, Follow
  <2>4. IngestOK(c)'
      BY <2>1, <2>3, <1>b, <1>s DEF IngestOK, IngestPhase, Preparing, Accepted
  <2>. QED
      BY <2>1, <2>2, <2>4, <1>e
<1>4. CASE Wait(c)
  <2>1. UNCHANGED <<event, memory, claim>> /\ pc[c] = "wait"
      BY <1>4 DEF Wait, At, eventVars
  <2>2. \/ Stored(memory[PointOf(c)]) /\ Kept(c, "commit", "SKIP")
        \/ Fail(c)
        \/ Step(c, "claim")
      BY <1>4 DEF Wait
  <2>3. IngestOK(c)'
    <3>1. CASE Stored(memory[PointOf(c)]) /\ Kept(c, "commit", "SKIP")
        BY <3>1, <2>1, <1>b, <1>g DEF IngestOK, IngestPhase, Preparing
    <3>2. CASE Fail(c)
        BY <3>2, <1>z DEF IngestOK, IngestPhase, Preparing
    <3>3. CASE Step(c, "claim")
        BY <3>3, <2>1, <1>b, <1>s DEF IngestOK, IngestPhase, Preparing, Accepted
    <3>. QED
        BY <2>2, <3>1, <3>2, <3>3
  <2>. QED
      BY <2>1, <2>3, <1>e, <1>u
<1>5. CASE Resume(c)
  <2>1. UNCHANGED <<event, memory>> /\ pc[c] = "own" /\ Renew(c)
      BY <1>5 DEF Resume, At
  <2>2. \/ Stored(memory[PointOf(c)]) /\ Kept(c, "complete", "ADD")
        \/ Fail(c)
        \/ Step(c, "guard")
      BY <1>5 DEF Resume
  <2>3. IngestOK(c)'
    <3>1. CASE Stored(memory[PointOf(c)]) /\ Kept(c, "complete", "ADD")
        BY <3>1, <2>1, <1>b, <1>g DEF IngestOK, IngestPhase, Preparing
    <3>2. CASE Fail(c)
        BY <3>2, <1>z DEF IngestOK, IngestPhase, Preparing
    <3>3. CASE Step(c, "guard")
        BY <3>3, <2>1, <1>b, <1>s DEF IngestOK, IngestPhase, Preparing, Accepted
    <3>. QED
        BY <2>2, <3>1, <3>2, <3>3
  <2>. QED
      BY <2>1, <2>3, <1>e, <1>n
<1>6. CASE Guard(c)
  <2>1. UNCHANGED <<event, memory>> /\ pc[c] = "guard" /\ (Renew(c) \/ UNCHANGED claim)
      BY <1>6 DEF Guard, At
  <2>2. Fail(c) \/ Step(c, "insert")
      BY <1>6 DEF Guard
  <2>3. IngestOK(c)'
    <3>2. CASE Fail(c)
        BY <3>2, <1>z DEF IngestOK, IngestPhase, Preparing
    <3>3. CASE Step(c, "insert")
        BY <3>3, <2>1, <1>b, <1>s DEF IngestOK, IngestPhase, Preparing, Accepted
    <3>. QED
        BY <2>2, <3>2, <3>3
  <2>. QED
      BY <2>1, <2>3, <1>e, <1>n, <1>u
<1>7. CASE Insert(c)
  <2>1. UNCHANGED <<event, claim>> /\ pc[c] = "insert" /\ Kept(c, "complete", "ADD")
      BY <1>7 DEF Insert, At, eventVars
  <2>2. Stored(memory'[PointOf(c)])
      BY <1>7, <1>c, InsertedRow DEF Insert, Shape, Fn
  <2>3. IngestOK(c)'
      BY <2>1, <2>2, <1>b, <1>g DEF IngestOK, IngestPhase, Preparing
  <2>. QED
      BY <2>1, <2>3, <1>e, <1>u
<1>8. CASE Complete(c)
  <2>1. UNCHANGED <<event, memory>> /\ pc[c] = "complete"
      BY <1>8 DEF Complete, At
  <2>2. Stored(memory[PointOf(c)])
      BY <2>1, <1>i DEF IngestOK, Accepted
  <2>3. /\ claim' = [claim EXCEPT ![PointOf(c)] = claim'[PointOf(c)]]
        /\ ClaimOK(PointOf(c))'
      BY <1>8, <2>1, <2>2, <1>c, <1>f, <1>i DEF Complete, Claimed, ClaimOK, Fn
  <2>4. Fail(c) \/ Step(c, "commit")
      BY <1>8 DEF Complete
  <2>5. IngestOK(c)'
    <3>2. CASE Fail(c)
        BY <3>2, <1>z DEF IngestOK, IngestPhase, Preparing
    <3>3. CASE Step(c, "commit")
        BY <3>3, <2>1, <2>2, <1>b, <1>s DEF IngestOK, IngestPhase, Preparing
    <3>. QED
        BY <2>4, <3>2, <3>3
  <2>. QED
      BY <2>1, <2>3, <2>5, <1>e
<1>9. CASE Commit(c)
  <2>1. /\ event' = [event EXCEPT ![RootOf[c]].committed = TRUE]
        /\ UNCHANGED <<claim, memory>> /\ pc[c] = "commit" /\ Step(c, "refresh")
      BY <1>9 DEF Commit, At
  <2>2. Stored(memory[PointOf(c)]) /\ event[RootOf[c]].bound = PointOf(c)
      BY <2>1, <1>b, <1>i DEF IngestOK, Accepted, Preparing
  <2>3. IngestOK(c)'
      BY <2>1, <2>2, <1>s DEF IngestOK, IngestPhase, Preparing
  <2>4. event'[RootOf[c]] = [event[RootOf[c]] EXCEPT !.committed = TRUE]
      BY <2>1, <1>c, <1>f DEF Fn
  <2>5. EventOK(RootOf[c])'
      BY <2>1, <2>2, <2>4, <1>c, <1>i DEF EventOK
  <2>6. \A d \in Ingest : event'[RootOf[d]].bound = event[RootOf[d]].bound
      BY <2>1, <2>4, <1>f, <1>i, IngestCalls DEF EventOK, Fn
  <2>. QED
      BY <2>1, <2>3, <2>5, <2>6, <1>c, <1>d, <1>f, <1>u DEF Fn
<1>10. CASE Refresh(c)
  <2>1. UNCHANGED <<event, memory, claim>> /\ pc[c] = "refresh" /\ Step(c, "release")
      BY <1>10 DEF Refresh, At, eventVars
  <2>2. IngestOK(c)'
      BY <2>1, <1>i, <1>s DEF IngestOK, IngestPhase, Preparing, Accepted
  <2>. QED
      BY <2>1, <2>2, <1>e, <1>u
<1>. QED
    BY <1>1, <1>2, <1>3, <1>4, <1>5, <1>6, <1>7, <1>8, <1>9, <1>10 DEF Ingests

LEMMA EventInit ==
    ASSUME Init
    PROVE  EventInv
<1>1. Fn(claim, Lineage) /\ Fn(event, Root)
    BY DEF Init, EventsInit, Fn
<1>2. \A c \in Ingest : IngestOK(c)
    BY IngestCalls DEF Init, PipelineInit, IngestOK, IngestPhase, Preparing, Accepted
<1>3. \A m \in Lineage : ClaimOK(m)
    BY DEF Init, EventsInit, NoClaim, ClaimOK
<1>4. \A r \in Root : EventOK(r)
    BY DEF Init, EventsInit, NoEvent, EventOK
<1>. QED
    BY <1>1, <1>2, <1>3, <1>4 DEF EventInv

LEMMA EventStep ==
    ASSUME Shape, EventInv, [Next]_vars
    PROVE  EventInv'
<1>i. \A c \in Ingest : IngestOK(c)
    BY DEF EventInv
<1>1. ASSUME NEW c \in Call, ~Finished(c), Reads(c)
      PROVE  EventInv'
  <2>1. Works(c) /\ Keeps
      BY <1>1, AnswerStep
  <2>2. UNCHANGED <<event, claim>>
      BY <1>1 DEF Reads, quiet, eventVars, Begin, ProlongSession, OpenSession, ReadCache,
                  ReadCore, FillCache, DeliverCore, ReadKnown, Find, Deliver, ReadDelivered,
                  SearchDecayed, MarkDecayed, TrackAccess
  <2>3. \A d \in Ingest : d # c
      BY <1>1, ReadsOp, IngestCalls DEF Reading
  <2>4. \A d \in Ingest : pc'[d] = pc[d] /\ work'[d] = work[d] /\ reply'[d] = reply[d]
      BY <2>1, <2>3, IngestCalls DEF Works
  <2>. QED
      BY <1>i, <2>1, <2>2, <2>4, EventFrame DEF IngestOK, Accepted
<1>2. ASSUME NEW c \in Call, ~Finished(c), Writes(c), UNCHANGED eventVars, UNCHANGED view
      PROVE  EventInv'
  <2>1. Works(c) /\ Keeps
      BY <1>2, AnswerStep DEF Stores
  <2>2. ASSUME NEW d \in Ingest
        PROVE  /\ pc'[d] \in IngestPhase
               /\ Accepted(d)' => Stored(memory[PointOf(d)])
               /\ pc'[d] \in Preparing => event[RootOf[d]].bound = PointOf(d)
    <3>1. CASE d = c
      <4>1. IngestOK(c) /\ reply[c] # "ok"
          BY <1>2, <1>i, <3>1 DEF Shape, Finished
      <4>2. \/ pc'[c] \in {"lock", "prepare"} /\ reply'[c] # "ok"
            \/ /\ pc[c] = "release" /\ pc'[c] = "done"
               /\ reply'[c] = IF work[c].ok THEN "ok" ELSE "failed"
          BY <1>2, <3>1, <4>1, IngestWrites DEF IngestOK
      <4>. QED
          BY <3>1, <4>1, <4>2 DEF IngestOK, IngestPhase, Preparing, Accepted
    <3>2. CASE d # c
      <4>1. pc'[d] = pc[d] /\ work'[d] = work[d] /\ reply'[d] = reply[d]
          BY <2>1, <3>2, IngestCalls DEF Works
      <4>. QED
          BY <1>i, <4>1 DEF IngestOK, Accepted
    <3>. QED
        BY <3>1, <3>2
  <2>. QED
      BY <1>2, <2>1, <2>2, EventFrame DEF eventVars
<1>3. ASSUME NEW c \in Call, ~Finished(c), Ingests(c), UNCHANGED view
      PROVE  EventInv'
    BY <1>3, AnswerStep, IngestsStep DEF Stores
<1>4. ASSUME NEW p \in Proc, Restart(p), UNCHANGED eventVars
      PROVE  EventInv'
  <2>1. UNCHANGED <<memory, work>>
      BY <1>4 DEF Restart, storeVars
  <2>2. ASSUME NEW d \in Ingest
        PROVE  \/ pc'[d] = pc[d] /\ reply'[d] = reply[d]
               \/ pc'[d] = "done" /\ reply'[d] = "lost"
      BY <1>4, IngestCalls DEF Restart, Shape, Fn
  <2>3. \A d \in Ingest :
            /\ pc'[d] \in IngestPhase
            /\ Accepted(d)' => Stored(memory[PointOf(d)])
            /\ pc'[d] \in Preparing => event[RootOf[d]].bound = PointOf(d)
      BY <1>i, <2>1, <2>2 DEF IngestOK, IngestPhase, Preparing, Accepted
  <2>. QED
      BY <1>4, <2>1, <2>3, SameKeeps, EventFrame DEF eventVars
<1>5. ASSUME UNCHANGED <<memory, work, pc, reply, event, claim>>
      PROVE  EventInv'
    BY <1>i, <1>5, SameKeeps, EventFrame DEF IngestOK, Accepted
<1>6. CASE Sweep
    BY <1>5, <1>6 DEF Sweep, quiet, storeVars, flow, eventVars
<1>7. CASE Tick
    BY <1>5, <1>7 DEF Tick, storeVars, flow, eventVars
<1>8. CASE Lapse /\ UNCHANGED view
  <2>1. UNCHANGED <<memory, work, pc, reply, event>>
      BY <1>8 DEF Lapse, pipelineVars, storeVars, flow
  <2>2. PICK m \in Lineage : claim' = [claim EXCEPT ![m].live = FALSE]
      BY <1>8 DEF Lapse
  <2>3. /\ claim'[m] = [claim[m] EXCEPT !.live = FALSE] /\ Fn(claim', Lineage)
        /\ \A n \in Lineage \ {m} : claim'[n] = claim[n]
      BY <2>2 DEF EventInv, Fn
  <2>4. \A n \in Lineage : ClaimOK(n)'
      BY <2>1, <2>3 DEF EventInv, ClaimOK
  <2>5. (\A c \in Ingest : IngestOK(c)') /\ \A r \in Root : EventOK(r)'
      BY <2>1, <1>i DEF EventInv, IngestOK, Accepted, EventOK
  <2>. QED
      BY <2>1, <2>3, <2>4, <2>5 DEF EventInv, Fn
<1>9. CASE UNCHANGED vars
    BY <1>5, <1>9 DEF vars, pipelineVars, storeVars, flow, eventVars
<1>. QED
    BY <1>1, <1>2, <1>3, <1>4, <1>6, <1>7, <1>8, <1>9 DEF Next, Answering, Stores

\* Whatever processes deliver an event, take over or lose its claim, or restart: once one
\* of them was told that it is accepted, a memory of it is stored (RevisionService's
\* claim, guard and commit of a content, as the calls of UserEvents use them).  No hypothesis.
THEOREM AcceptedIsStoredHolds == Spec => []AcceptedIsStored
<1>1. Init => Shape /\ EventInv
    BY ShapeInit, EventInit
<1>2. Shape /\ EventInv /\ [Next]_vars => (Shape /\ EventInv)'
    BY ShapeStep, EventStep
<1>3. EventInv => AcceptedIsStored
    BY DEF EventInv, AcceptedIsStored, IngestOK, ClaimOK, EventOK, Ingest, Accepted
<1>. QED
    BY <1>1, <1>2, <1>3, PTL DEF Spec

----------------------------------------------------------------------------
(* Edits survive the calls that remember.                                  *)

\* What is edited is not started anew by another call.
LEMMA EditCalls ==
    ASSUME EditsAreNotRetold, NEW d \in Edit
    PROVE  /\ d \in Call /\ JobOf[d].op \in {"update", "delete"}
           /\ JobOf[d].target \in Lineage /\ JobOf[d].target \notin Started
BY DEF Edit, EditsAreNotRetold

\* What was superseded stays so.
LEMMA EditFrame ==
    ASSUME Shape, Keeps, EditsAreNotRetold, NEW d \in Edit, EditOK(d),
           work'[d].results = work[d].results, pc'[d] \in EditPhase,
           pc'[d] \in {"idle", "lock", "change"} => work[d].results = {}
    PROVE  EditOK(d)'
<1>. DEFINE t == JobOf[d].target
<1>1. t \in Lineage /\ t \notin Started
    BY EditCalls
<1>2. RowOK(memory[t]) /\ RowOK(memory'[t]) /\ Evolves(memory[t], memory'[t])
    BY <1>1 DEF Shape, Keeps
<1>3. \A r \in work'[d].results :
          /\ r.id = <<t, r.id[2]>> /\ r.id[2] \in Nat
          /\ Stored(memory'[t]) /\ r.id[2] <= memory'[t].rev
    BY <1>2 DEF EditOK, Evolves, RowOK
<1>4. Removed(d)' = Removed(d)
    BY DEF Removed
<1>5. ASSUME NEW id \in Removed(d)
      PROVE  id[1] = t /\ id[2] \in Int /\ Superseded(id)'
    BY <1>2, <1>5 DEF EditOK, Superseded, Evolves, RowOK
<1>. QED
    BY <1>3, <1>4, <1>5 DEF EditOK

\* Update and deletion, step by step.
LEMMA EditWrites ==
    ASSUME Shape, Keeps, EditsAreNotRetold, NEW d \in Edit, EditOK(d), Writes(d)
    PROVE  EditOK(d)'
<1>c. d \in Call /\ JobOf[d].op \in {"update", "delete"} /\ JobOf[d].target \in Lineage
    BY EditCalls
<1>f. Fn(pc, Call) /\ Fn(work, Call) /\ Fn(memory, Lineage) /\ WorkOK(d)
      /\ RowOK(memory[JobOf[d].target])
    BY <1>c DEF Shape
<1>1. \/ GetLock(d) \/ Acquire(d) \/ Update(d) \/ Delete(d) \/ Release(d) \/ Invalidate(d)
    BY <1>c DEF Writes, At, Extract, Plan, Infer, Act, Revise, Acted, RecordFacts, AppendTurn,
                ReadSummary, Compact, WriteRow, SaveArtifact, ReadArtifacts, LinkArtifact,
                Linked, AddDirect, Prolong, Track
<1>2. ASSUME NEW phase, NEW w, Goto(d, phase, w)
      PROVE  pc'[d] = phase /\ work'[d] = w
    BY <1>2, <1>c, <1>f DEF Goto, Fn
<1>3. CASE GetLock(d)
    BY <1>2, <1>3, <1>f, EditFrame DEF GetLock, At, EditOK, EditPhase, WorkOK
<1>4. CASE Acquire(d)
  <2>1. Step(d, "change") /\ pc[d] = "lock"
      BY <1>4, <1>c DEF Acquire, At
  <2>. QED
      BY <2>1, <1>2, EditFrame DEF Step, EditOK, EditPhase
<1>z. ASSUME Fail(d)
      PROVE  EditOK(d)'
  <2>1. pc'[d] = "release" /\ work'[d].results = work[d].results
      BY <1>z, <1>2, <1>f DEF Fail, WorkOK
  <2>. QED
      BY <2>1, EditFrame DEF EditPhase
<1>5. CASE Update(d)
  <2>. DEFINE m == JobOf[d].target
              w == [work[d] EXCEPT !.results = {Result(<<m, memory[m].rev + 1>>, "UPDATE")}]
  <2>1. CASE ~Active(memory[m])
      BY <1>5, <1>z, <2>1 DEF Update
  <2>2. CASE Active(memory[m])
    <3>1. PICK f \in JobOf[d].speaks :
              memory' = [memory EXCEPT ![m].rev = @ + 1, ![m].text = f]
        BY <1>5, <2>2 DEF Update
    <3>2. memory[m].rev \in Nat /\ memory'[m].rev = memory[m].rev + 1 /\ Stored(memory'[m])
        BY <2>2, <3>1, <1>c, <1>f DEF Active, Stored, RowOK, Fn
    <3>3. Goto(d, "release", w)
        BY <1>5, <2>2 DEF Update
    <3>4. pc'[d] = "release" /\ work'[d] = w
        BY <3>3, <1>2
    <3>. HIDE DEF w
    <3>5. w.results = {[id |-> <<m, memory[m].rev + 1>>, event |-> "UPDATE"]}
        BY <1>f DEF w, WorkOK, Result
    <3>6. JobOf[d].op = "update"
        BY <1>5 DEF Update, At
    <3>7. \A id \in Removed(d)' : id = <<m, memory[m].rev + 1 - 1>>
      <4>1. Removed(d)' = {<<r.id[1], r.id[2] - 1>> : r \in w.results}
          BY <3>4, <3>6 DEF Removed
      <4>2. \A r \in w.results : r.id[1] = m /\ r.id[2] = memory[m].rev + 1
          BY <3>5
      <4>3. ASSUME NEW r \in w.results
            PROVE  <<r.id[1], r.id[2] - 1>> = <<m, memory[m].rev + 1 - 1>>
          BY <4>2, <4>3, <3>2
      <4>. HIDE DEF m, w
      <4>. QED
          BY <4>1, <4>3
    <3>. QED
        BY <3>2, <3>4, <3>5, <3>7 DEF EditOK, EditPhase, Superseded
  <2>. QED
      BY <2>1, <2>2
<1>6. CASE Delete(d)
  <2>. DEFINE m == JobOf[d].target
              w == [work[d] EXCEPT !.results = {Result(Id(memory, m), "DELETE")}]
  <2>1. CASE ~Active(memory[m])
      BY <1>6, <1>z, <2>1 DEF Delete
  <2>2. CASE Active(memory[m])
    <3>1. memory' = [memory EXCEPT ![m].state = "retracted"]
        BY <1>6, <2>2 DEF Delete
    <3>2. /\ memory[m].rev \in Nat /\ memory'[m].rev = memory[m].rev
          /\ memory'[m].state = "retracted" /\ Stored(memory'[m])
        BY <2>2, <3>1, <1>c, <1>f DEF Active, Stored, RowOK, Fn
    <3>3. Goto(d, "release", w)
        BY <1>6, <2>2 DEF Delete
    <3>4. pc'[d] = "release" /\ work'[d] = w
        BY <3>3, <1>2
    <3>. HIDE DEF w
    <3>5. w.results = {[id |-> <<m, memory[m].rev>>, event |-> "DELETE"]}
        BY <1>f DEF w, WorkOK, Result, Id
    <3>6. JobOf[d].op = "delete"
        BY <1>6 DEF Delete, At
    <3>7. Removed(d)' = {<<m, memory[m].rev>>}
        BY <3>4, <3>5, <3>6 DEF Removed
    <3>. QED
        BY <3>2, <3>4, <3>5, <3>7 DEF EditOK, EditPhase, Superseded
  <2>. QED
      BY <2>1, <2>2
<1>7. ASSUME NEW answer, End(d, answer)
      PROVE  EditOK(d)'
  <2>1. pc'[d] = "done" /\ work'[d] = work[d]
      BY <1>7, <1>c, <1>f DEF End, Fn
  <2>. QED
      BY <2>1, EditFrame DEF EditPhase
<1>8. CASE Release(d)
  <2>1. Step(d, "invalidate") \/ \E answer \in {"ok", "failed"} : End(d, answer)
      BY <1>8 DEF Release, Leave
  <2>2. CASE Step(d, "invalidate")
      BY <2>2, <1>2, EditFrame DEF Step, EditPhase
  <2>. QED
      BY <2>1, <2>2, <1>7
<1>9. CASE Invalidate(d)
    BY <1>9, <1>7, <1>c DEF Invalidate
<1>. QED
    BY <1>1, <1>3, <1>4, <1>5, <1>6, <1>8, <1>9

LEMMA EditStep ==
    ASSUME Shape, EditsAreNotRetold, EditInv, [Next]_vars
    PROVE  EditInv'
<1>1. SUFFICES ASSUME NEW d \in Edit, EditOK(d)
               PROVE  EditOK(d)'
    BY DEF EditInv
<1>d. d \in Call /\ JobOf[d].op \in {"update", "delete"}
    BY EditCalls
<1>f. ASSUME Keeps, work'[d] = work[d], pc'[d] = pc[d] \/ pc'[d] = "done"
      PROVE  EditOK(d)'
    BY <1>1, <1>f, EditFrame DEF EditOK, EditPhase
<1>2. ASSUME NEW c \in Call, Reads(c) \/ Stores(c)
      PROVE  EditOK(d)'
  <2>1. Works(c) /\ Keeps
      BY <1>2, AnswerStep
  <2>2. CASE c # d
      BY <2>1, <2>2, <1>d, <1>f DEF Works
  <2>3. CASE c = d
      BY <2>1, <2>3, <1>1, <1>2, <1>d, ReadsOp, IngestsOp, EditWrites DEF Stores, Reading
  <2>. QED
      BY <2>2, <2>3
<1>3. ASSUME NEW p \in Proc, Restart(p)
      PROVE  EditOK(d)'
    BY <1>3, <1>d, <1>f, SameKeeps DEF Restart, storeVars
<1>4. ASSUME UNCHANGED <<memory, work, pc>>
      PROVE  EditOK(d)'
    BY <1>4, <1>f, SameKeeps
<1>5. CASE Sweep
    BY <1>4, <1>5 DEF Sweep, quiet, storeVars, flow
<1>6. CASE Tick
    BY <1>4, <1>6 DEF Tick, storeVars, flow
<1>7. CASE Lapse
    BY <1>4, <1>7 DEF Lapse, pipelineVars, storeVars, flow
<1>8. CASE UNCHANGED vars
    BY <1>4, <1>8 DEF vars, pipelineVars, storeVars, flow
<1>. QED
    BY <1>2, <1>3, <1>5, <1>6, <1>7, <1>8 DEF Next, Answering

LEMMA EditInit ==
    ASSUME Init
    PROVE  EditInv
<1>1. \A d \in Edit : d \in Call
    BY DEF Edit
<1>. QED
    BY <1>1 DEF Init, PipelineInit, NoWork, EditInv, EditOK, EditPhase, Removed

\* Where the steps of a call lead.
LEMMA WritesPhase ==
    ASSUME Shape, NEW c \in Call, Writes(c), ~Act(c)
    PROVE  pc'[c] \in {"lock", "extract", "prepare", "change", "done", "invalidate", "facts",
              "plan", "act", "save", "release", "summary", "compact", "compacting",
              "row", "link", "linking", "touch", "known"}
<1>g. \A phase, w : Goto(c, phase, w) => pc'[c] = phase
    BY DEF Goto, Shape, Fn
<1>e. \A answer : End(c, answer) => pc'[c] = "done"
    BY DEF End, Shape, Fn
<1>1. CASE GetLock(c)
    BY <1>1, <1>g DEF GetLock
<1>2. CASE Acquire(c)
    BY <1>2, <1>g DEF Acquire, Step
<1>3. CASE Extract(c)
    BY <1>3, <1>g DEF Extract, Step
<1>4. CASE Plan(c)
    BY <1>4, <1>g DEF Plan, Step, Fail
<1>5. CASE Infer(c)
    BY <1>5, <1>g, <1>e DEF Infer, Step
<1>6. CASE Revise(c)
    BY <1>6, <1>g DEF Revise, Did
<1>7. CASE Acted(c)
    BY <1>7, <1>g DEF Acted, Step
<1>8. CASE RecordFacts(c)
    BY <1>8, <1>g DEF RecordFacts, Step, AfterContext
<1>9. CASE AppendTurn(c)
    BY <1>9, <1>g DEF AppendTurn, Step, AfterContext
<1>10. CASE ReadSummary(c)
    BY <1>10, <1>g DEF ReadSummary, AfterContext
<1>11. CASE Compact(c)
    BY <1>11, <1>g DEF Compact, Step, AfterContext
<1>12. CASE WriteRow(c)
    BY <1>12, <1>g DEF WriteRow, Step
<1>13. CASE SaveArtifact(c)
    BY <1>13, <1>g DEF SaveArtifact, Step, AfterArtifact
<1>14. CASE ReadArtifacts(c)
    BY <1>14, <1>g DEF ReadArtifacts
<1>15. CASE LinkArtifact(c)
    BY <1>15, <1>g DEF LinkArtifact
<1>16. CASE Linked(c)
    BY <1>16, <1>g DEF Linked, Step, AfterArtifact
<1>17. CASE AddDirect(c)
    BY <1>17, <1>g, <1>e DEF AddDirect, Step
<1>18. CASE Update(c)
    BY <1>18, <1>g DEF Update, Fail
<1>19. CASE Delete(c)
    BY <1>19, <1>g DEF Delete, Fail
<1>20. CASE Release(c)
    BY <1>20, <1>g, <1>e DEF Release, Step, Leave
<1>21. CASE Invalidate(c)
    BY <1>21, <1>g, <1>e DEF Invalidate, Step
<1>22. CASE Prolong(c)
    BY <1>22, <1>g DEF Prolong, Step
<1>23. CASE Track(c)
    BY <1>23, <1>e DEF Track
<1>. QED
    BY <1>1, <1>2, <1>3, <1>4, <1>5, <1>6, <1>7, <1>8, <1>9, <1>10, <1>11, <1>12, <1>13, <1>14,
       <1>15, <1>16, <1>17, <1>18, <1>19, <1>20, <1>21, <1>22, <1>23 DEF Writes

LEMMA IngestsPhase ==
    ASSUME Shape, NEW c \in Call, Ingests(c)
    PROVE  pc'[c] \in IngestPhase \ {"absent", "idle"}
<1>g. \A phase, w : Goto(c, phase, w) => pc'[c] = phase
    BY DEF Goto, Shape, Fn
<1>e. \A answer : End(c, answer) => pc'[c] = "done"
    BY DEF End, Shape, Fn
<1>1. CASE Prepare(c)
    BY <1>1, <1>g DEF Prepare, Step, Fail, IngestPhase
<1>2. CASE ClaimContent(c)
    BY <1>2, <1>g DEF ClaimContent, Step, Follow, IngestPhase
<1>3. CASE TakeOver(c)
    BY <1>3, <1>g DEF TakeOver, Step, Follow, IngestPhase
<1>4. CASE Wait(c)
    BY <1>4, <1>g DEF Wait, Step, Fail, Kept, IngestPhase
<1>5. CASE Resume(c)
    BY <1>5, <1>g DEF Resume, Step, Fail, Kept, IngestPhase
<1>6. CASE Guard(c)
    BY <1>6, <1>g DEF Guard, Step, Fail, IngestPhase
<1>7. CASE Insert(c)
    BY <1>7, <1>g DEF Insert, Kept, IngestPhase
<1>8. CASE Complete(c)
    BY <1>8, <1>g DEF Complete, Step, Fail, IngestPhase
<1>9. CASE Commit(c)
    BY <1>9, <1>g DEF Commit, Step, IngestPhase
<1>10. CASE Refresh(c)
    BY <1>10, <1>g DEF Refresh, Step, IngestPhase
<1>. QED
    BY <1>1, <1>2, <1>3, <1>4, <1>5, <1>6, <1>7, <1>8, <1>9, <1>10 DEF Ingests

LEMMA ReadsPhase ==
    ASSUME Shape, NEW c \in Call, Reads(c)
    PROVE  pc'[c] \in {"prolong", "create", "known", "track", "cache", "deliver", "read",
              "done", "find",
              "tracking", "mark"}
<1>g. \A phase, w : Goto(c, phase, w) => pc'[c] = phase
    BY DEF Goto, Shape, Fn
<1>e. \A answer : End(c, answer) => pc'[c] = "done"
    BY DEF End, Shape, Fn
<1>l. \A phase, v : Look(c, phase, v) => pc'[c] = phase
    BY DEF Look, Shape, Fn
<1>1. CASE Begin(c)
    BY <1>1, <1>l DEF Begin
<1>2. CASE ProlongSession(c)
    BY <1>2, <1>g DEF ProlongSession, Step, AfterCore
<1>3. CASE OpenSession(c)
    BY <1>3, <1>g DEF OpenSession, Step
<1>4. CASE ReadCache(c)
    BY <1>4, <1>l DEF ReadCache
<1>5. CASE ReadCore(c)
    BY <1>5, <1>e, <1>l DEF ReadCore, AfterCore
<1>6. CASE FillCache(c)
    BY <1>6, <1>l DEF FillCache
<1>7. CASE DeliverCore(c)
    BY <1>7, <1>g DEF DeliverCore, Step, AfterCore
<1>8. CASE ReadKnown(c)
    BY <1>8, <1>l DEF ReadKnown
<1>9. CASE Find(c)
    BY <1>9, <1>l DEF Find
<1>10. CASE Deliver(c)
    BY <1>10, <1>l DEF Deliver
<1>11. CASE ReadDelivered(c)
    BY <1>11, <1>l DEF ReadDelivered
<1>12. CASE SearchDecayed(c)
    BY <1>12, <1>l DEF SearchDecayed
<1>13. CASE MarkDecayed(c)
    BY <1>13, <1>g DEF MarkDecayed, Step
<1>14. CASE TrackAccess(c)
    BY <1>14, <1>e DEF TrackAccess, Answer
<1>. QED
    BY <1>1, <1>2, <1>3, <1>4, <1>5, <1>6, <1>7, <1>8, <1>9, <1>10, <1>11, <1>12, <1>13,
       <1>14 DEF Reads

\* Nobody but a call that acts on its plan overrules anybody.
LEMMA WritesLeaveOverruled ==
    ASSUME NEW c \in Call, Writes(c), ~Act(c), ~Revise(c)
    PROVE  UNCHANGED overruled
<1>1. CASE GetLock(c)
    BY <1>1 DEF GetLock
<1>2. CASE Acquire(c)
    BY <1>2 DEF Acquire
<1>3. CASE Extract(c)
    BY <1>3 DEF Extract
<1>4. CASE Plan(c)
    BY <1>4 DEF Plan
<1>5. CASE Infer(c)
    BY <1>5 DEF Infer
<1>6. CASE Acted(c)
    BY <1>6 DEF Acted
<1>7. CASE RecordFacts(c)
    BY <1>7 DEF RecordFacts
<1>8. CASE AppendTurn(c)
    BY <1>8 DEF AppendTurn
<1>9. CASE ReadSummary(c)
    BY <1>9 DEF ReadSummary
<1>10. CASE Compact(c)
    BY <1>10 DEF Compact
<1>11. CASE WriteRow(c)
    BY <1>11 DEF WriteRow
<1>12. CASE SaveArtifact(c)
    BY <1>12 DEF SaveArtifact
<1>13. CASE ReadArtifacts(c)
    BY <1>13 DEF ReadArtifacts
<1>14. CASE LinkArtifact(c)
    BY <1>14 DEF LinkArtifact
<1>15. CASE Linked(c)
    BY <1>15 DEF Linked
<1>16. CASE AddDirect(c)
    BY <1>16 DEF AddDirect
<1>17. CASE Update(c)
    BY <1>17 DEF Update
<1>18. CASE Delete(c)
    BY <1>18 DEF Delete
<1>19. CASE Release(c)
    BY <1>19 DEF Release
<1>20. CASE Invalidate(c)
    BY <1>20 DEF Invalidate
<1>21. CASE Prolong(c)
    BY <1>21 DEF Prolong
<1>22. CASE Track(c)
    BY <1>22 DEF Track
<1>. QED
    BY <1>1, <1>2, <1>3, <1>4, <1>5, <1>6, <1>7, <1>8, <1>9, <1>10, <1>11, <1>12, <1>13, <1>14,
       <1>15, <1>16, <1>17, <1>18, <1>19, <1>20, <1>21, <1>22 DEF Writes

\* A call that was answered stays as it is.
LEMMA DoneStays ==
    ASSUME Shape, [Next]_vars, NEW d \in Call, reply[d] = "ok"
    PROVE  /\ reply'[d] = "ok" /\ work'[d] = work[d] /\ ended'[d] = ended[d]
           /\ Removed(d)' = Removed(d)
<1>1. pc[d] = "done"
    BY DEF Shape
<1>2. ASSUME NEW c \in Call, ~Finished(c), Reads(c) \/ Stores(c)
      PROVE  reply'[d] = "ok" /\ work'[d] = work[d] /\ ended'[d] = ended[d]
    BY <1>1, <1>2, AnswerStep DEF Works, Finished
<1>3. ASSUME NEW p \in Proc, Restart(p)
      PROVE  reply'[d] = "ok" /\ work'[d] = work[d] /\ ended'[d] = ended[d]
    BY <1>1, <1>3 DEF Restart, Finished
<1>4. CASE UNCHANGED flow
    BY <1>4 DEF flow, Removed
<1>5. (Sweep \/ Tick \/ Lapse \/ UNCHANGED vars) => UNCHANGED flow
    BY DEF Sweep, Tick, Lapse, vars, pipelineVars
<1>. QED
    BY <1>2, <1>3, <1>4, <1>5 DEF Next, Answering, Removed

\* A change is done when the caches of its user are invalidated.
LEMMA NewChange ==
    ASSUME Shape, EditInv, [Next]_vars, NEW d \in Changes', d \notin Changes
    PROVE  d \in Edit /\ Invalidate(d) /\ UNCHANGED <<view, now>> /\ ended'[d] = now
<1>1. d \in Call /\ reply'[d] = "ok" /\ reply[d] # "ok" /\ JobOf[d].op \in {"update", "delete"}
    BY DEF Changes, Done
<1>2. d \in Edit
    BY <1>1 DEF Edit
<1>3. ASSUME NEW p \in Proc, Restart(p)
      PROVE  FALSE
    BY <1>1, <1>3 DEF Restart
<1>4. ~UNCHANGED reply
    BY <1>1
<1>5. ~Sweep /\ ~Tick /\ ~Lapse /\ ~UNCHANGED vars
    BY <1>4 DEF Sweep, Tick, Lapse, vars, pipelineVars, flow
<1>6. PICK c \in Call : ~Finished(c) /\ (Reads(c) \/ Stores(c))
    BY <1>3, <1>5 DEF Next, Answering
<1>7. c = d
    BY <1>1, <1>6, AnswerStep DEF Works
<1>8. Writes(d) /\ UNCHANGED view
    BY <1>1, <1>6, <1>7, ReadsOp, IngestsOp DEF Stores, Reading
<1>9. \/ GetLock(d) \/ Acquire(d) \/ Update(d) \/ Delete(d) \/ Release(d) \/ Invalidate(d)
    BY <1>1, <1>8 DEF Writes, At, Extract, Plan, Infer, Act, Revise, Acted, RecordFacts,
       AppendTurn,
                ReadSummary, Compact, WriteRow, SaveArtifact, ReadArtifacts, LinkArtifact,
                Linked, AddDirect, Prolong, Track
<1>10. ~Release(d)
  <2>1. ASSUME Release(d)
        PROVE  FALSE
    <3>1. Step(d, "invalidate") \/ End(d, "failed")
        BY <1>1, <2>1 DEF Release, Leave
    <3>. QED
        BY <1>1, <3>1 DEF Step, Goto, End, Shape, Fn
  <2>. QED
      BY <2>1
<1>11. ~GetLock(d) /\ ~Acquire(d) /\ ~Update(d) /\ ~Delete(d)
    BY <1>1 DEF GetLock, Acquire, Update, Delete, Step, Fail, Goto, Locking
<1>12. Invalidate(d)
    BY <1>9, <1>10, <1>11
<1>13. ended'[d] = now /\ now' = now
    BY <1>1, <1>12 DEF Invalidate, End, sessionVars, Shape, Fn
<1>. QED
    BY <1>2, <1>8, <1>12, <1>13

\* Where a call is about to revise, and what it saw, do not change while it waits.
LEMMA ReviseFrame ==
    ASSUME Shape, Keeps, EditsAreNotRetold, EditInv, [Next]_vars, NEW c \in Call, ReviseOK(c),
           pc'[c] = "revise" => pc[c] = "revise" /\ work'[c] = work[c]
    PROVE  ReviseOK(c)'
<1>. SUFFICES ASSUME pc'[c] = "revise"
              PROVE  ReviseOK(c)'
    BY DEF ReviseOK
<1>. DEFINE t == work[c].now.target
<1>1. pc[c] = "revise" /\ work'[c] = work[c]
    OBVIOUS
<1>2. t = <<t[1], t[2]>> /\ work[c].basis \subseteq Acknowledged
    BY <1>1 DEF ReviseOK
<1>3. work[c].basis \subseteq Acknowledged'
    BY <1>2, DoneStays DEF Acknowledged
<1>4. ASSUME NEW d \in work[c].basis, NEW r \in work'[d].results, r.id[1] = t[1]
      PROVE  t[2] \in Nat /\ r.id[2] <= t[2] /\ t[2] <= memory'[t[1]].rev
  <2>1. d \in Call /\ reply[d] = "ok" /\ JobOf[d].op = "update"
      BY <1>2 DEF Acknowledged
  <2>2. r \in work[d].results /\ d \in Edit
      BY <1>4, <2>1, DoneStays DEF Edit
  <2>3. EditOK(d)
      BY <2>2 DEF EditInv
  <2>4. t[1] = JobOf[d].target /\ Stored(memory[t[1]])
      BY <1>4, <2>2, <2>3 DEF EditOK
  <2>5. t[1] \in Lineage /\ t[1] \notin Started
      BY <2>2, <2>4, EditCalls
  <2>6. /\ memory'[t[1]].rev >= memory[t[1]].rev
        /\ memory[t[1]].rev \in Nat /\ memory'[t[1]].rev \in Nat
      BY <2>4, <2>5 DEF Keeps, Evolves, Shape, RowOK
  <2>7. t[2] \in Nat /\ r.id[2] <= t[2] /\ t[2] <= memory[t[1]].rev
      BY <1>1, <1>4, <2>2 DEF ReviseOK
  <2>. QED
      BY <2>6, <2>7
<1>. HIDE DEF t
<1>5. work'[c].now.target = t /\ work'[c].basis = work[c].basis
    BY <1>1 DEF t
<1>. QED
    BY <1>2, <1>3, <1>4, <1>5 DEF ReviseOK

\* A call that goes to revise has just read the row.
LEMMA ActRevise ==
    ASSUME Shape, Keeps, EditsAreNotRetold, EditInv, [Next]_vars, NEW c \in Call, ReviseOK(c),
           Act(c)
    PROVE  ReviseOK(c)'
<1>f. Fn(pc, Call) /\ Fn(work, Call) /\ WorkOK(c)
    BY DEF Shape
<1>1. PICK a \in work[c].todo : Skip(c, a) \/ Add(c, a) \/ Check(c, a)
    BY DEF Act
<1>2. CASE \E phase, results : phase = "act" /\ Did(c, a, phase, results)
  <2>1. pc'[c] = "act"
      BY <1>2, <1>f DEF Did, Goto, Fn
  <2>. QED
      BY <2>1 DEF ReviseOK
<1>3. CASE Check(c, a) /\ IsValidTarget(a.target, JobOf[c])
  <2>. DEFINE w == [work[c] EXCEPT !.now = a, !.basis = Acknowledged]
              t == a.target
  <2>1. Goto(c, "revise", w) /\ UNCHANGED memory /\ a.do = "UPDATE"
      BY <1>3 DEF Check
  <2>2. work'[c] = w
      BY <2>1, <1>f DEF Goto, Fn
  <2>. HIDE DEF w
  <2>3. w.now = a /\ w.basis = Acknowledged
      BY <1>f DEF w, WorkOK
  <2>4. t = <<t[1], t[2]>>
      BY <2>1, <1>f DEF WorkOK, Planned
  <2>5. Stored(memory[t[1]]) /\ memory[t[1]].rev = t[2]
      BY <1>3 DEF IsValidTarget, IsCurrent
  <2>6. Acknowledged \subseteq Acknowledged'
      BY DoneStays DEF Acknowledged
  <2>7. ASSUME NEW d \in Acknowledged, NEW r \in work'[d].results, r.id[1] = t[1]
        PROVE  t[2] \in Nat /\ r.id[2] <= t[2] /\ t[2] <= memory'[t[1]].rev
    <3>1. d \in Edit /\ r \in work[d].results
        BY <2>7, DoneStays DEF Acknowledged, Edit
    <3>2. r.id[1] = JobOf[d].target /\ r.id[2] <= memory[JobOf[d].target].rev
        BY <3>1 DEF EditInv, EditOK
    <3>3. t[1] \in Lineage
        BY <2>7, <3>1, <3>2, EditCalls
    <3>. QED
        BY <2>1, <2>5, <2>7, <3>2, <3>3 DEF Shape, RowOK
  <2>. HIDE DEF t
  <2>8. work'[c].now.target = t /\ work'[c].basis = Acknowledged
      BY <2>2, <2>3 DEF t
  <2>. QED
      BY <2>4, <2>6, <2>7, <2>8 DEF ReviseOK
<1>. QED
    BY <1>1, <1>2, <1>3 DEF Skip, Add, Check

\* A revision in ignorance of an edit would have to replace what the edit took away,
\* which is not the row's revision any more.
LEMMA ReviseStep ==
    ASSUME Shape, EditsAreNotRetold, EditInv, ReviseInv, EditSurvives, [Next]_vars
    PROVE  ReviseInv' /\ EditSurvives'
<1>k. Keeps
  <2>1. ((\E p \in Proc : Restart(p)) \/ Sweep \/ Tick \/ Lapse \/ UNCHANGED vars)
            => UNCHANGED memory
      BY DEF Restart, Sweep, Tick, Lapse, vars, pipelineVars, quiet, storeVars
  <2>. QED
      BY <2>1, AnswerStep, SameKeeps DEF Next, Answering
<1>1. \A c \in Call : ReviseOK(c)'
  <2>. TAKE c \in Call
  <2>1. ReviseOK(c)
      BY DEF ReviseInv
  <2>2. ASSUME NEW d \in Call, Reads(d) \/ Stores(d), d # c
        PROVE  ReviseOK(c)'
      BY <1>k, <2>1, <2>2, AnswerStep, ReviseFrame DEF Works
  <2>3. CASE Reads(c) \/ Ingests(c)
    <3>1. pc'[c] # "revise"
        BY <2>3, ReadsPhase, IngestsPhase DEF IngestPhase
    <3>. QED
        BY <3>1 DEF ReviseOK
  <2>4. CASE Writes(c) /\ ~Act(c)
    <3>1. pc'[c] # "revise"
        BY <2>4, WritesPhase
    <3>. QED
        BY <3>1 DEF ReviseOK
  <2>5. CASE Act(c)
      BY <2>5, <1>k, <2>1, ActRevise
  <2>6. CASE \E p \in Proc : Restart(p)
      BY <2>6, <1>k, <2>1, ReviseFrame DEF Restart
  <2>7. CASE UNCHANGED <<pc, work>>
      BY <2>7, <1>k, <2>1, ReviseFrame
  <2>8. CASE Sweep \/ Tick \/ Lapse \/ UNCHANGED vars
      BY <2>7, <2>8 DEF Sweep, Tick, Lapse, vars, pipelineVars, flow
  <2>. QED
      BY <2>2, <2>3, <2>4, <2>5, <2>6, <2>8 DEF Next, Answering, Stores
<1>2. ASSUME NEW o \in overruled
      PROVE  /\ o.basis \subseteq Acknowledged'
             /\ \A d \in o.basis : o.id \in {r.id : r \in work'[d].results} => o.planned = o.id
    BY <1>2, DoneStays DEF ReviseInv, EditSurvives, Acknowledged
<1>3. CASE UNCHANGED overruled
    BY <1>1, <1>2, <1>3 DEF ReviseInv, EditSurvives
<1>4. ASSUME NEW c \in Call, Revise(c), ~UNCHANGED overruled
      PROVE  ReviseInv' /\ EditSurvives'
  <2>. DEFINE m == work[c].now.target[1]
              t == work[c].now.target
              o == [by |-> c, id |-> Id(memory, m), planned |-> t, basis |-> work[c].basis]
  <2>1. overruled' = overruled \cup {o} /\ pc[c] = "revise" /\ Active(memory[m])
      BY <1>4 DEF Revise, At
  <2>2. ReviseOK(c)
      BY DEF ReviseInv
  <2>3. o.basis \subseteq Acknowledged /\ t = <<t[1], t[2]>>
      BY <2>1, <2>2 DEF ReviseOK
  <2>4. o.basis \subseteq Acknowledged'
      BY <2>3, DoneStays DEF Acknowledged
  <2>5. ASSUME NEW d \in o.basis, NEW r \in work'[d].results, r.id = o.id
        PROVE  o.planned = o.id
    <3>1. r \in work[d].results /\ d \in Edit
        BY <2>3, <2>5, DoneStays DEF Acknowledged, Edit
    <3>2. r.id[1] = t[1] /\ r.id[2] = memory[m].rev
        BY <2>5 DEF Id
    <3>3. t[2] \in Nat /\ r.id[2] <= t[2] /\ t[2] <= memory[m].rev
        BY <2>1, <2>2, <2>5, <3>1, <3>2 DEF ReviseOK
    <3>4. r.id[2] \in Nat
        BY <3>1 DEF EditInv, EditOK
    <3>5. t[2] = memory[m].rev
        BY <3>2, <3>3, <3>4
    <3>. QED
        BY <2>3, <3>5 DEF Id
  <2>. HIDE DEF o
  <2>6. \A x \in overruled' :
           /\ x.basis \subseteq Acknowledged'
           /\ \A d \in x.basis : x.id \in {r.id : r \in work'[d].results} => x.planned = x.id
      BY <1>2, <2>1, <2>4, <2>5
  <2>. QED
      BY <1>1, <2>6 DEF ReviseInv, EditSurvives
<1>5. ASSUME ~(\E c \in Call : Revise(c))
      PROVE  UNCHANGED overruled
  <2>1. ASSUME NEW c \in Call, Writes(c)
        PROVE  UNCHANGED overruled
      BY <1>5, <2>1, WritesLeaveOverruled DEF Act, Skip, Add, Check
  <2>2. ASSUME NEW c \in Call, Reads(c) \/ Ingests(c)
        PROVE  UNCHANGED overruled
      BY <2>2 DEF Reads, Ingests, quiet, quietly, Begin, ProlongSession, OpenSession,
         ReadCache,
                  ReadCore, FillCache, DeliverCore, ReadKnown, Find, Deliver, ReadDelivered,
                  SearchDecayed, MarkDecayed, TrackAccess, Prepare, ClaimContent, TakeOver,
                  Wait,
                  Resume, Guard, Insert, Complete, Commit, Refresh
  <2>3. ((\E p \in Proc : Restart(p)) \/ Sweep \/ Tick \/ Lapse \/ UNCHANGED vars)
            => UNCHANGED overruled
      BY DEF Restart, Sweep, Tick, Lapse, vars, pipelineVars, quiet
  <2>. QED
      BY <2>1, <2>2, <2>3 DEF Next, Answering, Stores
<1>. QED
    BY <1>3, <1>4, <1>5

\* An update that a user was told of is not overwritten by a decision that was made
\* before it: where a call of remember or add_memory replaces what the update made, it had
\* planned to replace just that (the check of the target under the lock of the memory,
\* _is_valid_inferred_target, memory.py:2339).
THEOREM EditSurvivesHolds == EditsAreNotRetold => (Spec => []EditSurvives)
<1>. SUFFICES ASSUME EditsAreNotRetold
              PROVE  Spec => []EditSurvives
    OBVIOUS
<1>1. Init => Shape /\ EditInv /\ ReviseInv /\ EditSurvives
  <2>1. ASSUME Init
        PROVE  ReviseInv /\ EditSurvives
      BY <2>1 DEF Init, PipelineInit, ReviseInv, ReviseOK, EditSurvives
  <2>. QED
      BY <2>1, ShapeInit, EditInit
<1>2. Shape /\ EditInv /\ ReviseInv /\ EditSurvives /\ [Next]_vars
      => (Shape /\ EditInv /\ ReviseInv /\ EditSurvives)'
    BY ShapeStep, EditStep, ReviseStep
<1>. QED
    BY <1>1, <1>2, PTL DEF Spec

\* The core shows active memories only, and so no revision that was superseded.
LEMMA CoreIsActive ==
    ASSUME NEW part \in {"pinned", "top", "recent"}, NEW j, NEW t,
           NEW m \in CorePart(memory, part, j, t)
    PROVE  Active(memory[m])
<1>1. \A q, layers, pinned : \A n \in GetAll(memory, q, pinned, layers) : Active(memory[n])
    BY DEF GetAll, InScope
<1>a. \A q, layers : \A n \in GetAll(memory, q, FALSE, layers) : Active(memory[n])
    BY DEF GetAll, InScope
<1>2. \A q, layers : \A n \in GetPinned(memory, q, layers) : Active(memory[n])
    BY <1>1 DEF GetPinned
<1>3. \A q, layers : \A n \in GetRecent(memory, q, layers) : Active(memory[n])
    BY DEF GetRecent, InScope
<1>4. \A n \in OwnPinned(memory, j) \cup SharedPinned(memory, j) : Active(memory[n])
    BY <1>2 DEF OwnPinned, SharedPinned, Assistant
<1>5. \A n \in OwnTop(memory, j) \cup SharedTop(memory, j) : Active(memory[n])
    BY <1>a DEF OwnTop, SharedTop, Assistant
<1>6. \A n \in OwnRecent(memory, j) \cup SharedRecent(memory, j) : Active(memory[n])
    BY <1>3 DEF OwnRecent, SharedRecent
<1>7. m \in OwnPinned(memory, j) \cup SharedPinned(memory, j) \cup OwnTop(memory, j)
            \cup SharedTop(memory, j) \cup OwnRecent(memory, j) \cup SharedRecent(memory, j)
    BY DEF CorePart
<1>. QED
    BY <1>4, <1>5, <1>6, <1>7

\* A read of a part of the core, after an edit, misses what the edit removed.
LEMMA ReadMissesRemoved ==
    ASSUME Shape, EditsAreNotRetold, EditInv, NEW d \in Changes,
           NEW part \in {"pinned", "top", "recent"}, NEW j, NEW t
    PROVE  ~Hits(d, {Id(memory, m) : m \in CorePart(memory, part, j, t)})
<1>. SUFFICES ASSUME NEW m \in CorePart(memory, part, j, t), Id(memory, m) \in Removed(d)
              PROVE  FALSE
    BY DEF Hits
<1>1. d \in Edit
    BY DEF Changes, Done, Edit
<1>2. m = JobOf[d].target /\ Superseded(Id(memory, m))
    BY <1>1 DEF EditInv, EditOK, Id
<1>3. memory[m].rev > memory[m].rev \/ memory[m].state = "retracted"
    BY <1>2 DEF Superseded, Id
<1>4. Active(memory[m])
    BY CoreIsActive
<1>5. memory[m].rev \in Nat
    BY <1>1, <1>2, <1>4, EditCalls DEF Shape, RowOK, Active, Stored
<1>. QED
    BY <1>3, <1>4, <1>5 DEF Active

\* Edits that are done stay done, with what they removed and when.
LEMMA ChangesStay ==
    ASSUME Shape, [Next]_vars
    PROVE  /\ \A S : Done(S) \subseteq Done(S)'
           /\ \A d \in Changes : /\ d \in Changes' /\ ended'[d] = ended[d]
                                 /\ \A ids : Hits(d, ids) <=> Removed(d)' \cap ids # {}
<1>1. \A S : \A d \in Done(S) : d \in Done(S)'
    BY DoneStays DEF Done
<1>2. ASSUME NEW d \in Changes
      PROVE  /\ d \in Changes' /\ ended'[d] = ended[d]
             /\ \A ids : Hits(d, ids) <=> Removed(d)' \cap ids # {}
  <2>1. d \in Call /\ reply[d] = "ok"
      BY DEF Changes, Done
  <2>2. Removed(d)' = Removed(d) /\ ended'[d] = ended[d]
      BY <2>1, DoneStays
  <2>. QED
      BY <1>1, <2>2 DEF Changes, Hits
<1>. QED
    BY <1>1, <1>2

\* Entries keep what is true of them: a new edit ends now.
LEMMA EntryStays ==
    ASSUME Shape, EditInv, [Next]_vars, NEW e, EntryOK(e)
    PROVE  EntryOK(e)'
<1>1. now \in Nat /\ now' \in Nat /\ now <= now'
  <2>1. now' = now \/ now' = now + 1
    <3>1. \A c \in Call : (Reads(c) \/ Stores(c)) => now' = now
        BY AnswerStep DEF Works
    <3>2. (\E p \in Proc : Restart(p)) => now' = now
        BY DEF Restart
    <3>3. (Sweep \/ Lapse \/ UNCHANGED vars) => now' = now
        BY DEF Sweep, SweepBackend, SweepCache, Lapse, vars, pipelineVars, sessionVars
    <3>. QED
        BY <3>1, <3>2, <3>3 DEF Next, Answering, Tick
  <2>. QED
      BY <2>1 DEF Shape
<1>2. e.at \in Nat /\ e.at <= now' /\ e.began \subseteq Done(Writing)'
    BY <1>1, ChangesStay DEF EntryOK
<1>3. ASSUME NEW d \in Changes', Hits(d, e.ids)'
      PROVE  e.at <= ended'[d] /\ d \notin e.began
  <2>1. CASE d \in Changes
      BY <1>3, <2>1, ChangesStay DEF EntryOK, Hits
  <2>2. CASE d \notin Changes
    <3>1. ended'[d] = now
        BY <2>2, NewChange
    <3>2. d \notin Done(Writing)
        BY <2>2, <1>3 DEF Changes, Done
    <3>. QED
        BY <3>1, <3>2 DEF EntryOK
  <2>. QED
      BY <2>1, <2>2
<1>. QED
    BY <1>2, <1>3 DEF EntryOK, Changes

\* An entry that outlives a step was not to be invalidated by it.
LEMMA CachedStays ==
    ASSUME Shape, EditInv, [Next]_vars, NEW p \in Proc, NEW e \in core[p], e \in core'[p],
           CachedOK(p, e)
    PROVE  CachedOK(p, e)'
<1>1. EntryOK(e)'
    BY EntryStays DEF CachedOK
<1>2. ASSUME NEW d \in Changes', Near(d, p, e.key[1]), Hits(d, e.ids)'
      PROVE  d \in e.set
  <2>1. CASE d \in Changes
      BY <1>2, <2>1, ChangesStay DEF CachedOK, Hits
  <2>2. CASE d \notin Changes
    <3>1. Invalidate(d)
        BY <2>2, NewChange
    <3>2. core'[p] = {x \in core[p] : x.key[1] # JobOf[d].user}
        BY <1>2, <3>1 DEF Invalidate, Invalidated, Near, Shape, Fn
    <3>. QED
        BY <1>2, <3>2 DEF Near
  <2>. QED
      BY <2>1, <2>2
<1>. QED
    BY <1>1, <1>2 DEF CachedOK, Near

\* A call that is not at work keeps what it has seen.
LEMMA ViewStays ==
    ASSUME Shape, EditInv, [Next]_vars, NEW c \in Call, ViewCoreOK(c), view'[c] = view[c],
           pc'[c] \in {"idle", "prolong", "create", "cache", "read"} => pc'[c] = pc[c],
           pc[c] = "read" => now' = now
    PROVE  ViewCoreOK(c)'
<1>1. view[c].told \subseteq Done(Writing)'
    BY ChangesStay DEF ViewCoreOK
<1>2. view[c].entry # None => EntryOK(view[c].entry)'
    BY EntryStays DEF ViewCoreOK
<1>3. ASSUME NEW d \in Changes', d \notin Changes
      PROVE  d \notin view[c].told /\ ended'[d] = now /\ now' = now
  <2>1. d \notin Done(Writing)
      BY <1>3 DEF Changes, Done
  <2>. QED
      BY <2>1, <1>3, NewChange DEF ViewCoreOK
<1>4. ASSUME pc'[c] = "read", NEW d \in Changes', Hits(d, view[c].core)'
      PROVE  ended'[d] = now' /\ d \notin view[c].told
  <2>1. pc[c] = "read" /\ now' = now
      BY <1>4
  <2>. QED
      BY <1>3, <1>4, <2>1, ChangesStay DEF ViewCoreOK, Hits
<1>5. ASSUME view[c].entry # None, NEW d \in Changes' \cap view[c].told,
             Near(d, JobOf[c].proc, JobOf[c].user), Hits(d, view[c].entry.ids)'
      PROVE  d \in view[c].entry.set
  <2>1. d \in Changes
      BY <1>3, <1>5
  <2>. QED
      BY <1>5, <2>1, ChangesStay DEF ViewCoreOK, Hits
<1>. DEFINE v == view[c]
<1>6. view'[c] = v
    OBVIOUS
<1>7. pc'[c] \in {"idle", "prolong", "create", "cache"} => v.core = {} /\ v.entry = None
    BY DEF ViewCoreOK
<1>8. pc'[c] = "read" => v.reads \in {<<>>, <<"recent">>, <<"top", "recent">>,
                                      <<"pinned", "top", "recent">>}
    BY DEF ViewCoreOK
<1>9. v.entry # None => v.at \in Nat /\ v.at <= v.entry.at + CacheTTL
    BY DEF ViewCoreOK
<1>10. \A d, p, u : Near(d, p, u)' <=> Near(d, p, u)
    BY DEF Near
<1>. HIDE DEF v
<1>. QED
    BY <1>1, <1>2, <1>4, <1>5, <1>6, <1>7, <1>8, <1>9, <1>10 DEF ViewCoreOK, v

\* The view of a call that read what the cache of core memories has no part in.
LEMMA ViewMoves ==
    ASSUME Shape, EditInv, [Next]_vars, NEW c \in Call, ViewCoreOK(c),
           view'[c].told = view[c].told, view'[c].entry = view[c].entry,
           view'[c].at = view[c].at,
           pc'[c] \notin {"idle", "prolong", "create", "cache", "read"}
    PROVE  ViewCoreOK(c)'
<1>1. view[c].told \subseteq Done(Writing)'
    BY ChangesStay DEF ViewCoreOK
<1>2. view[c].entry # None => EntryOK(view[c].entry)'
    BY EntryStays DEF ViewCoreOK
<1>3. ASSUME view[c].entry # None, NEW d \in Changes' \cap view[c].told,
             Near(d, JobOf[c].proc, JobOf[c].user), Hits(d, view[c].entry.ids)'
      PROVE  d \in view[c].entry.set
  <2>1. d \in Changes
    <3>1. d \in Done(Writing)
        BY <1>3 DEF ViewCoreOK
    <3>. QED
        BY <1>3, <3>1 DEF Changes, Done
  <2>. QED
      BY <1>3, <2>1, ChangesStay DEF ViewCoreOK, Hits
<1>4. view[c].entry # None => view[c].at \in Nat /\ view[c].at <= view[c].entry.at + CacheTTL
    BY DEF ViewCoreOK
<1>5. \A d, p, u : Near(d, p, u)' <=> Near(d, p, u)
    BY DEF Near
<1>. QED
    BY <1>1, <1>2, <1>3, <1>4, <1>5 DEF ViewCoreOK

\* The parts of the core still to be read, in their order.
LEMMA RemainingReads ==
    ASSUME NEW r \in {<<"recent">>, <<"top", "recent">>, <<"pinned", "top", "recent">>}
    PROVE  /\ Head(r) \in {"pinned", "top", "recent"}
           /\ Tail(r) \in {<<>>, <<"recent">>, <<"top", "recent">>,
                            <<"pinned", "top", "recent">>}
<1>1. CASE r = <<"recent">>
  <2>1. Head(r) = "recent" /\ Tail(r) = <<>>
      BY <1>1
  <2>. QED
      BY <2>1
<1>2. CASE r = <<"top", "recent">>
  <2>1. Head(r) = "top" /\ Tail(r) = <<"recent">>
      BY <1>2
  <2>. QED
      BY <2>1
<1>3. CASE r = <<"pinned", "top", "recent">>
  <2>1. Head(r) = "pinned" /\ Tail(r) = <<"top", "recent">>
      BY <1>3
  <2>. QED
      BY <2>1
<1>. QED
    BY <1>1, <1>2, <1>3

\* A call that reads a part, is served from a cache, or fills it.
LEMMA ReadCoreStep ==
    ASSUME Shape, EditsAreNotRetold, EditInv, [Next]_vars, NEW c \in Call, ViewCoreOK(c),
           ReadCore(c)
    PROVE  ViewCoreOK(c)'
<1>. DEFINE j == JobOf[c]
<1>v. PICK v : v = view[c]
    OBVIOUS
<1>m. PICK ids : ids = {Id(memory, m) : m \in CorePart(memory, Head(v.reads), j, now)}
    OBVIOUS
<1>. DEFINE w == [v EXCEPT !.reads = Tail(@), !.core = @ \cup ids]
<1>f. Fn(pc, Call) /\ Fn(view, Call) /\ ViewOK(c) /\ now' = now
    BY DEF Shape, ViewOK, ReadCore, sessionVars
<1>p. pc[c] = "read"
    BY DEF ReadCore, At
<1>1. CASE v.reads # <<>> /\ Look(c, "read", w)
  <2>1. pc'[c] = "read" /\ view'[c] = w /\ UNCHANGED reply
      BY <1>1, <1>f DEF Look, Fn
  <2>2. /\ Head(v.reads) \in {"pinned", "top", "recent"}
        /\ Tail(v.reads) \in {<<>>, <<"recent">>, <<"top", "recent">>,
                               <<"pinned", "top", "recent">>}
    <3>1. v.reads \in {<<"recent">>, <<"top", "recent">>, <<"pinned", "top", "recent">>}
        BY <1>1, <1>p, <1>v DEF ViewCoreOK
    <3>. QED
        BY <3>1, RemainingReads
  <2>3. /\ w.reads = Tail(v.reads) /\ w.core = v.core \cup ids /\ w.told = v.told
        /\ w.entry = v.entry /\ w.at = v.at
      BY <1>f, <1>v DEF ViewOK
  <2>. HIDE DEF w
  <2>4. Changes' = Changes
      BY <2>1 DEF Changes, Done
  <2>a. PICK shown : shown = w.core
      OBVIOUS
  <2>5. ASSUME NEW d \in Changes, Hits(d, shown)'
        PROVE  ended'[d] = now' /\ d \notin v.told
    <3>1. ~Hits(d, ids)
        BY <2>2, <1>m, ReadMissesRemoved
    <3>2. Hits(d, shown) /\ ended'[d] = ended[d]
        BY <2>5, ChangesStay DEF Hits
    <3>3. Hits(d, v.core)
        BY <2>3, <2>a, <3>1, <3>2 DEF Hits
    <3>. QED
        BY <1>f, <1>p, <1>v, <3>2, <3>3 DEF ViewCoreOK
  <2>6. v.told \subseteq Done(Writing)'
      BY <1>v, ChangesStay DEF ViewCoreOK
  <2>7. v.entry # None => EntryOK(v.entry)'
      BY <1>v, EntryStays DEF ViewCoreOK
  <2>8. ASSUME v.entry # None, NEW d \in Changes \cap v.told, Near(d, j.proc, j.user)',
               Hits(d, v.entry.ids)'
        PROVE  d \in v.entry.set
      BY <1>v, <2>8, ChangesStay DEF ViewCoreOK, Hits, Near
  <2>9. v.entry # None => v.at \in Nat /\ v.at <= v.entry.at + CacheTTL
      BY <1>v DEF ViewCoreOK
  <2>. HIDE DEF j
  <2>10. view'[c].entry = v.entry /\ view'[c].at = v.at /\ view'[c].told = v.told
         /\ view'[c].core = shown /\ view'[c].reads = Tail(v.reads)
      BY <2>1, <2>3, <2>a
  <2>. QED
      BY <2>1, <2>2, <2>4, <2>5, <2>6, <2>7, <2>8, <2>9, <2>10 DEF ViewCoreOK, j
<1>2. CASE Look(c, AfterCore(c), [v EXCEPT !.core = {}])
  <2>1. pc'[c] \in {"known", "track"} /\ view'[c] = [v EXCEPT !.core = {}]
      BY <1>2, <1>f DEF Look, Fn, AfterCore
  <2>2. view'[c].told = v.told /\ view'[c].entry = v.entry /\ view'[c].at = v.at
      BY <1>f, <1>v, <2>1 DEF ViewOK
  <2>. QED
      BY <1>v, <2>1, <2>2, ViewMoves
<1>3. CASE End(c, "failed") /\ UNCHANGED view
  <2>1. pc'[c] = "done"
      BY <1>3, <1>f DEF End, Fn
  <2>. QED
      BY <1>3, <2>1, ViewMoves
<1>. QED
    BY <1>1, <1>2, <1>3, <1>v, <1>m DEF ReadCore

LEMMA ReadCacheStep ==
    ASSUME Shape, EditInv, CoreInv, [Next]_vars, NEW c \in Call, ReadCache(c)
    PROVE  ViewCoreOK(c)'
<1>. DEFINE j == JobOf[c]
            hit == Fresh(j.proc, CacheKey(j))
            began == IF j.op = "core" THEN Done(Writing) ELSE view[c].told
<1>f. Fn(pc, Call) /\ Fn(view, Call) /\ ViewOK(c) /\ now' = now /\ now \in Nat /\ ViewCoreOK(c)
    BY DEF Shape, ViewOK, ReadCache, sessionVars, CoreInv
<1>j. j.proc \in Proc
    BY PipelineAssumption DEF Job
<1>p. view[c].core = {} /\ view[c].entry = None
    BY <1>f DEF ReadCache, At, ViewCoreOK
<1>s. UNCHANGED <<reply, work, ended>>
    BY DEF ReadCache, Look
<1>b. began \subseteq Done(Writing)' /\ began \subseteq Done(Writing)
    BY <1>f, <1>s DEF ViewCoreOK, Done
<1>h. \A ids, d : Hits(d, ids)' <=> Hits(d, ids)
    BY <1>s DEF Hits, Removed
<1>c. Changes' = Changes
    BY <1>s DEF Changes, Done
<1>. HIDE DEF began
<1>1. ASSUME NEW e \in hit, Look(c, "deliver",
                [view[c] EXCEPT !.told = began, !.entry = e, !.core = e.ids, !.at = now])
      PROVE  ViewCoreOK(c)'
  <2>. DEFINE w == [view[c] EXCEPT !.told = began, !.entry = e, !.core = e.ids, !.at = now]
  <2>1. pc'[c] = "deliver" /\ view'[c] = w
      BY <1>1, <1>f DEF Look, Fn
  <2>2. w.told = began /\ w.entry = e /\ w.at = now
      BY <1>f DEF ViewOK
  <2>. HIDE DEF w
  <2>3. e \in core[j.proc] /\ e.key = CacheKey(j) /\ now - e.at <= CacheTTL
      BY <1>1 DEF Fresh
  <2>4. CachedOK(j.proc, e)
      BY <1>j, <2>3 DEF CoreInv
  <2>5. EntryOK(e)'
      BY <2>4, EntryStays DEF CachedOK
  <2>6. e.key[1] = j.user
      BY <2>3 DEF CacheKey
  <2>7. now <= e.at + CacheTTL
      BY <1>f, <2>3, <2>4, PipelineAssumption DEF CachedOK, EntryOK
  <2>8. ASSUME NEW d \in Changes' \cap began, Near(d, j.proc, j.user)', Hits(d, e.ids)'
        PROVE  d \in e.set
      BY <1>c, <1>h, <2>4, <2>6, <2>8 DEF CachedOK, Near
  <2>. HIDE DEF j
  <2>. QED
      BY <1>b, <1>f, <2>1, <2>2, <2>5, <2>7, <2>8 DEF ViewCoreOK, j
<1>2. CASE Look(c, "read", [view[c] EXCEPT !.told = began,
                                           !.reads = <<"pinned", "top", "recent">>])
  <2>. DEFINE w == [view[c] EXCEPT !.told = began, !.reads = <<"pinned", "top", "recent">>]
  <2>1. pc'[c] = "read" /\ view'[c] = w
      BY <1>2, <1>f DEF Look, Fn
  <2>2. /\ w.told = began /\ w.entry = None /\ w.core = {}
        /\ w.reads = <<"pinned", "top", "recent">>
      BY <1>f, <1>p DEF ViewOK
  <2>. HIDE DEF w
  <2>3. \A d : ~Hits(d, {})'
      BY DEF Hits
  <2>. QED
      BY <1>b, <2>1, <2>2, <2>3 DEF ViewCoreOK
<1>. QED
    BY <1>1, <1>2 DEF ReadCache, began

LEMMA FillCacheStep ==
    ASSUME Shape, EditInv, CoreInv, [Next]_vars, NEW c \in Call, FillCache(c)
    PROVE  /\ ViewCoreOK(c)'
           /\ \A e \in core'[JobOf[c].proc] \ core[JobOf[c].proc] : CachedOK(JobOf[c].proc, e)'
           /\ \A p \in Proc \ {JobOf[c].proc} : core'[p] = core[p]
<1>. DEFINE j == JobOf[c]
<1>v. PICK v : v = view[c]
    OBVIOUS
<1>e. PICK entry : entry = [key |-> CacheKey(j), ids |-> v.core, at |-> now,
                            began |-> v.told, set |-> Done(Writing)]
    OBVIOUS
<1>w. PICK w : w = [v EXCEPT !.entry = entry, !.at = now]
    OBVIOUS
<1>f. /\ Fn(pc, Call) /\ Fn(view, Call) /\ Fn(core, Proc) /\ ViewOK(c) /\ now' = now /\ now \in Nat
      /\ ViewCoreOK(c) /\ j.proc \in Proc
    BY PipelineAssumption DEF Shape, ViewOK, FillCache, sessionVars, CoreInv, Job
<1>1. /\ pc[c] = "read" /\ Look(c, "deliver", w)
      /\ core' = [core EXCEPT ![j.proc] = {x \in @ : x.key # entry.key} \cup {entry}]
    BY <1>e, <1>v, <1>w DEF FillCache, At
<1>2. pc'[c] = "deliver" /\ view'[c] = w /\ UNCHANGED <<reply, work, ended>>
    BY <1>1, <1>f DEF Look, Fn
<1>3. w.entry = entry /\ w.at = now /\ w.told = v.told
    BY <1>f, <1>v, <1>w DEF ViewOK
<1>4. /\ \A ids, d : Hits(d, ids)' <=> Hits(d, ids)
      /\ Changes' = Changes /\ Done(Writing)' = Done(Writing)
    BY <1>2 DEF Hits, Removed, Changes, Done
<1>5. Changes \subseteq entry.set
    BY <1>e DEF Changes, Done, Writing
<1>6. v.told \subseteq Done(Writing)
    BY <1>f, <1>v DEF ViewCoreOK
<1>7. \A d \in Changes : Hits(d, entry.ids) => ended[d] = now /\ d \notin v.told
    BY <1>e, <1>f, <1>v, <1>1 DEF ViewCoreOK
<1>8. EntryOK(entry)'
  <2>1. entry.at = now /\ entry.began = v.told
      BY <1>e
  <2>. QED
      BY <2>1, <1>2, <1>4, <1>6, <1>7, <1>f DEF EntryOK
<1>9. CachedOK(j.proc, entry)'
    BY <1>4, <1>5, <1>8 DEF CachedOK
<1>10. ViewCoreOK(c)'
  <2>1. now <= entry.at + CacheTTL
      BY <1>e, <1>f, PipelineAssumption
  <2>2. \A d \in Changes' : d \in entry.set
      BY <1>4, <1>5
  <2>. QED
      BY <2>1, <2>2, <1>2, <1>3, <1>4, <1>6, <1>8, <1>f DEF ViewCoreOK
<1>11. core'[j.proc] = {x \in core[j.proc] : x.key # entry.key} \cup {entry}
    BY <1>1, <1>f DEF Fn
<1>12. \A p \in Proc \ {j.proc} : core'[p] = core[p]
    BY <1>1, <1>f DEF Fn
<1>. QED
    BY <1>9, <1>10, <1>11, <1>12

\* Action by action: what a reading call has seen.
LEMMA ReadsCoreStep ==
    ASSUME Shape, EditsAreNotRetold, EditInv, CoreInv, [Next]_vars, NEW c \in Call, Reads(c)
    PROVE  ViewCoreOK(c)'
<1>f. Fn(pc, Call) /\ Fn(view, Call) /\ ViewOK(c) /\ ViewCoreOK(c) /\ now' = now /\ Fn(work, Call)
    BY ReadsWork DEF Shape, ViewOK, CoreInv, Works
<1>l. \A phase, x : Look(c, phase, x) => pc'[c] = phase /\ view'[c] = x
    BY <1>f DEF Look, Fn
<1>s. \A phase : Step(c, phase) => pc'[c] = phase
    BY <1>f DEF Step, Goto, Fn
<1>e. \A answer : End(c, answer) => pc'[c] = "done"
    BY <1>f DEF End, Fn
<1>1. CASE Begin(c)
  <2>. DEFINE told == Done(Writing)
  <2>. DEFINE j == JobOf[c]
              found == j.session # None /\ Alive(Held(j.proc, j.session))
              phase == IF found THEN "prolong" ELSE "create"
              v == [NoView EXCEPT !.session = IF found THEN j.session ELSE j.fresh,
                        !.told = told]
  <2>0. Look(c, phase, v)
      BY <1>1, Zenon DEF Begin
  <2>2. pc'[c] = phase /\ view'[c] = v
      BY <2>0, <1>l
  <2>. HIDE DEF found
  <2>4. phase \in {"prolong", "create"} /\ v.told = told /\ v.core = {} /\ v.entry = None
      BY DEF NoView
  <2>3. told \subseteq Done(Writing)'
      BY ChangesStay
  <2>. HIDE DEF told, v, phase
  <2>. QED
      BY <2>2, <2>3, <2>4 DEF ViewCoreOK
<1>2. CASE ProlongSession(c)
    BY <1>2, <1>s, ViewMoves, <1>f DEF ProlongSession, AfterCore
<1>3. CASE OpenSession(c)
  <2>1. pc[c] = "create" /\ pc'[c] = "cache" /\ view'[c] = view[c]
      BY <1>3, <1>s DEF OpenSession, At
  <2>2. view[c].core = {} /\ view[c].entry = None /\ view[c].told \subseteq Done(Writing)'
      BY <2>1, <1>f, ChangesStay DEF ViewCoreOK
  <2>. QED
      BY <2>1, <2>2 DEF ViewCoreOK
<1>4. CASE ReadCache(c)
    BY <1>4, ReadCacheStep
<1>5. CASE ReadCore(c)
    BY <1>5, <1>f, ReadCoreStep
<1>6. CASE FillCache(c)
    BY <1>6, FillCacheStep
<1>7. CASE DeliverCore(c)
    BY <1>7, <1>s, ViewMoves, <1>f DEF DeliverCore, AfterCore
<1>8. CASE ReadKnown(c)
  <2>. DEFINE x == [view[c] EXCEPT !.known = KnownIds(JobOf[c].proc, view[c].session),
                        !.kept = Alive(Held(JobOf[c].proc, view[c].session)),
                        !.reads = IF JobOf[c].finds THEN <<"query", "query">> ELSE <<"query">>]
  <2>1. Look(c, "find", x)
      BY <1>8, Zenon DEF ReadKnown
  <2>2. pc'[c] = "find" /\ view'[c] = x
      BY <2>1, <1>l
  <2>3. x.told = view[c].told /\ x.entry = view[c].entry /\ x.at = view[c].at
      BY <1>f DEF ViewOK
  <2>. QED
      BY <2>2, <2>3, <1>f, ViewMoves
<1>9. CASE Find(c)
  <2>1. PICK x : /\ Look(c, "find", x)
                 /\ x.told = view[c].told /\ x.entry = view[c].entry /\ x.at = view[c].at
    <3>. DEFINE ms == Visible(memory, JobOf[c], FALSE, now)
    <3>1. CASE Look(c, "find", Merged(view[c], ms))
      <4>1. LET x == Merged(view[c], ms) IN
            x.told = view[c].told /\ x.entry = view[c].entry /\ x.at = view[c].at
        <5>. HIDE DEF ms
        <5>. QED
            BY <1>f DEF Merged, ViewOK
      <4>. QED
          BY <3>1, <4>1
    <3>2. CASE Look(c, "find", [view[c] EXCEPT !.reads = Tail(@)])
        BY <3>2, <1>f DEF ViewOK
    <3>3. CASE Look(c, "find", [view[c] EXCEPT !.reads = <<"query">>, !.hits = {}])
      <4>. DEFINE x == [view[c] EXCEPT !.reads = <<"query">>, !.hits = {}]
      <4>1. x.told = view[c].told /\ x.entry = view[c].entry /\ x.at = view[c].at
          BY <1>f DEF ViewOK
      <4>2. Look(c, "find", x)
          BY <3>3
      <4>. HIDE DEF x
      <4>. QED
          BY <4>1, <4>2
    <3>. QED
        BY <1>9, <3>1, <3>2, <3>3 DEF Find
  <2>. QED
      BY <2>1, <1>l, <1>f, ViewMoves
<1>10. CASE Deliver(c)
  <2>1. PICK results : Look(c, "track", [view[c] EXCEPT !.new = results \ view[c].known, !.hits = {}])
      BY <1>10 DEF Deliver
  <2>2. pc'[c] = "track" /\ view'[c] = [view[c] EXCEPT !.new = results \ view[c].known, !.hits = {}]
      BY <2>1, <1>l
  <2>. QED
      BY <2>2, <1>f, ViewMoves DEF ViewOK
<1>11. CASE ReadDelivered(c)
    BY <1>11, <1>l, ViewMoves, <1>f DEF ReadDelivered, ViewOK
<1>12. CASE SearchDecayed(c)
    BY <1>12, <1>l, ViewMoves, <1>f DEF SearchDecayed, ViewOK
<1>13. CASE MarkDecayed(c)
    BY <1>13, <1>s, ViewMoves, <1>f DEF MarkDecayed
<1>14. CASE TrackAccess(c)
  <2>1. pc'[c] = "done" /\ view'[c] = [view[c] EXCEPT !.copies = {}]
      BY <1>14, <1>e, <1>f DEF TrackAccess, Answer, Fn
  <2>. QED
      BY <2>1, <1>f, ViewMoves DEF ViewOK
<1>. QED
    BY <1>1, <1>2, <1>3, <1>4, <1>5, <1>6, <1>7, <1>8, <1>9, <1>10, <1>11, <1>12, <1>13,
       <1>14 DEF Reads

LEMMA CoreStep ==
    ASSUME Shape, EditsAreNotRetold, EditInv, CoreInv, [Next]_vars
    PROVE  CoreInv'
<1>1. \A c \in Call : ViewCoreOK(c)'
  <2>. TAKE c \in Call
  <2>f. ViewCoreOK(c)
      BY DEF CoreInv
  <2>1. ASSUME NEW d \in Call, Reads(d) \/ Stores(d), d # c
        PROVE  ViewCoreOK(c)'
      BY <2>f, <2>1, AnswerStep, ViewStays DEF Works, Looks
  <2>2. CASE Reads(c)
      BY <2>2, ReadsCoreStep
  <2>3. CASE (Writes(c) \/ Ingests(c)) /\ UNCHANGED view
    <3>1. pc'[c] \notin {"idle", "prolong", "create", "cache", "read"}
      <4>1. CASE Act(c)
        <5>1. \A phase, w : Goto(c, phase, w) => pc'[c] = phase
            BY DEF Goto, Shape, Fn
        <5>. QED
            BY <4>1, <5>1 DEF Act, Skip, Add, Check, Did
      <4>. QED
          BY <2>3, <4>1, WritesPhase, IngestsPhase DEF IngestPhase
    <3>. QED
        BY <2>f, <2>3, <3>1, ViewMoves
  <2>4. CASE \E p \in Proc : Restart(p) /\ UNCHANGED view
      BY <2>f, <2>4, ViewStays DEF Restart
  <2>5. CASE Tick
      BY <2>f, <2>5, ViewStays DEF Tick, flow
  <2>6. CASE UNCHANGED <<pc, view, now>>
      BY <2>f, <2>6, ViewStays
  <2>7. CASE Sweep \/ (Lapse /\ UNCHANGED view) \/ UNCHANGED vars
      BY <2>6, <2>7 DEF Sweep, SweepBackend, SweepCache, Lapse, vars, pipelineVars, flow,
         sessionVars
  <2>. QED
      BY <2>1, <2>2, <2>3, <2>4, <2>5, <2>7 DEF Next, Answering, Stores
<1>2. ASSUME NEW p \in Proc, NEW e \in core'[p]
      PROVE  CachedOK(p, e)'
  <2>1. CASE e \in core[p]
      BY <1>2, <2>1, CachedStays DEF CoreInv
  <2>2. CASE e \notin core[p]
    <3>1. PICK c \in Call : FillCache(c)
      <4>1. ASSUME NEW c \in Call, Reads(c) \/ Stores(c), ~FillCache(c)
            PROVE  core'[p] \subseteq core[p]
        <5>1. CASE ReadCache(c)
            BY <5>1 DEF ReadCache, Shape, Fn
        <5>2. CASE Invalidate(c)
            BY <5>2 DEF Invalidate, Invalidated, Shape, Fn
        <5>3. CASE Refresh(c)
            BY <5>3 DEF Refresh, Invalidated, Shape, Fn
        <5>. QED
            BY <4>1, <5>1, <5>2, <5>3, WritesLeaveCore, IngestsLeaveCore,
               ReadsLeaveCore DEF Stores
      <4>2. ASSUME NEW q \in Proc, Restart(q)
            PROVE  core'[p] \subseteq core[p]
          BY <4>2 DEF Restart, Shape, Fn
      <4>3. Sweep \/ Tick \/ Lapse \/ UNCHANGED vars => UNCHANGED core
          BY DEF Sweep, Tick, Lapse, vars, pipelineVars
      <4>. QED
          BY <1>2, <2>2, <4>1, <4>2, <4>3 DEF Next, Answering
    <3>. QED
        BY <1>2, <2>2, <3>1, FillCacheStep
  <2>. QED
      BY <2>1, <2>2
<1>. QED
    BY <1>1, <1>2 DEF CoreInv

LEMMA CoreInit ==
    ASSUME Init
    PROVE  CoreInv
BY DEF Init, PipelineInit, NoView, CoreInv, ViewCoreOK

LEMMA CoreInvariant ==
    ASSUME EditsAreNotRetold
    PROVE  Spec => [](Shape /\ EditInv /\ CoreInv)
<1>1. Init => Shape /\ EditInv /\ CoreInv
    BY ShapeInit, EditInit, CoreInit
<1>2. Shape /\ EditInv /\ CoreInv /\ [Next]_vars => (Shape /\ EditInv /\ CoreInv)'
    BY ShapeStep, EditStep, CoreStep
<1>. QED
    BY <1>1, <1>2, PTL DEF Spec

\* A user who edited a memory is not served the old one from the cache of the process that
\* made the edit, unless the entry's reads began before the edit was done: the invalidation
\* after the edit catches every other entry (memory.py:5083 and 5174).
THEOREM FreshCoreHolds == EditsAreNotRetold => (Spec => []FreshCore)
<1>. SUFFICES ASSUME EditsAreNotRetold
              PROVE  Spec => []FreshCore
    OBVIOUS
<1>1. ASSUME Shape, CoreInv
      PROVE  FreshCore
  <2>. SUFFICES ASSUME NEW d \in Changes, NEW c \in Call, view[c].entry # None,
                       d \in view[c].told, JobOf[c].proc = JobOf[d].proc,
                       JobOf[c].user = JobOf[d].user,
                       Removed(d) \cap view[c].entry.ids # {}
                PROVE  d \in view[c].entry.set /\ d \notin view[c].entry.began
      BY DEF FreshCore
  <2>1. ViewCoreOK(c) /\ Hits(d, view[c].entry.ids)
      BY <1>1 DEF CoreInv, Hits
  <2>. QED
      BY <2>1 DEF ViewCoreOK, EntryOK, Near
<1>2. Spec => [](Shape /\ EditInv /\ CoreInv)
    BY CoreInvariant
<1>. QED
    BY <1>1, <1>2, PTL

\* In whatever process, an edited memory is served from a cache for the time to live of the
\* entry at most, counted from the end of the edit (TTLCache, cache.py:44).
THEOREM StaleCoreEndsHolds == EditsAreNotRetold => (Spec => []StaleCoreEnds)
<1>. SUFFICES ASSUME EditsAreNotRetold
              PROVE  Spec => []StaleCoreEnds
    OBVIOUS
<1>1. ASSUME Shape, CoreInv
      PROVE  StaleCoreEnds
  <2>. SUFFICES ASSUME NEW d \in Changes, NEW c \in Call, view[c].entry # None,
                       d \in view[c].told, Removed(d) \cap view[c].entry.ids # {}
                PROVE  view[c].at - ended[d] <= CacheTTL
      BY DEF StaleCoreEnds
  <2>1. ViewCoreOK(c) /\ Hits(d, view[c].entry.ids)
      BY <1>1 DEF CoreInv, Hits
  <2>2. /\ view[c].entry.at \in Nat /\ view[c].at \in Nat
        /\ view[c].at <= view[c].entry.at + CacheTTL /\ view[c].entry.at <= ended[d]
      BY <2>1 DEF ViewCoreOK, EntryOK
  <2>3. ended[d] \in Nat
      BY <1>1 DEF Shape, Changes, Done
  <2>. QED
      BY <2>2, <2>3, PipelineAssumption
<1>2. Spec => [](Shape /\ EditInv /\ CoreInv)
    BY CoreInvariant
<1>. QED
    BY <1>1, <1>2, PTL

----------------------------------------------------------------------------
(* A replica keeps a live copy of a session.                               *)

CopyOK(r) ==
    r # Gone => /\ {"touched", "known"} \subseteq DOMAIN r
                /\ r.touched \in Nat /\ r.touched <= now

CopyInv ==
    /\ Fn(cached, Proc) /\ (\A p \in Proc : Fn(cached[p], Session)) /\ Fn(backend, Session)
    /\ \A s \in Session : CopyOK(backend[s]) /\ \A p \in Proc : CopyOK(cached[p][s])

\* What an operation of process p on session s may do: it puts r, and leaves the rest.
Puts(p, s, r) ==
    /\ now' = now /\ CopyOK(r)
    /\ cached' = [cached EXCEPT ![p][s] = r]
    /\ Fn(backend', Session)
    /\ \A t \in Session : backend'[t] \in {backend[t], Gone} \/ (t = s /\ backend'[t] = r)

\* ... and what it does not when it leaves the copy that was there alive.
Spares(p, s, r) ==
    Alive(cached[p][s]) => /\ r # Gone /\ r.touched >= cached[p][s].touched
                           /\ cached[p][s].known \subseteq r.known

LEMMA HeldOK ==
    ASSUME CopyInv, NEW p \in Proc, NEW s \in Session
    PROVE  CopyOK(Held(p, s)) /\ Spares(p, s, Held(p, s))
<1>1. /\ CopyOK(backend[s]) /\ CopyOK(cached[p][s])
    BY DEF CopyInv
<1>2. CopyOK(Held(p, s))
    BY <1>1 DEF Held, Loaded, CopyOK
<1>3. ASSUME Alive(cached[p][s])
      PROVE  /\ Held(p, s) # Gone /\ Held(p, s).touched >= cached[p][s].touched
             /\ cached[p][s].known \subseteq Held(p, s).known
  <2>1. cached[p][s] # Gone /\ Held(p, s) = cached[p][s]
      BY <1>3 DEF Alive, Held
  <2>. QED
      BY <1>1, <2>1 DEF CopyOK
<1>. QED
    BY <1>2, <1>3 DEF Spares

\* A load may remove a session from the store.
LEMMA StoreThen ==
    ASSUME CopyInv, NEW p, NEW s
    PROVE  /\ Fn(BackendThen(p, s), Session)
           /\ \A t \in Session : BackendThen(p, s)[t] \in {backend[t], Gone}
BY DEF BackendThen, AfterLoad, CopyInv, Fn

\* The operations of the session store.
LEMMA PutsRead ==
    ASSUME CopyInv, NEW p \in Proc, NEW s \in Session, ReadSession(p, s)
    PROVE  Puts(p, s, Held(p, s)) /\ Spares(p, s, Held(p, s))
BY HeldOK, StoreThen DEF ReadSession, Puts

LEMMA PutsGet ==
    ASSUME CopyInv, NEW p \in Proc, NEW s \in Session, GetSession(p, s)
    PROVE  \E r : Puts(p, s, r) /\ Spares(p, s, r)
<1>1. PICK r : r = (IF Alive(Held(p, s)) THEN Held(p, s) ELSE Gone)
    OBVIOUS
<1>2. cached' = [cached EXCEPT ![p][s] = r] /\ now' = now
    BY <1>1 DEF GetSession
<1>3. CopyOK(r)
    BY <1>1, HeldOK DEF CopyOK
<1>4. Spares(p, s, r)
  <2>1. Alive(cached[p][s]) => r = Held(p, s)
      BY <1>1 DEF Alive, Held
  <2>. QED
      BY <2>1, HeldOK DEF Spares
<1>5. /\ Fn(backend', Session)
      /\ \A t \in Session : backend'[t] \in {backend[t], Gone}
  <2>1. backend' = [backend EXCEPT ![s] = Gone] \/ backend' = BackendThen(p, s)
      BY DEF GetSession
  <2>. QED
      BY <2>1, StoreThen DEF CopyInv, Fn
<1>. QED
    BY <1>2, <1>3, <1>4, <1>5 DEF Puts

\* `new` is what a change makes of the record that is held.
Renews(r, new) ==
    (r # Gone /\ CopyOK(r)) => /\ new # Gone /\ CopyOK(new)
                               /\ new.touched >= r.touched /\ r.known \subseteq new.known

LEMMA PutsSaved ==
    ASSUME CopyInv, NEW p \in Proc, NEW s \in Session, NEW stored, NEW r,
           Fn(stored, Session), \A t \in Session : stored[t] \in {backend[t], Gone},
           backend' \in Saved(p, stored, s, r)
    PROVE  /\ Fn(backend', Session)
           /\ \A t \in Session : backend'[t] \in {backend[t], Gone} \/ (t = s /\ backend'[t] = r)
<1>1. backend' = [stored EXCEPT ![s] = r] \/ backend' = stored
    BY DEF Saved
<1>. QED
    BY <1>1 DEF Fn

LEMMA PutsChanged ==
    ASSUME CopyInv, NEW p \in Proc, NEW s \in Session, NEW new, Changed(p, s, new),
           Renews(Held(p, s), new)
    PROVE  \E r : Puts(p, s, r) /\ Spares(p, s, r)
<1>1. PICK h : h = Held(p, s)
    OBVIOUS
<1>2. PICK r : r = (IF Alive(h) THEN new ELSE h)
    OBVIOUS
<1>3. /\ cached' = [cached EXCEPT ![p][s] = r] /\ now' = now
      /\ backend' \in Saved(p, BackendThen(p, s), s, r) \/ backend' = BackendThen(p, s)
    BY <1>1, <1>2 DEF Changed
<1>4. CopyOK(h) /\ Spares(p, s, h) /\ Renews(h, new)
    BY <1>1, HeldOK
<1>5. CopyOK(r)
    BY <1>2, <1>4 DEF Renews, Alive
<1>6. Spares(p, s, r)
  <2>1. ASSUME Alive(cached[p][s])
        PROVE  r # Gone /\ r.touched >= cached[p][s].touched /\ cached[p][s].known \subseteq r.known
    <3>1. h = cached[p][s] /\ h # Gone /\ r = new
        BY <1>1, <1>2, <2>1 DEF Alive, Held
    <3>. QED
        BY <1>4, <3>1 DEF Renews
  <2>. QED
      BY <2>1 DEF Spares
<1>7. /\ Fn(backend', Session)
      /\ \A t \in Session : backend'[t] \in {backend[t], Gone} \/ (t = s /\ backend'[t] = r)
    BY <1>3, StoreThen, PutsSaved
<1>. QED
    BY <1>3, <1>5, <1>6, <1>7 DEF Puts

LEMMA PutsNew ==
    ASSUME CopyInv, now \in Nat, NEW p \in Proc, NEW s \in Session, CreateSession(p, s)
    PROVE  \E r : Puts(p, s, r)
<1>1. PICK new : /\ new = [touched |-> now, known |-> {}, facts |-> <<>>, summary |-> {}]
                 /\ cached' = [cached EXCEPT ![p][s] = new]
                 /\ backend' \in Saved(p, backend, s, new)
                 /\ now' = now
    BY DEF CreateSession
<1>2. CopyOK(new)
  <2>1. {"touched", "known"} \subseteq DOMAIN new /\ new.touched = now
      BY <1>1
  <2>. QED
      BY <2>1 DEF CopyOK
<1>3. Fn(backend, Session) /\ \A t \in Session : backend[t] \in {backend[t], Gone}
    BY DEF CopyInv
<1>4. /\ Fn(backend', Session)
      /\ \A t \in Session : backend'[t] \in {backend[t], Gone} \/ (t = s /\ backend'[t] = new)
    BY <1>1, <1>3, PutsSaved
<1>. QED
    BY <1>1, <1>2, <1>4 DEF Puts

\* What a call does to the sessions.
Uses(c) ==
    /\ now' = now
    /\ \/ UNCHANGED <<backend, cached>>
       \/ \E s \in Session : \E r :
             /\ Puts(JobOf[c].proc, s, r)
             /\ (OpenSession(c) /\ view[c].session = s) \/ Spares(JobOf[c].proc, s, r)

\* The writing calls that do not use the session.
Quietly(c) ==
    ~(\/ Acquire(c) \/ RecordFacts(c) \/ AppendTurn(c) \/ ReadSummary(c) \/ Compact(c)
      \/ WriteRow(c) \/ Prolong(c) \/ Track(c))

LEMMA WritesLeaveSessions ==
    ASSUME NEW c \in Call, Writes(c), Quietly(c)
    PROVE  UNCHANGED <<sessionVars, left>>
<1>1. CASE GetLock(c)
    BY <1>1 DEF GetLock
<1>2. CASE Acquire(c)
    BY <1>2 DEF Quietly
<1>3. CASE Extract(c)
    BY <1>3 DEF Extract
<1>4. CASE Plan(c)
    BY <1>4 DEF Plan
<1>5. CASE Infer(c)
    BY <1>5 DEF Infer
<1>6. CASE Act(c)
    BY <1>6 DEF Act
<1>7. CASE Revise(c)
    BY <1>7 DEF Revise
<1>8. CASE Acted(c)
    BY <1>8 DEF Acted
<1>9. CASE SaveArtifact(c)
    BY <1>9 DEF SaveArtifact
<1>10. CASE ReadArtifacts(c)
    BY <1>10 DEF ReadArtifacts
<1>11. CASE LinkArtifact(c)
    BY <1>11 DEF LinkArtifact
<1>12. CASE Linked(c)
    BY <1>12 DEF Linked
<1>13. CASE AddDirect(c)
    BY <1>13 DEF AddDirect
<1>14. CASE Update(c)
    BY <1>14 DEF Update
<1>15. CASE Delete(c)
    BY <1>15 DEF Delete
<1>16. CASE Release(c)
    BY <1>16 DEF Release
<1>17. CASE Invalidate(c)
    BY <1>17 DEF Invalidate
<1>. QED
    BY <1>1, <1>2, <1>3, <1>4, <1>5, <1>6, <1>7, <1>8, <1>9, <1>10, <1>11, <1>12, <1>13, <1>14,
       <1>15, <1>16, <1>17 DEF Writes, Quietly

LEMMA IngestsLeaveSessions ==
    ASSUME NEW c \in Call, Ingests(c)
    PROVE  UNCHANGED <<sessionVars, left>>
<1>1. CASE Prepare(c)
    BY <1>1 DEF Prepare, quietly
<1>2. CASE ClaimContent(c)
    BY <1>2 DEF ClaimContent, quietly
<1>3. CASE TakeOver(c)
    BY <1>3 DEF TakeOver, quietly
<1>4. CASE Wait(c)
    BY <1>4 DEF Wait, quietly
<1>5. CASE Resume(c)
    BY <1>5 DEF Resume, quietly
<1>6. CASE Guard(c)
    BY <1>6 DEF Guard, quietly
<1>7. CASE Insert(c)
    BY <1>7 DEF Insert, quietly
<1>8. CASE Complete(c)
    BY <1>8 DEF Complete, quietly
<1>9. CASE Commit(c)
    BY <1>9 DEF Commit, quietly
<1>10. CASE Refresh(c)
    BY <1>10 DEF Refresh, quietly
<1>. QED
    BY <1>1, <1>2, <1>3, <1>4, <1>5, <1>6, <1>7, <1>8, <1>9, <1>10 DEF Ingests

LEMMA ReadsLeaveSessions ==
    ASSUME NEW c \in Call, Reads(c),
           ~(\/ Begin(c) \/ ProlongSession(c) \/ OpenSession(c) \/ DeliverCore(c)
             \/ ReadKnown(c) \/ Deliver(c))
    PROVE  UNCHANGED <<sessionVars, left>>
<1>1. CASE ReadCache(c)
    BY <1>1 DEF ReadCache, quiet
<1>2. CASE ReadCore(c)
    BY <1>2 DEF ReadCore, quiet
<1>3. CASE FillCache(c)
    BY <1>3 DEF FillCache, quiet
<1>4. CASE Find(c)
    BY <1>4 DEF Find, quiet
<1>5. CASE ReadDelivered(c)
    BY <1>5 DEF ReadDelivered, quiet
<1>6. CASE SearchDecayed(c)
    BY <1>6 DEF SearchDecayed, quiet
<1>7. CASE MarkDecayed(c)
    BY <1>7 DEF MarkDecayed
<1>8. CASE TrackAccess(c)
    BY <1>8 DEF TrackAccess
<1>. QED
    BY <1>1, <1>2, <1>3, <1>4, <1>5, <1>6, <1>7, <1>8 DEF Reads

\* A recall without a session of its own changes nothing.
LEMMA NoSession ==
    ASSUME CopyInv, NEW p, NEW s, s \notin Session, NEW r, NEW r2,
           cached' = [cached EXCEPT ![p][s] = r],
           \/ backend' \in {BackendThen(p, s), [backend EXCEPT ![s] = r]}
           \/ backend' = [BackendThen(p, s) EXCEPT ![s] = r2]
           \/ backend' = backend
    PROVE  UNCHANGED <<backend, cached>>
<1>1. [backend EXCEPT ![s] = Gone] = backend
    BY DEF CopyInv, Fn
<1>2. BackendThen(p, s) = backend
    BY <1>1 DEF BackendThen, AfterLoad
<1>3. \A x : [backend EXCEPT ![s] = x] = backend
    BY DEF CopyInv, Fn
<1>4. backend' = backend
    BY <1>2, <1>3
<1>5. \A x : p \in Proc => [cached[p] EXCEPT ![s] = x] = cached[p]
    BY DEF CopyInv, Fn
<1>6. cached' = [cached EXCEPT ![p] = [cached[p] EXCEPT ![s] = r]]
    OBVIOUS
<1>7. cached' = cached
    BY <1>5, <1>6 DEF CopyInv, Fn
<1>. QED
    BY <1>4, <1>7

LEMMA UsesRead ==
    ASSUME CopyInv, NEW c \in Call, NEW s, ReadSession(JobOf[c].proc, s)
    PROVE  Uses(c)
<1>1. JobOf[c].proc \in Proc
    BY PipelineAssumption DEF Job
<1>2. CASE s \in Session
  <2>1. now' = now
      BY DEF ReadSession
  <2>. QED
      BY <1>1, <1>2, <2>1, PutsRead DEF Uses
<1>3. CASE s \notin Session
  <2>1. /\ cached' = [cached EXCEPT ![JobOf[c].proc][s] = Held(JobOf[c].proc, s)]
        /\ backend' = BackendThen(JobOf[c].proc, s) /\ now' = now
      BY DEF ReadSession
  <2>. QED
      BY <1>3, <2>1, NoSession DEF Uses
<1>. QED
    BY <1>2, <1>3

LEMMA UsesChanged ==
    ASSUME CopyInv, NEW c \in Call, NEW s, NEW new, Changed(JobOf[c].proc, s, new),
           Renews(Held(JobOf[c].proc, s), new)
    PROVE  Uses(c)
<1>1. JobOf[c].proc \in Proc
    BY PipelineAssumption DEF Job
<1>2. now' = now
    BY DEF Changed
<1>3. CASE s \in Session
    BY <1>1, <1>2, <1>3, PutsChanged DEF Uses
<1>4. CASE s \notin Session
  <2>. DEFINE p == JobOf[c].proc
  <2>1. PICK r : cached' = [cached EXCEPT ![p][s] = r]
      BY DEF Changed
  <2>2. \/ backend' = BackendThen(p, s)
        \/ backend' = [BackendThen(p, s) EXCEPT ![s] = new]
      BY DEF Changed, Saved
  <2>. QED
      BY <1>2, <1>4, <2>1, <2>2, NoSession DEF Uses
<1>. QED
    BY <1>3, <1>4

LEMMA UsesTouch ==
    ASSUME CopyInv, now \in Nat, NEW c \in Call, NEW s, Touch(JobOf[c].proc, s)
    PROVE  Uses(c)
<1>1. PICK h : h = Held(JobOf[c].proc, s)
    OBVIOUS
<1>2. PICK new : new = [h EXCEPT !.touched = now]
    OBVIOUS
<1>3. Renews(h, new)
  <2>1. ASSUME h # Gone, CopyOK(h)
        PROVE  /\ {"touched", "known"} \subseteq DOMAIN new
               /\ new.touched = now /\ new.known = h.known /\ h.touched \in Nat /\ h.touched <= now
      BY <1>2, <2>1 DEF CopyOK
  <2>2. Gone.touched = -1
      BY DEF Gone
  <2>. QED
      BY <2>1, <2>2 DEF Renews, CopyOK
<1>4. Changed(JobOf[c].proc, s, new)
    BY <1>1, <1>2 DEF Touch
<1>. QED
    BY <1>1, <1>3, <1>4, UsesChanged

\* A change that keeps the time of use and what is known.
LEMMA UsesSame ==
    ASSUME CopyInv, NEW c \in Call, NEW s, NEW new, Changed(JobOf[c].proc, s, new),
           LET h == Held(JobOf[c].proc, s) IN
               (h # Gone /\ {"touched", "known"} \subseteq DOMAIN h) =>
                   /\ {"touched", "known"} \subseteq DOMAIN new
                   /\ new.touched = h.touched /\ h.known \subseteq new.known
    PROVE  Uses(c)
<1>1. PICK h : h = Held(JobOf[c].proc, s)
    OBVIOUS
<1>2. Renews(h, new)
  <2>1. Gone.touched = -1
      BY DEF Gone
  <2>. QED
      BY <1>1, <2>1 DEF Renews, CopyOK
<1>. QED
    BY <1>1, <1>2, UsesChanged

LEMMA UsesKnown ==
    ASSUME CopyInv, NEW c \in Call, NEW s, NEW ids, AddKnown(JobOf[c].proc, s, ids)
    PROVE  Uses(c)
<1>1. CASE ids = {}
    BY <1>1 DEF AddKnown, sessionVars, Uses
<1>2. CASE ids # {}
  <2>1. PICK new : /\ new = [Held(JobOf[c].proc, s) EXCEPT !.known = @ \cup ids]
                   /\ Changed(JobOf[c].proc, s, new)
      BY <1>2 DEF AddKnown
  <2>. QED
      BY <2>1, UsesSame
<1>. QED
    BY <1>1, <1>2

\* Action by action.
LEMMA WritesUse ==
    ASSUME CopyInv, now \in Nat, NEW c \in Call, Writes(c)
    PROVE  Uses(c)
<1>. DEFINE j == JobOf[c]
            h == Held(j.proc, j.session)
<1>1. CASE RecordFacts(c)
  <2>1. CASE UNCHANGED sessionVars
      BY <2>1 DEF Uses, sessionVars
  <2>2. CASE ~UNCHANGED sessionVars
    <3>1. PICK f : Changed(j.proc, j.session, [h EXCEPT !.facts = f])
        BY <1>1, <2>2 DEF RecordFacts, AddExtracted
    <3>. QED
        BY <3>1, UsesSame
  <2>. QED
      BY <2>1, <2>2
<1>2. CASE AppendTurn(c)
  <2>1. PICK x : Changed(j.proc, j.session, [h EXCEPT !.summary = x])
      BY <1>2 DEF AppendTurn, AppendSummary
  <2>. QED
      BY <2>1, UsesSame
<1>3. CASE ReadSummary(c)
    BY <1>3, UsesRead DEF ReadSummary
<1>4. CASE Compact(c)
  <2>1. CASE UNCHANGED sessionVars
      BY <2>1 DEF Uses, sessionVars
  <2>2. CASE SetSummary(j.proc, j.session, work[c].seen)
    <3>1. PICK x : Changed(j.proc, j.session, [h EXCEPT !.summary = x])
        BY <2>2 DEF SetSummary
    <3>. QED
        BY <3>1, UsesSame
  <2>. QED
      BY <1>4, <2>1, <2>2 DEF Compact
<1>5. CASE WriteRow(c)
    BY <1>5, UsesRead DEF WriteRow
<1>6. CASE Prolong(c)
    BY <1>6, UsesTouch DEF Prolong
<1>7. CASE Track(c)
    BY <1>7, UsesKnown DEF Track
<1>8. CASE Quietly(c)
    BY <1>8, WritesLeaveSessions DEF Uses, sessionVars
<1>9. CASE Acquire(c)
  <2>1. UNCHANGED sessionVars \/ ReadSession(j.proc, j.session)
      BY <1>9 DEF Acquire
  <2>2. CASE UNCHANGED sessionVars
      BY <2>2 DEF Uses, sessionVars
  <2>. QED
      BY <2>1, <2>2, UsesRead
<1>. QED
    BY <1>1, <1>2, <1>3, <1>4, <1>5, <1>6, <1>7, <1>8, <1>9 DEF Quietly

LEMMA ReadsUse ==
    ASSUME CopyInv, now \in Nat, NEW c \in Call, Reads(c)
    PROVE  Uses(c)
<1>. DEFINE j == JobOf[c]
            s == view[c].session
<1>p. j.proc \in Proc
    BY PipelineAssumption DEF Job
<1>1. CASE Begin(c)
  <2>1. CASE UNCHANGED sessionVars
      BY <2>1 DEF Uses, sessionVars
  <2>2. CASE j.session # None /\ GetSession(j.proc, j.session)
    <3>1. j.session \in Session
        BY <2>2, PipelineAssumption DEF Job
    <3>2. now' = now
        BY <2>2 DEF GetSession
    <3>. QED
        BY <1>p, <2>2, <3>1, <3>2, PutsGet DEF Uses
  <2>. QED
      BY <1>1, <2>1, <2>2 DEF Begin
<1>2. CASE ProlongSession(c)
    BY <1>2, UsesTouch DEF ProlongSession
<1>3. CASE OpenSession(c)
  <2>1. CreateSession(j.proc, s)
      BY <1>3 DEF OpenSession
  <2>2. now' = now
      BY <2>1 DEF CreateSession
  <2>3. CASE s \in Session
    <3>1. PICK r : Puts(j.proc, s, r)
        BY <1>p, <2>1, <2>3, PutsNew
    <3>. QED
        BY <1>3, <2>2, <2>3, <3>1 DEF Uses
  <2>4. CASE s \notin Session
    <3>1. PICK r : /\ cached' = [cached EXCEPT ![j.proc][s] = r]
                   /\ backend' \in Saved(j.proc, backend, s, r)
        BY <2>1 DEF CreateSession
    <3>2. backend' = [backend EXCEPT ![s] = r] \/ backend' = backend
        BY <3>1 DEF Saved
    <3>. QED
        BY <2>2, <2>4, <3>1, <3>2, NoSession DEF Uses
  <2>. QED
      BY <2>3, <2>4
<1>4. CASE DeliverCore(c)
  <2>1. CASE UNCHANGED sessionVars
      BY <2>1 DEF Uses, sessionVars
  <2>2. CASE AddKnown(j.proc, s, view[c].core)
      BY <2>2, UsesKnown
  <2>. QED
      BY <1>4, <2>1, <2>2 DEF DeliverCore
<1>5. CASE ReadKnown(c)
    BY <1>5, UsesRead DEF ReadKnown
<1>6. CASE Deliver(c)
  <2>1. PICK ids : AddKnown(j.proc, s, ids)
      BY <1>6 DEF Deliver
  <2>. QED
      BY <2>1, UsesKnown
<1>7. CASE ~(\/ Begin(c) \/ ProlongSession(c) \/ OpenSession(c) \/ DeliverCore(c)
             \/ ReadKnown(c) \/ Deliver(c))
    BY <1>7, ReadsLeaveSessions DEF Uses, sessionVars
<1>. QED
    BY <1>1, <1>2, <1>3, <1>4, <1>5, <1>6, <1>7

\* A copy that a step leaves as it is.
LEMMA SameCopy ==
    ASSUME CopyInv, NEW p \in Proc, NEW s \in Session, Alive(cached[p][s]),
           cached'[p][s] = cached[p][s]
    PROVE  KeepsCopy(p, s)
<1>1. cached[p][s] # Gone /\ CopyOK(cached[p][s])
    BY DEF CopyInv, Alive
<1>. QED
    BY <1>1 DEF KeepsCopy, CopyOK

LEMMA PutsStep ==
    ASSUME CopyInv, NEW p \in Proc, NEW s \in Session, NEW r, Puts(p, s, r)
    PROVE  /\ CopyInv'
           /\ \A q \in Proc, t \in Session :
                 IF q = p /\ t = s THEN cached'[q][t] = r ELSE cached'[q][t] = cached[q][t]
<1>1. /\ Fn(cached', Proc) /\ \A q \in Proc : Fn(cached'[q], Session)
      /\ \A q \in Proc, t \in Session :
            IF q = p /\ t = s THEN cached'[q][t] = r ELSE cached'[q][t] = cached[q][t]
    BY DEF Puts, CopyInv, Fn
<1>2. ASSUME NEW x, CopyOK(x)
      PROVE  CopyOK(x)'
    BY <1>2 DEF Puts, CopyOK
<1>3. CopyOK(Gone) /\ CopyOK(r)
    BY DEF CopyOK, Puts
<1>4. ASSUME NEW t \in Session
      PROVE  CopyOK(backend[t])' /\ \A q \in Proc : CopyOK(cached[q][t])'
  <2>1. backend'[t] \in {backend[t], Gone, r}
      BY DEF Puts
  <2>2. \A q \in Proc : cached'[q][t] \in {cached[q][t], r}
      BY <1>1
  <2>3. now' = now /\ CopyOK(backend[t]) /\ \A q \in Proc : CopyOK(cached[q][t])
      BY DEF Puts, CopyInv
  <2>. QED
      BY <1>3, <2>1, <2>2, <2>3 DEF CopyOK
<1>5. Fn(backend', Session)
    BY DEF Puts
<1>. QED
    BY <1>1, <1>4, <1>5 DEF CopyInv

\* What is claimed of one step.
CopiesKept ==
    \A p \in Proc, s \in Session :
        (Alive(cached[p][s]) /\ ~Restart(p) /\ ~Opens(p, s)) => KeepsCopy(p, s)

LEMMA SameSessions ==
    ASSUME CopyInv, UNCHANGED <<backend, cached>>, now \in Nat, now' \in Nat, now <= now'
    PROVE  CopyInv' /\ CopiesKept
<1>1. CopiesKept
    BY SameCopy DEF CopiesKept
<1>2. ASSUME NEW x, CopyOK(x)
      PROVE  x # Gone => {"touched", "known"} \subseteq DOMAIN x /\ x.touched \in Nat
                         /\ x.touched <= now'
    BY <1>2 DEF CopyOK
<1>3. ASSUME NEW s \in Session
      PROVE  CopyOK(backend[s])' /\ \A p \in Proc : CopyOK(cached[p][s])'
    BY <1>2 DEF CopyOK, CopyInv
<1>. QED
    BY <1>1, <1>3 DEF CopyInv

LEMMA UsesStep ==
    ASSUME CopyInv, now \in Nat, NEW c \in Call, Uses(c)
    PROVE  CopyInv' /\ CopiesKept
<1>1. CASE UNCHANGED <<backend, cached>>
    BY <1>1, SameSessions DEF Uses
<1>2. ASSUME NEW s \in Session, NEW r, Puts(JobOf[c].proc, s, r),
             (OpenSession(c) /\ view[c].session = s) \/ Spares(JobOf[c].proc, s, r)
      PROVE  CopyInv' /\ CopiesKept
  <2>1. JobOf[c].proc \in Proc
      BY PipelineAssumption DEF Job
  <2>2. /\ CopyInv'
        /\ \A q \in Proc, t \in Session :
              IF q = JobOf[c].proc /\ t = s THEN cached'[q][t] = r
                                            ELSE cached'[q][t] = cached[q][t]
      BY <1>2, <2>1, PutsStep
  <2>3. ASSUME NEW q \in Proc, NEW t \in Session, Alive(cached[q][t]), ~Opens(q, t)
        PROVE  KeepsCopy(q, t)
    <3>1. CASE q = JobOf[c].proc /\ t = s
      <4>1. Spares(q, t, r)
          BY <1>2, <2>3, <3>1 DEF Opens
      <4>. QED
          BY <2>2, <2>3, <3>1, <4>1 DEF Spares, KeepsCopy
    <3>2. CASE ~(q = JobOf[c].proc /\ t = s)
        BY <2>2, <2>3, <3>2, SameCopy
    <3>. QED
        BY <3>1, <3>2
  <2>. QED
      BY <2>2, <2>3 DEF CopiesKept
<1>. QED
    BY <1>1, <1>2 DEF Uses

\* A sweep removes idle sessions only.
LEMMA SweepsStep ==
    ASSUME CopyInv, now \in Nat, SweepBackend \/ (\E p \in Proc : SweepCache(p))
    PROVE  CopyInv' /\ CopiesKept
<1>0. now' = now
    BY DEF SweepBackend, SweepCache
<1>1. CASE SweepBackend
  <2>1. /\ Fn(backend', Session) /\ cached' = cached
        /\ \A s \in Session : backend'[s] \in {backend[s], Gone}
      BY <1>1 DEF SweepBackend, Fn
  <2>2. CopiesKept
      BY <2>1, SameCopy DEF CopiesKept
  <2>3. ASSUME NEW s \in Session
        PROVE  CopyOK(backend[s])' /\ \A p \in Proc : CopyOK(cached[p][s])'
      BY <1>0, <2>1 DEF CopyInv, CopyOK
  <2>. QED
      BY <2>1, <2>2, <2>3 DEF CopyInv
<1>2. ASSUME NEW p \in Proc, SweepCache(p)
      PROVE  CopyInv' /\ CopiesKept
  <2>1. /\ Fn(cached', Proc) /\ (\A q \in Proc : Fn(cached'[q], Session)) /\ backend' = backend
        /\ \A q \in Proc \ {p} : cached'[q] = cached[q]
        /\ \A s \in Session : cached'[p][s] = IF Idle(cached[p][s]) THEN Gone ELSE cached[p][s]
      BY <1>2 DEF SweepCache, Fn, CopyInv
  <2>2. ASSUME NEW q \in Proc, NEW s \in Session, Alive(cached[q][s])
        PROVE  KeepsCopy(q, s)
    <3>1. cached'[q][s] = cached[q][s]
        BY <2>1, <2>2 DEF Alive
    <3>. QED
        BY <2>2, <3>1, SameCopy
  <2>3. ASSUME NEW s \in Session
        PROVE  CopyOK(backend[s])' /\ \A q \in Proc : CopyOK(cached[q][s])'
    <3>1. \A q \in Proc : cached'[q][s] \in {cached[q][s], Gone}
        BY <2>1
    <3>. QED
        BY <1>0, <2>1, <3>1 DEF CopyInv, CopyOK
  <2>. QED
      BY <2>1, <2>2, <2>3 DEF CopyInv, CopiesKept
<1>. QED
    BY <1>1, <1>2

\* A process that restarts loses its own copies.
LEMMA RestartStep ==
    ASSUME CopyInv, now \in Nat, NEW p \in Proc, Restart(p)
    PROVE  CopyInv' /\ CopiesKept
<1>1. /\ Fn(cached', Proc) /\ (\A q \in Proc : Fn(cached'[q], Session)) /\ backend' = backend
      /\ \A q \in Proc \ {p} : cached'[q] = cached[q]
      /\ \A s \in Session : cached'[p][s] = Gone
      /\ now' = now
    BY DEF Restart, DropCache, Fn, CopyInv
<1>2. CopiesKept
    BY <1>1, SameCopy DEF CopiesKept
<1>3. ASSUME NEW s \in Session
      PROVE  CopyOK(backend[s])' /\ \A q \in Proc : CopyOK(cached[q][s])'
  <2>1. \A q \in Proc : cached'[q][s] \in {cached[q][s], Gone}
      BY <1>1
  <2>. QED
      BY <1>1, <2>1 DEF CopyInv, CopyOK
<1>. QED
    BY <1>1, <1>2, <1>3 DEF CopyInv

LEMMA CopyStep ==
    ASSUME Shape, CopyInv, [Next]_vars
    PROVE  CopyInv' /\ CopiesKept
<1>0. now \in Nat
    BY DEF Shape
<1>1. ASSUME NEW c \in Call, Reads(c) \/ Stores(c)
      PROVE  CopyInv' /\ CopiesKept
  <2>1. Uses(c)
    <3>1. CASE Ingests(c)
        BY <3>1, IngestsLeaveSessions DEF Uses, sessionVars
    <3>. QED
        BY <1>0, <1>1, <3>1, WritesUse, ReadsUse DEF Stores
  <2>. QED
      BY <1>0, <2>1, UsesStep
<1>2. CASE Sweep
    BY <1>0, <1>2, SweepsStep DEF Sweep
<1>3. CASE Tick
  <2>1. UNCHANGED <<backend, cached>> /\ now' = now + 1
      BY <1>3 DEF Tick
  <2>. QED
      BY <1>0, <2>1, SameSessions
<1>4. CASE Lapse \/ UNCHANGED vars
  <2>1. UNCHANGED <<backend, cached, now>>
      BY <1>4 DEF Lapse, vars, pipelineVars, sessionVars
  <2>. QED
      BY <1>0, <2>1, SameSessions
<1>. QED
    BY <1>0, <1>1, <1>2, <1>3, <1>4, RestartStep DEF Next, Answering

LEMMA CopyInit ==
    ASSUME Init
    PROVE  CopyInv
<1>1. /\ backend = [s \in Session |-> IF s \in Opened THEN FreshRecord ELSE Gone]
      /\ cached = [p \in Proc |-> [s \in Session |-> Gone]] /\ now = 0
    BY DEF Init, PipelineInit
<1>2. CopyOK(FreshRecord) /\ CopyOK(Gone)
  <2>1. FreshRecord.touched = 0 /\ {"touched", "known"} \subseteq DOMAIN FreshRecord
      BY DEF FreshRecord
  <2>. QED
      BY <1>1, <2>1 DEF CopyOK
<1>. QED
    BY <1>1, <1>2 DEF CopyInv, Fn

\* A replica forgets a session that is alive to it, or something the session knows, by its
\* own restart only: not because another replica found it idle and deleted it, swept it
\* from the store or wrote it back older, nor because its own writes were lost
\* (session.py:191-245).
THEOREM LiveCopyKeptHolds == Spec => LiveCopyKept
<1>1. Init => Shape /\ CopyInv
    BY ShapeInit, CopyInit
<1>2. Shape /\ CopyInv /\ [Next]_vars => (Shape /\ CopyInv)' /\ CopiesKept
    BY ShapeStep, CopyStep
<1>3. Spec => [][CopiesKept]_vars
    BY <1>1, <1>2, PTL DEF Spec
<1>. QED
    BY <1>3 DEF LiveCopyKept, CopiesKept
=============================================================================
