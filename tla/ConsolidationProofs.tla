------------------------- MODULE ConsolidationProofs -------------------------
(***************************************************************************)
(* Theorems about Consolidation, for every value of its constants: any     *)
(* number of turns, runs, claimants of the retry batch and deletions of    *)
(* one session, any of them dying or failing.                              *)
(*                                                                         *)
(* A run decides once which memories it consolidates.  From then on its    *)
(* plan may be known to many: to the run, to the row, to the claimants     *)
(* that recover it, and by its output.  NamesInv says that they all know   *)
(* the same plan, so what a source was marked for is the output that is    *)
(* stored, and that a run nobody struck from the row keeps the claim, with *)
(* its plan, until its sources are hidden, so two such runs never plan the *)
(* same memory.  CallInv says what a process that carries out a plan, its  *)
(* own or another run's, may rely on.                                      *)
(***************************************************************************)
EXTENDS Consolidation, TLAPS

Replies == {"none", "ok", "refused", "skipped", "failed",
            "idle", "consolidating", "consolidated", "timeout"}

\* Where a process acts under its own name.
OwnPhase == {"reset", "claim", "check", "think", "open", "plan", "plan_journal",
             "note", "failing", "fail", "recover",
             "retry_copy", "retry_write", "retry_claim", "retry_look",
             "retry_transfer", "retry_renew", "retry_reset"}
\* Where a process has a plan to carry out, and where it has carried it out.
Carrying == {"open", "plan", "plan_journal", "store", "list", "recover_open", "mark"}
Ending == {"note", "finalize", "final_read", "release", "release_read", "commit"}
\* Where a run, or the recovery of another one, may be.
Shared == (Carrying \cup Ending) \ {"open", "plan", "plan_journal", "note"}

LocalOK(w, where, l) ==
    /\ where \in OwnPhase => l.tok = w
    /\ where \in Carrying => l.tok \in Worker /\ l.left \subseteq l.sources
    /\ where = "retry_transfer" => l.snap.retry # None

StoresTyped ==
    /\ row \in Row /\ links \subseteq Memory
    /\ memory \in [Memory -> Raw]
    /\ output \in [Worker -> SUBSET Memory]
    /\ journal \in [Worker -> {"none", "opened", "planned", "recovering",
                               "marked", "committed"}]
    /\ retry \in RetryRow
    /\ considered \subseteq Memory /\ refused \subseteq Worker
    /\ struck \subseteq Worker

CallsTyped ==
    /\ pc \in [Proc -> Phase]
    /\ loc \in [Proc -> Local]
    /\ reply \in [Proc -> Replies]
    /\ \A w \in Worker : LocalOK(w, pc[w], loc[w])

TypedInv == StoresTyped /\ CallsTyped

----------------------------------------------------------------------------
(* Types.                                                                  *)

LEMMA TypedIsTypeOK == TypedInv => TypeOK
  BY DEF TypedInv, StoresTyped, CallsTyped, TypeOK, Replies

LEMMA NoRowTyped == NoRow \in Row
  BY DEF NoRow, Row, State

LEMMA NoLocalTyped == NoLocal \in Local
  BY NoRowTyped DEF NoLocal, Local, NoRetry, RetryRow

\* A row with one field replaced.
LEMMA RowFields ==
  ASSUME NEW r \in Row
  PROVE  /\ \A v \in State : [r EXCEPT !.state = v] \in Row
         /\ \A v \in Nat : [r EXCEPT !.rev = v] \in Row
         /\ \A v \in SUBSET Memory : [r EXCEPT !.mems = v] \in Row
         /\ \A v \in SUBSET Worker : [r EXCEPT !.outs = v] \in Row
         /\ \A v \in Worker \cup {None} : [r EXCEPT !.token = v] \in Row
         /\ \A v \in (SUBSET Memory) \cup {None} : [r EXCEPT !.plan = v] \in Row
         /\ \A v \in Turn \cup {None} : [r EXCEPT !.upd = v] \in Row
         /\ \A v \in BOOLEAN : [r EXCEPT !.legacy = v] \in Row
         /\ \A v \in Batch \cup {None} : [r EXCEPT !.retry = v] \in Row
         /\ \A v \in BOOLEAN : [r EXCEPT !.live = v] \in Row
<1>1. \A v \in State : [r EXCEPT !.state = v] \in Row
  BY DEF Row
<1>2. \A v \in Nat : [r EXCEPT !.rev = v] \in Row
  BY DEF Row
<1>3. \A v \in SUBSET Memory : [r EXCEPT !.mems = v] \in Row
  BY DEF Row
<1>4. \A v \in SUBSET Worker : [r EXCEPT !.outs = v] \in Row
  BY DEF Row
<1>5. \A v \in Worker \cup {None} : [r EXCEPT !.token = v] \in Row
  BY DEF Row
<1>6. \A v \in (SUBSET Memory) \cup {None} : [r EXCEPT !.plan = v] \in Row
  BY DEF Row
<1>7. \A v \in Turn \cup {None} : [r EXCEPT !.upd = v] \in Row
  BY DEF Row
<1>8. \A v \in BOOLEAN : [r EXCEPT !.legacy = v] \in Row
  BY DEF Row
<1>9. \A v \in Batch \cup {None} : [r EXCEPT !.retry = v] \in Row
  BY DEF Row
<1>10. \A v \in BOOLEAN : [r EXCEPT !.live = v] \in Row
  BY DEF Row
<1> QED
  BY <1>1, <1>2, <1>3, <1>4, <1>5, <1>6, <1>7, <1>8, <1>9, <1>10

\* What the writes of the session row make of a row.
LEMMA RowTyped ==
  ASSUME NEW r \in Row
  PROVE  /\ \A new \in SUBSET Turn : Created(new) \in Row
         /\ \A old \in Row, t \in Turn, new \in SUBSET Turn :
              Turned(r, old, t, new) \in Row
         /\ \A old \in Row, new \in SUBSET Turn : Cleared(r, old, new) \in Row
         /\ \A rev \in Nat, w \in Worker : Claimed(r, rev, w) \in Row
         /\ \A w \in Worker, plan \in SUBSET Memory : Planned(r, w, plan) \in Row
         /\ \A outs \in SUBSET Worker : Listed(r, outs) \in Row
         /\ Failed(r) \in Row /\ Retriable(r) \in Row
         /\ Reset(r) \in Row /\ Legacy(r) \in Row
<1>1. \A new \in SUBSET Turn : new \in SUBSET Memory
  BY DEF Memory
<1>2. \A s \in {"idle", "consolidating", "consolidated", "failed"} : s \in State
  BY DEF State
<1>3. ASSUME NEW new \in SUBSET Turn
      PROVE  Created(new) \in Row
  <2>1. Created(new) = [[[NoRow EXCEPT !.state = "idle"] EXCEPT !.rev = 1]
                          EXCEPT !.mems = new, !.legacy = FALSE]
    BY DEF Created, Resting, NoRow
  <2>2. [[NoRow EXCEPT !.state = "idle"] EXCEPT !.rev = 1] \in Row
    BY NoRowTyped, <1>2, RowFields
  <2> QED
    BY <1>1, <2>1, <2>2, RowFields
<1>4. ASSUME NEW old \in Row, NEW t \in Turn, NEW new \in SUBSET Turn
      PROVE  Turned(r, old, t, new) \in Row
  <2>1. old.mems \cup new \in SUBSET Memory
    BY <1>1 DEF Row
  <2>2. StateAfterTurn(old, new) \in State /\ old.rev + 1 \in Nat
    BY <1>2 DEF StateAfterTurn, Row
  <2>3. [r EXCEPT !.mems = old.mems \cup new, !.upd = t] \in Row
    BY <2>1, RowFields
  <2>4. [[r EXCEPT !.mems = old.mems \cup new, !.upd = t]
           EXCEPT !.state = StateAfterTurn(old, new), !.rev = old.rev + 1] \in Row
    BY <2>2, <2>3, RowFields
  <2> QED
    BY <2>4 DEF Turned
<1>5. ASSUME NEW old \in Row, NEW new \in SUBSET Turn
      PROVE  Cleared(r, old, new) \in Row
  BY RowFields DEF Cleared, Stored
<1>6. ASSUME NEW rev \in Nat, NEW w \in Worker
      PROVE  Claimed(r, rev, w) \in Row
  BY <1>2, RowFields DEF Claimed
<1>7. ASSUME NEW w \in Worker, NEW plan \in SUBSET Memory
      PROVE  Planned(r, w, plan) \in Row
  BY <1>2, RowFields DEF Planned, Stored
<1>8. ASSUME NEW outs \in SUBSET Worker
      PROVE  Listed(r, outs) \in Row
  BY <1>2, RowFields DEF Listed, Stored
<1>9. Failed(r) \in Row
  BY <1>2, RowFields DEF Failed, Stored
<1>10. Retriable(r) \in Row
  BY <1>2, RowFields DEF Retriable, Stored
<1>11. Reset(r) \in Row
  BY <1>2, RowFields DEF Reset, Stored
<1>12. Legacy(r) \in Row
  BY <1>2, RowFields DEF Legacy, Stored
<1> QED
  BY <1>3, <1>4, <1>5, <1>6, <1>7, <1>8, <1>9, <1>10, <1>11, <1>12

LEMMA EndTyped ==
  ASSUME NEW r \in Row
  PROVE  /\ \A outs \in SUBSET Worker : \A rev, token :
              /\ Finalized(r, rev, token, outs) \in Row
              /\ Released(r, token, outs) \in Row
         /\ \A n \in Nat, b \in Batch : ResetForRetry(r, n, b) \in Row
         /\ \A b \in Batch : \A from : Transferred(r, from, b) \in Row
<1>1. \A s \in State, outs \in SUBSET Worker : Freed(r, s, outs) \in Row
  BY RowFields DEF Freed
<1>2. ASSUME NEW outs \in SUBSET Worker, NEW rev, NEW token
      PROVE  Finalized(r, rev, token, outs) \in Row /\ Released(r, token, outs) \in Row
  BY <1>1 DEF Finalized, Released, State
<1>3. ASSUME NEW n \in Nat, NEW b \in Batch
      PROVE  ResetForRetry(r, n, b) \in Row
  <2>1. [r EXCEPT !.state = "idle", !.rev = n + 1] \in Row
    <3>1. n + 1 \in Nat /\ "idle" \in State
      BY DEF State
    <3> QED
      BY <3>1, RowFields
  <2>2. [[r EXCEPT !.state = "idle", !.rev = n + 1]
           EXCEPT !.legacy = FALSE, !.retry = b, !.live = TRUE] \in Row
    BY <2>1, RowFields
  <2> QED
    BY <2>2 DEF ResetForRetry
<1>4. ASSUME NEW b \in Batch, NEW from
      PROVE  Transferred(r, from, b) \in Row
  BY RowFields DEF Transferred
<1> QED
  BY <1>2, <1>3, <1>4

LEMMA SnapshotTyped ==
  ASSUME TypedInv
  PROVE  /\ Session \in Row
         /\ Session.token = row.token /\ Session.plan = row.plan
         /\ Session.retry = row.retry
         /\ \A r \in Row : [r EXCEPT !.mems = @ \cup links] \in Row
         /\ \A l \in Local, r \in Row : [l EXCEPT !.snap = r] \in Local
         /\ \A l \in Local : Snapshot(l) \in Local
<1>1. \A r \in Row : r.mems \cup links \in SUBSET Memory
  BY DEF TypedInv, StoresTyped, Row
<1>2. \A r \in Row : [r EXCEPT !.mems = @ \cup links] \in Row
  BY <1>1, RowFields
<1>3. Session \in Row
  BY <1>1, RowFields DEF TypedInv, StoresTyped, Session
<1>4. \A l \in Local, r \in Row : [l EXCEPT !.snap = r] \in Local
  BY DEF Local
<1>5. \A l \in Local : Snapshot(l) \in Local
  BY <1>3, <1>4 DEF Snapshot
<1>6. Session.token = row.token /\ Session.plan = row.plan /\ Session.retry = row.retry
  BY DEF TypedInv, StoresTyped, Session, Row
<1> QED
  BY <1>2, <1>3, <1>4, <1>5, <1>6

LEMMA LocalFields ==
  ASSUME NEW l \in Local
  PROVE  /\ \A v \in Worker \cup {None} : [l EXCEPT !.tok = v] \in Local
         /\ \A v \in SUBSET Memory : /\ [l EXCEPT !.sources = v] \in Local
                                     /\ [l EXCEPT !.left = v] \in Local
         /\ \A v \in SUBSET Worker : [l EXCEPT !.kept = v] \in Local
         /\ \A v \in Nat : [l EXCEPT !.tries = v] \in Local
         /\ \A v \in SUBSET Turn : [l EXCEPT !.new = v] \in Local
         /\ \A v \in BOOLEAN : /\ [l EXCEPT !.armed = v] \in Local
                               /\ [l EXCEPT !.late = v] \in Local
         /\ \A v \in RetryRow : [l EXCEPT !.copy = v] \in Local
<1>1. \A v \in Worker \cup {None} : [l EXCEPT !.tok = v] \in Local
  BY DEF Local
<1>2. \A v \in SUBSET Memory : [l EXCEPT !.sources = v] \in Local
  BY DEF Local
<1>3. \A v \in SUBSET Memory : [l EXCEPT !.left = v] \in Local
  BY DEF Local
<1>4. \A v \in SUBSET Worker : [l EXCEPT !.kept = v] \in Local
  BY DEF Local
<1>5. \A v \in Nat : [l EXCEPT !.tries = v] \in Local
  BY DEF Local
<1>6. \A v \in SUBSET Turn : [l EXCEPT !.new = v] \in Local
  BY DEF Local
<1>7. \A v \in BOOLEAN : [l EXCEPT !.armed = v] \in Local
  BY DEF Local
<1>8. \A v \in BOOLEAN : [l EXCEPT !.late = v] \in Local
  BY DEF Local
<1>9. \A v \in RetryRow : [l EXCEPT !.copy = v] \in Local
  BY DEF Local
<1> QED
  BY <1>1, <1>2, <1>3, <1>4, <1>5, <1>6, <1>7, <1>8, <1>9

LEMMA RetryFields ==
  ASSUME NEW r \in RetryRow
  PROVE  /\ \A v \in {"none", "planned", "applying", "failed", "committed"} :
              [r EXCEPT !.status = v] \in RetryRow
         /\ \A v \in Batch \cup {None} : [r EXCEPT !.owner = v] \in RetryRow
         /\ \A v \in BOOLEAN : [r EXCEPT !.live = v] \in RetryRow
         /\ \A v \in Nat : [r EXCEPT !.expected = v] \in RetryRow
         /\ \A v \in SUBSET Memory : [r EXCEPT !.inputs = v] \in RetryRow
  BY DEF RetryRow

\* A process goes to another place, or ends.
LEMMA GotoTyped ==
  ASSUME CallsTyped, NEW p \in Proc, NEW where \in Phase, NEW l \in Local,
         p \in Worker => LocalOK(p, where, l), Goto(p, where, l)
  PROVE  CallsTyped'
<1>1. pc' \in [Proc -> Phase] /\ loc' \in [Proc -> Local] /\ reply' = reply
  BY DEF CallsTyped, Goto
<1>2. pc'[p] = where /\ loc'[p] = l
  BY DEF CallsTyped, Goto
<1>3. \A q \in Proc \ {p} : pc'[q] = pc[q] /\ loc'[q] = loc[q]
  BY DEF CallsTyped, Goto
<1>4. \A w \in Worker : LocalOK(w, pc'[w], loc'[w])
  BY <1>2, <1>3 DEF CallsTyped, Proc
<1> QED
  BY <1>1, <1>4 DEF CallsTyped

LEMMA DoneTyped ==
  ASSUME CallsTyped, NEW p \in Proc, NEW answer \in Replies,
         NEW where \in {"done", "retry_end"},
         pc' = [pc EXCEPT ![p] = where], loc' = [loc EXCEPT ![p] = NoLocal],
         reply' = [reply EXCEPT ![p] = answer]
  PROVE  CallsTyped'
<1>1. where \in Phase /\ where \notin OwnPhase /\ where \notin Carrying
      /\ where # "retry_transfer"
  BY DEF Phase, OwnPhase, Carrying
<1>2. pc' \in [Proc -> Phase] /\ loc' \in [Proc -> Local]
      /\ reply' \in [Proc -> Replies]
  BY <1>1, NoLocalTyped DEF CallsTyped
<1>3. \A q \in Proc \ {p} : pc'[q] = pc[q] /\ loc'[q] = loc[q]
  BY DEF CallsTyped
<1>4. pc'[p] = where
  BY DEF CallsTyped
<1>5. p \in Worker => LocalOK(p, where, loc'[p])
  BY <1>1 DEF LocalOK
<1>6. \A w \in Worker : LocalOK(w, pc'[w], loc'[w])
  BY <1>3, <1>4, <1>5 DEF CallsTyped, Proc
<1> QED
  BY <1>2, <1>6 DEF CallsTyped

LEMMA EndRunTyped ==
  ASSUME CallsTyped, NEW w \in Worker, NEW answer \in Replies,
         EndRun(w, answer) \/ Done(w, answer)
  PROVE  CallsTyped'
<1>1. w \in Proc /\ reply[w] \in Replies
  BY DEF CallsTyped, Proc
<1>2. \A a \in Replies : Done(w, a) => CallsTyped'
  BY <1>1, DoneTyped DEF Done
<1> QED
  BY <1>1, <1>2, DoneTyped DEF EndRun

LEMMA SpentTyped ==
  ASSUME NEW w, NEW l \in Local
  PROVE  /\ Spent(w, l) \in Local
         /\ Spent(w, l).tok = l.tok /\ Spent(w, l).snap = l.snap
         /\ Spent(w, l).sources = l.sources /\ Spent(w, l).left = l.left
<1>1. FALSE \in BOOLEAN
  OBVIOUS
<1>2. Spent(w, l) \in Local
  BY <1>1, LocalFields DEF Spent
<1>3. /\ Spent(w, l).tok = l.tok /\ Spent(w, l).snap = l.snap
      /\ Spent(w, l).sources = l.sources /\ Spent(w, l).left = l.left
  BY DEF Spent, Local
<1> QED
  BY <1>2, <1>3

LEMMA FailTyped ==
  ASSUME CallsTyped, NEW w \in Worker, Fail(w)
  PROVE  CallsTyped'
<1>1. w \in Proc /\ loc[w] \in Local /\ reply[w] \in Replies
  BY DEF CallsTyped, Proc
<1>2. Spent(w, loc[w]) \in Local /\ Spent(w, loc[w]).tok = loc[w].tok
  BY <1>1, SpentTyped
<1>3. LocalOK(w, "failing", Spent(w, loc[w])) <=> loc[w].tok = w
  BY <1>2 DEF LocalOK, OwnPhase, Carrying
<1>4. LocalOK(w, "retry_fail", NoLocal) /\ {"failing", "retry_fail"} \subseteq Phase
  BY DEF LocalOK, OwnPhase, Carrying, Phase
<1>5. CASE loc[w].tok = w
  BY <1>1, <1>2, <1>3, <1>4, <1>5, GotoTyped DEF Fail
<1>6. CASE loc[w].tok # w /\ loc[w].late
  BY <1>1, <1>6, EndRunTyped DEF Fail
<1>7. CASE loc[w].tok # w /\ ~loc[w].late
  BY <1>1, <1>4, <1>7, GotoTyped, NoLocalTyped DEF Fail
<1> QED
  BY <1>5, <1>6, <1>7

LEMMA LooseOK ==
  ASSUME NEW w, NEW where, NEW l, where \notin OwnPhase \cup Carrying
  PROVE  LocalOK(w, where, l)
  BY DEF LocalOK, OwnPhase

LEMMA CallTyped ==
  ASSUME TypedInv, NEW p \in Proc
  PROVE  pc[p] \in Phase /\ loc[p] \in Local /\ reply[p] \in Replies
  BY DEF TypedInv, CallsTyped

LEMMA TurnTyped ==
  ASSUME TypedInv, NEW t \in Turn, TurnStep(t)
  PROVE  TypedInv'
<1>1. /\ t \in Proc /\ loc[t] \in Local /\ loc[t].snap \in Row
      /\ loc[t].new \in SUBSET Turn /\ loc[t].tries \in Nat /\ row \in Row
  BY CallTyped DEF Proc, Local, TypedInv, StoresTyped
<1>2. CallsTyped /\ StoresTyped
  BY DEF TypedInv
<1>3. \A p \in {"append", "read", "create", "set", "confirm", "clear"} :
         p \in Phase /\ \A l : LocalOK(t, p, l)
  BY LooseOK DEF Phase, OwnPhase, Carrying
<1>4. \A a \in {"ok", "failed"} : Done(t, a) => CallsTyped'
  BY <1>1, <1>2, DoneTyped DEF Done, Replies
<1>5. CASE StoreRaw(t)
  <2>1. [NoLocal EXCEPT !.new = {t}] \in Local
    BY NoLocalTyped, LocalFields
  <2>2. CallsTyped'
    BY <1>1, <1>2, <1>3, <1>5, <2>1, NoLocalTyped, GotoTyped DEF StoreRaw
  <2>3. memory' \in [Memory -> Raw]
    BY <1>2, <1>5 DEF StoreRaw, StoresTyped, Raw, Memory
  <2> QED
    BY <1>2, <1>5, <2>2, <2>3 DEF StoreRaw, StoresTyped, TypedInv, history
<1>6. CASE Append(t)
  <2>1. CallsTyped'
    BY <1>1, <1>2, <1>3, <1>6, GotoTyped DEF Append
  <2> QED
    BY <1>1, <1>2, <1>6, <2>1 DEF Append, StoresTyped, TypedInv, history, Memory
<1>7. CASE ReadSession(t)
  <2>1. CallsTyped'
    BY <1>1, <1>2, <1>3, <1>7, GotoTyped, SnapshotTyped DEF ReadSession
  <2> QED
    BY <1>2, <1>7, <2>1 DEF ReadSession, StoresTyped, TypedInv, stores, history
<1>8. CASE CreateSession(t)
  <2>1. row' \in Row
    BY <1>1, <1>8, RowTyped DEF CreateSession
  <2>2. struck' \subseteq Worker
    BY <1>2, <1>8 DEF CreateSession, Struck, StoresTyped, Row
  <2> QED
    BY <1>2, <1>4, <1>8, <2>1, <2>2 DEF CreateSession, StoresTyped, TypedInv
<1>9. CASE SetSession(t)
  <2>1. row' \in Row
    BY <1>1, <1>9, RowTyped DEF SetSession
  <2>2. CallsTyped'
    BY <1>1, <1>2, <1>3, <1>9, GotoTyped DEF SetSession
  <2> QED
    BY <1>2, <1>9, <2>1, <2>2 DEF SetSession, StoresTyped, TypedInv, history
<1>10. CASE Confirm(t)
  <2>1. loc[t].tries + 1 \in Nat
    BY <1>1
  <2>2. [loc[t] EXCEPT !.tries = loc[t].tries + 1] \in Local
    BY <1>1, <2>1, LocalFields
  <2>3. CallsTyped'
    BY <1>1, <1>2, <1>3, <1>4, <1>10, <2>2, GotoTyped DEF Confirm
  <2> QED
    BY <1>2, <1>10, <2>3 DEF Confirm, StoresTyped, TypedInv, stores, history
<1>11. CASE ClearSession(t)
  <2>1. row' \in Row
    BY <1>1, <1>11, RowTyped DEF ClearSession
  <2>2. struck' \subseteq Worker
    BY <1>1, <1>2, <1>11 DEF ClearSession, Struck, StoresTyped, Row
  <2> QED
    BY <1>2, <1>4, <1>11, <2>1, <2>2 DEF ClearSession, StoresTyped, TypedInv
<1> QED
  BY <1>5, <1>6, <1>7, <1>8, <1>9, <1>10, <1>11 DEF TurnStep

LEMMA BeginTyped ==
  ASSUME TypedInv, NEW w \in Worker,
         BeginSweep(w) \/ BeginManual(w) \/ ResetFailed(w)
  PROVE  TypedInv'
<1>1. w \in Proc /\ loc[w] \in Local /\ row \in Row
  BY CallTyped DEF Proc, TypedInv, StoresTyped
<1>2. CallsTyped /\ StoresTyped
  BY DEF TypedInv
<1>3. {"claim", "reset"} \subseteq Phase
  BY DEF Phase, Guarded
<1>4. \A p \in {"claim", "reset"} : \A l : l.tok = w => LocalOK(w, p, l)
  BY DEF LocalOK, Carrying
<1>5. LET l == Snapshot([NoLocal EXCEPT !.tok = w]) IN l \in Local /\ l.tok = w
  <2>1. [NoLocal EXCEPT !.tok = w] \in Local /\ [NoLocal EXCEPT !.tok = w].tok = w
    BY NoLocalTyped, LocalFields DEF NoLocal
  <2> QED
    BY <2>1, SnapshotTyped DEF Snapshot, Local
<1>6. CASE BeginSweep(w)
  <2>1. CallsTyped'
    BY <1>1, <1>2, <1>3, <1>4, <1>5, <1>6, GotoTyped DEF BeginSweep
  <2> QED
    BY <1>2, <1>6, <2>1 DEF BeginSweep, StoresTyped, TypedInv, stores, history
<1>7. CASE BeginManual(w)
  <2>1. CallsTyped'
    BY <1>1, <1>2, <1>3, <1>4, <1>5, <1>7, GotoTyped, EndRunTyped
       DEF BeginManual, Replies
  <2> QED
    BY <1>2, <1>7, <2>1 DEF BeginManual, StoresTyped, TypedInv, stores, history
<1>8. CASE ResetFailed(w)
  <2>1. loc[w].tok = w
    BY <1>2, <1>8 DEF ResetFailed, CallsTyped, LocalOK, OwnPhase
  <2>2. CallsTyped'
    BY <1>1, <1>2, <1>3, <1>4, <1>8, <2>1, GotoTyped DEF ResetFailed
  <2>3. row' \in Row
    BY <1>1, <1>8, RowFields DEF ResetFailed, Retriable, Stored, State
  <2> QED
    BY <1>2, <1>8, <2>2, <2>3 DEF ResetFailed, StoresTyped, TypedInv, history
<1> QED
  BY <1>6, <1>7, <1>8

\* What a change of another field leaves alone.
LEMMA FieldsKept ==
  ASSUME NEW l \in Local
  PROVE  /\ \A v : LET k == [l EXCEPT !.armed = v] IN
              /\ k.tok = l.tok /\ k.snap = l.snap
              /\ k.sources = l.sources /\ k.left = l.left
         /\ \A v : LET k == [l EXCEPT !.late = v] IN
              /\ k.tok = l.tok /\ k.snap = l.snap
              /\ k.sources = l.sources /\ k.left = l.left
         /\ \A v : LET k == [l EXCEPT !.kept = v] IN
              /\ k.tok = l.tok /\ k.snap = l.snap
              /\ k.sources = l.sources /\ k.left = l.left
         /\ \A v : LET k == [l EXCEPT !.left = v] IN
              /\ k.tok = l.tok /\ k.snap = l.snap
              /\ k.sources = l.sources /\ k.left = v
         /\ \A v : LET k == [l EXCEPT !.snap = v] IN
              /\ k.tok = l.tok /\ k.snap = v
              /\ k.sources = l.sources /\ k.left = l.left
         /\ \A v : LET k == [l EXCEPT !.copy = v] IN
              /\ k.tok = l.tok /\ k.snap = l.snap
              /\ k.sources = l.sources /\ k.left = l.left
         /\ \A v : LET k == [l EXCEPT !.tok = v] IN
              /\ k.tok = v /\ k.snap = l.snap
              /\ k.sources = l.sources /\ k.left = l.left
         /\ \A u, v : LET k == [l EXCEPT !.sources = u, !.left = v] IN
              /\ k.tok = l.tok /\ k.snap = l.snap
              /\ k.sources = u /\ k.left = v
  BY DEF Local

\* The local facts of a run, and its fields after the guard is spent.
LEMMA RunFacts ==
  ASSUME TypedInv, NEW w \in Worker
  PROVE  /\ w \in Proc /\ loc[w] \in Local /\ row \in Row /\ CallsTyped /\ StoresTyped
         /\ loc[w].snap \in Row /\ loc[w].sources \in SUBSET Memory
         /\ loc[w].left \in SUBSET Memory /\ loc[w].kept \in SUBSET Worker
         /\ LocalOK(w, pc[w], loc[w])
         /\ Spent(w, loc[w]) \in Local
         /\ Spent(w, loc[w]).tok = loc[w].tok /\ Spent(w, loc[w]).snap = loc[w].snap
         /\ Spent(w, loc[w]).sources = loc[w].sources
         /\ Spent(w, loc[w]).left = loc[w].left
         /\ Outputs(w) \in SUBSET Worker
<1>1. w \in Proc /\ loc[w] \in Local /\ row \in Row /\ CallsTyped /\ StoresTyped
  BY CallTyped DEF Proc, TypedInv, StoresTyped
<1>2. /\ loc[w].snap \in Row /\ loc[w].sources \in SUBSET Memory
      /\ loc[w].left \in SUBSET Memory /\ loc[w].kept \in SUBSET Worker
  BY <1>1 DEF Local
<1>3. Outputs(w) \in SUBSET Worker
  BY <1>2 DEF Outputs, Row
<1> QED
  BY <1>1, <1>2, <1>3, SpentTyped DEF CallsTyped

LEMMA PhasesTyped == Carrying \cup Ending \cup OwnPhase \cup Shared \subseteq Phase
  BY DEF Carrying, Ending, OwnPhase, Shared, Phase, Guarded

\* The steps of a run up to the plan in the row.
LEMMA PlanTyped ==
  ASSUME TypedInv, NEW w \in Worker,
         \/ Guard(w) \/ Claim(w) \/ CheckClaim(w) \/ Think(w) \/ OpenJournal(w)
         \/ WritePlan(w) \/ JournalPlan(w)
  PROVE  TypedInv'
<1> USE RunFacts, PhasesTyped
<1>1. CASE Guard(w)
  <2> DEFINE l == [loc[w] EXCEPT !.armed = TRUE]
  <2>1. l \in Local
    <3>1. TRUE \in BOOLEAN
      OBVIOUS
    <3> QED
      BY <3>1, LocalFields
  <2>2. LocalOK(w, pc[w], l)
    <3>1. /\ l.tok = loc[w].tok /\ l.snap = loc[w].snap
          /\ l.sources = loc[w].sources /\ l.left = loc[w].left
      BY FieldsKept
    <3> HIDE DEF l
    <3> QED
      BY <3>1 DEF LocalOK
  <2>3. pc[w] \in Phase
    BY CallTyped
  <2>4. CallsTyped'
    BY <1>1, <2>1, <2>2, <2>3, GotoTyped, FailTyped, EndRunTyped DEF Guard, Replies
  <2> QED
    BY <1>1, <2>4 DEF Guard, StoresTyped, TypedInv, stores, history
<1>2. CASE Claim(w)
  <2>1. LocalOK(w, "check", Spent(w, loc[w])) /\ "check" \in Phase
    BY <1>2 DEF Claim, LocalOK, OwnPhase, Carrying, Phase
  <2>2. CallsTyped'
    BY <1>2, <2>1, GotoTyped DEF Claim
  <2>3. row' \in Row
    <3>1. row' = Claimed(row, loc[w].snap.rev, w) /\ loc[w].snap.rev \in Nat
      BY <1>2 DEF Claim, Row
    <3> QED
      BY <3>1, RowTyped
  <2> QED
    BY <1>2, <2>2, <2>3 DEF Claim, StoresTyped, TypedInv, history
<1>3. CASE CheckClaim(w)
  <2>1. LocalOK(w, "think", loc[w]) /\ "think" \in Phase
    BY <1>3 DEF CheckClaim, LocalOK, OwnPhase, Carrying, Phase
  <2>2. CallsTyped'
    BY <1>3, <2>1, GotoTyped, EndRunTyped DEF CheckClaim, Replies
  <2> QED
    BY <1>3, <2>2 DEF CheckClaim, StoresTyped, TypedInv, stores, history
<1>4. CASE Think(w)
  <2>1. LocalOK(w, "finalize", loc[w]) /\ {"open", "finalize"} \subseteq Phase
    BY DEF LocalOK, OwnPhase, Carrying, Phase, Guarded
  <2>2. ASSUME NEW used \in SUBSET Fetched(w),
               Goto(w, "open", [loc[w] EXCEPT !.sources = used, !.left = used])
        PROVE  CallsTyped'
    <3> DEFINE l == [loc[w] EXCEPT !.sources = used, !.left = used]
    <3>1. used \in SUBSET Memory
      <4>1. loc[w].snap.mems \in SUBSET Memory
        BY DEF Row
      <4> QED
        BY <4>1 DEF Fetched
    <3>2. l \in Local
      BY <3>1, LocalFields
    <3>3. l.tok = loc[w].tok /\ l.left = used /\ l.sources = used
      BY FieldsKept
    <3>4. loc[w].tok = w
      BY <1>4 DEF Think, LocalOK, OwnPhase
    <3>5. LocalOK(w, "open", l)
      BY <3>3, <3>4 DEF LocalOK
    <3> HIDE DEF l
    <3> QED
      BY <2>1, <2>2, <3>2, <3>5, GotoTyped DEF l
  <2>3. CallsTyped'
    BY <1>4, <2>1, <2>2, GotoTyped, FailTyped DEF Think
  <2> QED
    BY <1>4, <2>3 DEF Think, StoresTyped, TypedInv, stores, history
<1>5. CASE OpenJournal(w)
  <2>1. LocalOK(w, "plan", Spent(w, loc[w]))
    BY <1>5 DEF OpenJournal, LocalOK, OwnPhase, Carrying
  <2>2. CallsTyped'
    BY <1>5, <2>1, GotoTyped DEF OpenJournal, Carrying
  <2>3. StoresTyped'
    BY <1>5 DEF OpenJournal, StoresTyped, history
  <2> QED
    BY <2>2, <2>3 DEF TypedInv
<1>6. CASE WritePlan(w)
  <2>1. LocalOK(w, "plan_journal", Spent(w, loc[w]))
    BY <1>6 DEF WritePlan, LocalOK, OwnPhase, Carrying
  <2>2. CallsTyped'
    BY <1>6, <2>1, GotoTyped DEF WritePlan, Carrying
  <2>3. row' \in Row
    BY <1>6, RowTyped DEF WritePlan
  <2>4. struck' \subseteq Worker
    BY <1>6 DEF WritePlan, Struck, StoresTyped, Row
  <2>5. StoresTyped'
    BY <1>6, <2>3, <2>4 DEF WritePlan, StoresTyped
  <2> QED
    BY <2>2, <2>5 DEF TypedInv
<1>7. CASE JournalPlan(w)
  <2>1. LocalOK(w, "store", Spent(w, loc[w]))
    BY <1>7 DEF JournalPlan, LocalOK, OwnPhase, Carrying
  <2>2. CallsTyped'
    BY <1>7, <2>1, GotoTyped DEF JournalPlan, Carrying
  <2>3. StoresTyped'
    BY <1>7 DEF JournalPlan, StoresTyped, history
  <2> QED
    BY <2>2, <2>3 DEF TypedInv
<1> QED
  BY <1>1, <1>2, <1>3, <1>4, <1>5, <1>6, <1>7

\* The steps of a run that carries out a plan.
LEMMA CarryTyped ==
  ASSUME TypedInv, NEW w \in Worker,
         \/ StoreOutput(w) \/ ListOutput(w) \/ MarkSource(w) \/ NoteMarked(w)
  PROVE  TypedInv'
<1> USE RunFacts, PhasesTyped
<1>1. CASE StoreOutput(w)
  <2>1. loc[w].tok \in Worker /\ loc[w].left \subseteq loc[w].sources
    BY <1>1 DEF StoreOutput, LocalOK, Carrying
  <2>2. ASSUME NEW kept \in SUBSET Worker, Answered(w, kept)
        PROVE  CallsTyped'
    <3> DEFINE k == [loc[w] EXCEPT !.kept = kept]
               l == Spent(w, k)
    <3>1. k \in Local
      BY LocalFields
    <3>2. /\ k.tok = loc[w].tok
          /\ k.sources = loc[w].sources /\ k.left = loc[w].left
      BY FieldsKept
    <3> HIDE DEF k
    <3>3. l \in Local /\ l.tok = loc[w].tok /\ l.left \subseteq l.sources
      BY <2>1, <3>1, <3>2, SpentTyped
    <3> HIDE DEF l
    <3>4. LocalOK(w, "list", l) /\ LocalOK(w, "recover_open", l)
      BY <2>1, <3>3 DEF LocalOK, OwnPhase
    <3>5. Goto(w, IF loc[w].tok = w THEN "list" ELSE "recover_open", l)
      BY <2>2 DEF Answered, k, l
    <3> QED
      BY <3>3, <3>4, <3>5, GotoTyped DEF Carrying
  <2>3. CallsTyped'
    BY <1>1, <2>1, <2>2, FailTyped DEF StoreOutput
  <2>4. output' \in [Worker -> SUBSET Memory] /\ refused' \subseteq Worker
    BY <1>1, <2>1 DEF StoreOutput, StoresTyped
  <2> QED
    BY <1>1, <2>3, <2>4 DEF StoreOutput, StoresTyped, TypedInv
<1>2. CASE ListOutput(w)
  <2>1. LocalOK(w, "mark", Spent(w, loc[w]))
    BY <1>2 DEF ListOutput, LocalOK, OwnPhase, Carrying
  <2>2. CallsTyped'
    BY <1>2, <2>1, GotoTyped DEF ListOutput, Carrying
  <2>3. row' \in Row
    BY <1>2, RowTyped DEF ListOutput
  <2> QED
    BY <1>2, <2>2, <2>3 DEF ListOutput, StoresTyped, TypedInv, history
<1>3. CASE MarkSource(w)
  <2>1. loc[w].tok \in Worker /\ loc[w].left \subseteq loc[w].sources
    BY <1>3 DEF MarkSource, LocalOK, Carrying
  <2>2. CASE loc[w].left = {}
    <3>1. loc[w].tok = w => LocalOK(w, "note", loc[w])
      BY DEF LocalOK, Carrying
    <3>2. LocalOK(w, "finalize", loc[w])
      BY LooseOK DEF OwnPhase, Carrying
    <3>3. CallsTyped'
      BY <1>3, <2>2, <3>1, <3>2, GotoTyped DEF MarkSource, Ending
    <3> QED
      BY <1>3, <2>2, <3>3 DEF MarkSource, StoresTyped, TypedInv, history
  <2>3. CASE loc[w].left # {}
    <3>1. PICK m \in loc[w].left :
            \/ /\ memory' = [memory EXCEPT ![m] =
                               [state |-> "source", by |-> loc[w].tok]]
               /\ Goto(w, "mark", Spent(w, [loc[w] EXCEPT !.left = @ \ {m}]))
            \/ Fail(w) /\ UNCHANGED memory
      BY <1>3, <2>3 DEF MarkSource
    <3>2. memory' \in [Memory -> Raw]
      BY <2>1, <3>1 DEF StoresTyped, Raw
    <3>3. ASSUME Goto(w, "mark", Spent(w, [loc[w] EXCEPT !.left = @ \ {m}]))
          PROVE  CallsTyped'
      <4> DEFINE k == [loc[w] EXCEPT !.left = loc[w].left \ {m}]
                 l == Spent(w, k)
      <4>1. k \in Local
        BY LocalFields
      <4>2. /\ k.tok = loc[w].tok /\ k.sources = loc[w].sources
            /\ k.left = loc[w].left \ {m}
        BY FieldsKept
      <4> HIDE DEF k
      <4>3. l \in Local /\ l.tok = loc[w].tok /\ l.left \subseteq l.sources
        BY <2>1, <4>1, <4>2, SpentTyped
      <4>4. Goto(w, "mark", l)
        BY <3>3 DEF k
      <4> HIDE DEF l
      <4>5. LocalOK(w, "mark", l)
        BY <2>1, <4>3 DEF LocalOK, OwnPhase
      <4>6. CallsTyped /\ w \in Proc /\ "mark" \in Phase
        BY DEF Carrying
      <4> QED
        BY <4>3, <4>4, <4>5, <4>6, GotoTyped
    <3>4. CallsTyped
      OBVIOUS
    <3>5. Fail(w) => CallsTyped'
      BY <3>4, FailTyped
    <3>6. CallsTyped'
      BY <3>1, <3>3, <3>5
    <3> QED
      BY <1>3, <3>2, <3>6 DEF MarkSource, StoresTyped, TypedInv, history
  <2> QED
    BY <2>2, <2>3
<1>4. CASE NoteMarked(w)
  <2>1. LocalOK(w, "finalize", Spent(w, loc[w]))
    BY LooseOK DEF OwnPhase, Carrying
  <2>2. CallsTyped'
    BY <1>4, <2>1, GotoTyped DEF NoteMarked, Ending
  <2>3. StoresTyped'
    BY <1>4 DEF NoteMarked, StoresTyped, history
  <2> QED
    BY <2>2, <2>3 DEF TypedInv
<1> QED
  BY <1>1, <1>2, <1>3, <1>4

LEMMA SettledTyped ==
  ASSUME TypedInv, NEW w \in Worker, NEW state \in Replies, Settled(w, state)
  PROVE  CallsTyped'
<1> USE RunFacts
<1>1. CASE journal[loc[w].tok] = "none"
  BY <1>1, EndRunTyped DEF Settled
<1>2. CASE journal[loc[w].tok] # "none"
  <2>1. LocalOK(w, "commit", loc[w]) /\ "commit" \in Phase
    BY LooseOK DEF OwnPhase, Carrying, Phase, Guarded
  <2>2. pc' = [pc EXCEPT ![w] = "commit"] /\ loc' = loc
        /\ reply' \in [Proc -> Replies]
    BY <1>2 DEF Settled, CallsTyped
  <2>3. \A v \in Worker : LocalOK(v, pc'[v], loc'[v])
    BY <2>1, <2>2 DEF CallsTyped, Proc
  <2> QED
    BY <2>1, <2>2, <2>3 DEF CallsTyped
<1> QED
  BY <1>1, <1>2

\* The steps of a run that ends.
LEMMA EndingTyped ==
  ASSUME TypedInv, NEW w \in Worker,
         \/ Finalize(w) \/ FinalRead(w) \/ Release(w) \/ ReleaseRead(w)
         \/ CommitJournal(w) \/ Failing(w) \/ MarkFailed(w)
  PROVE  TypedInv'
<1> USE RunFacts
<1>1. \A p \in {"final_read", "release", "release_read", "recovered"} :
         p \in Phase /\ \A l : LocalOK(w, p, l)
  BY LooseOK DEF Phase, OwnPhase, Carrying
<1>2. CASE Finalize(w)
  <2>1. CallsTyped'
    BY <1>1, <1>2, GotoTyped DEF Finalize
  <2>2. row' \in Row
    BY <1>2, EndTyped DEF Finalize
  <2>3. considered' \subseteq Memory
    BY <1>2 DEF Finalize, StoresTyped, Row
  <2> QED
    BY <1>2, <2>1, <2>2, <2>3 DEF Finalize, StoresTyped, TypedInv
<1>3. CASE FinalRead(w)
  <2>1. CallsTyped'
    BY <1>1, <1>3, GotoTyped, SettledTyped DEF FinalRead, Replies
  <2> QED
    BY <1>3, <2>1 DEF FinalRead, StoresTyped, TypedInv, stores, history
<1>4. CASE Release(w)
  <2>1. CallsTyped'
    BY <1>1, <1>4, GotoTyped DEF Release
  <2>2. row' \in Row
    BY <1>4, EndTyped DEF Release
  <2> QED
    BY <1>4, <2>1, <2>2 DEF Release, StoresTyped, TypedInv, history
<1>5. CASE ReleaseRead(w)
  <2>1. CallsTyped'
    BY <1>5, SettledTyped, FailTyped DEF ReleaseRead, Replies
  <2> QED
    BY <1>5, <2>1 DEF ReleaseRead, StoresTyped, TypedInv, stores, history
<1>6. CASE CommitJournal(w)
  <2>1. reply[w] \in Replies
    BY DEF CallsTyped
  <2>2. CallsTyped'
    BY <1>1, <1>6, <2>1, GotoTyped, EndRunTyped DEF CommitJournal
  <2>3. StoresTyped'
    BY <1>6 DEF CommitJournal, StoresTyped, history
  <2> QED
    BY <2>2, <2>3 DEF TypedInv
<1>7. CASE Failing(w)
  <2>1. LocalOK(w, "fail", loc[w]) /\ "fail" \in Phase
    BY <1>7 DEF Failing, LocalOK, OwnPhase, Carrying, Phase, Guarded
  <2>2. CallsTyped'
    BY <1>7, <2>1, GotoTyped, EndRunTyped DEF Failing, Replies
  <2> QED
    BY <1>7, <2>2 DEF Failing, StoresTyped, TypedInv, stores, history
<1>8. CASE MarkFailed(w)
  <2>1. CallsTyped'
    BY <1>8, EndRunTyped DEF MarkFailed, Replies
  <2>2. row' \in Row
    BY <1>8, RowTyped DEF MarkFailed
  <2>3. struck' \subseteq Worker
    BY <1>8 DEF MarkFailed, Struck, StoresTyped, Row
  <2> QED
    BY <1>8, <2>1, <2>2, <2>3 DEF MarkFailed, StoresTyped, TypedInv
<1> QED
  BY <1>2, <1>3, <1>4, <1>5, <1>6, <1>7, <1>8

LEMMA ResumeTyped ==
  ASSUME TypedInv, NEW b \in Batch, NEW l \in Local, l.tok = b, Resume(b, l)
  PROVE  CallsTyped'
<1> b \in Worker
  BY ProcessAssumption
<1> USE RunFacts
<1>1. \A p \in {"recover", "claim", "retry_renew"} : p \in Phase /\ LocalOK(b, p, l)
  BY DEF LocalOK, Carrying, Phase, Guarded
<1> QED
  BY <1>1, GotoTyped, EndRunTyped DEF Resume, Replies

\* The steps of a claimant up to the claim on the session.
LEMMA RetryTyped ==
  ASSUME TypedInv, NEW b \in Batch,
         \/ BeginRetry(b) \/ CopyRetry(b) \/ WriteRetry(b) \/ ClaimRetry(b)
         \/ Look(b) \/ Transfer(b) \/ RenewRetry(b) \/ ResetSession(b)
  PROVE  TypedInv'
<1> b \in Worker
  BY ProcessAssumption
<1> USE RunFacts
<1>1. /\ retry \in RetryRow
      /\ \A p \in {"retry_copy", "retry_write", "retry_claim", "retry_look",
                   "retry_renew", "retry_reset", "claim"} :
           p \in Phase /\ \A l : l.tok = b => LocalOK(b, p, l)
      /\ "retry_fail" \in Phase /\ LocalOK(b, "retry_fail", NoLocal)
  BY DEF StoresTyped, Phase, Guarded, LocalOK, OwnPhase, Carrying
<1>2. [NoLocal EXCEPT !.tok = b] \in Local /\ [NoLocal EXCEPT !.tok = b].tok = b
  BY NoLocalTyped, LocalFields DEF NoLocal
<1>3. \A l \in Local : Snapshot(l) \in Local /\ Snapshot(l).tok = l.tok
                       /\ Snapshot(l).snap = Session
  BY SnapshotTyped, FieldsKept DEF Snapshot
<1>4. CASE BeginRetry(b)
  <2>1. CallsTyped'
    BY <1>1, <1>2, <1>3, <1>4, GotoTyped, EndRunTyped DEF BeginRetry, Replies
  <2> QED
    BY <1>4, <2>1 DEF BeginRetry, StoresTyped, TypedInv, stores, history
<1>5. CASE CopyRetry(b)
  <2>1. loc[b].tok = b
    BY <1>5 DEF CopyRetry, LocalOK, OwnPhase
  <2>2. /\ [loc[b] EXCEPT !.copy = retry] \in Local
        /\ [loc[b] EXCEPT !.copy = retry].tok = b
    BY <1>1, <2>1, LocalFields, FieldsKept
  <2>3. CallsTyped'
    BY <1>1, <1>5, <2>2, GotoTyped DEF CopyRetry
  <2> QED
    BY <1>5, <2>3 DEF CopyRetry, StoresTyped, TypedInv, stores, history
<1>6. CASE WriteRetry(b)
  <2>1. loc[b].tok = b
    BY <1>6 DEF WriteRetry, LocalOK, OwnPhase
  <2>2. CallsTyped'
    BY <1>1, <1>6, <2>1, GotoTyped DEF WriteRetry
  <2>3. loc[b].copy \in RetryRow
    BY DEF Local
  <2>4. loc[b].snap.rev \in Nat /\ loc[b].snap.mems \in SUBSET Memory
    BY DEF Row
  <2>5. retry' \in RetryRow
    <3> DEFINE r == [loc[b].copy EXCEPT !.status = "planned",
                                        !.expected = loc[b].snap.rev]
    <3>1. r \in RetryRow
      BY <2>3, <2>4, RetryFields
    <3>2. retry' = [r EXCEPT !.inputs = loc[b].snap.mems]
      BY <1>6 DEF WriteRetry
    <3> HIDE DEF r
    <3> QED
      BY <2>4, <3>1, <3>2, RetryFields
  <2> QED
    BY <1>6, <2>2, <2>5 DEF WriteRetry, StoresTyped, TypedInv, history
<1>7. CASE ClaimRetry(b)
  <2>1. loc[b].tok = b
    BY <1>7 DEF ClaimRetry, LocalOK, OwnPhase
  <2>2. CallsTyped'
    BY <1>1, <1>7, <2>1, GotoTyped, EndRunTyped DEF ClaimRetry, Replies
  <2>3. retry' \in RetryRow
    <3> DEFINE r == [retry EXCEPT !.status = "applying", !.owner = b]
    <3>1. r \in RetryRow
      BY <1>1, RetryFields
    <3>2. [r EXCEPT !.live = TRUE] \in RetryRow
      BY <3>1, RetryFields
    <3> QED
      BY <1>1, <1>7, <3>2 DEF ClaimRetry
  <2> QED
    BY <1>7, <2>2, <2>3 DEF ClaimRetry, StoresTyped, TypedInv, history
<1>8. CASE Look(b)
  <2> DEFINE l == Snapshot(loc[b])
  <2>1. l \in Local /\ l.tok = b
    BY <1>3, <1>8 DEF Look, LocalOK, OwnPhase
  <2>2. l.snap.retry \notin {None, b} => LocalOK(b, "retry_transfer", l)
    BY <2>1 DEF LocalOK, Carrying
  <2>3. "retry_transfer" \in Phase
    BY DEF Phase
  <2>4. \/ EndRun(b, "consolidated") \/ EndRun(b, "failed") \/ EndRun(b, "skipped")
        \/ l.snap.retry \notin {None, b} /\ Goto(b, "retry_transfer", l)
        \/ Resume(b, l)
    BY <1>8 DEF Look
  <2> HIDE DEF l
  <2>5. CallsTyped'
    BY <2>1, <2>2, <2>3, <2>4, GotoTyped, EndRunTyped, ResumeTyped DEF Replies
  <2> QED
    BY <1>8, <2>5 DEF Look, StoresTyped, TypedInv, stores, history
<1>9. CASE Transfer(b)
  <2>1. row' \in Row
    BY <1>9, EndTyped DEF Transfer
  <2> DEFINE l == [loc[b] EXCEPT !.snap = [row' EXCEPT !.mems = @ \cup links]]
  <2>2. l \in Local
    BY <2>1, SnapshotTyped
  <2>3. l.tok = b
    <3>1. loc[b].tok = b
      BY <1>9 DEF Transfer, LocalOK, OwnPhase
    <3> QED
      BY <3>1, FieldsKept
  <2>4. Resume(b, l) \/ Goto(b, "retry_fail", NoLocal)
    BY <1>9 DEF Transfer
  <2> HIDE DEF l
  <2>5. CallsTyped'
    BY <1>1, <2>2, <2>3, <2>4, GotoTyped, ResumeTyped, NoLocalTyped
  <2> QED
    BY <1>9, <2>1, <2>5 DEF Transfer, StoresTyped, TypedInv, history
<1>10. CASE RenewRetry(b)
  <2>1. loc[b].tok = b
    BY <1>10 DEF RenewRetry, LocalOK, OwnPhase
  <2>2. CallsTyped'
    BY <1>1, <1>10, <2>1, GotoTyped, NoLocalTyped DEF RenewRetry
  <2> QED
    BY <1>10, <2>2 DEF RenewRetry, StoresTyped, TypedInv, stores, history
<1>11. CASE ResetSession(b)
  <2>1. row' \in Row
    <3>1. retry.expected \in Nat
      BY <1>1 DEF RetryRow
    <3> QED
      BY <1>11, <3>1, EndTyped DEF ResetSession
  <2> DEFINE l == [loc[b] EXCEPT !.snap = [row' EXCEPT !.mems = @ \cup links]]
  <2>2. l \in Local
    BY <2>1, SnapshotTyped
  <2>3. l.tok = b
    <3>1. loc[b].tok = b
      BY <1>11 DEF ResetSession, LocalOK, OwnPhase
    <3> QED
      BY <3>1, FieldsKept
  <2>4. Goto(b, "claim", l) \/ EndRun(b, "skipped")
    BY <1>11 DEF ResetSession
  <2> HIDE DEF l
  <2>5. CallsTyped'
    BY <1>1, <2>2, <2>3, <2>4, GotoTyped, EndRunTyped DEF Replies
  <2> QED
    BY <1>11, <2>1, <2>5 DEF ResetSession, StoresTyped, TypedInv, history
<1> QED
  BY <1>4, <1>5, <1>6, <1>7, <1>8, <1>9, <1>10, <1>11

\* The steps of a recovery, and the end of a batch.
LEMMA RecoverTyped ==
  ASSUME TypedInv, NEW b \in Batch,
         \/ Recover(b) \/ RecoverOpen(b) \/ RecoverUnplanned(b) \/ Recovered(b)
         \/ EndRetry(b) \/ FailRetry(b) \/ Timeout(b)
  PROVE  TypedInv'
<1> b \in Worker
  BY ProcessAssumption
<1> USE RunFacts
<1>1. /\ {"store", "mark", "recover_legacy", "recover_reset", "recovered",
          "retry_fail"} \subseteq Phase
      /\ \A p \in {"recover_legacy", "recover_reset", "recovered", "retry_fail"} :
           \A l : LocalOK(b, p, l)
  BY LooseOK DEF Phase, Guarded, OwnPhase, Carrying
<1>2. retry \in RetryRow /\ RetryFailed(b) \in RetryRow
  BY RetryFields DEF StoresTyped, RetryFailed
<1>3. reply[b] \in Replies
  BY DEF CallsTyped
<1>4. CASE Recover(b)
  <2> DEFINE s == loc[b].snap
  <2>1. CASE s.plan # None /\ s.token # None
    <3> DEFINE k == [loc[b] EXCEPT !.tok = s.token]
               l == [k EXCEPT !.sources = s.plan, !.left = s.plan]
    <3>1. s.token \in Worker /\ s.plan \in SUBSET Memory
      BY <2>1 DEF Row
    <3>2. k \in Local /\ k.tok = s.token
      BY <3>1, LocalFields, FieldsKept
    <3> HIDE DEF k
    <3>3. l \in Local /\ l.tok = k.tok /\ l.sources = s.plan /\ l.left = s.plan
      <4>1. [k EXCEPT !.sources = s.plan] \in Local
        BY <3>1, <3>2, LocalFields
      <4>2. [[k EXCEPT !.sources = s.plan] EXCEPT !.left = s.plan] \in Local
        BY <3>1, <4>1, LocalFields
      <4> QED
        BY <3>2, <4>2, FieldsKept
    <3>4. Goto(b, "store", l)
      BY <1>4, <2>1 DEF Recover, k
    <3> HIDE DEF l
    <3>5. LocalOK(b, "store", l)
      BY <3>1, <3>2, <3>3 DEF LocalOK, OwnPhase
    <3>6. CallsTyped'
      BY <1>1, <3>3, <3>4, <3>5, GotoTyped
    <3> QED
      BY <1>4, <3>6 DEF Recover, StoresTyped, TypedInv, stores, history
  <2>2. CASE ~(s.plan # None /\ s.token # None)
    <3>1. [loc[b] EXCEPT !.tok = None] \in Local
      BY LocalFields
    <3>2. CallsTyped'
      BY <1>1, <1>4, <2>2, <3>1, GotoTyped DEF Recover
    <3> QED
      BY <1>4, <3>2 DEF Recover, StoresTyped, TypedInv, stores, history
  <2> QED
    BY <2>1, <2>2
<1>5. CASE RecoverOpen(b)
  <2>1. LocalOK(b, "mark", loc[b])
    BY <1>5 DEF RecoverOpen, LocalOK, OwnPhase, Carrying
  <2>2. CallsTyped'
    BY <1>1, <1>5, <2>1, GotoTyped DEF RecoverOpen
  <2>3. StoresTyped'
    BY <1>5 DEF RecoverOpen, StoresTyped, history
  <2> QED
    BY <2>2, <2>3 DEF TypedInv
<1>6. CASE RecoverUnplanned(b)
  <2>1. CallsTyped'
    BY <1>1, <1>6, GotoTyped DEF RecoverUnplanned
  <2>2. row' \in Row
    BY <1>6, RowTyped DEF RecoverUnplanned
  <2>3. struck' \subseteq Worker
    BY <1>6 DEF RecoverUnplanned, Struck, StoresTyped, Row
  <2> QED
    BY <1>6, <2>1, <2>2, <2>3 DEF RecoverUnplanned, StoresTyped, TypedInv
<1>7. CASE Recovered(b)
  <2> DEFINE k == Snapshot(loc[b])
             l == [k EXCEPT !.tok = b]
             n == [l EXCEPT !.sources = {}, !.left = {}]
  <2>1. k \in Local
    BY SnapshotTyped
  <2> HIDE DEF k
  <2>2. l \in Local /\ l.tok = b
    BY <2>1, LocalFields, FieldsKept
  <2> HIDE DEF l
  <2>3. n \in Local /\ n.tok = b
    <3>1. [l EXCEPT !.sources = {}] \in Local
      BY <2>2, LocalFields
    <3>2. [[l EXCEPT !.sources = {}] EXCEPT !.left = {}] \in Local
      BY <3>1, LocalFields
    <3> QED
      BY <2>2, <3>2, FieldsKept
  <2>4. \/ Done(b, reply[b])
        \/ EndRun(b, "consolidated") \/ EndRun(b, "skipped")
        \/ Resume(b, n)
    BY <1>7 DEF Recovered, k, l
  <2> HIDE DEF n
  <2>5. CallsTyped'
    BY <1>3, <2>3, <2>4, EndRunTyped, ResumeTyped DEF Replies
  <2> QED
    BY <1>7, <2>5 DEF Recovered, StoresTyped, TypedInv, stores, history
<1>8. CASE EndRetry(b)
  <2>1. CallsTyped'
    BY <1>1, <1>3, <1>8, GotoTyped, EndRunTyped DEF EndRetry
  <2>2. retry' \in RetryRow
    BY <1>2, <1>8, RetryFields DEF EndRetry
  <2> QED
    BY <1>8, <2>1, <2>2 DEF EndRetry, StoresTyped, TypedInv, history
<1>9. CASE FailRetry(b)
  <2>1. CallsTyped'
    BY <1>9, EndRunTyped DEF FailRetry, Replies
  <2> QED
    BY <1>2, <1>9, <2>1 DEF FailRetry, StoresTyped, TypedInv, history
<1>10. CASE Timeout(b)
  <2> DEFINE l == [loc[b] EXCEPT !.late = TRUE]
  <2>1. l \in Local
    <3>1. TRUE \in BOOLEAN
      OBVIOUS
    <3> QED
      BY <3>1, LocalFields
  <2>2. LocalOK(b, pc[b], l)
    <3>1. /\ l.tok = loc[b].tok /\ l.snap = loc[b].snap
          /\ l.sources = loc[b].sources /\ l.left = loc[b].left
      BY FieldsKept
    <3> HIDE DEF l
    <3> QED
      BY <3>1 DEF LocalOK
  <2>3. loc' = [loc EXCEPT ![b] = l] /\ pc' = pc
        /\ reply' = [reply EXCEPT ![b] = "timeout"]
    BY <1>10 DEF Timeout
  <2> HIDE DEF l
  <2>4. loc' \in [Proc -> Local] /\ reply' \in [Proc -> Replies]
    BY <2>1, <2>3 DEF CallsTyped, Replies
  <2>5. \A w \in Worker : LocalOK(w, pc'[w], loc'[w])
    BY <2>2, <2>3 DEF CallsTyped, Proc
  <2>6. CallsTyped'
    BY <2>3, <2>4, <2>5 DEF CallsTyped
  <2> QED
    BY <1>2, <1>10, <2>6 DEF Timeout, StoresTyped, TypedInv, history
<1> QED
  BY <1>4, <1>5, <1>6, <1>7, <1>8, <1>9, <1>10

LEMMA DeleteTyped ==
  ASSUME TypedInv, NEW d \in Deletion, DeleteStep(d)
  PROVE  TypedInv'
<1>1. d \in Proc /\ CallsTyped /\ StoresTyped
  BY DEF Proc, TypedInv
<1>2. loc[d] \in Local /\ loc[d].left \in SUBSET Memory
  BY <1>1 DEF CallsTyped, Local
<1>3. \A p \in {"retract", "delete", "unlink"} :
         p \in Phase /\ \A l : LocalOK(d, p, l)
  BY LooseOK DEF Phase, OwnPhase, Carrying
<1>4. \A a \in {"ok", "failed", "refused"} : Done(d, a) => CallsTyped'
  BY <1>1, DoneTyped DEF Done, Replies
<1>5. CASE BeginDelete(d)
  <2> DEFINE k == Snapshot(NoLocal)
             l == [k EXCEPT !.left = Session.mems]
  <2>1. k \in Local /\ Session.mems \in SUBSET Memory
    BY SnapshotTyped, NoLocalTyped DEF Row
  <2> HIDE DEF k
  <2>2. l \in Local
    BY <2>1, LocalFields
  <2>3. \/ Done(d, "refused")
        \/ Goto(d, "retract", l) \/ Goto(d, "delete", l)
    BY <1>5 DEF BeginDelete, k
  <2> HIDE DEF l
  <2>4. CallsTyped'
    BY <1>1, <1>3, <1>4, <2>2, <2>3, GotoTyped
  <2> QED
    BY <1>1, <1>5, <2>4 DEF BeginDelete, StoresTyped, TypedInv, stores, history
<1>6. CASE RetractMemory(d)
  <2>1. \A m : [loc[d] EXCEPT !.left = @ \ {m}] \in Local
    BY <1>2, LocalFields
  <2>2. CallsTyped'
    BY <1>1, <1>2, <1>3, <1>4, <1>6, <2>1, GotoTyped DEF RetractMemory
  <2>3. memory' \in [Memory -> Raw]
    <3>1. \A m \in Memory : [memory EXCEPT ![m].state = "changed"] \in [Memory -> Raw]
      BY <1>1 DEF StoresTyped, Raw
    <3>2. memory \in [Memory -> Raw]
      BY <1>1 DEF StoresTyped
    <3>3. \/ memory' = memory
          \/ \E m \in loc[d].left : memory' = [memory EXCEPT ![m].state = "changed"]
      BY <1>6 DEF RetractMemory
    <3> QED
      BY <1>2, <3>1, <3>2, <3>3
  <2> QED
    BY <1>1, <1>6, <2>2, <2>3 DEF RetractMemory, StoresTyped, TypedInv, history
<1>7. CASE DeleteRow(d)
  <2>1. CallsTyped'
    BY <1>1, <1>2, <1>3, <1>4, <1>7, GotoTyped DEF DeleteRow
  <2>2. struck' \subseteq Worker
    BY <1>1, <1>7 DEF DeleteRow, Struck, StoresTyped, Row
  <2> QED
    BY <1>1, <1>7, <2>1, <2>2, NoRowTyped DEF DeleteRow, StoresTyped, TypedInv
<1>8. CASE DeleteLinks(d)
  BY <1>1, <1>4, <1>8 DEF DeleteLinks, StoresTyped, TypedInv, history
<1> QED
  BY <1>5, <1>6, <1>7, <1>8 DEF DeleteStep

LEMMA RestTyped ==
  ASSUME TypedInv,
         (\E m \in Memory : ChangeMemory(m)) \/ ExpireRetry \/ ExpireSession
  PROVE  TypedInv'
<1>1. CASE \E m \in Memory : ChangeMemory(m)
  BY <1>1 DEF ChangeMemory, TypedInv, StoresTyped, CallsTyped, Raw, history
<1>2. CASE ExpireRetry
  <2>1. retry' \in RetryRow
    BY <1>2 DEF ExpireRetry, TypedInv, StoresTyped, RetryRow
  <2> QED
    BY <1>2, <2>1 DEF ExpireRetry, TypedInv, StoresTyped, CallsTyped, history
<1>3. CASE ExpireSession
  <2>1. row' \in Row
    BY <1>3, RowFields DEF ExpireSession, TypedInv, StoresTyped
  <2> QED
    BY <1>3, <2>1 DEF ExpireSession, TypedInv, StoresTyped, CallsTyped, history
<1> QED
  BY <1>1, <1>2, <1>3

LEMMA StartTyped == Init => TypedInv
<1> SUFFICES ASSUME Init PROVE TypedInv
  OBVIOUS
<1>1. row \in Row /\ pc \in [Proc -> Phase] /\ \A p \in Proc : pc[p] \in {"idle", "done"}
  BY ProcessAssumption DEF Init, Phase
<1>2. \A w \in Worker : LocalOK(w, pc[w], loc[w])
  BY <1>1, LooseOK DEF Proc, OwnPhase, Carrying
<1>3. CallsTyped
  BY <1>1, <1>2, NoLocalTyped DEF Init, CallsTyped, Replies
<1>4. StoresTyped
  <2>1. links \subseteq Memory
    BY <1>1 DEF Init, Row
  <2>2. memory \in [Memory -> Raw]
    BY DEF Init, Raw
  <2>3. retry \in RetryRow
    BY DEF Init, NoRetry, RetryRow
  <2> QED
    BY <1>1, <2>1, <2>2, <2>3 DEF Init, StoresTyped
<1> QED
  BY <1>3, <1>4 DEF TypedInv

LEMMA NextTyped == TypedInv /\ [Next]_vars => TypedInv'
<1> SUFFICES ASSUME TypedInv, [Next]_vars
             PROVE  TypedInv'
  OBVIOUS
<1>1. CASE UNCHANGED vars
  BY <1>1 DEF vars, history, TypedInv, StoresTyped, CallsTyped
<1>2. ASSUME NEW t \in Turn, TurnStep(t)
      PROVE  TypedInv'
  BY <1>2, TurnTyped
<1>3. ASSUME NEW w \in Worker,
             BeginSweep(w) \/ BeginManual(w) \/ ResetFailed(w) \/ RunStep(w)
      PROVE  TypedInv'
  BY <1>3, BeginTyped, PlanTyped, CarryTyped, EndingTyped DEF RunStep
<1>4. ASSUME NEW b \in Batch, BeginRetry(b) \/ RetryStep(b) \/ Timeout(b)
      PROVE  TypedInv'
  BY <1>4, RetryTyped, RecoverTyped DEF RetryStep
<1>5. ASSUME NEW d \in Deletion, DeleteStep(d)
      PROVE  TypedInv'
  BY <1>5, DeleteTyped
<1> QED
  BY <1>1, <1>2, <1>3, <1>4, <1>5, RestTyped DEF Next

\* Every variable keeps its type, and what a process remembers is what the steps
\* at its place rely on.
THEOREM TypeCorrect == Spec => []TypeOK
<1>1. Spec => []TypedInv
  BY StartTyped, NextTyped, PTL DEF Spec
<1> QED
  BY <1>1, TypedIsTypeOK, PTL

----------------------------------------------------------------------------
(* What is known of the plan of a run.                                     *)

\* Where a process cannot have planned under its own name yet.
Early == (OwnPhase \ {"open", "plan", "plan_journal", "note", "failing", "fail"})
           \cup {"idle", "recover_legacy", "recover_reset", "recovered"}

Fresh(t) == pc[t] \in Early \/ (pc[t] \in Shared /\ loc[t].tok # t)

\* A process at `where` with `l` knows that run t has plan P.
Carried(where, l, t, P) ==
    \/ where \in Carrying /\ l.tok = t /\ l.sources = P
    \/ /\ where = "recover" /\ l.snap.plan # None
       /\ l.snap.token = t /\ l.snap.plan = P

InOutput(t, P) == output[t] # {} /\ output[t] = P
InRow(t, P) ==
    row.retry # None /\ row.plan # None /\ row.token = t /\ row.plan = P

\* P is a plan of run t somewhere; somewhere but in the run before it wrote it.
Names(t, P) ==
    \/ InOutput(t, P) \/ InRow(t, P)
    \/ \E w \in Worker : Carried(pc[w], loc[w], t, P)
Published(t, P) ==
    \/ InOutput(t, P) \/ InRow(t, P)
    \/ \E w \in Worker : pc[w] \notin {"open", "plan"} /\ Carried(pc[w], loc[w], t, P)

\* Memories that no run will be given any more.
Hidden(P) == \A m \in P : memory[m].state \notin {"none", "active"}

\* A run has one plan, of memories that existed.  A run that nobody struck has the
\* claim, with its plan in the row, until its sources are hidden; no other such
\* run plans a memory of it.
NamesInv ==
    \A t \in Worker : \A P \in SUBSET Memory : Names(t, P) =>
      /\ ~Fresh(t)
      /\ \A m \in P : memory[m].state # "none"
      /\ \A Q \in SUBSET Memory : Names(t, Q) => P = Q
      /\ t \notin struck =>
           /\ row.token = t \/ Hidden(P)
           /\ Published(t, P) /\ row.token = t => row.plan = P
           /\ pc[t] = "fail" => Hidden(P)
           /\ \A u \in Worker \ (struck \cup {t}) : \A Q \in SUBSET Memory :
                Names(u, Q) => P \cap Q = {}

\* What the processes that carry out a plan rely on: the run has begun; the outputs
\* are stored before sources are marked; all are marked before the run ends.
CallOK(w, where, l) ==
    /\ where = "think" /\ w \notin struck => row.token = w
    /\ where \in Shared => \A t \in Worker : Fresh(t) => l.tok # t
    /\ where \in {"list", "recover_open", "mark"} =>
         output[l.tok] = l.sources \/ l.tok \in refused
    /\ where \in Carrying => Hidden(l.sources \ l.left)
    /\ where \in Ending => \A t \in Worker : \A P \in SUBSET Memory :
         l.tok = t /\ Names(t, P) => Hidden(P)

CallAt(w) == CallOK(w, pc[w], loc[w])
CallInv == \A w \in Worker : CallAt(w)

\* Under an explicit retry a plan in the row is that of its token.
RowInv ==
    /\ row.retry # None /\ row.plan # None => row.token # None
    /\ row.state = "absent" => row.token = None

Unborn == \A t \in Turn : pc[t] = "idle" => memory[t].state = "none"

SourceInv ==
    \A m \in Memory : memory[m].state = "source" =>
      /\ memory[m].by \in Worker
      /\ m \in output[memory[m].by] \/ memory[m].by \in refused

WorkInv ==
    TypedInv /\ NamesInv /\ CallInv /\ RowInv /\ Unborn /\ SourceInv

----------------------------------------------------------------------------
(* What a step does to it.                                                 *)

Frame(p) == \A q \in Proc \ {p} : pc'[q] = pc[q] /\ loc'[q] = loc[q]

\* Memories are stored, change, or become sources of a run that has its output.
Ages ==
    /\ \A t \in Turn : pc'[t] = "idle" => pc[t] = "idle"
    /\ \A m \in Memory :
         \/ memory'[m] = memory[m]
         \/ memory[m].state = "active" /\ memory'[m].state = "changed"
         \/ /\ m \in Turn /\ pc[m] = "idle" /\ pc'[m] # "idle"
            /\ memory'[m].state = "active"
         \/ /\ memory[m].state = "active" /\ memory'[m].state = "source"
            /\ memory'[m].by \in Worker
            /\ m \in output[memory'[m].by] \/ memory'[m].by \in refused

NamesKept ==
    \A t \in Worker : \A P \in SUBSET Memory : Names(t, P)' => Names(t, P)
PublishedKept ==
    \A t \in Worker : \A P \in SUBSET Memory : Published(t, P)' => Published(t, P)

TokenKept ==
    /\ struck \subseteq struck'
    /\ \A t \in Worker \ struck' : \A P \in SUBSET Memory :
         /\ row.token = t /\ row'.token # t /\ Names(t, P) => Hidden(P)
         /\ Published(t, P)' /\ row'.token = t => row'.plan = P
    /\ \A t \in Worker \ struck' :
         row.token = t /\ row'.token # t => pc'[t] # "think"

\* What a process relies on at the place it goes to holds before the step.
CallAfter(w) == CallOK(w, pc'[w], loc'[w])

\* A process goes to a place where it may be.
Orderly(p) ==
    /\ Fresh(p)' => Fresh(p)
    /\ CallAfter(p) \/ CallAt(p)'
    /\ pc'[p] = "fail" /\ p \notin struck' =>
         \A P \in SUBSET Memory : Names(p, P) => Hidden(P)

\* Memories only age.
LEMMA AgesHide ==
  ASSUME WorkInv, TypedInv', Ages
  PROVE  /\ \A m \in Memory : memory[m].state # "none" => memory'[m].state # "none"
         /\ \A P \in SUBSET Memory : Hidden(P) => Hidden(P)'
<1>1. \A m \in Memory :
        /\ memory[m].state # "none" => memory'[m].state # "none"
        /\ memory[m].state \notin {"none", "active"}
             => memory'[m].state \notin {"none", "active"}
  BY DEF WorkInv, Unborn, Ages
<1> QED
  BY <1>1 DEF Hidden

LEMMA FreshKept ==
  ASSUME TypedInv, NEW p, Frame(p), p \in Worker => (Fresh(p)' => Fresh(p))
  PROVE  \A t \in Worker : Fresh(t)' => Fresh(t)
  BY DEF Frame, Fresh, Proc

LEMMA CallKept ==
  ASSUME WorkInv, TypedInv', NEW w \in Worker, CallAfter(w),
         \A t \in Worker : Fresh(t)' => Fresh(t),
         \A P \in SUBSET Memory : Hidden(P) => Hidden(P)',
         NamesKept, struck \subseteq struck', refused \subseteq refused',
         row.token = w /\ row'.token # w /\ w \notin struck' => pc'[w] # "think",
         \A t \in Worker : output'[t] = output[t] \/ Names(t, output'[t])
  PROVE  CallAt(w)'
<1> DEFINE where == pc'[w]
           l == loc'[w]
<1>1. where = "think" /\ w \notin struck' => row'.token = w
  BY DEF CallAfter, CallOK
<1>2. where \in Shared => \A t \in Worker : Fresh(t)' => l.tok # t
  BY DEF CallAfter, CallOK
<1>3. ASSUME where \in {"list", "recover_open", "mark"}
      PROVE  output'[l.tok] = l.sources \/ l.tok \in refused'
  <2>1. LocalOK(w, where, l) /\ l \in Local
    BY DEF TypedInv, CallsTyped, Proc
  <2>2. l.tok \in Worker /\ l.sources \in SUBSET Memory
    BY <1>3, <2>1 DEF LocalOK, Carrying, Local
  <2>3. \A t, P : t = l.tok /\ P = l.sources => Names(t, P)'
    BY <1>3 DEF Names, Carried, Carrying
  <2>4. Names(l.tok, l.sources)
    BY <2>2, <2>3 DEF NamesKept
  <2>5. output'[l.tok] \in SUBSET Memory
    BY <2>2 DEF TypedInv, StoresTyped
  <2>6. output[l.tok] = l.sources \/ l.tok \in refused
    BY <1>3 DEF CallAfter, CallOK
  <2> QED
    BY <2>2, <2>4, <2>5, <2>6 DEF WorkInv, NamesInv
<1>4. where \in Carrying =>
        \A m \in l.sources \ l.left : memory'[m].state \notin {"none", "active"}
  <2>1. l \in Local
    BY DEF TypedInv, CallsTyped, Proc
  <2>2. l.sources \ l.left \in SUBSET Memory
    BY <2>1 DEF Local
  <2>3. where \in Carrying => Hidden(l.sources \ l.left)
    BY DEF CallAfter, CallOK
  <2>4. \A P \in SUBSET Memory : Hidden(P) =>
          \A m \in P : memory'[m].state \notin {"none", "active"}
    BY DEF Hidden
  <2> QED
    BY <2>2, <2>3, <2>4
<1>5. where \in Ending => \A t \in Worker : \A P \in SUBSET Memory :
        l.tok = t /\ Names(t, P)' => Hidden(P)'
  BY DEF CallAfter, CallOK, NamesKept
<1> QED
  BY <1>1, <1>2, <1>3, <1>4, <1>5 DEF CallAt, CallOK, Hidden

\* A step that tells nobody a new plan keeps the invariant.
LEMMA Keeps ==
  ASSUME WorkInv, TypedInv', NEW p, Frame(p), p \in Worker => Orderly(p),
         Ages, NamesKept, TokenKept, RowInv', refused \subseteq refused',
         \A t \in Worker : output'[t] = output[t] \/ Names(t, output'[t])
  PROVE  WorkInv'
<1> USE DEF WorkInv
<1>1. Worker \subseteq Proc
  BY DEF Proc
<1>2. \A t \in Worker : Fresh(t)' => Fresh(t)
  BY FreshKept DEF Orderly
<1>3. \A m \in Memory : memory[m].state # "none" => memory'[m].state # "none"
  BY AgesHide
<1>4. \A P \in SUBSET Memory : Hidden(P) => Hidden(P)'
  BY AgesHide
<1>5. NamesInv'
  <2> SUFFICES ASSUME NEW t \in Worker, NEW P \in SUBSET Memory, Names(t, P)'
               PROVE  /\ ~Fresh(t)'
                      /\ \A m \in P : memory'[m].state # "none"
                      /\ \A Q \in SUBSET Memory : Names(t, Q)' => P = Q
                      /\ t \notin struck' =>
                           /\ row'.token = t \/ Hidden(P)'
                           /\ Published(t, P)' /\ row'.token = t => row'.plan = P
                           /\ pc'[t] = "fail" => Hidden(P)'
                           /\ \A u \in Worker \ (struck' \cup {t}) :
                                \A Q \in SUBSET Memory : Names(u, Q)' => P \cap Q = {}
    BY DEF NamesInv
  <2>1. Names(t, P)
    BY DEF NamesKept
  <2>2. ~Fresh(t)' /\ \A m \in P : memory'[m].state # "none"
    BY <1>2, <1>3, <2>1 DEF NamesInv
  <2>3. \A Q \in SUBSET Memory : Names(t, Q)' => P = Q
    BY <2>1 DEF NamesInv, NamesKept
  <2>4. ASSUME t \notin struck'
        PROVE  /\ row'.token = t \/ Hidden(P)'
               /\ Published(t, P)' /\ row'.token = t => row'.plan = P
               /\ pc'[t] = "fail" => Hidden(P)'
               /\ \A u \in Worker \ (struck' \cup {t}) :
                    \A Q \in SUBSET Memory : Names(u, Q)' => P \cap Q = {}
    <3>1. t \notin struck
      BY <2>4 DEF TokenKept
    <3>2. row'.token = t \/ Hidden(P)'
      BY <1>4, <2>1, <2>4, <3>1 DEF NamesInv, TokenKept
    <3>3. Published(t, P)' /\ row'.token = t => row'.plan = P
      BY <2>4 DEF TokenKept
    <3>4. pc'[t] = "fail" => Hidden(P)'
      <4>1. CASE t = p
        BY <1>4, <2>1, <2>4, <4>1 DEF Orderly
      <4>2. CASE t # p
        BY <1>1, <1>4, <2>1, <3>1, <4>2 DEF Frame, NamesInv
      <4> QED
        BY <4>1, <4>2
    <3>5. \A u \in Worker \ (struck' \cup {t}) :
            \A Q \in SUBSET Memory : Names(u, Q)' => P \cap Q = {}
      BY <2>1, <3>1 DEF NamesInv, NamesKept, TokenKept
    <3> QED
      BY <3>2, <3>3, <3>4, <3>5
  <2> QED
    BY <2>2, <2>3, <2>4
<1>6. CallInv'
  <2> SUFFICES ASSUME NEW w \in Worker
               PROVE  CallAt(w)'
    BY DEF CallInv
  <2>1. CallAfter(w) \/ CallAt(w)'
    BY <1>1 DEF Orderly, Frame, CallInv, CallAt, CallAfter
  <2>2. CASE CallAfter(w)
    BY <1>2, <1>4, <2>2, CallKept DEF TokenKept
  <2> QED
    BY <2>1, <2>2
<1>7. Unborn'
  BY DEF Unborn, Ages, Memory
<1>8. SourceInv'
  <2> SUFFICES ASSUME NEW m \in Memory, memory'[m].state = "source"
               PROVE  /\ memory'[m].by \in Worker
                      /\ m \in output'[memory'[m].by] \/ memory'[m].by \in refused'
    BY DEF SourceInv
  <2>1. /\ memory'[m].by \in Worker
        /\ m \in output[memory'[m].by] \/ memory'[m].by \in refused
    BY DEF Ages, SourceInv
  <2> DEFINE t == memory'[m].by
  <2>2. ASSUME m \in output[t]
        PROVE  m \in output'[t]
    <3>1. output[t] \in SUBSET Memory /\ output'[t] \in SUBSET Memory
      BY <2>1 DEF TypedInv, StoresTyped
    <3>2. Names(t, output[t])
      BY <2>2 DEF Names, InOutput
    <3> QED
      BY <2>1, <2>2, <3>1, <3>2 DEF NamesInv
  <2> QED
    BY <2>1, <2>2
<1> QED
  BY <1>5, <1>6, <1>7, <1>8

----------------------------------------------------------------------------
(* The kinds of writes of the row, and of moves of a process.              *)

\* A write that leaves the claim and its plan alone, one that takes the claim from
\* the run by point ID (`own` is not counted as struck), the end of the run that p
\* carried out, and a claim.
Calm ==
    /\ row'.token = row.token /\ row'.plan = row.plan /\ struck' = struck
    /\ row'.retry # None /\ row'.plan # None => row.retry # None
    /\ row'.state = "absent" => row.state = "absent"
Strikes(own) ==
    /\ row'.token = None /\ Struck(own)
    /\ row'.retry = None \/ row'.plan = None
Frees(t) ==
    /\ row.token = t /\ row'.token = None /\ row'.plan = None /\ struck' = struck
Claims(w) ==
    /\ row.token = None /\ row'.token = w /\ struck' = struck
    /\ row'.plan = row.plan /\ row'.retry = row.retry /\ row'.state # "absent"

RowStep(p) ==
    \/ Calm
    \/ Strikes(None)
    \/ p \in Worker /\ pc[p] = "fail" /\ pc'[p] # "think" /\ Strikes(p)
    \/ p \in Worker /\ pc[p] \in Ending \cap Shared /\ pc'[p] # "think" /\ Frees(loc[p].tok)
    \/ p \in Worker /\ pc[p] = "claim" /\ Claims(p)

LEMMA RowKeeps ==
  ASSUME WorkInv, NEW p, Frame(p), RowStep(p)
  PROVE  /\ RowInv' /\ struck \subseteq struck'
         /\ \A t \in Worker : \A P : InRow(t, P)' => InRow(t, P)
         /\ PublishedKept => TokenKept
<1> USE DEF WorkInv
<1> None \notin Worker
  BY StoreAssumption
<1> row \in Row /\ Worker \subseteq Proc
  BY DEF TypedInv, StoresTyped, Proc
<1>1. CASE Calm
  <2>1. PublishedKept => TokenKept
    <3> SUFFICES ASSUME PublishedKept, NEW t \in Worker \ struck, NEW P \in SUBSET Memory,
                        Published(t, P)', row.token = t
                 PROVE  row.plan = P
      BY <1>1 DEF Calm, TokenKept
    <3>1. Published(t, P) /\ Names(t, P)
      BY DEF PublishedKept, Published, Names
    <3> QED
      BY <3>1 DEF NamesInv
  <2> QED
    BY <1>1, <2>1 DEF Calm, RowInv, InRow
<1>2. ASSUME NEW own, Strikes(own),
             own = None \/ (own = p /\ p \in Worker /\ pc[p] = "fail" /\ pc'[p] # "think")
      PROVE  /\ RowInv' /\ struck \subseteq struck'
             /\ \A t \in Worker : \A P : InRow(t, P)' => InRow(t, P)
             /\ TokenKept
  <2>1. \A t \in Worker \ struck' : row.token = t => t = own
    BY <1>2 DEF Strikes, Struck
  <2>2. struck \subseteq struck'
    BY <1>2 DEF Strikes, Struck
  <2>3. TokenKept
    BY <1>2, <2>1, <2>2 DEF TokenKept, Strikes, NamesInv
  <2> QED
    BY <1>2, <2>2, <2>3 DEF Strikes, RowInv, InRow
<1>3. CASE p \in Worker /\ pc[p] \in Ending \cap Shared /\ pc'[p] # "think"
           /\ Frees(loc[p].tok)
  <2> DEFINE t == loc[p].tok
  <2>1. /\ \A P \in SUBSET Memory : t \in Worker /\ Names(t, P) => Hidden(P)
        /\ t \in Worker => ~Fresh(t)
    BY <1>3 DEF CallInv, CallAt, CallOK
  <2>2. t \in Worker => pc'[t] # "think"
    BY <1>3, <2>1 DEF Frame, Fresh, Early, OwnPhase
  <2> QED
    BY <1>3, <2>1, <2>2 DEF Frees, RowInv, InRow, TokenKept
<1>4. CASE p \in Worker /\ pc[p] = "claim" /\ Claims(p)
  <2>1. \A P \in SUBSET Memory : ~Names(p, P)
    BY <1>4 DEF NamesInv, Fresh, Early, OwnPhase
  <2>2. PublishedKept => TokenKept
    BY <1>4, <2>1 DEF Claims, TokenKept, PublishedKept, Published, Names
  <2> QED
    BY <1>4, <2>2 DEF Claims, RowInv, InRow
<1> QED
  BY <1>1, <1>2, <1>3, <1>4 DEF RowStep

\* A process knows no more than somebody knew before.
Tame(p) ==
    \A t \in Worker : \A P \in SUBSET Memory : Carried(pc'[p], loc'[p], t, P) =>
      Names(t, P) /\ (pc'[p] \notin {"open", "plan"} => Published(t, P))

Moved(p) == p \in Worker => Orderly(p) /\ Tame(p)

OutputKept ==
    /\ \A t \in Worker : output'[t] = output[t]
                           \/ (output'[t] \in SUBSET Memory /\ Published(t, output'[t]))
    /\ refused \subseteq refused'

LEMMA Advance ==
  ASSUME WorkInv, TypedInv', NEW p, Frame(p), Moved(p), RowStep(p), Ages, OutputKept
  PROVE  WorkInv'
<1>1. \A t \in Worker : \A P : InRow(t, P)' => InRow(t, P)
  BY RowKeeps
<1>2. \A t \in Worker : \A P : InOutput(t, P)' => InOutput(t, P) \/ Published(t, P)
  BY DEF OutputKept, InOutput
<1>3. \A w \in Worker \ {p} : pc'[w] = pc[w] /\ loc'[w] = loc[w]
  BY DEF Frame, Proc
<1>4. NamesKept
  <2> SUFFICES ASSUME NEW t \in Worker, NEW P \in SUBSET Memory, Names(t, P)'
               PROVE  Names(t, P)
    BY DEF NamesKept
  <2>1. Published(t, P) => Names(t, P)
    BY DEF Published, Names
  <2>2. ASSUME NEW w \in Worker, Carried(pc'[w], loc'[w], t, P)
        PROVE  Names(t, P)
    BY <1>3, <2>2 DEF Moved, Tame, Names
  <2> QED
    BY <1>1, <1>2, <2>1, <2>2 DEF Names
<1>5. PublishedKept
  <2> SUFFICES ASSUME NEW t \in Worker, NEW P \in SUBSET Memory, Published(t, P)'
               PROVE  Published(t, P)
    BY DEF PublishedKept
  <2>1. ASSUME NEW w \in Worker, pc'[w] \notin {"open", "plan"},
               Carried(pc'[w], loc'[w], t, P)
        PROVE  Published(t, P)
    BY <1>3, <2>1 DEF Moved, Tame, Published
  <2> QED
    BY <1>1, <1>2, <2>1 DEF Published
<1>6. TokenKept /\ RowInv'
  BY <1>5, RowKeeps
<1>7. \A t \in Worker : output'[t] = output[t] \/ Names(t, output'[t])
  BY DEF OutputKept, Published, Names
<1> QED
  BY <1>4, <1>6, <1>7, Keeps DEF Moved, OutputKept
Watched == Carrying \cup Ending \cup {"recover", "think", "fail"}

\* To a place where a process knows of no plan.
Quiet(p) == pc'[p] \notin Watched /\ (pc'[p] \in Early => pc[p] \in Early \/ Fresh(p))

LEMMA QuietMove ==
  ASSUME NEW p, Quiet(p)
  PROVE  Moved(p)
<1>1. pc'[p] \notin Shared
  BY DEF Quiet, Watched, Shared
<1>2. Fresh(p)' => Fresh(p)
  BY <1>1 DEF Quiet, Fresh
<1>3. CallAfter(p)
  BY <1>1 DEF CallAfter, CallOK, Quiet, Watched, Carrying
<1> QED
  BY <1>2, <1>3 DEF Moved, Orderly, Tame, Quiet, Watched, Carried

SameMind(p) ==
    /\ loc'[p].tok = loc[p].tok /\ loc'[p].sources = loc[p].sources
    /\ loc'[p].left = loc[p].left /\ loc'[p].snap = loc[p].snap

LEMMA StayMove ==
  ASSUME WorkInv, NEW p, pc'[p] = pc[p], SameMind(p), struck \subseteq struck'
  PROVE  Moved(p)
<1> SUFFICES ASSUME p \in Worker PROVE Orderly(p) /\ Tame(p)
  BY DEF Moved
<1>1. Fresh(p)' => Fresh(p)
  BY DEF Fresh, SameMind
<1>2. CallAfter(p)
  BY DEF WorkInv, CallInv, CallAt, CallAfter, CallOK, SameMind
<1>3. \A t \in Worker : \A P \in SUBSET Memory :
        Carried(pc'[p], loc'[p], t, P) => Carried(pc[p], loc[p], t, P)
  BY DEF Carried, SameMind
<1>4. Tame(p)
  BY <1>3 DEF Tame, Names, Published
<1>5. pc'[p] = "fail" /\ p \notin struck' =>
         \A P \in SUBSET Memory : Names(p, P) => Hidden(P)
  BY DEF WorkInv, NamesInv
<1> QED
  BY <1>1, <1>2, <1>4, <1>5 DEF Orderly

\* With the plan to the next place of those that carry it out.
LEMMA CarryMove ==
  ASSUME WorkInv, NEW p \in Worker, pc[p] \in Carrying, pc'[p] \in Carrying,
         pc[p] \in {"open", "plan", "plan_journal"} \/ pc'[p] \in Shared,
         loc'[p].tok = loc[p].tok, loc'[p].sources = loc[p].sources
  PROVE  /\ Fresh(p)' => Fresh(p)
         /\ pc'[p] \in Shared => \A t \in Worker : Fresh(t) => loc'[p].tok # t
         /\ \A t \in Worker : \A P \in SUBSET Memory :
              Carried(pc'[p], loc'[p], t, P) => Names(t, P)
         /\ pc[p] # "plan" /\ (pc[p] = "open" => pc'[p] = "plan") => Tame(p)
         /\ /\ pc[p] # "plan" /\ (pc[p] = "open" => pc'[p] = "plan")
            /\ pc'[p] \notin {"list", "recover_open", "mark"}
            /\ loc'[p].left = loc[p].left
            => Moved(p)
<1>1. pc[p] \in {"open", "plan", "plan_journal"} => loc[p].tok = p /\ ~Fresh(p)
  BY RunFacts DEF WorkInv, LocalOK, OwnPhase, Fresh, Early, Shared
<1>2. pc[p] \notin {"open", "plan", "plan_journal"} => pc[p] \in Shared
  BY DEF Shared, Carrying
<1>3. Fresh(p)' => Fresh(p)
  BY <1>1, <1>2 DEF Fresh, Early, OwnPhase, Carrying, Shared
<1>4. pc'[p] \in Shared => \A t \in Worker : Fresh(t) => loc'[p].tok # t
  BY <1>1, <1>2 DEF WorkInv, CallInv, CallAt, CallOK
<1>5. \A t \in Worker : \A P \in SUBSET Memory :
        Carried(pc'[p], loc'[p], t, P) => Carried(pc[p], loc[p], t, P)
  BY DEF Carried, Carrying
<1>6. ASSUME pc[p] # "plan", pc[p] = "open" => pc'[p] = "plan"
      PROVE  Tame(p)
  BY <1>5, <1>6 DEF Tame, Names, Published
<1>7. ASSUME pc'[p] \notin {"list", "recover_open", "mark"}, loc'[p].left = loc[p].left
      PROVE  CallAfter(p)
  <2>1. Hidden(loc'[p].sources \ loc'[p].left)
    BY <1>7 DEF WorkInv, CallInv, CallAt, CallOK
  <2> QED
    BY <1>4, <1>7, <2>1 DEF CallAfter, CallOK, Carrying, Ending
<1> QED
  BY <1>3, <1>4, <1>5, <1>6, <1>7 DEF Names, Moved, Orderly, Carrying

\* From one of the last places of a run to another.
LEMMA EndMove ==
  ASSUME WorkInv, NEW p \in Worker, pc[p] \in Ending, pc'[p] \in Ending \cap Shared,
         loc'[p].tok = loc[p].tok
  PROVE  Moved(p)
<1>1. pc[p] = "note" => loc[p].tok = p /\ ~Fresh(p)
  BY RunFacts DEF WorkInv, LocalOK, OwnPhase, Fresh, Early, Shared
<1>2. pc[p] # "note" => pc[p] \in Shared
  BY DEF Shared, Ending
<1>3. Fresh(p)' => Fresh(p)
  BY <1>1, <1>2 DEF Fresh, Early, OwnPhase, Shared, Ending
<1>4. CallAfter(p)
  BY <1>1, <1>2 DEF WorkInv, CallInv, CallAt, CallOK, CallAfter, Ending, Carrying, Shared
<1> QED
  BY <1>3, <1>4 DEF Moved, Orderly, Tame, Carried, Ending, Carrying

\* To the recovery of what it read of the row.
LEMMA RecoverMove ==
  ASSUME NEW p, pc'[p] = "recover", pc[p] \in Early, row.retry # None,
         loc'[p].snap.token = row.token, loc'[p].snap.plan = row.plan
  PROVE  Moved(p)
<1>1. Fresh(p)' => Fresh(p)
  BY DEF Fresh
<1>2. CallAfter(p)
  BY DEF CallAfter, CallOK, Shared, Carrying, Ending
<1>3. \A t \in Worker : \A P \in SUBSET Memory :
        Carried(pc'[p], loc'[p], t, P) => InRow(t, P)
  BY DEF Carried, Carrying, InRow
<1> QED
  BY <1>1, <1>2, <1>3 DEF Moved, Orderly, Tame, Names, Published

----------------------------------------------------------------------------
(* The parts of the actions.                                               *)

LEMMA Goes ==
  ASSUME CallsTyped, NEW p \in Proc, NEW where, NEW l, Goto(p, where, l)
  PROVE  Frame(p) /\ pc'[p] = where /\ loc'[p] = l
  BY DEF CallsTyped, Goto, Frame

LEMMA Ends ==
  ASSUME CallsTyped, NEW p \in Proc, NEW answer,
         Done(p, answer) \/ EndRun(p, answer)
  PROVE  /\ Frame(p) /\ pc'[p] \in {"done", "retry_end"} /\ Quiet(p)
         /\ Done(p, answer) => pc'[p] = "done"
<1>1. Frame(p) /\ pc'[p] \in {"done", "retry_end"}
  BY DEF CallsTyped, Done, EndRun, Frame
<1> QED
  BY <1>1 DEF Quiet, Watched, Carrying, Ending, Early, OwnPhase, Done, CallsTyped

LEMMA Fails ==
  ASSUME CallsTyped, NEW p \in Proc, Fail(p)
  PROVE  Frame(p) /\ pc'[p] \in {"failing", "done", "retry_fail"} /\ Quiet(p)
<1>1. Frame(p) /\ pc'[p] \in {"failing", "done", "retry_fail"}
  BY DEF CallsTyped, Fail, Goto, Done, Frame
<1> QED
  BY <1>1 DEF Quiet, Watched, Carrying, Ending, Early, OwnPhase

\* A step that changes no memory, or not what the memories and outputs say of a run.
LEMMA AgesStill ==
  ASSUME NEW p, Frame(p), pc'[p] # "idle" \/ pc'[p] = pc[p], UNCHANGED memory
  PROVE  Ages
  BY DEF Frame, Ages, Proc

LEMMA OutputStill ==
  ASSUME UNCHANGED <<output, refused>>
  PROVE  OutputKept
  BY DEF OutputKept

LEMMA RowStill ==
  ASSUME UNCHANGED <<row, struck>>
  PROVE  Calm
  BY DEF Calm
----------------------------------------------------------------------------
(* The actions.                                                            *)

\* A step that moves one process to a place where it knows of no plan.
LEMMA QuietStep ==
  ASSUME WorkInv, TypedInv', NEW p, Frame(p), Quiet(p), pc'[p] # "idle",
         RowStep(p), UNCHANGED <<memory, output, refused>>
  PROVE  WorkInv'
  BY QuietMove, AgesStill, OutputStill, Advance

LEMMA TurnWorks ==
  ASSUME WorkInv, TypedInv', NEW t \in Turn, TurnStep(t)
  PROVE  WorkInv'
<1> t \in Proc /\ CallsTyped /\ row \in Row
  BY DEF WorkInv, TypedInv, StoresTyped, Proc
<1>1. \A where \in {"append", "read", "create", "set", "confirm", "clear", "done"} :
        pc'[t] = where => Quiet(t) /\ pc'[t] # "idle"
  BY DEF Quiet, Watched, Carrying, Ending, Early, OwnPhase
<1>2. \A a : Done(t, a) => Frame(t) /\ pc'[t] = "done"
  BY DEF Done, Frame, CallsTyped
<1>3. CASE StoreRaw(t)
  <2>1. /\ Frame(t) /\ pc'[t] \in {"append", "read"}
        /\ UNCHANGED <<row, output, history>> /\ pc[t] = "idle"
    BY <1>3, Goes DEF StoreRaw
  <2>2. Ages
    <3>1. memory[t].state = "none"
      BY <2>1 DEF WorkInv, Unborn
    <3>2. \/ UNCHANGED memory
          \/ memory' = [memory EXCEPT ![t].state = "active"]
      BY <1>3 DEF StoreRaw
    <3>3. \A m \in Memory : memory'[m] = memory[m]
                             \/ (m = t /\ memory'[m].state = "active")
      BY <3>2 DEF WorkInv, TypedInv, StoresTyped, Raw
    <3> QED
      BY <2>1, <3>3 DEF Ages, Frame, Proc
  <2> QED
    BY <1>1, <2>1, <2>2, QuietMove, OutputStill, RowStill, Advance DEF RowStep, history
<1>4. CASE Append(t) \/ ReadSession(t)
  BY <1>1, <1>4, Goes, RowStill, QuietStep DEF Append, ReadSession, RowStep, stores, history
<1>5. CASE CreateSession(t)
  <2>1. Strikes(None)
    BY <1>5 DEF CreateSession, Strikes, Created, Resting, NoRow
  <2> QED
    BY <1>1, <1>2, <1>5, <2>1, QuietStep DEF CreateSession, RowStep
<1>6. CASE SetSession(t)
  <2>1. Calm
    BY <1>6 DEF SetSession, Turned, StateAfterTurn, Calm, Row, history
  <2> QED
    BY <1>1, <1>6, <2>1, Goes, QuietStep DEF SetSession, RowStep, history
<1>7. CASE Confirm(t)
  BY <1>1, <1>2, <1>7, Goes, RowStill, QuietStep DEF Confirm, RowStep, stores, history
<1>8. CASE ClearSession(t)
  <2>1. Calm \/ Strikes(None)
    BY <1>8 DEF ClearSession, Cleared, Stored, Struck, Calm, Strikes, Row
  <2> QED
    BY <1>1, <1>2, <1>8, <2>1, QuietStep DEF ClearSession, RowStep
<1> QED
  BY <1>3, <1>4, <1>5, <1>6, <1>7, <1>8 DEF TurnStep

LEMMA DeleteWorks ==
  ASSUME WorkInv, TypedInv', NEW d \in Deletion, DeleteStep(d)
  PROVE  WorkInv'
<1> d \in Proc /\ CallsTyped /\ row \in Row
  BY DEF WorkInv, TypedInv, StoresTyped, Proc
<1>1. \A where \in {"retract", "delete", "unlink", "done"} :
        pc'[d] = where => Quiet(d) /\ pc'[d] # "idle"
  BY DEF Quiet, Watched, Carrying, Ending, Early, OwnPhase
<1>2. \A a : Done(d, a) => Frame(d) /\ pc'[d] = "done"
  BY DEF Done, Frame, CallsTyped
<1>3. CASE BeginDelete(d) \/ DeleteLinks(d)
  BY <1>1, <1>2, <1>3, Goes, RowStill, QuietStep
     DEF BeginDelete, DeleteLinks, RowStep, stores, history
<1>4. CASE RetractMemory(d)
  <2>1. /\ Frame(d) /\ pc'[d] \in {"retract", "delete", "done"}
        /\ UNCHANGED <<row, output, history>>
    BY <1>2, <1>4, Goes DEF RetractMemory
  <2>2. \A m \in Memory : \/ memory'[m] = memory[m]
                          \/ memory[m].state = "active" /\ memory'[m].state = "changed"
    <3>1. \/ UNCHANGED memory
          \/ \E m \in loc[d].left : /\ memory[m].state = "active"
                                    /\ memory' = [memory EXCEPT ![m].state = "changed"]
      BY <1>4 DEF RetractMemory
    <3> QED
      BY <3>1 DEF WorkInv, TypedInv, StoresTyped, Raw
  <2>3. Ages
    BY <2>1, <2>2 DEF Ages, Frame, Proc
  <2> QED
    BY <1>1, <2>1, <2>3, QuietMove, OutputStill, RowStill, Advance DEF RowStep, history
<1>5. CASE DeleteRow(d)
  <2>1. Strikes(None)
    BY <1>5 DEF DeleteRow, Strikes, NoRow
  <2> QED
    BY <1>1, <1>2, <1>5, <2>1, Goes, QuietStep DEF DeleteRow, RowStep
<1> QED
  BY <1>3, <1>4, <1>5 DEF DeleteStep

\* Nobody moves.
LEMMA RestWorks ==
  ASSUME WorkInv, TypedInv',
         \/ \E m \in Memory : ChangeMemory(m)
         \/ ExpireRetry \/ ExpireSession \/ UNCHANGED vars
  PROVE  WorkInv'
<1> DEFINE p == CHOOSE x : x \notin Proc
<1> p \notin Proc
  BY NoSetContainsEverything
<1> p \notin Worker /\ row \in Row
  BY DEF WorkInv, TypedInv, StoresTyped, Proc
<1>1. UNCHANGED <<pc, loc, output, history>>
  BY DEF ChangeMemory, ExpireRetry, ExpireSession, vars
<1>2. Frame(p) /\ Moved(p) /\ OutputKept
  BY <1>1, OutputStill DEF Frame, Moved, history
<1>3. Calm
  BY DEF ChangeMemory, ExpireRetry, ExpireSession, vars, Calm, Row, history
<1>4. \A m \in Memory : \/ memory'[m] = memory[m]
                        \/ memory[m].state = "active" /\ memory'[m].state = "changed"
  BY DEF ChangeMemory, ExpireRetry, ExpireSession, vars, WorkInv, TypedInv, StoresTyped, Raw
<1>5. Ages
  BY <1>1, <1>4 DEF Ages
<1> QED
  BY <1>2, <1>3, <1>5, Advance DEF RowStep

LEMMA BeginWorks ==
  ASSUME WorkInv, TypedInv', NEW w \in Worker,
         BeginSweep(w) \/ BeginManual(w) \/ ResetFailed(w)
  PROVE  WorkInv'
<1> w \in Proc /\ CallsTyped /\ row \in Row
  BY DEF WorkInv, TypedInv, StoresTyped, Proc
<1>1. /\ Frame(w) /\ pc[w] \in {"idle", "reset"} /\ pc'[w] \in {"claim", "reset", "done"}
      /\ UNCHANGED <<memory, output, history>>
  <2>1. CASE BeginSweep(w)
    BY <2>1, Goes DEF BeginSweep, stores
  <2>2. CASE BeginManual(w)
    BY <2>2, Goes, Ends DEF BeginManual, stores
  <2>3. CASE ResetFailed(w)
    BY <2>3, Goes DEF ResetFailed
  <2> QED
    BY <2>1, <2>2, <2>3
<1>2. Quiet(w)
  BY <1>1 DEF Quiet, Watched, Carrying, Ending, Early, OwnPhase
<1>3. Calm
  BY DEF BeginSweep, BeginManual, ResetFailed, Retriable, Stored, Calm, Row, stores, history
<1> QED
  BY <1>1, <1>2, <1>3, QuietStep DEF RowStep, history

\* The guard is asked, and the batch runs into its deadline.
LEMMA StayWorks ==
  ASSUME WorkInv, TypedInv', NEW w \in Worker, Guard(w) \/ Timeout(w)
  PROVE  WorkInv'
<1> w \in Proc /\ CallsTyped /\ loc[w] \in Local
  BY RunFacts DEF WorkInv
<1>1. UNCHANGED <<row, memory, output, refused, struck>>
  BY DEF Guard, Timeout, stores, history
<1>2. CASE Timeout(w) \/ (Guard(w) /\ Owns(w))
  <2>1. Frame(w) /\ pc'[w] = pc[w] /\ SameMind(w)
    <3>1. CASE Timeout(w)
      BY <3>1, FieldsKept DEF Timeout, Frame, SameMind, CallsTyped
    <3>2. CASE Guard(w) /\ Owns(w)
      <4>1. Frame(w) /\ pc'[w] = pc[w] /\ loc'[w] = [loc[w] EXCEPT !.armed = TRUE]
        BY <3>2, Goes DEF Guard
      <4> QED
        BY <4>1 DEF SameMind, Local
    <3> QED
      BY <1>2, <3>1, <3>2
  <2> QED
    BY <1>1, <2>1, StayMove, AgesStill, OutputStill, RowStill, Advance DEF RowStep
<1>3. CASE Guard(w) /\ ~Owns(w)
  <2>1. Frame(w) /\ Quiet(w) /\ pc'[w] # "idle"
    BY <1>3, Ends, Fails DEF Guard
  <2> QED
    BY <1>1, <2>1, RowStill, QuietStep DEF RowStep
<1> QED
  BY <1>2, <1>3

LEMMA ClaimWorks ==
  ASSUME WorkInv, TypedInv', NEW w \in Worker, Claim(w) \/ CheckClaim(w)
  PROVE  WorkInv'
<1> w \in Proc /\ CallsTyped /\ row \in Row
  BY RunFacts DEF WorkInv
<1>1. CASE Claim(w)
  <2>1. /\ Frame(w) /\ pc[w] = "claim" /\ pc'[w] = "check"
        /\ UNCHANGED <<memory, output, history>>
    BY <1>1, Goes DEF Claim
  <2>2. Quiet(w)
    BY <2>1 DEF Quiet, Watched, Carrying, Ending, Early, OwnPhase
  <2>3. Calm \/ Claims(w)
    BY <1>1 DEF Claim, Claimed, Claimable, Calm, Claims, Row, history
  <2> QED
    BY <2>1, <2>2, <2>3, QuietStep DEF RowStep, history
<1>2. CASE CheckClaim(w) /\ row.token # w
  <2>1. Frame(w) /\ Quiet(w) /\ pc'[w] # "idle"
    BY <1>2, Ends DEF CheckClaim
  <2> QED
    BY <1>2, <2>1, RowStill, QuietStep DEF RowStep, CheckClaim, stores, history
<1>3. CASE CheckClaim(w) /\ row.token = w
  <2>1. /\ Frame(w) /\ pc[w] = "check" /\ pc'[w] = "think"
        /\ UNCHANGED <<row, memory, output, refused, struck>>
    BY <1>3, Goes DEF CheckClaim, stores, history
  <2>2. Fresh(w)
    BY <2>1 DEF Fresh, Early, OwnPhase
  <2>3. CallAfter(w)
    BY <1>3, <2>1 DEF CallAfter, CallOK, Shared, Carrying, Ending
  <2>4. Moved(w)
    BY <2>1, <2>2, <2>3 DEF Moved, Orderly, Tame, Carried, Carrying
  <2> QED
    BY <2>1, <2>4, AgesStill, OutputStill, RowStill, Advance DEF RowStep
<1> QED
  BY <1>1, <1>2, <1>3

\* The run decides for a plan: the only step that makes one.
LEMMA DecideWorks ==
  ASSUME WorkInv, TypedInv', NEW w \in Worker, pc[w] = "think", Frame(w),
         NEW used \in SUBSET Fetched(w), pc'[w] = "open",
         loc'[w].tok = w, loc'[w].sources = used, loc'[w].left = used,
         UNCHANGED <<row, memory, output, refused, struck>>
  PROVE  WorkInv'
<1> USE DEF WorkInv
<1> w \in Proc /\ Worker \subseteq Proc
  BY DEF Proc
<1>1. used \in SUBSET Memory /\ \A m \in used : memory[m].state = "active"
  <2>1. loc[w].snap.mems \in SUBSET Memory
    BY RunFacts DEF Row
  <2> QED
    BY <2>1 DEF Fetched
<1>2. \A P \in SUBSET Memory : ~Names(w, P)
  BY DEF NamesInv, Fresh, Early, OwnPhase
<1>3. \A t \in Worker, P \in SUBSET Memory :
        /\ Names(t, P)' <=> Names(t, P) \/ (t = w /\ P = used)
        /\ Published(t, P)' <=> Published(t, P)
  <2>1. \A v \in Worker \ {w} : pc'[v] = pc[v] /\ loc'[v] = loc[v]
    BY DEF Frame
  <2>2. \A t, P : ~Carried(pc[w], loc[w], t, P)
    BY DEF Carried, Carrying
  <2>3. \A t, P : Carried(pc'[w], loc'[w], t, P) <=> t = w /\ P = used
    BY DEF Carried, Carrying
  <2>4. \A t, P : (InOutput(t, P)' <=> InOutput(t, P)) /\ (InRow(t, P)' <=> InRow(t, P))
    BY DEF InOutput, InRow
  <2> QED
    BY <2>1, <2>2, <2>3, <2>4 DEF Names, Published
<1>4. \A t \in Worker : Fresh(t)' <=> Fresh(t) /\ t # w
  BY DEF Frame, Fresh, Early, OwnPhase, Shared
<1>5. \A P : Hidden(P)' <=> Hidden(P)
  BY DEF Hidden
<1>6. w \notin struck => row.token = w
  BY DEF CallInv, CallAt, CallOK
<1>7. ASSUME NEW u \in Worker \ {w}, u \notin struck, w \notin struck,
             NEW Q \in SUBSET Memory, Names(u, Q)
      PROVE  Q \cap used = {}
  <2>1. Hidden(Q)
    BY <1>6, <1>7 DEF NamesInv
  <2> QED
    BY <1>1, <2>1 DEF Hidden
<1>8. NamesInv'
  <2> SUFFICES ASSUME NEW t \in Worker, NEW P \in SUBSET Memory, Names(t, P)'
               PROVE  /\ ~Fresh(t)'
                      /\ \A m \in P : memory[m].state # "none"
                      /\ \A Q \in SUBSET Memory : Names(t, Q)' => P = Q
                      /\ t \notin struck =>
                           /\ row.token = t \/ Hidden(P)
                           /\ Published(t, P)' /\ row.token = t => row.plan = P
                           /\ pc'[t] = "fail" => Hidden(P)
                           /\ \A u \in Worker \ (struck \cup {t}) :
                                \A Q \in SUBSET Memory : Names(u, Q)' => P \cap Q = {}
    BY <1>5 DEF NamesInv
  <2>1. CASE t = w
    <3>1. P = used
      BY <1>2, <1>3, <2>1
    <3>2. \A Q \in SUBSET Memory : Names(t, Q)' => P = Q
      BY <1>2, <1>3, <2>1, <3>1
    <3>3. ~Published(t, P)'
      BY <1>2, <1>3, <2>1 DEF Published, Names
    <3>4. w \notin struck => \A u \in Worker \ (struck \cup {t}) :
            \A Q \in SUBSET Memory : Names(u, Q)' => P \cap Q = {}
      BY <1>3, <1>7, <2>1, <3>1
    <3> QED
      BY <1>1, <1>4, <1>6, <2>1, <3>1, <3>2, <3>3, <3>4
  <2>2. CASE t # w
    <3>1. Names(t, P)
      BY <1>3, <2>2
    <3>2. \A Q \in SUBSET Memory : Names(t, Q)' => P = Q
      BY <1>3, <2>2, <3>1 DEF NamesInv
    <3>3. pc'[t] = pc[t]
      BY <2>2 DEF Frame
    <3>4. ASSUME t \notin struck, NEW u \in Worker \ (struck \cup {t}),
                 NEW Q \in SUBSET Memory, Names(u, Q)'
          PROVE  P \cap Q = {}
      <4>1. CASE Names(u, Q)
        BY <3>1, <3>4, <4>1 DEF NamesInv
      <4>2. CASE u = w /\ Q = used
        BY <1>7, <2>2, <3>1, <3>4, <4>2
      <4> QED
        BY <1>3, <3>4, <4>1, <4>2
    <3>5. /\ ~Fresh(t)
          /\ \A m \in P : memory[m].state # "none"
          /\ t \notin struck =>
               /\ row.token = t \/ Hidden(P)
               /\ Published(t, P) /\ row.token = t => row.plan = P
               /\ pc[t] = "fail" => Hidden(P)
      BY <3>1 DEF NamesInv
    <3> QED
      BY <1>3, <1>4, <3>2, <3>3, <3>4, <3>5
  <2> QED
    BY <2>1, <2>2
<1>9. CallInv'
  <2> SUFFICES ASSUME NEW v \in Worker PROVE CallAt(v)'
    BY DEF CallInv
  <2>1. CASE v = w
    BY <2>1 DEF CallAt, CallOK, Shared, Ending, Hidden
  <2>2. CASE v # w
    <3>1. pc'[v] = pc[v] /\ loc'[v] = loc[v] /\ CallAt(v)
      BY <2>2 DEF Frame, CallInv
    <3>2. ASSUME pc[v] \in Ending, NEW t \in Worker, NEW P \in SUBSET Memory,
                 loc[v].tok = t, Names(t, P)'
          PROVE  Hidden(P)
      <4>1. t # w
        <5>1. CASE pc[v] = "note"
          BY <2>2, <3>2, <5>1, RunFacts DEF LocalOK, OwnPhase
        <5>2. CASE pc[v] # "note"
          BY <3>1, <3>2, <5>2 DEF CallAt, CallOK, Shared, Ending, Fresh, Early, OwnPhase
        <5> QED
          BY <5>1, <5>2
      <4> QED
        BY <1>3, <3>1, <3>2, <4>1 DEF CallAt, CallOK
    <3> QED
      BY <1>4, <1>5, <3>1, <3>2 DEF CallAt, CallOK
  <2> QED
    BY <2>1, <2>2
<1>10. RowInv' /\ SourceInv'
  BY DEF RowInv, SourceInv
<1>11. Unborn'
  BY DEF Unborn, Frame, Proc
<1> QED
  BY <1>8, <1>9, <1>10, <1>11

LEMMA ThinkWorks ==
  ASSUME WorkInv, TypedInv', NEW w \in Worker, Think(w)
  PROVE  WorkInv'
<1> w \in Proc /\ CallsTyped /\ loc[w] \in Local
  BY RunFacts DEF WorkInv
<1>1. UNCHANGED <<row, memory, output, refused, struck>> /\ pc[w] = "think"
  BY DEF Think, stores, history
<1>2. loc[w].tok = w /\ Fresh(w)
  BY <1>1, RunFacts DEF WorkInv, LocalOK, OwnPhase, Fresh, Early
<1>3. ASSUME NEW used \in SUBSET Fetched(w),
             Goto(w, "open", [loc[w] EXCEPT !.sources = used, !.left = used])
      PROVE  WorkInv'
  <2>1. /\ Frame(w) /\ pc'[w] = "open"
        /\ loc'[w] = [loc[w] EXCEPT !.sources = used, !.left = used]
    BY <1>3, Goes
  <2>2. loc'[w].tok = w /\ loc'[w].sources = used /\ loc'[w].left = used
    BY <1>2, <2>1 DEF Local
  <2> QED
    BY <1>1, <2>1, <2>2, DecideWorks
<1>4. CASE Goto(w, "finalize", loc[w])
  <2>1. Frame(w) /\ pc'[w] = "finalize" /\ loc'[w] = loc[w]
    BY <1>4, Goes
  <2>2. \A P \in SUBSET Memory : ~Names(w, P)
    BY <1>2 DEF WorkInv, NamesInv
  <2>3. Tame(w)
    BY <2>1 DEF Tame, Carried, Carrying
  <2>4. CallAt(w)'
    <3>1. \A P \in SUBSET Memory : ~Names(w, P)'
      <4>1. \A v \in Worker \ {w} : pc'[v] = pc[v] /\ loc'[v] = loc[v]
        BY <2>1 DEF Frame, Proc
      <4>2. \A P : ~Carried(pc'[w], loc'[w], w, P)
        BY <2>1 DEF Carried, Carrying
      <4> QED
        BY <1>1, <2>2, <4>1, <4>2 DEF Names, InOutput, InRow
    <3> QED
      BY <1>2, <2>1, <3>1 DEF CallAt, CallOK, Fresh, Early, OwnPhase, Carrying
  <2>5. Moved(w)
    BY <1>2, <2>1, <2>3, <2>4 DEF Moved, Orderly
  <2> QED
    BY <1>1, <2>1, <2>5, AgesStill, OutputStill, RowStill, Advance DEF RowStep
<1>5. CASE Fail(w)
  <2>1. Frame(w) /\ Quiet(w) /\ pc'[w] # "idle"
    BY <1>5, Fails
  <2> QED
    BY <1>1, <2>1, RowStill, QuietStep DEF RowStep
<1> QED
  BY <1>3, <1>4, <1>5 DEF Think

\* The plan is in the row: the one write that publishes it.
LEMMA WritePlanWorks ==
  ASSUME WorkInv, TypedInv', NEW w \in Worker, WritePlan(w)
  PROVE  WorkInv'
<1> USE DEF WorkInv
<1> w \in Proc /\ CallsTyped /\ loc[w] \in Local /\ row \in Row
  BY RunFacts
<1> None \notin Worker
  BY StoreAssumption
<1> DEFINE P0 == loc[w].sources
<1>1. /\ Frame(w) /\ pc[w] = "plan" /\ pc'[w] = "plan_journal"
      /\ loc'[w] = Spent(w, loc[w]) /\ UNCHANGED <<memory, output, refused>>
  BY Goes DEF WritePlan
<1>2. loc[w].tok = w /\ SameMind(w) /\ P0 \in SUBSET Memory /\ Names(w, P0)
  <2>1. loc[w].tok = w /\ SameMind(w) /\ P0 \in SUBSET Memory
    BY <1>1, RunFacts DEF LocalOK, OwnPhase, SameMind
  <2> QED
    BY <1>1, <2>1 DEF Names, Carried, Carrying
<1>3. \/ row.state = "absent" /\ UNCHANGED <<row, struck>>
      \/ /\ row.state # "absent" /\ row'.state = "consolidating"
         /\ row'.token = w /\ row'.plan = P0
         /\ Struck(w)
  <2>1. row' = Planned(row, w, P0) /\ Struck(w)
    BY DEF WritePlan
  <2>2. CASE row.state = "absent"
    BY <2>1, <2>2 DEF Planned, Stored, Struck, RowInv
  <2>3. CASE row.state # "absent"
    BY <2>1, <2>3 DEF Planned, Stored, Row
  <2> QED
    BY <2>2, <2>3
<1>4. \A t \in Worker, P \in SUBSET Memory :
        Carried(pc'[w], loc'[w], t, P) => t = w /\ P = P0
  BY <1>1, <1>2 DEF Carried, SameMind
<1>5. \A t \in Worker : \A P : InRow(t, P)' => InRow(t, P) \/ (t = w /\ P = P0)
  BY <1>3 DEF InRow
<1>6. NamesKept
  <2>1. \A v \in Worker \ {w} : pc'[v] = pc[v] /\ loc'[v] = loc[v]
    BY <1>1 DEF Frame, Proc
  <2>2. \A t, P : InOutput(t, P)' => InOutput(t, P)
    BY <1>1 DEF InOutput
  <2> QED
    BY <1>2, <1>4, <1>5, <2>1, <2>2 DEF NamesKept, Names
<1>7. RowInv'
  BY <1>3 DEF RowInv
<1>8. TokenKept
  <2>1. struck \subseteq struck' /\ \A t \in Worker \ struck' : row.token = t => t = row'.token
    BY <1>3 DEF Struck
  <2>2. ASSUME NEW t \in Worker \ struck', NEW P \in SUBSET Memory,
               Published(t, P)', row'.token = t
        PROVE  row'.plan = P
    <3>1. Names(t, P)
      BY <1>6, <2>2 DEF NamesKept, Published, Names
    <3>2. row.state # "absent"
      BY <1>3, <2>2 DEF RowInv
    <3>3. t = w /\ row'.plan = P0
      BY <1>3, <2>2, <3>2
    <3> QED
      BY <1>2, <3>1, <3>3 DEF NamesInv
  <2> QED
    BY <2>1, <2>2 DEF TokenKept
<1>9. Orderly(w)
  <2>1. Fresh(w)' => Fresh(w)
    BY <1>1 DEF Fresh, Early, OwnPhase, Shared
  <2>2. CallAfter(w)
    <3>1. Hidden(loc'[w].sources \ loc'[w].left)
      BY <1>1, <1>2 DEF CallInv, CallAt, CallOK, Carrying, SameMind
    <3> QED
      BY <1>1, <3>1 DEF CallAfter, CallOK, Shared, Ending
  <2> QED
    BY <1>1, <2>1, <2>2 DEF Orderly
<1> QED
  BY <1>1, <1>6, <1>7, <1>8, <1>9, AgesStill, Keeps

LEMMA JournalWorks ==
  ASSUME WorkInv, TypedInv', NEW w \in Worker,
         OpenJournal(w) \/ JournalPlan(w) \/ ListOutput(w) \/ RecoverOpen(w)
  PROVE  WorkInv'
<1> w \in Proc /\ CallsTyped /\ loc[w] \in Local /\ row \in Row
  BY RunFacts DEF WorkInv
<1>1. CASE OpenJournal(w) \/ JournalPlan(w)
  <2>1. /\ Frame(w) /\ loc'[w] = Spent(w, loc[w])
        /\ \/ pc[w] = "open" /\ pc'[w] = "plan"
           \/ pc[w] = "plan_journal" /\ pc'[w] = "store"
        /\ UNCHANGED <<row, memory, output, refused, struck>>
    BY <1>1, Goes DEF OpenJournal, JournalPlan, history
  <2>2. Moved(w)
    BY <2>1, CarryMove, RunFacts DEF Carrying, WorkInv
  <2> QED
    BY <2>1, <2>2, AgesStill, OutputStill, RowStill, Advance DEF RowStep
<1>2. CASE ListOutput(w) \/ RecoverOpen(w)
  <2>1. /\ Frame(w) /\ loc'[w] \in {loc[w], Spent(w, loc[w])}
        /\ pc[w] \in {"list", "recover_open"} /\ pc'[w] = "mark"
        /\ UNCHANGED <<memory, output, refused, struck>>
    BY <1>2, Goes DEF ListOutput, RecoverOpen, history
  <2>2. SameMind(w)
    BY <2>1, RunFacts DEF SameMind, WorkInv
  <2>3. Calm
    BY <1>2, <2>1 DEF ListOutput, RecoverOpen, Listed, Stored, Calm, Row
  <2>4. /\ Fresh(w)' => Fresh(w)
        /\ \A t \in Worker : Fresh(t) => loc'[w].tok # t
        /\ Tame(w)
    BY <2>1, <2>2, CarryMove DEF Carrying, Shared, SameMind
  <2>5. CallAfter(w)
    <3>1. /\ Hidden(loc'[w].sources \ loc'[w].left)
          /\ output[loc'[w].tok] = loc'[w].sources \/ loc'[w].tok \in refused
      BY <2>1, <2>2 DEF WorkInv, CallInv, CallAt, CallOK, Carrying, SameMind
    <3> QED
      BY <2>1, <2>4, <3>1 DEF CallAfter, CallOK, Ending
  <2>6. Moved(w)
    BY <2>1, <2>4, <2>5 DEF Moved, Orderly
  <2> QED
    BY <2>1, <2>3, <2>6, AgesStill, OutputStill, Advance DEF RowStep
<1> QED
  BY <1>1, <1>2

LEMMA StoreWorks ==
  ASSUME WorkInv, TypedInv', NEW w \in Worker, StoreOutput(w)
  PROVE  WorkInv'
<1> w \in Proc /\ CallsTyped /\ loc[w] \in Local /\ row \in Row
  BY RunFacts DEF WorkInv
<1>1. UNCHANGED <<row, memory, struck>> /\ pc[w] = "store"
  BY DEF StoreOutput
<1>2. CASE Fail(w) /\ UNCHANGED <<output, refused>>
  <2>1. Frame(w) /\ Quiet(w) /\ pc'[w] # "idle"
    BY <1>2, Fails
  <2> QED
    BY <1>1, <1>2, <2>1, RowStill, QuietStep DEF RowStep
<1>3. ASSUME NEW kept \in SUBSET Worker, Answered(w, kept),
             \/ /\ output' = [output EXCEPT ![loc[w].tok] = loc[w].sources]
                /\ UNCHANGED refused
             \/ refused' = refused \cup {loc[w].tok} /\ UNCHANGED output
      PROVE  WorkInv'
  <2>1. /\ Frame(w) /\ pc'[w] \in {"list", "recover_open"}
        /\ loc'[w] = Spent(w, [loc[w] EXCEPT !.kept = kept])
    BY <1>3, Goes DEF Answered
  <2>2. SameMind(w)
    <3> DEFINE l == [loc[w] EXCEPT !.kept = kept]
    <3>1. /\ l \in Local /\ l.tok = loc[w].tok /\ l.snap = loc[w].snap
          /\ l.sources = loc[w].sources /\ l.left = loc[w].left
      BY LocalFields, FieldsKept
    <3>2. loc'[w] = Spent(w, l)
      BY <2>1
    <3> HIDE DEF l
    <3> QED
      BY <3>1, <3>2, SpentTyped DEF SameMind
  <2>3. loc[w].tok \in Worker /\ loc[w].sources \in SUBSET Memory
    BY <1>1, RunFacts DEF WorkInv, LocalOK, Carrying
  <2>4. /\ Fresh(w)' => Fresh(w)
        /\ \A t \in Worker : Fresh(t) => loc'[w].tok # t
        /\ Tame(w)
    BY <1>1, <2>1, <2>2, CarryMove DEF Carrying, Shared, SameMind
  <2>5. OutputKept
    <3>1. Published(loc[w].tok, loc[w].sources)
      BY <1>1, <2>3 DEF Published, Carried, Carrying
    <3> QED
      BY <1>3, <2>3, <3>1 DEF OutputKept, WorkInv, TypedInv, StoresTyped
  <2>6. CallAt(w)'
    <3>1. output'[loc'[w].tok] = loc'[w].sources \/ loc'[w].tok \in refused'
      BY <1>3, <2>2, <2>3 DEF SameMind, WorkInv, TypedInv, StoresTyped
    <3>2. Hidden(loc[w].sources \ loc[w].left)
      BY <1>1 DEF WorkInv, CallInv, CallAt, CallOK, Carrying
    <3>3. \A m \in loc'[w].sources \ loc'[w].left : memory'[m].state \notin {"none", "active"}
      BY <1>1, <2>2, <3>2 DEF Hidden, SameMind
    <3>4. \A t \in Worker : Fresh(t)' => Fresh(t)
      BY <2>1, <2>4, FreshKept DEF WorkInv
    <3>5. \A t \in Worker : Fresh(t)' => loc'[w].tok # t
      BY <2>4, <3>4
    <3> QED
      BY <2>1, <3>1, <3>3, <3>5 DEF CallAt, CallOK, Ending, Hidden
  <2>7. Moved(w)
    BY <2>1, <2>4, <2>6 DEF Moved, Orderly
  <2> QED
    BY <1>1, <2>1, <2>5, <2>7, AgesStill, RowStill, Advance DEF RowStep
<1>4. {loc[w].tok} \in SUBSET Worker /\ {} \in SUBSET Worker
  BY <1>1, RunFacts DEF WorkInv, LocalOK, Carrying
<1> QED
  BY <1>2, <1>3, <1>4 DEF StoreOutput

\* mark_source: a source is hidden, for the output that is stored.
LEMMA MarkWorks ==
  ASSUME WorkInv, TypedInv', NEW w \in Worker, MarkSource(w)
  PROVE  WorkInv'
<1> w \in Proc /\ CallsTyped /\ loc[w] \in Local /\ row \in Row
  BY RunFacts DEF WorkInv
<1> DEFINE t == loc[w].tok
           P0 == loc[w].sources
<1>1. /\ UNCHANGED <<row, output, refused, struck>> /\ pc[w] = "mark"
  BY DEF MarkSource, history
<1>2. /\ t \in Worker /\ P0 \in SUBSET Memory /\ loc[w].left \subseteq P0
      /\ output[t] = P0 \/ t \in refused
      /\ Hidden(P0 \ loc[w].left)
  BY <1>1, RunFacts DEF WorkInv, LocalOK, Carrying, CallInv, CallAt, CallOK
<1>3. CASE Fail(w) /\ UNCHANGED memory
  <2>1. Frame(w) /\ Quiet(w) /\ pc'[w] # "idle"
    BY <1>3, Fails
  <2> QED
    BY <1>1, <1>3, <2>1, RowStill, QuietStep DEF RowStep
<1>4. CASE /\ loc[w].left = {} /\ UNCHANGED memory
           /\ Goto(w, IF t = w THEN "note" ELSE "finalize", loc[w])
  <2>1. /\ Frame(w) /\ loc'[w] = loc[w] /\ pc'[w] \in {"note", "finalize"}
        /\ pc'[w] = "note" => t = w
    BY <1>4, Goes
  <2>2. Names(t, P0)
    BY <1>1, <1>2 DEF Names, Carried, Carrying
  <2>3. Fresh(w)' => Fresh(w)
    BY <1>1, <2>1 DEF Fresh, Early, OwnPhase, Shared, Carrying
  <2>4. CallAfter(w)
    <3>1. \A P \in SUBSET Memory : Names(t, P) => Hidden(P)
      <4>1. Hidden(P0)
        BY <1>2, <1>4 DEF Hidden
      <4> QED
        BY <1>2, <2>2, <4>1 DEF WorkInv, NamesInv
    <3>2. \A u \in Worker : Fresh(u) => t # u
      BY <1>1 DEF WorkInv, CallInv, CallAt, CallOK, Shared, Carrying
    <3> QED
      BY <2>1, <3>1, <3>2 DEF CallAfter, CallOK, Carrying
  <2>5. Moved(w)
    BY <2>1, <2>3, <2>4 DEF Moved, Orderly, Tame, Carried, Carrying
  <2> QED
    BY <1>1, <1>4, <2>1, <2>5, AgesStill, OutputStill, RowStill, Advance DEF RowStep
<1>5. ASSUME NEW m \in loc[w].left,
             memory[m].state = "active" \/ memory[m] = [state |-> "source", by |-> t],
             memory' = [memory EXCEPT ![m] = [state |-> "source", by |-> t]],
             Goto(w, "mark", Spent(w, [loc[w] EXCEPT !.left = @ \ {m}]))
      PROVE  WorkInv'
  <2>1. /\ Frame(w) /\ pc'[w] = "mark"
        /\ loc'[w] = Spent(w, [loc[w] EXCEPT !.left = loc[w].left \ {m}])
    BY <1>5, Goes
  <2>2. loc'[w].tok = t /\ loc'[w].sources = P0 /\ loc'[w].left = loc[w].left \ {m}
    <3> DEFINE l == [loc[w] EXCEPT !.left = loc[w].left \ {m}]
    <3>1. loc[w].left \ {m} \in SUBSET Memory
      BY <1>2
    <3>2. /\ l \in Local /\ l.tok = t /\ l.sources = P0 /\ l.left = loc[w].left \ {m}
      BY <3>1, LocalFields, FieldsKept
    <3>3. loc'[w] = Spent(w, l)
      BY <2>1
    <3> HIDE DEF l
    <3> QED
      BY <3>2, <3>3, SpentTyped
  <2>3. m \in Memory /\ m \in P0
    BY <1>2
  <2>4. \A k \in Memory : \/ memory'[k] = memory[k]
                          \/ /\ k = m /\ memory[m].state = "active"
                             /\ memory'[m].state = "source" /\ memory'[m].by = t
    BY <1>5, <2>3 DEF WorkInv, TypedInv, StoresTyped
  <2>5. Ages
    <3>1. m \in output[t] \/ t \in refused
      BY <1>2, <2>3
    <3> QED
      BY <1>2, <2>1, <2>4, <3>1 DEF Ages, Frame, Proc
  <2>6. /\ Fresh(w)' => Fresh(w)
        /\ \A u \in Worker : Fresh(u) => loc'[w].tok # u
        /\ Tame(w)
    BY <1>1, <2>1, <2>2, CarryMove DEF Carrying, Shared
  <2>7. CallAt(w)'
    <3>1. output'[loc'[w].tok] = loc'[w].sources \/ loc'[w].tok \in refused'
      BY <1>1, <1>2, <2>2
    <3>2. \A k \in loc'[w].sources \ loc'[w].left : memory'[k].state \notin {"none", "active"}
      <4>1. memory'[m].state = "source"
        BY <1>5, <2>3 DEF WorkInv, TypedInv, StoresTyped
      <4> QED
        BY <1>2, <2>2, <2>4, <4>1 DEF Hidden
    <3>3. \A u \in Worker : Fresh(u)' => Fresh(u)
      BY <2>1, <2>6, FreshKept DEF WorkInv
    <3>4. \A u \in Worker : Fresh(u)' => loc'[w].tok # u
      BY <2>6, <3>3
    <3> QED
      BY <2>1, <3>1, <3>2, <3>4 DEF CallAt, CallOK, Ending, Hidden
  <2>8. Moved(w)
    BY <2>1, <2>6, <2>7 DEF Moved, Orderly
  <2> QED
    BY <1>1, <2>1, <2>5, <2>8, OutputStill, RowStill, Advance DEF RowStep
<1> QED
  BY <1>3, <1>4, <1>5 DEF MarkSource

LEMMA EndWorks ==
  ASSUME WorkInv, TypedInv', NEW w \in Worker,
         \/ NoteMarked(w) \/ Finalize(w) \/ FinalRead(w) \/ Release(w)
         \/ ReleaseRead(w) \/ CommitJournal(w)
  PROVE  WorkInv'
<1> w \in Proc /\ CallsTyped /\ loc[w] \in Local /\ row \in Row
  BY RunFacts DEF WorkInv
<1>1. UNCHANGED <<memory, output, refused, struck>> /\ pc[w] \in Ending
  BY DEF NoteMarked, Finalize, FinalRead, Release, ReleaseRead, CommitJournal, Ending,
         stores, history
<1>2. /\ pc[w] = "note" => loc[w].tok = w
      /\ Spent(w, loc[w]).tok = loc[w].tok
  BY RunFacts DEF WorkInv, LocalOK, OwnPhase
<1>3. \A where \in Ending \cap Shared : \A l :
        pc'[w] = where /\ loc'[w].tok = loc[w].tok => Moved(w) /\ pc'[w] # "idle"
  BY <1>1, EndMove DEF Ending
<1>4. {"finalize", "final_read", "release", "release_read", "commit"}
        \subseteq Ending \cap Shared
  BY DEF Ending, Shared
<1>5. CASE NoteMarked(w)
  BY <1>1, <1>2, <1>3, <1>4, <1>5, Goes, AgesStill, OutputStill, RowStill, Advance
     DEF NoteMarked, RowStep, history
<1>6. CASE Finalize(w) \/ Release(w)
  <2>1. /\ Frame(w) /\ pc'[w] \in {"final_read", "release_read"}
        /\ loc'[w].tok = loc[w].tok /\ pc[w] \in {"finalize", "release"}
    BY <1>2, <1>6, Goes DEF Finalize, Release
  <2>2. Calm \/ Frees(loc[w].tok)
    BY <1>1, <1>6 DEF Finalize, Release, Finalized, Released, Holds, Freed, Calm, Frees, Row
  <2>3. RowStep(w)
    BY <1>4, <2>1, <2>2 DEF RowStep
  <2> QED
    BY <1>1, <1>3, <1>4, <2>1, <2>3, AgesStill, OutputStill, Advance
<1>7. CASE FinalRead(w) \/ ReleaseRead(w) \/ CommitJournal(w)
  <2>1. /\ UNCHANGED row
        /\ \/ Goto(w, "release", loc[w])
           \/ /\ pc' = [pc EXCEPT ![w] = "commit"] /\ UNCHANGED loc
           \/ \E answer : EndRun(w, answer)
           \/ Fail(w)
           \/ pc[w] = "commit" /\ loc[w].tok # w /\ Goto(w, "recovered", Spent(w, loc[w]))
    BY <1>7 DEF FinalRead, ReleaseRead, CommitJournal, Settled, stores
  <2>2. CASE Goto(w, "release", loc[w]) \/ (pc' = [pc EXCEPT ![w] = "commit"] /\ UNCHANGED loc)
    <3>1. Frame(w) /\ pc'[w] \in {"release", "commit"} /\ loc'[w].tok = loc[w].tok
      BY <2>2, Goes DEF Frame, CallsTyped
    <3> QED
      BY <1>1, <1>3, <1>4, <2>1, <3>1, AgesStill, OutputStill, RowStill, Advance DEF RowStep
  <2>3. CASE (\E answer : EndRun(w, answer)) \/ Fail(w)
    <3>1. Frame(w) /\ Quiet(w) /\ pc'[w] # "idle"
      BY <2>3, Ends, Fails
    <3> QED
      BY <1>1, <2>1, <3>1, RowStill, QuietStep DEF RowStep
  <2>4. CASE pc[w] = "commit" /\ loc[w].tok # w /\ Goto(w, "recovered", Spent(w, loc[w]))
    <3>1. Frame(w) /\ pc'[w] = "recovered"
      BY <2>4, Goes
    <3>2. Quiet(w)
      BY <1>4, <2>4, <3>1 DEF Quiet, Watched, Carrying, Ending, Fresh
    <3> QED
      BY <1>1, <2>1, <3>1, <3>2, RowStill, QuietStep DEF RowStep
  <2> QED
    BY <2>1, <2>2, <2>3, <2>4
<1> QED
  BY <1>5, <1>6, <1>7

\* The handler marks a failure only where the row has no plan.
LEMMA FailWorks ==
  ASSUME WorkInv, TypedInv', NEW w \in Worker, Failing(w) \/ MarkFailed(w)
  PROVE  WorkInv'
<1> w \in Proc /\ CallsTyped /\ loc[w] \in Local /\ row \in Row
  BY RunFacts DEF WorkInv
<1>1. CASE Failing(w) /\ row.plan # None
  <2>1. Frame(w) /\ Quiet(w) /\ pc'[w] # "idle"
    BY <1>1, Ends DEF Failing
  <2> QED
    BY <1>1, <2>1, RowStill, QuietStep DEF RowStep, Failing, stores, history
<1>2. CASE Failing(w) /\ row.plan = None
  <2>1. /\ Frame(w) /\ pc[w] = "failing" /\ pc'[w] = "fail"
        /\ UNCHANGED <<row, memory, output, refused, struck>>
    BY <1>2, Goes DEF Failing, stores, history
  <2>2. ASSUME w \notin struck, NEW P \in SUBSET Memory, Names(w, P)
        PROVE  Hidden(P)
    <3>1. ASSUME NEW v \in Worker, Carried(pc[v], loc[v], w, P)
          PROVE  pc[v] \notin {"open", "plan"}
      BY <2>1, <3>1, RunFacts DEF WorkInv, LocalOK, OwnPhase, Carried, Carrying
    <3>2. Published(w, P)
      BY <2>2, <3>1 DEF Names, Published
    <3>3. P # None
      BY <2>2, StoreAssumption DEF WorkInv, NamesInv, Memory
    <3> QED
      BY <1>2, <2>2, <3>2, <3>3 DEF WorkInv, NamesInv
  <2>3. Fresh(w)' => Fresh(w)
    BY <2>1 DEF Fresh, Early, OwnPhase, Shared, Carrying, Ending
  <2>4. CallAfter(w)
    BY <2>1 DEF CallAfter, CallOK, Shared, Carrying, Ending
  <2>5. Moved(w)
    BY <2>1, <2>2, <2>3, <2>4 DEF Moved, Orderly, Tame, Carried, Carrying
  <2> QED
    BY <2>1, <2>5, AgesStill, OutputStill, RowStill, Advance DEF RowStep
<1>3. CASE MarkFailed(w)
  <2>1. /\ Frame(w) /\ Quiet(w) /\ pc'[w] \in {"done", "retry_end"} /\ pc[w] = "fail"
        /\ UNCHANGED <<memory, output, refused>>
    BY <1>3, Ends DEF MarkFailed
  <2>2. Calm \/ Strikes(w)
    <3>1. CASE row.state = "absent"
      BY <1>3, <3>1 DEF MarkFailed, Failed, Stored, Calm, Struck, WorkInv, RowInv
    <3>2. CASE row.state # "absent"
      BY <1>3, <3>2 DEF MarkFailed, Failed, Stored, Strikes, Row
    <3> QED
      BY <3>1, <3>2
  <2> QED
    BY <2>1, <2>2, QuietStep DEF RowStep
<1> QED
  BY <1>1, <1>2, <1>3

\* A claimant that owns the session finds out where to go on.
LEMMA ResumeMoves ==
  ASSUME CallsTyped, NEW b \in Batch, b \in Proc, NEW l, Resume(b, l), pc[b] \in Early,
         l.snap.token = row.token, l.snap.plan = row.plan,
         l.snap.retry = b => row.retry # None
  PROVE  Frame(b) /\ Moved(b) /\ pc'[b] # "idle"
<1>1. CASE Goto(b, "recover", l) /\ l.snap.retry = b
  BY <1>1, Goes, RecoverMove
<1>2. CASE Goto(b, "claim", l) \/ Goto(b, "retry_renew", l)
  <2>1. Frame(b) /\ pc'[b] \in {"claim", "retry_renew"}
    BY <1>2, Goes
  <2>2. Quiet(b)
    BY <2>1 DEF Quiet, Watched, Carrying, Ending
  <2> QED
    BY <2>1, <2>2, QuietMove
<1>3. CASE EndRun(b, "skipped")
  BY <1>3, Ends, QuietMove
<1> QED
  BY <1>1, <1>2, <1>3 DEF Resume

LEMMA RetryWorks ==
  ASSUME WorkInv, TypedInv', NEW b \in Batch,
         \/ BeginRetry(b) \/ CopyRetry(b) \/ WriteRetry(b) \/ ClaimRetry(b)
         \/ RenewRetry(b) \/ ResetSession(b) \/ EndRetry(b) \/ FailRetry(b)
  PROVE  WorkInv'
<1> b \in Worker /\ b # None
  BY ProcessAssumption, StoreAssumption
<1> b \in Proc /\ CallsTyped /\ row \in Row
  BY RunFacts DEF WorkInv
<1>1. \A where \in {"retry_copy", "retry_write", "retry_claim", "retry_look", "retry_reset",
                     "claim", "retry_fail", "done", "retry_end"} :
        /\ pc'[b] = where /\ pc[b] \in Early => Quiet(b)
        /\ pc'[b] = where /\ where \in {"retry_fail", "done", "retry_end"} => Quiet(b)
  BY DEF Quiet, Watched, Carrying, Ending, Early, OwnPhase
<1>2. {"idle", "retry_copy", "retry_write", "retry_claim", "retry_look", "retry_renew",
        "retry_reset"} \subseteq Early
  BY DEF Early, OwnPhase
<1>3. CASE BeginRetry(b)
  <2>1. Frame(b) /\ pc'[b] \in {"done", "retry_copy", "retry_claim"} /\ pc[b] = "idle"
    BY <1>3, Goes, Ends DEF BeginRetry
  <2> QED
    BY <1>1, <1>2, <1>3, <2>1, RowStill, QuietStep DEF BeginRetry, RowStep, stores, history
<1>4. CASE CopyRetry(b) \/ WriteRetry(b) \/ ClaimRetry(b) \/ RenewRetry(b)
  <2>1. /\ Frame(b) /\ pc[b] \in Early
        /\ pc'[b] \in {"retry_write", "retry_claim", "retry_look", "retry_reset",
                        "retry_fail", "done"}
    BY <1>2, <1>4, Goes, Ends DEF CopyRetry, WriteRetry, ClaimRetry, RenewRetry
  <2> QED
    BY <1>1, <1>4, <2>1, RowStill, QuietStep
       DEF CopyRetry, WriteRetry, ClaimRetry, RenewRetry, RowStep, stores, history
<1>5. CASE EndRetry(b) \/ FailRetry(b)
  <2>1. Frame(b) /\ pc'[b] \in {"retry_fail", "done"}
    BY <1>5, Goes, Ends DEF EndRetry, FailRetry
  <2> QED
    BY <1>1, <1>5, <2>1, RowStill, QuietStep DEF EndRetry, FailRetry, RowStep, history
<1>6. CASE ResetSession(b)
  <2>1. /\ Frame(b) /\ pc[b] = "retry_reset" /\ pc'[b] \in {"claim", "done", "retry_end"}
        /\ UNCHANGED <<memory, output, history>>
    BY <1>6, Goes, Ends DEF ResetSession
  <2>2. Calm
    BY <1>6 DEF ResetSession, ResetForRetry, Calm, Row, history
  <2> QED
    BY <1>1, <1>2, <2>1, <2>2, QuietStep DEF RowStep, history
<1> QED
  BY <1>3, <1>4, <1>5, <1>6

LEMMA RecoverWorks ==
  ASSUME WorkInv, TypedInv', NEW b \in Batch,
         Look(b) \/ Transfer(b) \/ Recover(b) \/ RecoverUnplanned(b) \/ Recovered(b)
  PROVE  WorkInv'
<1> b \in Worker /\ b # None /\ None \notin Worker
  BY ProcessAssumption, StoreAssumption
<1> /\ b \in Proc /\ CallsTyped /\ row \in Row /\ loc[b] \in Local /\ loc[b].snap \in Row
    /\ TypedInv
  BY RunFacts DEF WorkInv
<1> DEFINE s == loc[b].snap
<1>1. {"retry_look", "retry_transfer", "recover", "recover_legacy", "recover_reset",
        "recovered"} \subseteq Early
  BY DEF Early, OwnPhase
<1>2. CASE Look(b)
  <2> DEFINE l == Snapshot(loc[b])
  <2>1. /\ l.snap.token = row.token /\ l.snap.plan = row.plan /\ l.snap.retry = row.retry
    BY SnapshotTyped DEF Snapshot, Local
  <2>2. /\ UNCHANGED <<row, memory, output, refused, struck>> /\ pc[b] = "retry_look"
        /\ \/ \E answer : EndRun(b, answer)
           \/ Goto(b, "retry_transfer", l)
           \/ Resume(b, l)
    BY <1>2 DEF Look, stores, history
  <2> HIDE DEF l
  <2>3. Frame(b) /\ Moved(b) /\ pc'[b] # "idle"
    <3>1. CASE \E answer : EndRun(b, answer)
      BY <3>1, Ends, QuietMove
    <3>2. CASE Goto(b, "retry_transfer", l)
      <4>1. Frame(b) /\ pc'[b] = "retry_transfer"
        BY <3>2, Goes
      <4>2. Quiet(b)
        BY <1>1, <2>2, <4>1 DEF Quiet, Watched, Carrying, Ending
      <4> QED
        BY <4>1, <4>2, QuietMove
    <3>3. CASE Resume(b, l)
      BY <1>1, <2>1, <2>2, <3>3, ResumeMoves
    <3> QED
      BY <2>2, <3>1, <3>2, <3>3
  <2> QED
    BY <2>2, <2>3, AgesStill, OutputStill, RowStill, Advance DEF RowStep
<1>3. CASE Transfer(b)
  <2> DEFINE l == [loc[b] EXCEPT !.snap = [row' EXCEPT !.mems = @ \cup links]]
  <2>1. row' \in Row /\ s.retry # None /\ pc[b] = "retry_transfer"
    BY <1>3 DEF Transfer, TypedInv, StoresTyped, CallsTyped, LocalOK
  <2>2. /\ row'.token = row.token /\ row'.plan = row.plan /\ row'.state = row.state
        /\ row'.retry # None => row.retry # None
    BY <1>3, <2>1 DEF Transfer, Transferred, Row
  <2>3. l.snap.token = row.token /\ l.snap.plan = row.plan /\ l.snap.retry = row'.retry
    BY <2>1, <2>2 DEF Local, Row
  <2>4. /\ UNCHANGED <<memory, output, refused, struck>>
        /\ \/ row'.retry = b /\ Resume(b, l)
           \/ Goto(b, "retry_fail", NoLocal)
    BY <1>3 DEF Transfer, history
  <2>5. Calm
    BY <2>2, <2>4 DEF Calm
  <2> HIDE DEF l
  <2>6. Frame(b) /\ Moved(b) /\ pc'[b] # "idle"
    <3>1. CASE Goto(b, "retry_fail", NoLocal)
      <4>1. Frame(b) /\ pc'[b] = "retry_fail"
        BY <3>1, Goes
      <4>2. Quiet(b)
        BY <4>1 DEF Quiet, Watched, Carrying, Ending, Early, OwnPhase
      <4> QED
        BY <4>1, <4>2, QuietMove
    <3>2. CASE row'.retry = b /\ Resume(b, l)
      BY <1>1, <2>1, <2>2, <2>3, <3>2, ResumeMoves
    <3> QED
      BY <2>4, <3>1, <3>2
  <2> QED
    BY <2>4, <2>5, <2>6, AgesStill, OutputStill, Advance DEF RowStep
<1>4. CASE Recover(b)
  <2>1. UNCHANGED <<row, memory, output, refused, struck>> /\ pc[b] = "recover"
    BY <1>4 DEF Recover, stores, history
  <2>2. CASE s.plan # None /\ s.token # None
    <3>1. /\ Frame(b) /\ pc'[b] = "store"
          /\ loc'[b] = [loc[b] EXCEPT !.tok = s.token, !.sources = s.plan, !.left = s.plan]
      BY <1>4, <2>2, Goes DEF Recover
    <3>2. loc'[b].tok = s.token /\ loc'[b].sources = s.plan /\ loc'[b].left = s.plan
      BY <3>1 DEF Local
    <3>3. s.token \in Worker /\ s.plan \in SUBSET Memory
      BY <2>2 DEF Row
    <3>4. Names(s.token, s.plan) /\ Published(s.token, s.plan)
      BY <2>1, <2>2 DEF Names, Published, Carried
    <3>5. Tame(b)
      BY <3>1, <3>2, <3>4 DEF Tame, Carried
    <3>6. CallAfter(b)
      <4>1. \A t \in Worker : Fresh(t) => s.token # t
        BY <3>3, <3>4 DEF WorkInv, NamesInv
      <4> QED
        BY <3>1, <3>2, <4>1 DEF CallAfter, CallOK, Ending, Hidden
    <3>7. Moved(b)
      BY <1>1, <2>1, <3>1, <3>5, <3>6 DEF Moved, Orderly, Fresh
    <3> QED
      BY <2>1, <3>1, <3>7, AgesStill, OutputStill, RowStill, Advance DEF RowStep
  <2>3. CASE ~(s.plan # None /\ s.token # None)
    <3>1. Frame(b) /\ pc'[b] \in {"recover_legacy", "recover_reset"}
      BY <1>4, <2>3, Goes DEF Recover
    <3>2. Quiet(b)
      BY <1>1, <2>1, <3>1 DEF Quiet, Watched, Carrying, Ending
    <3> QED
      BY <2>1, <3>1, <3>2, RowStill, QuietStep DEF RowStep
  <2> QED
    BY <2>2, <2>3
<1>5. CASE RecoverUnplanned(b)
  <2>1. /\ Frame(b) /\ pc[b] \in Early /\ pc'[b] = "recovered"
        /\ UNCHANGED <<memory, output, refused>>
    BY <1>1, <1>5, Goes DEF RecoverUnplanned
  <2>2. Quiet(b)
    BY <2>1 DEF Quiet, Watched, Carrying, Ending
  <2>3. Calm \/ Strikes(None)
    BY <1>5 DEF RecoverUnplanned, Legacy, Reset, Stored, Struck, Calm, Strikes, Row
  <2> QED
    BY <2>1, <2>2, <2>3, QuietStep DEF RowStep
<1>6. CASE Recovered(b)
  <2> DEFINE k == [Snapshot(loc[b]) EXCEPT !.tok = b]
             l == [k EXCEPT !.sources = {}, !.left = {}]
  <2>1. /\ l.snap.token = row.token /\ l.snap.plan = row.plan /\ l.snap.retry = row.retry
    <3>1. Snapshot(loc[b]) \in Local /\ Snapshot(loc[b]).snap = Session
      BY SnapshotTyped DEF Snapshot, Local
    <3>2. k \in Local /\ k.snap = Session
      BY <3>1, LocalFields, FieldsKept
    <3>3. l.snap = Session
      BY <3>2, FieldsKept
    <3> QED
      BY <3>3, SnapshotTyped
  <2>2. /\ UNCHANGED <<row, memory, output, refused, struck>> /\ pc[b] = "recovered"
        /\ (\E answer : Done(b, answer) \/ EndRun(b, answer)) \/ Resume(b, l)
    BY <1>6 DEF Recovered, stores, history
  <2> HIDE DEF l
  <2>3. Frame(b) /\ Moved(b) /\ pc'[b] # "idle"
    <3>1. CASE \E answer : Done(b, answer) \/ EndRun(b, answer)
      BY <3>1, Ends, QuietMove
    <3>2. CASE Resume(b, l)
      BY <1>1, <2>1, <2>2, <3>2, ResumeMoves
    <3> QED
      BY <2>2, <3>1, <3>2
  <2> QED
    BY <2>2, <2>3, AgesStill, OutputStill, RowStill, Advance DEF RowStep
<1> QED
  BY <1>2, <1>3, <1>4, <1>5, <1>6

----------------------------------------------------------------------------
(* The theorems.                                                           *)

LEMMA StartWorks == Init => WorkInv
<1> SUFFICES ASSUME Init PROVE WorkInv
  OBVIOUS
<1> USE DEF WorkInv
<1>1. TypedInv
  BY StartTyped
<1>2. \A p \in Proc : pc[p] \in {"idle", "done"}
  BY DEF Init
<1>3. row.token = None /\ row.plan = None
  BY ProcessAssumption DEF Init
<1>4. \A t \in Worker : \A P \in SUBSET Memory : ~Names(t, P)
  <2>1. \A w \in Worker : pc[w] \in {"idle", "done"}
    BY <1>2 DEF Proc
  <2>2. \A t \in Worker : output[t] = {}
    BY DEF Init
  <2> QED
    BY <1>3, <2>1, <2>2 DEF Names, InOutput, InRow, Carried, Carrying
<1>5. NamesInv /\ RowInv
  BY <1>3, <1>4 DEF NamesInv, RowInv
<1>6. CallInv
  BY <1>2 DEF CallInv, CallAt, CallOK, Shared, Carrying, Ending, Proc
<1>7. Unborn
  BY StoreAssumption DEF Init, Unborn, Memory
<1>8. SourceInv
  BY DEF Init, SourceInv
<1> QED
  BY <1>1, <1>5, <1>6, <1>7, <1>8

LEMMA NextWorks == WorkInv /\ [Next]_vars => WorkInv'
<1> SUFFICES ASSUME WorkInv, [Next]_vars
             PROVE  WorkInv'
  OBVIOUS
<1>1. TypedInv'
  BY NextTyped DEF WorkInv
<1>2. CASE UNCHANGED vars
  BY <1>1, <1>2, RestWorks
<1>3. ASSUME NEW t \in Turn, TurnStep(t)
      PROVE  WorkInv'
  BY <1>1, <1>3, TurnWorks
<1>4. ASSUME NEW w \in Worker,
             BeginSweep(w) \/ BeginManual(w) \/ ResetFailed(w) \/ RunStep(w)
      PROVE  WorkInv'
  BY <1>1, <1>4, BeginWorks, StayWorks, ClaimWorks, ThinkWorks, WritePlanWorks,
     JournalWorks, StoreWorks, MarkWorks, EndWorks, FailWorks DEF RunStep
<1>5. ASSUME NEW b \in Batch, BeginRetry(b) \/ RetryStep(b) \/ Timeout(b)
      PROVE  WorkInv'
  <2>1. b \in Worker
    BY ProcessAssumption
  <2> QED
    BY <1>1, <1>5, <2>1, StayWorks, JournalWorks, RetryWorks, RecoverWorks DEF RetryStep
<1>6. ASSUME NEW d \in Deletion, DeleteStep(d)
      PROVE  WorkInv'
  BY <1>1, <1>6, DeleteWorks
<1> QED
  BY <1>1, <1>2, <1>3, <1>4, <1>5, <1>6, RestWorks DEF Next

LEMMA WorkAlways == Spec => []WorkInv
  BY StartWorks, NextWorks, PTL DEF Spec

\* A raw memory becomes a source only after the consolidated memory derived from
\* it is stored, whoever dies, fails or takes a run over (mark_source,
\* consolidation.py): every process that marks a source knows the plan that the
\* stored output was made from.
THEOREM SourceHasOutputHolds == Spec => []SourceHasOutput
<1>1. WorkInv => SourceHasOutput
  BY DEF WorkInv, SourceInv, SourceHasOutput
<1> QED
  BY <1>1, WorkAlways, PTL

\* No raw memory goes into the outputs of two runs, unless a write by point ID took
\* the claim from one of them: the claim (try_claim_consolidation, vector.py) and
\* the plan in the row keep every other run from the memories of a run until they
\* are sources.
THEOREM DerivedOnceHolds == Spec => []DerivedOnce
<1>1. WorkInv => DerivedOnce
  <2> SUFFICES ASSUME WorkInv, NEW t \in Worker \ struck, NEW u \in Worker \ struck,
                      output[t] \cap output[u] # {}
               PROVE  t = u
    BY DEF DerivedOnce
  <2>1. output[t] \in SUBSET Memory /\ output[u] \in SUBSET Memory
    BY DEF WorkInv, TypedInv, StoresTyped
  <2>2. Names(t, output[t]) /\ Names(u, output[u])
    BY DEF Names, InOutput
  <2> QED
    BY <2>1, <2>2 DEF WorkInv, NamesInv
<1> QED
  BY <1>1, WorkAlways, PTL
=============================================================================
