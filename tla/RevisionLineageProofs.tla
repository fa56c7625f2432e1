------------------------ MODULE RevisionLineageProofs ------------------------
(***************************************************************************)
(* Theorems about RevisionLineage, for every value of its constants: any   *)
(* number of calls, tokens and revisions, and any crashes.                 *)
(*                                                                         *)
(* TypeCorrect needs a little more than TypeOK to be inductive: where a    *)
(* call stands tells which of its local fields are set.  The second part   *)
(* proves that the published revisions form one chain when no two calls    *)
(* share a token.                                                          *)
(***************************************************************************)
EXTENDS RevisionLineage, TLAPS

Own == {"upsert", "plan", "claim", "readback", "abort", "conflict",
        "activate", "note_activated", "supersede", "note_claimed",
        "withdraw", "commit"}
Resolving == {"recover", "recover_active", "recover_superseded",
              "recover_retracted", "recover_commit", "resolve_again"}
Sourcing == {"set_source", "check_source"}

\* The local fields that are set where a call stands.
TypedCall(c) ==
    /\ pc[c] \in Own => /\ KindOf[c] \in {"revise", "retract"}
                        /\ loc[c].cur \in PointId
                        /\ loc[c].tok \in OwnTokens(c)
    /\ pc[c] \in Resolving => /\ KindOf[c] # "source"
                              /\ loc[c].mem \in PointId
                              /\ loc[c].mine \in Token
                              /\ \A t \in loc[c].left : point[t].sup # None
    /\ pc[c] \in Sourcing => loc[c].cur \in PointId

TypedInv == TypeOK /\ \A c \in Call : TypedCall(c)

\* Some revision was made or retracted by a request like that of the call.
Matched(c) == \E p \in PointId : point[p].op # None /\ SameRequest(c, p)

\* What a call answers when it has resolved the head: that nothing is to be
\* done, or what the journal has of an earlier operation for such a request.
Decided(c) ==
    /\ reply' \in [Call -> Reply]
    /\ \A d \in Call : d # c => reply'[d] = reply[d]
    /\ \/ reply'[c].status \in {"read", "stale", "idempotency_conflict"}
       \/ Matched(c) /\ \E t \in Token : reply'[c] = journal[t].result

\* Where a call can be after it resolved the head and decided what to do.
Moves(c, w, m) ==
    /\ pc' = [pc EXCEPT ![c] = w]
    /\ loc' = [loc EXCEPT ![c] = m]
    /\ reply' = reply

Launched(c) ==
    \/ /\ pc' = [pc EXCEPT ![c] = "done"]
       /\ loc' = [loc EXCEPT ![c] = NoLocal]
       /\ Decided(c)
    \/ \E m \in Local :
         \/ /\ Moves(c, "recover", m)
            /\ m.mem \in PointId /\ m.from \in PointId
            /\ m.mine = point[m.from].tok /\ m.mine # None
            /\ m.kind = point[m.from].kind
            /\ \A t \in m.left : point[t].sup # None
         \/ /\ Moves(c, "upsert", m)
            /\ KindOf[c] = "revise" /\ m.tok \in OwnTokens(c)
            /\ m.cur \in PointId /\ m.pay = point[m.cur]
            /\ m.pay.state = "active" /\ point[m.tok].state = "absent"
         \/ /\ Moves(c, "plan", m)
            /\ m.cur \in PointId /\ m.tok \in OwnTokens(c)
            /\ \/ KindOf[c] = "retract"
               \/ KindOf[c] = "revise" /\ point[m.tok].state # "absent"
         \/ /\ Moves(c, "finish_predecessor", m)
            /\ Matched(c) /\ m.cur \in Known /\ m.pay = point[m.cur]
            /\ m.pay.sup # None /\ m.pay.state = "active"
         \/ /\ Moves(c, "finish_journal", m)
            /\ Matched(c) /\ m.cur \in Known

----------------------------------------------------------------------------
(* The decisions of a call that has just resolved the head.                *)

LEMMA NoLocalTyped == NoLocal \in Local /\ AbsentPoint \in Payload
  BY DEF NoLocal, Local, AbsentPoint, Payload, State

LEMMA AnswerDecides ==
    ASSUME TypeOK, NEW c \in Call, NEW answer \in Reply,
           Answer(c, answer.status, answer.id),
           \/ answer.status \in {"read", "stale", "idempotency_conflict"}
           \/ Matched(c) /\ \E t \in Token : answer = journal[t].result
    PROVE  Launched(c)
  <1>1. answer = [status |-> answer.status, id |-> answer.id]
    BY DEF Reply
  <1>2. reply' = [reply EXCEPT ![c] = answer]
    BY <1>1 DEF Answer
  <1>3. reply' \in [Call -> Reply] /\ reply'[c] = answer
        /\ \A d \in Call : d # c => reply'[d] = reply[d]
    BY <1>2 DEF TypeOK
  <1> QED BY <1>3 DEF Answer, Launched, Decided

LEMMA AnswerLaunches ==
    ASSUME TypeOK, NEW c \in Call,
           NEW status \in {"read", "stale", "idempotency_conflict"},
           NEW id \in PointId \cup {None},
           Answer(c, status, id)
    PROVE  Launched(c)
  <1> DEFINE answer == [status |-> status, id |-> id]
  <1>1. answer \in Reply /\ answer.status = status /\ answer.id = id
    BY DEF Reply
  <1> HIDE DEF answer
  <1> QED BY <1>1, AnswerDecides

LEMMA ReplayLaunches ==
    ASSUME TypeOK, NEW c \in Call, NEW l \in Local, NEW t \in Token,
           NEW key, Replay(c, l, key, t)
    PROVE  Launched(c)
  <1>1. PICK p \in Answering(c, key, t) :
          \/ /\ ~SameRequest(c, p)
             /\ Answer(c, "idempotency_conflict", None)
          \/ /\ SameRequest(c, p) /\ journal[t].result # NoResult
             /\ Tells(c, journal[t].result)
          \/ /\ SameRequest(c, p) /\ journal[t].result = NoResult
             /\ Goto(c, IF /\ point[p].state = "active"
                           /\ point[point[p].sup].tok = t
                        THEN "finish_predecessor" ELSE "finish_journal",
                     [l EXCEPT !.cur = p, !.pay = point[p], !.tok = t])
    BY DEF Replay
  <1>2. p \in PointId /\ point[p].op # None
    BY DEF Answering, Keyed
  <1>3. CASE Answer(c, "idempotency_conflict", None)
    BY <1>3, AnswerLaunches
  <1>4. CASE SameRequest(c, p) /\ Tells(c, journal[t].result)
    <2>1. journal[t].result \in Reply
      BY DEF TypeOK, Row, Result, Reply
    <2>2. Matched(c)
      BY <1>2, <1>4 DEF Matched
    <2> QED BY <1>4, <2>1, <2>2, AnswerDecides DEF Tells
  <1>5. CASE /\ SameRequest(c, p) /\ journal[t].result = NoResult
             /\ Goto(c, IF /\ point[p].state = "active"
                           /\ point[point[p].sup].tok = t
                        THEN "finish_predecessor" ELSE "finish_journal",
                     [l EXCEPT !.cur = p, !.pay = point[p], !.tok = t])
    <2> DEFINE m == [l EXCEPT !.cur = p, !.pay = point[p], !.tok = t]
    <2>1. m \in Local /\ m.pay = point[p] /\ m.cur = p
      BY <1>2 DEF Local, TypeOK
    <2>2. Matched(c)
      BY <1>2, <1>5 DEF Matched
    <2>3. \/ point[p].state = "active" /\ point[p].sup # None
          \/ point[p].state = "retracted"
      BY <1>5 DEF Answering
    <2>4. p \in Known
      BY <1>2, <2>3 DEF Known, Published
    <2>5. CASE point[p].state = "active" /\ point[point[p].sup].tok = t
      <3>1. Moves(c, "finish_predecessor", m)
        BY <1>5, <2>5 DEF Goto, Moves
      <3> HIDE DEF m
      <3> QED BY <2>1, <2>2, <2>3, <2>4, <2>5, <3>1 DEF Launched
    <2>6. CASE ~(point[p].state = "active" /\ point[point[p].sup].tok = t)
      <3>1. Moves(c, "finish_journal", m)
        BY <1>5, <2>6 DEF Goto, Moves
      <3> HIDE DEF m
      <3> QED BY <2>1, <2>2, <2>4, <3>1 DEF Launched
    <2> QED BY <2>5, <2>6
  <1> QED BY <1>1, <1>3, <1>4, <1>5

LEMMA StartLaunches ==
    ASSUME TypeOK, NEW c \in Call, NEW l \in Local, KindOf[c] # "source",
           l.cur \in PointId, l.pay = point[l.cur], Start(c, l)
    PROVE  Launched(c)
  <1> DEFINE t == TokenOf[c][l.cur]
             m == [l EXCEPT !.tok = t]
  <1>1. t \in Token /\ t \in OwnTokens(c)
    BY ConstantsAssumption DEF OwnTokens
  <1>2. KindOf[c] \in {"revise", "retract", "read"}
    BY ConstantsAssumption DEF Kind
  <1>3. m \in Local /\ m.cur = l.cur /\ m.pay = l.pay /\ m.tok = t
    BY <1>1 DEF Local
  <1>4. CASE Answer(c, "stale", l.cur)
    BY <1>4, AnswerLaunches
  <1>5. CASE ~IsStale(c, l) /\ KindOf[c] = "read"
    BY <1>5, AnswerLaunches DEF Start
  <1>6. CASE ~IsStale(c, l) /\ KindOf[c] = "retract"
    <2>1. Moves(c, "plan", m)
      BY <1>6 DEF Start, Goto, Moves
    <2> HIDE DEF m
    <2> QED BY <1>1, <1>3, <1>6, <2>1 DEF Launched
  <1>7. CASE ~IsStale(c, l) /\ KindOf[c] = "revise"
    <2>1. CASE point[t].state = "absent"
      <3>1. Moves(c, "upsert", m)
        BY <1>7, <2>1 DEF Start, Goto, Moves
      <3>2. m.pay.state = "active"
        BY <1>3, <1>7 DEF IsStale
      <3> HIDE DEF m
      <3> QED BY <1>1, <1>3, <1>7, <2>1, <3>1, <3>2 DEF Launched
    <2>2. CASE point[t].state # "absent" /\ SameRequest(c, t)
      <3>1. Moves(c, "plan", m)
        BY <1>7, <2>2 DEF Start, Goto, Moves
      <3> HIDE DEF m
      <3> QED BY <1>1, <1>3, <1>7, <2>2, <3>1 DEF Launched
    <2>3. CASE point[t].state # "absent" /\ ~SameRequest(c, t)
      BY <1>7, <2>3, AnswerLaunches DEF Start
    <2> QED BY <2>1, <2>2, <2>3
  <1> QED BY <1>2, <1>4, <1>5, <1>6, <1>7 DEF Start

LEMMA ExamineLaunches ==
    ASSUME TypeOK, NEW c \in Call, NEW l \in Local, KindOf[c] # "source",
           l.cur \in PointId, l.pay = point[l.cur], l.mem \in PointId,
           \A t \in l.left : point[t].sup # None,
           Examine(c, l) \/ Settle(c, l)
    PROVE  Launched(c)
  <1> DEFINE claimed == {t \in l.left : point[point[t].sup].tok # None}
             s == [l EXCEPT !.left = {}]
  <1>1. ASSUME NEW k \in Local, k.cur = l.cur, k.pay = l.pay, Settle(c, k)
        PROVE  Launched(c)
    <2>1. TokenOf[c][k.cur] \in Token
      BY <1>1, ConstantsAssumption
    <2>2. CASE Replay(c, k, TokenKey[TokenOf[c][k.cur]], TokenOf[c][k.cur])
      BY <1>1, <2>1, <2>2, ReplayLaunches
    <2>3. CASE Start(c, k)
      BY <1>1, <2>3, StartLaunches
    <2> QED BY <1>1, <2>2, <2>3 DEF Settle
  <1>2. s \in Local /\ s.cur = l.cur /\ s.pay = l.pay
    BY DEF Local
  <1>3. CASE Settle(c, l)
    BY <1>1, <1>3
  <1>4. CASE Examine(c, l) /\ claimed = {}
    BY <1>1, <1>2, <1>4 DEF Examine
  <1>5. CASE Examine(c, l) /\ claimed # {}
    <2>1. PICK t \in claimed :
            Goto(c, "recover",
                 [l EXCEPT !.from = point[t].sup,
                           !.mine = point[point[t].sup].tok,
                           !.kind = point[point[t].sup].kind, !.cand = t,
                           !.left = l.left \ {t}])
      BY <1>5 DEF Examine
    <2> DEFINE from == point[t].sup
               m == [l EXCEPT !.from = from, !.mine = point[from].tok,
                              !.kind = point[from].kind, !.cand = t,
                              !.left = l.left \ {t}]
    <2>2. t \in Token /\ t \in PointId
      BY DEF Local, PointId
    <2>3. from \in PointId /\ point[from] \in Payload
      BY <2>2 DEF TypeOK, Payload
    <2>4. point[from].tok # None
      BY <2>1
    <2>5. /\ point[from].tok \in Token \cup {None}
          /\ point[from].kind \in ClaimKind \cup {None}
      BY <2>3 DEF Payload
    <2>6. /\ m \in Local /\ m.mem = l.mem /\ m.from = from
          /\ m.mine = point[from].tok /\ m.kind = point[from].kind
          /\ m.left \subseteq l.left
      BY <2>2, <2>3, <2>5 DEF Local
    <2>7. Moves(c, "recover", m)
      BY <2>1 DEF Goto, Moves
    <2> HIDE DEF m, from
    <2> QED BY <2>3, <2>4, <2>6, <2>7 DEF Launched
  <1> QED BY <1>3, <1>4, <1>5

LEMMA RecoverHeadLaunches ==
    ASSUME TypeOK, NEW c \in Call, NEW l \in Local,
           l.cur \in PointId, l.pay = point[l.cur], l.mem \in PointId,
           l.left = {}, l.pay.tok # None, RecoverHead(c, l)
    PROVE  Launched(c)
  <1> DEFINE t == l.pay.tok
             again == /\ KindOf[c] # "read" /\ journal[t] # NoRow
                      /\ TokenRequest[t] = RequestOf[c]
             m == [l EXCEPT !.from = l.cur, !.mine = t, !.kind = l.pay.kind,
                            !.cand = IF again THEN t ELSE None]
  <1>1. t \in Token /\ l.pay.kind \in ClaimKind \cup {None}
    BY DEF Local, Payload
  <1>2. /\ m \in Local /\ m.mem = l.mem /\ m.from = l.cur /\ m.mine = t
        /\ m.kind = l.pay.kind /\ m.left = {}
    BY <1>1 DEF Local
  <1>3. Moves(c, "recover", m)
    BY DEF RecoverHead, Goto, Moves
  <1> HIDE DEF m
  <1> QED BY <1>1, <1>2, <1>3 DEF Launched

\* The head is one of the lineage's points, and a snapshot of it is typed.
LEMMA SnapshotTyped ==
    ASSUME TypeOK, NEW m \in PointId, NEW h \in Heads(m), NEW l \in Local
    PROVE  /\ h \in PointId
           /\ Snapshot(l, h) \in Local
           /\ Snapshot(l, h).cur = h /\ Snapshot(l, h).pay = point[h]
           /\ Snapshot(l, h).mem = l.mem /\ Snapshot(l, h).left = l.left
  <1>1. h \in PointId
    BY DEF Heads, Active
  <1>2. point[h] \in Payload
    BY <1>1 DEF TypeOK
  <1>3. \A p \in PointId : /\ point[p].consumed \subseteq Evidence
                           /\ point[p].roots \subseteq Evidence
    BY DEF TypeOK, Payload
  <1>4. Heard \in SUBSET Evidence
    BY <1>3 DEF Heard
  <1> QED BY <1>1, <1>2, <1>4 DEF Snapshot, Local

LEMMA BeginLaunches ==
    ASSUME TypeOK, NEW c \in Call, Begin(c)
    PROVE  Launched(c)
  <1>1. PICK m \in Known : \E h \in Heads(m) :
          LET l == Snapshot([NoLocal EXCEPT !.mem = m], h) IN
          IF l.pay.tok # None THEN RecoverHead(c, l)
          ELSE IF KindOf[c] = "revise"
               THEN Examine(c, [l EXCEPT !.left = Repeats(c)])
               ELSE Settle(c, l)
    BY DEF Begin
  <1>2. m \in PointId
    BY DEF Known
  <1> DEFINE n == [NoLocal EXCEPT !.mem = m]
  <1>3. n \in Local /\ n.mem = m /\ n.left = {}
    BY <1>2, NoLocalTyped DEF NoLocal, Local
  <1> HIDE DEF n
  <1>4. PICK h \in Heads(m) :
          LET l == Snapshot(n, h) IN
          IF l.pay.tok # None THEN RecoverHead(c, l)
          ELSE IF KindOf[c] = "revise"
               THEN Examine(c, [l EXCEPT !.left = Repeats(c)])
               ELSE Settle(c, l)
    BY <1>1 DEF n
  <1> DEFINE l == Snapshot(n, h)
  <1>5. /\ h \in PointId /\ l \in Local /\ l.cur = h /\ l.pay = point[h]
        /\ l.mem = m /\ l.left = {}
    BY <1>2, <1>3, SnapshotTyped
  <1>6. KindOf[c] # "source"
    BY DEF Begin
  <1> HIDE DEF l
  <1>7. CASE RecoverHead(c, l) /\ l.pay.tok # None
    BY <1>2, <1>5, <1>7, RecoverHeadLaunches
  <1>8. CASE Examine(c, [l EXCEPT !.left = Repeats(c)])
    <2> DEFINE k == [l EXCEPT !.left = Repeats(c)]
    <2>1. /\ k \in Local /\ k.cur = h /\ k.pay = point[h] /\ k.mem = m
          /\ \A t \in k.left : point[t].sup # None
      BY <1>5 DEF Local, Repeats
    <2> HIDE DEF k
    <2> QED BY <1>2, <1>5, <1>6, <1>8, <2>1, ExamineLaunches DEF k
  <1>9. CASE Settle(c, l)
    BY <1>2, <1>5, <1>6, <1>9, ExamineLaunches
  <1> QED BY <1>4, <1>7, <1>8, <1>9 DEF l

LEMMA ResolveAgainLaunches ==
    ASSUME TypedInv, NEW c \in Call, ResolveAgain(c)
    PROVE  Launched(c)
  <1> USE DEF TypedInv
  <1>1. /\ pc[c] = "resolve_again" /\ loc[c] \in Local
        /\ loc[c].mem \in PointId /\ KindOf[c] # "source"
        /\ loc[c].mine \in Token
        /\ \A t \in loc[c].left : point[t].sup # None
    BY DEF ResolveAgain, TypedCall, TypeOK, Resolving
  <1> DEFINE L(h) == [Snapshot(loc[c], h) EXCEPT !.from = None, !.mine = None,
                                                 !.kind = None, !.cand = None]
             key == TokenKey[loc[c].cand]
  <1>2. PICK h \in Heads(loc[c].mem) :
          IF loc[c].cand # None /\ Answering(c, key, loc[c].mine) # {}
          THEN Replay(c, [L(h) EXCEPT !.left = {}], key, loc[c].mine)
          ELSE Examine(c, L(h))
    BY DEF ResolveAgain
  <1>3. /\ h \in PointId /\ L(h) \in Local /\ L(h).cur = h
        /\ L(h).pay = point[h] /\ L(h).mem = loc[c].mem
        /\ L(h).left = loc[c].left
    <2> DEFINE k == Snapshot(loc[c], h)
    <2>1. /\ h \in PointId /\ k \in Local /\ k.cur = h
          /\ k.pay = point[h] /\ k.mem = loc[c].mem
          /\ k.left = loc[c].left
      BY <1>1, SnapshotTyped
    <2> HIDE DEF k
    <2>2. L(h) = [k EXCEPT !.from = None, !.mine = None,
                           !.kind = None, !.cand = None]
      BY DEF k
    <2> HIDE DEF L
    <2> QED BY <2>1, <2>2 DEF Local
  <1> HIDE DEF L
  <1>4. CASE Replay(c, [L(h) EXCEPT !.left = {}], key, loc[c].mine)
    <2>1. [L(h) EXCEPT !.left = {}] \in Local
      BY <1>3 DEF Local
    <2> QED BY <1>1, <1>4, <2>1, ReplayLaunches
  <1>5. CASE Examine(c, L(h))
    BY <1>1, <1>3, <1>5, ExamineLaunches
  <1> QED BY <1>2, <1>4, <1>5

----------------------------------------------------------------------------
(* Type correctness.                                                       *)

\* What a step of one call leaves alone in the stores for the others.
StoresTyped ==
    /\ point' \in [PointId -> Payload]
    /\ journal' \in [Token -> Row]
    /\ \A t \in Token : point[t].sup # None => point'[t].sup # None

LEMMA GotoTyped ==
    ASSUME TypedInv, NEW c \in Call, NEW w \in Running, NEW l \in Local,
           Goto(c, w, l), StoresTyped,
           w \in Own => /\ KindOf[c] \in {"revise", "retract"}
                        /\ l.cur \in PointId /\ l.tok \in OwnTokens(c),
           w \in Resolving => /\ KindOf[c] # "source"
                              /\ l.mem \in PointId /\ l.mine \in Token
                              /\ \A t \in l.left : point[t].sup # None,
           w \in Sourcing => l.cur \in PointId
    PROVE  TypedInv'
  <1>1. TypeOK'
    BY DEF TypedInv, TypeOK, Goto, StoresTyped
  <1>2. ASSUME NEW d \in Call PROVE TypedCall(d)'
    <2>1. loc'[d] \in Local
      BY <1>1 DEF TypeOK
    <2>2. \A t \in loc'[d].left : t \in Token
      BY <2>1 DEF Local
    <2>3. CASE d = c
      <3>1. pc'[d] = w /\ loc'[d] = l
        BY <2>3 DEF Goto, TypedInv, TypeOK
      <3> QED BY <2>2, <2>3, <3>1 DEF TypedCall, StoresTyped, OwnTokens
    <2>4. CASE d # c
      <3>1. pc'[d] = pc[d] /\ loc'[d] = loc[d]
        BY <2>4 DEF Goto, TypedInv, TypeOK
      <3>2. TypedCall(d)
        BY DEF TypedInv
      <3> QED BY <2>2, <3>1, <3>2 DEF TypedCall, StoresTyped, OwnTokens
    <2> QED BY <2>3, <2>4
  <1> QED BY <1>1, <1>2 DEF TypedInv

\* A call that ends, answered or dead, leaves nothing to type.
LEMMA EndTyped ==
    ASSUME TypedInv, NEW c \in Call, NEW w \in Ended,
           pc' = [pc EXCEPT ![c] = w], loc' = [loc EXCEPT ![c] = NoLocal],
           reply' \in [Call -> Reply], StoresTyped
    PROVE  TypedInv'
  <1>1. TypeOK'
    BY NoLocalTyped DEF TypedInv, TypeOK, StoresTyped
  <1>2. ASSUME NEW d \in Call PROVE TypedCall(d)'
    <2>1. CASE d = c
      <3>1. pc'[d] \in Ended
        BY <2>1 DEF TypedInv, TypeOK
      <3> QED BY <3>1 DEF TypedCall, Ended, Own, Resolving, Sourcing
    <2>2. CASE d # c
      <3>1. pc'[d] = pc[d] /\ loc'[d] = loc[d] /\ loc[d] \in Local
        BY <2>2 DEF TypedInv, TypeOK
      <3>2. TypedCall(d) /\ \A t \in loc[d].left : t \in Token
        BY <3>1 DEF TypedInv, Local
      <3> QED BY <3>1, <3>2 DEF TypedCall, StoresTyped, OwnTokens
    <2> QED BY <2>1, <2>2
  <1> QED BY <1>1, <1>2 DEF TypedInv

LEMMA AnswerTyped ==
    ASSUME TypedInv, NEW c \in Call,
           NEW status \in {"none", "updated", "retracted", "sourced", "read",
                           "stale", "conflict", "incomplete",
                           "idempotency_conflict"},
           NEW id \in PointId \cup {None},
           Answer(c, status, id), StoresTyped
    PROVE  TypedInv'
  <1>1. [status |-> status, id |-> id] \in Reply
    BY DEF Reply
  <1>2. reply' \in [Call -> Reply]
    BY <1>1 DEF Answer, TypedInv, TypeOK
  <1> QED BY <1>2, EndTyped DEF Answer, Ended

LEMMA UnchangedTyped ==
    ASSUME TypedInv, UNCHANGED <<point, journal>>
    PROVE  StoresTyped
  BY DEF TypedInv, TypeOK, StoresTyped

LEMMA LaunchedTyped ==
    ASSUME TypedInv, NEW c \in Call, Launched(c),
           UNCHANGED <<point, journal>>, KindOf[c] # "source"
    PROVE  TypedInv'
  <1>1. StoresTyped
    BY UnchangedTyped
  <1>2. CASE /\ pc' = [pc EXCEPT ![c] = "done"]
             /\ loc' = [loc EXCEPT ![c] = NoLocal]
             /\ Decided(c)
    BY <1>1, <1>2, EndTyped DEF Ended, Decided
  <1>3. ASSUME NEW m \in Local, Moves(c, "recover", m),
               m.mem \in PointId, m.from \in PointId,
               m.mine = point[m.from].tok, m.mine # None,
               \A t \in m.left : point[t].sup # None
        PROVE  TypedInv'
    <2>1. m.mine \in Token
      BY <1>3 DEF Local
    <2> QED BY <1>1, <1>3, <2>1, GotoTyped
            DEF Moves, Goto, Running, Own, Resolving, Sourcing
  <1>4. ASSUME NEW m \in Local, NEW w \in {"upsert", "plan"}, Moves(c, w, m),
               KindOf[c] \in {"revise", "retract"},
               m.cur \in PointId, m.tok \in OwnTokens(c)
        PROVE  TypedInv'
    BY <1>1, <1>4, GotoTyped DEF Moves, Goto, Running, Own, Resolving, Sourcing
  <1>5. ASSUME NEW m \in Local,
               NEW w \in {"finish_predecessor", "finish_journal"},
               Moves(c, w, m)
        PROVE  TypedInv'
    BY <1>1, <1>5, GotoTyped DEF Moves, Goto, Running, Own, Resolving, Sourcing
  <1> QED BY <1>2, <1>3, <1>4, <1>5 DEF Launched

\* A write to one point that keeps it typed and keeps its place in the chain.
LEMMA PointTyped ==
    ASSUME TypedInv, UNCHANGED journal, NEW q \in PointId, NEW b \in Payload,
           b.sup = point[q].sup \/ b.sup # None,
           point' = [point EXCEPT ![q] = b] \/ point' = point
    PROVE  StoresTyped
  <1>1. Token \subseteq PointId
    BY DEF PointId
  <1>2. point \in [PointId -> Payload] /\ journal \in [Token -> Row]
    BY DEF TypedInv, TypeOK
  <1>3. point' \in [PointId -> Payload]
    BY <1>2
  <1>4. ASSUME NEW t \in Token, point[t].sup # None PROVE point'[t].sup # None
    <2>1. CASE point' = [point EXCEPT ![q] = b]
      <3>1. point'[t] = IF t = q THEN b ELSE point[t]
        BY <1>1, <1>2, <2>1
      <3> QED BY <1>4, <3>1
    <2> QED BY <1>4, <2>1
  <1> QED BY <1>2, <1>3, <1>4 DEF StoresTyped

LEMMA SuccessorTyped ==
    ASSUME TypedInv, NEW c \in Call, pc[c] = "upsert"
    PROVE  /\ Successor(c) \in Payload
           /\ Successor(c).sup = loc[c].cur /\ loc[c].cur \in PointId
           /\ Successor(c).rev = loc[c].pay.rev + 1
           /\ Successor(c).state = "pending"
           /\ Successor(c).tok = None
  <1>1. loc[c] \in Local /\ loc[c].cur \in PointId
    BY DEF TypedInv, TypeOK, TypedCall, Own
  <1>2. /\ loc[c].pay \in Payload /\ loc[c].tok \in Token \cup {None}
        /\ loc[c].heard \subseteq Evidence
    BY <1>1 DEF Local
  <1>3. loc[c].pay.rev + 1 \in Nat /\ loc[c].pay.artRev \in Nat
    BY <1>2 DEF Payload
  <1> QED BY <1>1, <1>2, <1>3 DEF Successor, Payload, State

LEMMA InitTyped == Init => TypedInv
  <1> SUFFICES ASSUME Init PROVE TypedInv
    OBVIOUS
  <1>1. [AbsentPoint EXCEPT !.state = "active", !.rev = 1,
                            !.arts = RootArtifacts, !.roots = RootEvidence,
                            !.consumed = RootEvidence] \in Payload
    BY ConstantsAssumption DEF AbsentPoint, Payload, State
  <1>2. point \in [PointId -> Payload]
    BY <1>1, NoLocalTyped DEF Init
  <1>3. journal \in [Token -> Row] /\ reply \in [Call -> Reply]
    BY DEF Init, NoRow, Row, NoResult, Result, Reply
  <1>4. TypeOK
    BY <1>2, <1>3, NoLocalTyped DEF Init, TypeOK
  <1>5. \A c \in Call : pc[c] = "idle"
    BY DEF Init
  <1> QED BY <1>4, <1>5 DEF TypedInv, TypedCall, Own, Resolving, Sourcing

LEMMA NoteTyped ==
    ASSUME TypedInv, NEW t,
           NEW status \in {"prepared", "pending", "claimed", "activated",
                           "conflict"},
           Note(t, status), UNCHANGED point
    PROVE  StoresTyped
  <1>1. /\ point \in [PointId -> Payload] /\ journal \in [Token -> Row]
    BY DEF TypedInv, TypeOK
  <1>2. CASE t \in Token
    <2>1. journal[t] \in Row
      BY <1>1, <1>2
    <2>2. [journal[t] EXCEPT !.status = status] \in Row
      BY <2>1 DEF Row
    <2>3. journal' = [journal EXCEPT ![t] =
                                 [journal[t] EXCEPT !.status = status]]
      BY <1>1, <1>2 DEF Note
    <2> HIDE DEF Note
    <2> QED BY <1>1, <2>2, <2>3 DEF StoresTyped
  <1>3. CASE t \notin Token
    <2>1. journal' = journal
      BY <1>1, <1>3 DEF Note
    <2> QED BY <2>1, UnchangedTyped
  <1> QED BY <1>2, <1>3

LEMMA RecordTyped ==
    ASSUME TypedInv, NEW t, NEW result \in Result, Record(t, result),
           UNCHANGED point
    PROVE  StoresTyped
  <1> DEFINE r == [status |-> "committed", result |-> result]
  <1>1. r \in Row
    BY DEF Row
  <1>2. journal' = [journal EXCEPT ![t] = r]
    BY DEF Record
  <1> HIDE DEF r
  <1>3. journal' \in [Token -> Row]
    BY <1>1, <1>2 DEF TypedInv, TypeOK
  <1> QED BY <1>3 DEF StoresTyped, TypedInv, TypeOK

\* Writes to a point that leave its place in the chain.
LEMMA StateWriteTyped ==
    ASSUME TypedInv, NEW q \in PointId \cup {None}, UNCHANGED journal,
           NEW s \in State, point' = [point EXCEPT ![q].state = s]
    PROVE  StoresTyped
  <1> DEFINE b == point[q]
             x == [b EXCEPT !.state = s]
  <1>1. point \in [PointId -> Payload]
    BY DEF TypedInv, TypeOK
  <1>2. CASE q \in PointId
    <2>1. b \in Payload
      BY <1>1, <1>2
    <2>2. x \in Payload /\ x.sup = b.sup
      BY <2>1 DEF Payload
    <2>3. point' = [point EXCEPT ![q] = x]
      BY <1>1, <1>2
    <2> HIDE DEF x
    <2> QED BY <1>2, <2>2, <2>3, PointTyped
  <1>3. CASE q \notin PointId
    <2>1. point' = point
      BY <1>1, <1>3
    <2> QED BY <2>1, UnchangedTyped
  <1> QED BY <1>2, <1>3

LEMMA FieldWriteTyped ==
    ASSUME TypedInv, NEW q \in PointId, UNCHANGED journal,
           NEW s \in State, NEW t \in Token, NEW k \in ClaimKind,
           \/ point' = [point EXCEPT ![q].state = s]
           \/ point' = [point EXCEPT ![q].state = s, ![q].op = t]
           \/ point' = [point EXCEPT ![q].state = s, ![q].src = t]
           \/ point' = [point EXCEPT ![q].tok = t, ![q].kind = k]
           \/ point' = point
    PROVE  StoresTyped
  <1> DEFINE b == point[q]
  <1>1. point \in [PointId -> Payload] /\ b \in Payload
    BY DEF TypedInv, TypeOK
  <1>2. CASE point' = point
    BY <1>2, UnchangedTyped
  <1>3. \/ point' = point
        \/ point' = [point EXCEPT ![q] = [b EXCEPT !.state = s]]
        \/ point' = [point EXCEPT ![q] = [b EXCEPT !.state = s, !.op = t]]
        \/ point' = [point EXCEPT ![q] = [b EXCEPT !.state = s, !.src = t]]
        \/ point' = [point EXCEPT ![q] = [b EXCEPT !.tok = t, !.kind = k]]
    BY <1>1
  <1> HIDE DEF b
  <1>4. b.sup = point[q].sup
    BY DEF b
  <1>5. ASSUME NEW x \in Payload, x.sup = b.sup,
               point' = [point EXCEPT ![q] = x]
        PROVE  StoresTyped
    BY <1>4, <1>5, PointTyped
  <1>6. CASE point' = [point EXCEPT ![q] = [b EXCEPT !.state = s]]
    <2> DEFINE x == [b EXCEPT !.state = s]
    <2>1. x \in Payload /\ x.sup = b.sup
      BY <1>1 DEF Payload
    <2> HIDE DEF x
    <2> QED BY <1>5, <1>6, <2>1 DEF x
  <1>7. CASE point' = [point EXCEPT ![q] = [b EXCEPT !.state = s, !.op = t]]
    <2> DEFINE x == [b EXCEPT !.state = s, !.op = t]
    <2>1. x \in Payload /\ x.sup = b.sup
      BY <1>1 DEF Payload
    <2> HIDE DEF x
    <2> QED BY <1>5, <1>7, <2>1 DEF x
  <1>8. CASE point' = [point EXCEPT ![q] = [b EXCEPT !.state = s, !.src = t]]
    <2> DEFINE x == [b EXCEPT !.state = s, !.src = t]
    <2>1. x \in Payload /\ x.sup = b.sup
      BY <1>1 DEF Payload
    <2> HIDE DEF x
    <2> QED BY <1>5, <1>8, <2>1 DEF x
  <1>9. CASE point' = [point EXCEPT ![q] = [b EXCEPT !.tok = t, !.kind = k]]
    <2> DEFINE x == [b EXCEPT !.tok = t, !.kind = k]
    <2>1. x \in Payload /\ x.sup = b.sup
      BY <1>1 DEF Payload
    <2> HIDE DEF x
    <2> QED BY <1>5, <1>9, <2>1 DEF x
  <1> QED BY <1>2, <1>3, <1>6, <1>7, <1>8, <1>9

\* A call keeps its local fields while it stays on its path.
LEMMA PathTyped ==
    ASSUME TypedInv, NEW c \in Call, NEW w \in Running, StoresTyped,
           Goto(c, w, loc[c]),
           \/ pc[c] \in Own /\ w \in Own
           \/ pc[c] \in Resolving /\ w \in Resolving
           \/ pc[c] \in Sourcing /\ w \in Sourcing
           \/ w \in {"finish_predecessor", "finish_journal"}
    PROVE  TypedInv'
  <1>1. TypedCall(c) /\ loc[c] \in Local
    BY DEF TypedInv, TypeOK
  <1> QED BY <1>1, GotoTyped DEF TypedCall, Own, Resolving, Sourcing

\* What the local fields are while a call runs.
LEMMA LocalTyped ==
    ASSUME TypedInv, NEW c \in Call
    PROVE  /\ loc[c] \in Local /\ TypedCall(c)
           /\ point \in [PointId -> Payload] /\ journal \in [Token -> Row]
           /\ loc[c].cur \in PointId \cup {None}
           /\ loc[c].from \in PointId \cup {None}
           /\ loc[c].pay \in Payload
           /\ OwnTokens(c) \subseteq Token /\ Token \subseteq PointId
           /\ \A p \in PointId : TokenOf[c][p] \in OwnTokens(c)
           /\ NoLocal \in Local
  <1>1. loc[c] \in Local
    BY DEF TypedInv, TypeOK
  <1> QED BY <1>1, ConstantsAssumption, NoLocalTyped
          DEF TypedInv, TypeOK, Local, OwnTokens, PointId

\* One step per action of a call.
LEMMA StepTyped ==
    ASSUME TypedInv, NEW c \in Call, Step(c)
    PROVE  TypedInv'
  <1> DEFINE l == loc[c]
  <1> USE DEF Running, ClaimKind, State
  <1>1. /\ l \in Local /\ TypedCall(c)
        /\ point \in [PointId -> Payload] /\ journal \in [Token -> Row]
        /\ l.cur \in PointId \cup {None} /\ l.from \in PointId \cup {None}
        /\ l.pay \in Payload
        /\ OwnTokens(c) \subseteq Token /\ Token \subseteq PointId
    BY LocalTyped
  <1>2. UNCHANGED <<point, journal>> => StoresTyped
    BY UnchangedTyped
  <1>3. CASE Recover(c)
    <2>1. CASE Answer(c, "incomplete", l.from) /\ UNCHANGED <<point, journal>>
      BY <1>1, <1>2, <2>1, AnswerTyped
    <2>2. ASSUME NEW w \in {"recover_retracted", "recover_active",
                            "recover_superseded"},
                 Goto(c, w, l), UNCHANGED <<point, journal>>,
                 pc[c] = "recover"
          PROVE  TypedInv'
      BY <1>2, <2>2, PathTyped DEF Resolving
    <2> QED BY <1>3, <2>1, <2>2 DEF Recover
  <1>4. CASE RecoverActive(c)
    <2>1. l.mine \in Token /\ l.mine \in PointId
      BY <1>1, <1>4 DEF RecoverActive, TypedCall, Resolving
    <2>2. StoresTyped
      BY <1>4, <2>1, FieldWriteTyped DEF RecoverActive
    <2> QED BY <1>4, <2>2, PathTyped DEF RecoverActive, Resolving
  <1>5. CASE RecoverSuperseded(c)
    <2>1. StoresTyped
      BY <1>1, <1>5, StateWriteTyped DEF RecoverSuperseded
    <2> QED BY <1>5, <2>1, PathTyped DEF RecoverSuperseded, Resolving
  <1>6. CASE RecoverRetracted(c)
    <2>1. l.mine \in Token
      BY <1>1, <1>6 DEF RecoverRetracted, TypedCall, Resolving
    <2>2. StoresTyped
      <3>1. CASE l.from \in PointId
        BY <1>6, <2>1, <3>1, FieldWriteTyped DEF RecoverRetracted
      <3>2. CASE l.from \notin PointId
        <4>1. point' = point
          BY <1>1, <1>6, <3>2 DEF RecoverRetracted
        <4> QED BY <1>2, <1>6, <4>1 DEF RecoverRetracted
      <3> QED BY <3>1, <3>2
    <2> QED BY <1>6, <2>2, PathTyped DEF RecoverRetracted, Resolving
  <1>7. CASE RecoverCommit(c)
    <2>1. [status |-> "retracted", id |-> l.from] \in Result
      BY <1>1 DEF Result
    <2>2. StoresTyped
      BY <1>7, <2>1, RecordTyped DEF RecoverCommit
    <2> QED BY <1>7, <2>2, PathTyped DEF RecoverCommit, Resolving
  <1>8. CASE ResolveAgain(c)
    <2>1. KindOf[c] # "source"
      BY <1>1, <1>8 DEF ResolveAgain, TypedCall, Resolving
    <2> QED BY <1>8, <2>1, ResolveAgainLaunches, LaunchedTyped DEF ResolveAgain
  <1>9. CASE FinishPredecessor(c)
    <2>1. l.pay.sup \in PointId \cup {None}
      BY <1>1 DEF Payload
    <2>2. StoresTyped
      BY <1>9, <2>1, StateWriteTyped DEF FinishPredecessor
    <2> QED BY <1>9, <2>2, PathTyped DEF FinishPredecessor
  <1>10. CASE FinishJournal(c)
    <2> DEFINE result == [status |-> IF l.pay.state = "retracted"
                                     THEN "retracted" ELSE "updated",
                          id |-> l.cur]
    <2>1. result \in Result /\ result.id = l.cur
          /\ result.status \in {"updated", "retracted"}
      BY <1>1 DEF Result
    <2>2. Record(l.tok, result) /\ Tells(c, result) /\ UNCHANGED point
      BY <1>10 DEF FinishJournal
    <2> HIDE DEF result
    <2>3. StoresTyped
      BY <2>1, <2>2, RecordTyped
    <2> QED BY <1>1, <2>1, <2>2, <2>3, AnswerTyped DEF Tells
  <1>11. CASE Upsert(c)
    <2>1. /\ l.tok \in PointId /\ l.cur \in PointId
          /\ Successor(c) \in Payload /\ Successor(c).sup = l.cur
      BY <1>1, <1>11, SuccessorTyped DEF Upsert, TypedCall, Own
    <2>2. Successor(c).sup # None
      BY <2>1, ConstantsAssumption
    <2>3. StoresTyped
      BY <1>11, <2>1, <2>2, PointTyped DEF Upsert
    <2> QED BY <1>11, <2>3, PathTyped DEF Upsert, Own
  <1>12. CASE Plan(c)
    <2>1. StoresTyped
      BY <1>12, NoteTyped DEF Plan
    <2> QED BY <1>12, <2>1, PathTyped DEF Plan, Own
  <1>13. CASE Claim(c)
    <2>1. l.tok \in Token /\ l.cur \in PointId /\ KindOf[c] \in ClaimKind
      BY <1>1, <1>13 DEF Claim, TypedCall, Own
    <2>2. StoresTyped
      BY <1>13, <2>1, FieldWriteTyped DEF Claim
    <2> QED BY <1>13, <2>2, PathTyped DEF Claim, Own
  <1>14. CASE Readback(c)
    <2>1. CASE Answer(c, "stale", l.cur)
      BY <1>1, <1>2, <1>14, <2>1, AnswerTyped DEF Readback
    <2>2. ASSUME NEW w \in {"activate", "note_claimed", "abort"}, Goto(c, w, l)
          PROVE  TypedInv'
      BY <1>2, <1>14, <2>2, PathTyped DEF Readback, Own
    <2> QED BY <1>14, <2>1, <2>2 DEF Readback
  <1>15. CASE Abort(c)
    <2>1. l.tok \in Token /\ l.tok \in PointId
      BY <1>1, <1>15 DEF Abort, TypedCall, Own
    <2>2. StoresTyped
      BY <1>15, <2>1, FieldWriteTyped DEF Abort
    <2> QED BY <1>15, <2>2, PathTyped DEF Abort, Own
  <1>16. CASE Conflict(c)
    <2>1. StoresTyped
      BY <1>16, NoteTyped DEF Conflict
    <2> QED BY <1>1, <1>16, <2>1, AnswerTyped DEF Conflict
  <1>17. CASE Activate(c)
    <2>1. l.tok \in Token /\ l.tok \in PointId
      BY <1>1, <1>17 DEF Activate, TypedCall, Own
    <2>2. StoresTyped
      BY <1>17, <2>1, FieldWriteTyped DEF Activate
    <2> QED BY <1>17, <2>2, PathTyped DEF Activate, Own
  <1>18. CASE NoteActivated(c)
    <2>1. StoresTyped
      BY <1>18, NoteTyped DEF NoteActivated
    <2> QED BY <1>18, <2>1, PathTyped DEF NoteActivated, Own
  <1>19. CASE Supersede(c)
    <2>1. l.tok \in Token /\ l.cur \in PointId
      BY <1>1, <1>19 DEF Supersede, TypedCall, Own
    <2>2. StoresTyped
      BY <1>19, <2>1, FieldWriteTyped DEF Supersede
    <2> QED BY <1>19, <2>2, PathTyped DEF Supersede, Own
  <1>20. CASE NoteClaimed(c)
    <2>1. StoresTyped
      BY <1>20, NoteTyped DEF NoteClaimed
    <2> QED BY <1>20, <2>1, PathTyped DEF NoteClaimed, Own
  <1>21. CASE Withdraw(c)
    <2>1. l.tok \in Token /\ l.cur \in PointId
      BY <1>1, <1>21 DEF Withdraw, TypedCall, Own
    <2>2. StoresTyped
      BY <1>21, <2>1, FieldWriteTyped DEF Withdraw
    <2> QED BY <1>21, <2>2, PathTyped DEF Withdraw, Own
  <1>22. CASE Commit(c)
    <2> DEFINE result == IF KindOf[c] = "revise"
                         THEN [status |-> "updated", id |-> l.tok]
                         ELSE [status |-> "retracted", id |-> l.cur]
    <2>1. l.tok \in PointId /\ l.cur \in PointId
      BY <1>1, <1>22 DEF Commit, TypedCall, Own
    <2>2. /\ result \in Result /\ result.id \in PointId
          /\ result.status \in {"updated", "retracted"}
      BY <2>1 DEF Result
    <2>3. Record(l.tok, result) /\ Tells(c, result) /\ UNCHANGED point
      BY <1>22 DEF Commit
    <2> HIDE DEF result
    <2>4. StoresTyped
      BY <2>2, <2>3, RecordTyped
    <2> QED BY <2>2, <2>3, <2>4, AnswerTyped DEF Tells
  <1>23. CASE SetSource(c)
    <2>1. l.cur \in PointId
      BY <1>1, <1>23 DEF SetSource, TypedCall, Sourcing
    <2>2. TokenOf[c][l.cur] \in Token
      BY <2>1, ConstantsAssumption
    <2>3. StoresTyped
      BY <1>23, <2>1, <2>2, FieldWriteTyped DEF SetSource
    <2> QED BY <1>23, <2>3, PathTyped DEF SetSource, Sourcing
  <1>24. CASE CheckSource(c)
    BY <1>1, <1>2, <1>24, AnswerTyped DEF CheckSource
  <1> QED BY <1>3, <1>4, <1>5, <1>6, <1>7, <1>8, <1>9, <1>10, <1>11, <1>12,
             <1>13, <1>14, <1>15, <1>16, <1>17, <1>18, <1>19, <1>20, <1>21,
             <1>22, <1>23, <1>24 DEF Step

LEMMA NextTyped == TypedInv /\ [Next]_vars => TypedInv'
  <1> SUFFICES ASSUME TypedInv, [Next]_vars PROVE TypedInv'
    OBVIOUS
  <1>1. CASE UNCHANGED vars
    BY <1>1 DEF vars, TypedInv, TypeOK, TypedCall
  <1>2. ASSUME NEW c \in Call, Begin(c) PROVE TypedInv'
    <2>1. Launched(c) /\ KindOf[c] # "source" /\ UNCHANGED <<point, journal>>
      BY <1>2, BeginLaunches DEF TypedInv, Begin
    <2> QED BY <2>1, LaunchedTyped
  <1>3. ASSUME NEW c \in Call, BeginSource(c) PROVE TypedInv'
    <2>1. PICK m \in Known :
            Goto(c, "set_source", [NoLocal EXCEPT !.cur = m])
      BY <1>3 DEF BeginSource
    <2> DEFINE k == [NoLocal EXCEPT !.cur = m]
    <2>2. k \in Local /\ k.cur \in PointId
      BY NoLocalTyped DEF NoLocal, Local, Known
    <2>3. StoresTyped
      BY <1>3, UnchangedTyped DEF BeginSource
    <2> HIDE DEF k
    <2> QED BY <2>1, <2>2, <2>3, GotoTyped
            DEF Running, Own, Resolving, Sourcing, k
  <1>4. ASSUME NEW c \in Call, Step(c) PROVE TypedInv'
    BY <1>4, StepTyped
  <1>5. ASSUME NEW c \in Call, Crash(c) PROVE TypedInv'
    <2>1. reply' \in [Call -> Reply]
      BY <1>5 DEF Crash, TypedInv, TypeOK
    <2> QED BY <1>5, <2>1, UnchangedTyped, EndTyped DEF Crash, Ended
  <1>6. ASSUME NEW c \in Call, Fenced(c) PROVE TypedInv'
    <2>1. StoresTyped
      BY <1>6, UnchangedTyped DEF Fenced
    <2> QED BY <1>6, <2>1, PathTyped DEF Fenced, Own, Running
  <1> QED BY <1>1, <1>2, <1>3, <1>4, <1>5, <1>6 DEF Next

\* The stores and the calls are well formed in every reachable state: rows,
\* payloads and answers keep their types through every handler and recovery of
\* mnemory/revisions.py, whatever calls race and whichever workers die.
THEOREM TypeCorrect == Spec => []TypeOK
  <1>1. Init => TypedInv
    BY InitTyped
  <1>2. TypedInv /\ [Next]_vars => TypedInv'
    BY NextTyped
  <1>3. TypedInv => TypeOK
    BY DEF TypedInv
  <1> QED BY <1>1, <1>2, <1>3, PTL DEF Spec

-----------------------------------------------------------------------------
(***************************************************************************)
(* When no two calls carry out one operation (ExclusiveTokens), the        *)
(* published revisions of a lineage form one chain, and at most one of     *)
(* them is a head free of a claim.                                         *)
(*                                                                         *)
(* The argument.  A claim is never removed (Stable), and a successor is    *)
(* published only by the claim that names it, so each published revision   *)
(* but the first holds the claim on its predecessor (Backed).  Two         *)
(* published revisions of one number have, going back one step, two        *)
(* published predecessors of one number, which are one point, and that     *)
(* point holds one claim.  NoGap says that a published revision that is    *)
(* not the newest is the predecessor of a published one, hence claimed.    *)
(***************************************************************************)

Present(p) == point[p].state # "absent"

\* Each successor in store was made from a published revision.
Rooted ==
    /\ Root \in Known /\ point[Root].rev = 1 /\ point[Root].sup = None
    /\ \A t \in Token : Present(t) =>
          /\ point[t].sup \in Known
          /\ point[t].rev = point[point[t].sup].rev + 1

\* A published successor holds the claim on its predecessor.
Backed == \A t \in Token : t \in Known => point[point[t].sup].tok = t

\* Only published revisions are claimed, and a claim to revise names a
\* successor in store.
ClaimsSound ==
    \A p \in PointId : point[p].tok # None =>
        /\ p \in Known /\ point[p].kind \in ClaimKind
        /\ point[p].kind = "revise" =>
              Present(point[p].tok) /\ point[point[p].tok].sup = p

NoGap ==
    \A p, q \in Known : point[p].rev < point[q].rev =>
        \E t \in Token : t \in Known /\ point[t].sup = p

PointsChained == Rooted /\ Backed /\ ClaimsSound /\ LinearHistory /\ NoGap

\* Call c has not claimed a revision.
Unclaimed(c) == \A p \in PointId : point[p].tok \notin OwnTokens(c)

\* What a call that has prepared, claimed or found a claim relies on.
CallChained(c) ==
    /\ pc[c] \notin Ended \cup (Own \ {"upsert", "plan", "claim"}) => Unclaimed(c)
    /\ \A t \in OwnTokens(c) : Present(t) =>
          /\ pc[c] \in (Own \ {"upsert"}) \cup Ended
          /\ pc[c] \in Own => loc[c].tok = t
    /\ pc[c] = "upsert" => /\ KindOf[c] = "revise"
                           /\ loc[c].cur \in Known
                           /\ loc[c].pay.rev = point[loc[c].cur].rev
    /\ pc[c] \in Own \ {"upsert"} /\ KindOf[c] = "revise" =>
          Present(loc[c].tok) /\ point[loc[c].tok].sup = loc[c].cur
    /\ pc[c] \in {"activate", "note_activated", "supersede"} =>
          KindOf[c] = "revise" /\ point[loc[c].cur].tok = loc[c].tok
    /\ pc[c] = "abort" =>
          KindOf[c] = "revise" /\ point[loc[c].cur].tok # loc[c].tok
    /\ pc[c] \in {"recover", "recover_active", "recover_superseded",
                  "recover_retracted"} =>
          /\ loc[c].from \in PointId
          /\ point[loc[c].from].tok = loc[c].mine
          /\ point[loc[c].from].kind = loc[c].kind
    /\ pc[c] = "recover_active" => loc[c].kind = "revise"
    /\ pc[c] = "finish_predecessor" => loc[c].pay.sup \in Known

ChainInv == TypedInv /\ PointsChained /\ \A c \in Call : CallChained(c)

----------------------------------------------------------------------------
(* What the invariant gives.                                               *)

LEMMA ChainGivesSingleHead == TypedInv /\ PointsChained => SingleHead
  <1> SUFFICES ASSUME TypedInv, PointsChained, NEW p \in Active, NEW q \in Active,
                      point[p].tok = None, point[q].tok = None, p # q
               PROVE  FALSE
    BY DEF SingleHead
  <1>1. p \in Known /\ q \in Known /\ p \in PointId /\ q \in PointId
    BY DEF Active, Known, Published
  <1>2. point[p].rev \in Nat /\ point[q].rev \in Nat
    BY <1>1 DEF TypedInv, TypeOK, Payload
  <1>3. point[p].rev # point[q].rev
    BY <1>1 DEF PointsChained, LinearHistory
  <1>4. ASSUME NEW x \in Known, NEW y \in Known, point[x].rev < point[y].rev
        PROVE  point[x].tok # None
    <2>1. PICK t \in Token : t \in Known /\ point[t].sup = x
      BY <1>4 DEF PointsChained, NoGap
    <2>2. point[x].tok = t
      BY <2>1 DEF PointsChained, Backed
    <2> QED BY <2>2, ConstantsAssumption DEF PointId
  <1> QED BY <1>1, <1>2, <1>3, <1>4

----------------------------------------------------------------------------
(* The writes to the points, by what they do to the chain.                 *)

\* Nothing that was there is lost: revisions stay, published ones stay
\* published, and a claim stays.
Stable ==
    \A p \in PointId :
        /\ Present(p) => /\ Present(p)' /\ point'[p].sup = point[p].sup
                         /\ point'[p].rev = point[p].rev
        /\ p \in Known => p \in Known'
        /\ point[p].tok # None => /\ point'[p].tok = point[p].tok
                                  /\ point'[p].kind = point[p].kind

\* A write that changes neither the chain nor the claims.
SameShape ==
    \A p \in PointId :
        /\ Present(p)' <=> Present(p)
        /\ p \in Known' <=> p \in Known
        /\ point'[p].sup = point[p].sup /\ point'[p].rev = point[p].rev
        /\ point'[p].tok = point[p].tok /\ point'[p].kind = point[p].kind

LEMMA Structure ==
    ASSUME TypedInv
    PROVE  /\ Token \subseteq PointId /\ Root \in PointId /\ None \notin PointId
           /\ PointId = Token \cup {Root} /\ Root \notin Token
           /\ Known \subseteq PointId
           /\ \A p \in Known : Present(p)
           /\ \A p \in PointId : /\ point[p].rev \in Nat
                                  /\ point[p].tok \in Token \cup {None}
                                  /\ point[p].sup \in PointId \cup {None}
  BY ConstantsAssumption
  DEF PointId, Known, Present, Published, TypedInv, TypeOK, Payload

LEMMA SameShapeChained ==
    ASSUME TypedInv, TypedInv', PointsChained, SameShape
    PROVE  PointsChained' /\ Stable
  <1>1. Known' = Known /\ \A p \in PointId : Present(p)' <=> Present(p)
    BY DEF SameShape, Known
  <1>2. Rooted'
    BY <1>1, Structure DEF SameShape, PointsChained, Rooted
  <1>3. Backed'
    BY <1>1, Structure DEF SameShape, PointsChained, Rooted, Backed
  <1>4. ClaimsSound'
    BY <1>1, Structure DEF SameShape, PointsChained, ClaimsSound
  <1>5. LinearHistory'
    BY <1>1, Structure DEF SameShape, PointsChained, LinearHistory
  <1>6. NoGap'
    BY <1>1, Structure DEF SameShape, PointsChained, NoGap
  <1> QED BY <1>2, <1>3, <1>4, <1>5, <1>6 DEF PointsChained, SameShape, Stable

\* A successor that holds the claim on its predecessor is published.
Publishes(t) ==
    /\ t \in Token /\ Present(t) /\ t \in Known'
    /\ point[t].sup \in PointId /\ point[point[t].sup].tok = t
    /\ Known' = Known \cup {t}
    /\ \A p \in PointId :
          /\ Present(p)' <=> Present(p)
          /\ point'[p].sup = point[p].sup /\ point'[p].rev = point[p].rev
          /\ point'[p].tok = point[p].tok /\ point'[p].kind = point[p].kind

LEMMA PublishChained ==
    ASSUME TypedInv, TypedInv', PointsChained, NEW t, Publishes(t)
    PROVE  PointsChained' /\ Stable
  <1> DEFINE s == point[t].sup
  <1>1. /\ t \in Token /\ t \in PointId /\ s \in Known /\ s \in PointId
        /\ point[t].rev = point[s].rev + 1
    BY Structure DEF Publishes, PointsChained, Rooted
  <1>2. CASE t \in Known
    <2>1. SameShape
      BY <1>2 DEF Publishes, SameShape
    <2> QED BY <2>1, SameShapeChained
  <1>3. CASE t \notin Known
    <2>1. \A p \in PointId : point[p].rev \in Nat
      BY Structure
    <2>0. point[s].rev >= 1
      <3>1. CASE s = Root
        BY <3>1 DEF PointsChained, Rooted
      <3>2. CASE s # Root
        <4>1. /\ s \in Token /\ point[s].sup \in PointId
              /\ point[s].rev = point[point[s].sup].rev + 1
          BY <1>1, <3>2, Structure DEF PointsChained, Rooted
        <4> QED BY <2>1, <4>1
      <3> QED BY <3>1, <3>2
    \* The predecessor of a published revision of one number with t is s.
    <2>2. ASSUME NEW q \in Known PROVE point[q].rev # point[t].rev
      <3>1. SUFFICES ASSUME point[q].rev = point[t].rev PROVE FALSE
        OBVIOUS
      <3>2. CASE q = Root
        BY <1>1, <2>0, <2>1, <3>1, <3>2 DEF PointsChained, Rooted
      <3>3. CASE q # Root
        <4>1. /\ q \in Token /\ point[q].sup \in Known
              /\ point[q].rev = point[point[q].sup].rev + 1
          BY <3>3, Structure DEF PointsChained, Rooted
        <4>2. point[q].sup \in PointId
          BY <4>1, Structure
        <4>3. point[point[q].sup].rev = point[s].rev
          BY <1>1, <2>1, <3>1, <4>1, <4>2
        <4>4. point[q].sup = s
          BY <1>1, <4>1, <4>3 DEF PointsChained, LinearHistory
        <4>5. point[s].tok = q
          BY <4>1, <4>4 DEF PointsChained, Backed
        <4> QED BY <1>3, <4>5 DEF Publishes
      <3> QED BY <3>2, <3>3
    \* t is newer than every published revision.
    <2>3. ASSUME NEW q \in Known PROVE point[q].rev < point[t].rev
      <3>1. q \in PointId
        BY Structure
      <3>2. CASE point[q].rev > point[t].rev
        <4>1. point[s].rev < point[q].rev
          BY <1>1, <2>1, <3>1, <3>2
        <4>2. PICK r \in Token : r \in Known /\ point[r].sup = s
          BY <1>1, <4>1 DEF PointsChained, NoGap
        <4>3. point[s].tok = r
          BY <4>2 DEF PointsChained, Backed
        <4> QED BY <1>3, <4>2, <4>3 DEF Publishes
      <3> QED BY <1>1, <2>1, <2>2, <3>1, <3>2
    <2>4. Rooted'
      BY Structure DEF Publishes, PointsChained, Rooted
    <2>5. Backed'
      BY Structure DEF Publishes, PointsChained, Rooted, Backed
    <2>6. ClaimsSound'
      BY Structure DEF Publishes, PointsChained, ClaimsSound
    <2>7. LinearHistory'
      BY <2>2, Structure DEF Publishes, PointsChained, LinearHistory
    <2>8. NoGap'
      <3> SUFFICES ASSUME NEW p \in Known', NEW q \in Known',
                          point'[p].rev < point'[q].rev
                   PROVE  \E r \in Token : r \in Known' /\ point'[r].sup = p
        BY DEF NoGap
      <3>1. /\ p \in PointId /\ q \in PointId
            /\ point[p].rev < point[q].rev /\ Known' = Known \cup {t}
        BY <1>1, Structure DEF Publishes
      <3>2. p \in Known
        BY <1>1, <2>1, <2>3, <3>1
      <3>3. CASE q \in Known
        <4>1. PICK r \in Token : r \in Known /\ point[r].sup = p
          BY <3>1, <3>2, <3>3 DEF PointsChained, NoGap
        <4> QED BY <3>1, <4>1, Structure DEF Publishes
      <3>4. CASE q = t
        <4>1. CASE p = s
          BY <1>1, <3>1, <4>1 DEF Publishes
        <4>2. CASE p # s
          <5>1. point[p].rev # point[s].rev
            BY <1>1, <3>2, <4>2 DEF PointsChained, LinearHistory
          <5>2. point[p].rev < point[s].rev
            BY <1>1, <2>1, <3>1, <3>4, <5>1
          <5>3. PICK r \in Token : r \in Known /\ point[r].sup = p
            BY <1>1, <3>2, <5>2 DEF PointsChained, NoGap
          <5> QED BY <3>1, <5>3, Structure DEF Publishes
        <4> QED BY <4>1, <4>2
      <3> QED BY <3>1, <3>3, <3>4
    <2> QED BY <2>4, <2>5, <2>6, <2>7, <2>8
            DEF PointsChained, Publishes, Stable
  <1> QED BY <1>2, <1>3

\* A write that claims an active revision free of a claim.
Claims(p, t, kind) ==
    /\ p \in Known /\ point[p].tok = None /\ t \in Token /\ kind \in ClaimKind
    /\ kind = "revise" => Present(t) /\ point[t].sup = p
    /\ point'[p].tok = t /\ point'[p].kind = kind
    /\ Known' = Known
    /\ \A q \in PointId :
          /\ Present(q)' <=> Present(q)
          /\ point'[q].sup = point[q].sup /\ point'[q].rev = point[q].rev
          /\ q # p => /\ point'[q].tok = point[q].tok
                      /\ point'[q].kind = point[q].kind

LEMMA ClaimChained ==
    ASSUME TypedInv, TypedInv', PointsChained, NEW p, NEW t, NEW kind,
           Claims(p, t, kind)
    PROVE  PointsChained' /\ Stable
  <1>1. p \in PointId /\ t \in PointId
    BY Structure DEF Claims
  <1>2. Rooted'
    BY Structure DEF Claims, PointsChained, Rooted
  <1>3. Backed'
    <2> SUFFICES ASSUME NEW r \in Token, r \in Known
                 PROVE  point'[point[r].sup].tok = r
      BY Structure DEF Backed, Claims
    <2>1. /\ point[r].sup \in PointId /\ point[point[r].sup].tok = r
          /\ r # None
      BY Structure DEF PointsChained, Rooted, Backed
    <2> QED BY <2>1 DEF Claims
  <1>4. ClaimsSound'
    <2> SUFFICES ASSUME NEW q \in PointId, NEW x,
                        x = point'[q].tok, x # None
                 PROVE  /\ q \in Known /\ point'[q].kind \in ClaimKind
                        /\ point'[q].kind = "revise" =>
                              Present(x)' /\ point'[x].sup = q
      BY DEF ClaimsSound, Present, Claims
    <2>1. CASE q = p
      BY <1>1, <2>1 DEF Claims
    <2>2. CASE q # p
      BY <2>2, Structure DEF Claims, PointsChained, ClaimsSound
    <2> QED BY <2>1, <2>2
  <1>5. LinearHistory'
    BY Structure DEF Claims, PointsChained, LinearHistory
  <1>6. NoGap'
    BY Structure DEF Claims, PointsChained, NoGap
  <1> QED BY <1>2, <1>3, <1>4, <1>5, <1>6 DEF PointsChained, Claims, Stable

\* A write that stores a successor of a published revision, not yet published.
Prepares(t, p) ==
    /\ t \in Token /\ ~Present(t) /\ p \in Known
    /\ Present(t)' /\ point'[t].tok = None
    /\ point'[t].sup = p /\ point'[t].rev = point[p].rev + 1
    /\ Known' = Known
    /\ \A q \in PointId : q # t => point'[q] = point[q]

LEMMA PrepareChained ==
    ASSUME TypedInv, TypedInv', PointsChained, NEW t, NEW p, Prepares(t, p)
    PROVE  PointsChained' /\ Stable
  <1>1. /\ p \in PointId /\ t \in PointId /\ t \notin Known
        /\ point[t].tok = None
    BY Structure DEF Prepares, PointsChained, ClaimsSound
  <1>2. \A q \in Known : q # t /\ point'[q] = point[q]
    BY <1>1, Structure DEF Prepares
  <1>3. \A q \in PointId : Present(q)' <=> q = t \/ Present(q)
    BY DEF Prepares, Present
  <1>4. Rooted'
    BY <1>2, <1>3, Structure DEF Prepares, PointsChained, Rooted
  <1>5. Backed'
    BY <1>2, <1>3, Structure DEF Prepares, PointsChained, Rooted, Backed
  <1>6. ClaimsSound'
    <2> SUFFICES ASSUME NEW q \in PointId, NEW x,
                        x = point'[q].tok, x # None
                 PROVE  /\ q \in Known /\ point'[q].kind \in ClaimKind
                        /\ point'[q].kind = "revise" =>
                              Present(x)' /\ point'[x].sup = q
      BY DEF ClaimsSound, Present, Prepares
    <2>1. q # t /\ point'[q] = point[q] /\ x = point[q].tok /\ x \in Token
      BY Structure DEF Prepares
    <2>2. /\ q \in Known /\ point[q].kind \in ClaimKind
          /\ point[q].kind = "revise" =>
                Present(x) /\ point[x].sup = q
      BY <2>1, Structure DEF PointsChained, ClaimsSound
    <2>3. Present(x) => point'[x] = point[x]
      BY <2>1, Structure DEF Prepares
    <2> QED BY <1>3, <2>1, <2>2, <2>3, Structure
  <1>7. LinearHistory'
    BY <1>2, Structure DEF Prepares, PointsChained, LinearHistory
  <1>8. NoGap'
    BY <1>2, Structure DEF Prepares, PointsChained, NoGap
  <1>9. Stable
    BY <1>1, <1>2, <1>3, Structure DEF Prepares, Stable
  <1> QED BY <1>4, <1>5, <1>6, <1>7, <1>8, <1>9 DEF PointsChained

----------------------------------------------------------------------------
(* The calls.                                                              *)

\* The other calls rely on nothing a step of c changes: what it prepares and
\* what it claims carry its own tokens.
Contained(c) ==
    /\ \A t \in Token : Present(t)' => Present(t) \/ t \in OwnTokens(c)
    /\ \A p \in PointId : \/ point'[p].tok = point[p].tok
                           \/ point'[p].tok \in OwnTokens(c)

LEMMA OthersChained ==
    ASSUME ExclusiveTokens, TypedInv, NEW c \in Call, NEW d \in Call, d # c,
           Stable, Contained(c), CallChained(d),
           pc'[d] = pc[d], loc'[d] = loc[d]
    PROVE  CallChained(d)'
  <1>1. /\ OwnTokens(d) \subseteq Token
        /\ \A t \in OwnTokens(d) : t \notin OwnTokens(c)
        /\ TypedCall(d)
    BY LocalTyped DEF ExclusiveTokens, TypedInv
  <1>2. \A t \in OwnTokens(d) : Present(t)' => Present(t)
    BY <1>1 DEF Contained
  <1>3. \A p \in Known : p \in Known' /\ point'[p].rev = point[p].rev
    BY Structure DEF Stable
  <1>4. \A t \in OwnTokens(d) : Present(t) =>
            Present(t)' /\ point'[t].sup = point[t].sup
    BY <1>1, Structure DEF Stable
  <1>5. \A p \in PointId, t \in OwnTokens(d) :
            /\ point'[p].tok = t <=> point[p].tok = t
    BY <1>1, Structure DEF Stable, Contained
  <1>6. \A p \in PointId : point[p].tok # None =>
            point'[p].tok = point[p].tok /\ point'[p].kind = point[p].kind
    BY DEF Stable
  <1>7. pc[d] \in Own => loc[d].tok \in OwnTokens(d) /\ loc[d].cur \in PointId
    BY <1>1 DEF TypedCall
  <1>8. pc[d] \in Resolving => loc[d].mine \in Token /\ loc[d].mine # None
    BY <1>1, Structure DEF TypedCall
  <1>9. /\ (pc[d] = "upsert" => /\ KindOf[d] = "revise"
                               /\ loc[d].cur \in Known
                               /\ loc[d].pay.rev = point[loc[d].cur].rev)'
        /\ (pc[d] = "finish_predecessor" => loc[d].pay.sup \in Known)'
    BY <1>3 DEF CallChained
  <1>10. (\A t \in OwnTokens(d) : Present(t) =>
            /\ pc[d] \in (Own \ {"upsert"}) \cup Ended
            /\ pc[d] \in Own => loc[d].tok = t)'
    BY <1>2 DEF CallChained, OwnTokens
  <1>11. (pc[d] \in Own \ {"upsert"} /\ KindOf[d] = "revise" =>
            Present(loc[d].tok) /\ point[loc[d].tok].sup = loc[d].cur)'
    BY <1>4, <1>7 DEF CallChained, Present
  <1>12. /\ (pc[d] \in {"activate", "note_activated", "supersede"} =>
                KindOf[d] = "revise" /\ point[loc[d].cur].tok = loc[d].tok)'
         /\ (pc[d] = "abort" =>
                KindOf[d] = "revise" /\ point[loc[d].cur].tok # loc[d].tok)'
    BY <1>5, <1>7 DEF CallChained, Own
  <1>13. /\ (pc[d] \in {"recover", "recover_active", "recover_superseded",
                        "recover_retracted"} =>
                /\ loc[d].from \in PointId
                /\ point[loc[d].from].tok = loc[d].mine
                /\ point[loc[d].from].kind = loc[d].kind)'
         /\ (pc[d] = "recover_active" => loc[d].kind = "revise")'
    BY <1>6, <1>8 DEF CallChained, Resolving
  <1>14. (pc[d] \notin Ended \cup (Own \ {"upsert", "plan", "claim"}) => Unclaimed(d))'
    BY <1>5 DEF CallChained, Unclaimed, OwnTokens
  <1> QED BY <1>9, <1>10, <1>11, <1>12, <1>13, <1>14 DEF CallChained

\* No revision of a call's own is in store before it prepares one.
LEMMA NothingPrepared ==
    ASSUME NEW c \in Call, CallChained(c),
           pc[c] \notin Own \cup Ended \/ pc[c] = "upsert"
    PROVE  \A t \in OwnTokens(c) : ~Present(t)
  BY DEF CallChained, Own, Ended

LEMMA EndChained ==
    ASSUME NEW c \in Call, pc'[c] \in Ended
    PROVE  CallChained(c)'
  BY DEF CallChained, Own, Ended

LEMMA OwnPathChained ==
    ASSUME TypedInv, NEW c \in Call, CallChained(c), Stable,
           \A t \in Token : Present(t)' => Present(t),
           pc[c] \in Own \ {"upsert"}, NEW w \in Own \ {"upsert"},
           pc'[c] = w, loc'[c] = loc[c],
           w \in {"activate", "note_activated", "supersede"} =>
              KindOf[c] = "revise" /\ point'[loc[c].cur].tok = loc[c].tok,
           w = "abort" =>
              KindOf[c] = "revise" /\ point'[loc[c].cur].tok # loc[c].tok,
           w \in {"plan", "claim"} => Unclaimed(c)'
    PROVE  CallChained(c)'
  <1>1. OwnTokens(c) \subseteq Token /\ loc[c].tok \in Token
    BY LocalTyped DEF TypedCall
  <1>2. /\ \A t \in OwnTokens(c) : Present(t) => loc[c].tok = t
        /\ KindOf[c] = "revise" =>
              Present(loc[c].tok) /\ point[loc[c].tok].sup = loc[c].cur
    BY DEF CallChained
  <1>3. Present(loc[c].tok) =>
            /\ Present(loc[c].tok)'
            /\ point'[loc[c].tok].sup = point[loc[c].tok].sup
    BY <1>1, Structure DEF Stable, Present
  <1>4. (\A t \in OwnTokens(c) : Present(t) =>
            /\ pc[c] \in (Own \ {"upsert"}) \cup Ended
            /\ pc[c] \in Own => loc[c].tok = t)'
    BY <1>1, <1>2 DEF OwnTokens
  <1>5. (pc[c] \in Own \ {"upsert"} /\ KindOf[c] = "revise" =>
            Present(loc[c].tok) /\ point[loc[c].tok].sup = loc[c].cur)'
    BY <1>2, <1>3 DEF Present
  <1> QED BY <1>4, <1>5 DEF CallChained, Own

LEMMA ResolvingPathChained ==
    ASSUME TypedInv, NEW c \in Call, CallChained(c),
           \A t \in Token : Present(t)' => Present(t),
           pc[c] \in Resolving, NEW w \in Resolving, pc'[c] = w,
           loc'[c] = loc[c],
           w \in {"recover", "recover_active", "recover_superseded",
                  "recover_retracted"} =>
              /\ loc[c].from \in PointId
              /\ point'[loc[c].from].tok = loc[c].mine
              /\ point'[loc[c].from].kind = loc[c].kind,
           w = "recover_active" => loc[c].kind = "revise",
           \A p \in PointId : point'[p].tok = point[p].tok
    PROVE  CallChained(c)'
  <1>1. \A t \in OwnTokens(c) : ~Present(t)'
    BY NothingPrepared, LocalTyped DEF Resolving, Own, Ended
  <1>2. (\A t \in OwnTokens(c) : Present(t) =>
            /\ pc[c] \in (Own \ {"upsert"}) \cup Ended
            /\ pc[c] \in Own => loc[c].tok = t)'
    BY <1>1 DEF OwnTokens
  <1>3. Unclaimed(c)'
    BY DEF CallChained, Unclaimed, Resolving, Own, Ended, OwnTokens
  <1> QED BY <1>2, <1>3 DEF CallChained, Own, Resolving

\* Steps after which the call relies on nothing.
LEMMA PlainChained ==
    ASSUME TypedInv, NEW c \in Call, CallChained(c),
           \A t \in Token : Present(t)' => Present(t),
           pc[c] \notin Own \cup Ended,
           pc'[c] \in Sourcing \cup {"finish_journal"},
           \A p \in PointId : point'[p].tok = point[p].tok
    PROVE  CallChained(c)'
  <1>1. \A t \in OwnTokens(c) : ~Present(t)'
    BY NothingPrepared, LocalTyped
  <1>2. (\A t \in OwnTokens(c) : Present(t) =>
            /\ pc[c] \in (Own \ {"upsert"}) \cup Ended
            /\ pc[c] \in Own => loc[c].tok = t)'
    BY <1>1 DEF OwnTokens
  <1>3. Unclaimed(c)'
    BY DEF CallChained, Unclaimed, OwnTokens
  <1> QED BY <1>2, <1>3 DEF CallChained, Own, Sourcing

LEMMA LaunchedChained ==
    ASSUME TypedInv, PointsChained, NEW c \in Call, CallChained(c), Launched(c),
           pc[c] \notin Own \cup Ended, UNCHANGED point
    PROVE  CallChained(c)'
  <1>1. pc \in [Call -> Running \cup Ended \cup {"idle"}] /\ loc \in [Call -> Local]
    BY DEF TypedInv, TypeOK
  <1>2. \A t \in OwnTokens(c) : ~Present(t)
    BY NothingPrepared
  <1>3. (\A t \in OwnTokens(c) : Present(t) =>
            /\ pc[c] \in (Own \ {"upsert"}) \cup Ended
            /\ pc[c] \in Own => loc[c].tok = t)'
    BY <1>2 DEF OwnTokens, Present
  <1>0. Unclaimed(c)'
    BY DEF CallChained, Unclaimed, OwnTokens
  <1>4. CASE pc' = [pc EXCEPT ![c] = "done"]
    BY <1>1, <1>4, EndChained DEF Ended
  <1>5. ASSUME NEW m \in Local, Moves(c, "recover", m), m.from \in PointId,
               m.mine = point[m.from].tok, m.kind = point[m.from].kind
        PROVE  CallChained(c)'
    <2>1. pc'[c] = "recover" /\ loc'[c] = m
      BY <1>1, <1>5 DEF Moves
    <2> QED BY <1>0, <1>3, <1>5, <2>1 DEF CallChained, Own
  <1>6. ASSUME NEW m \in Local, Moves(c, "upsert", m), KindOf[c] = "revise",
               m.cur \in PointId, m.pay = point[m.cur],
               m.pay.state = "active"
        PROVE  CallChained(c)'
    <2>1. pc'[c] = "upsert" /\ loc'[c] = m
      BY <1>1, <1>6 DEF Moves
    <2>2. m.cur \in Known' /\ m.pay.rev = point'[m.cur].rev
      BY <1>6 DEF Known, Published
    <2> QED BY <1>0, <1>3, <1>6, <2>1, <2>2 DEF CallChained, Own
  <1>7. ASSUME NEW m \in Local, Moves(c, "plan", m), m.tok \in OwnTokens(c),
               \/ KindOf[c] = "retract"
               \/ KindOf[c] = "revise" /\ point[m.tok].state # "absent"
        PROVE  CallChained(c)'
    <2>1. pc'[c] = "plan" /\ loc'[c] = m
      BY <1>1, <1>7 DEF Moves
    <2>2. KindOf[c] = "retract"
      BY <1>2, <1>7 DEF Present
    <2> QED BY <1>0, <1>3, <2>1, <2>2 DEF CallChained, Own
  <1>8. ASSUME NEW m \in Local, Moves(c, "finish_predecessor", m),
               m.cur \in Known, m.pay = point[m.cur], m.pay.sup # None
        PROVE  CallChained(c)'
    <2>1. pc'[c] = "finish_predecessor" /\ loc'[c] = m
      BY <1>1, <1>8 DEF Moves
    <2>2. m.cur \in Token /\ Present(m.cur)
      BY <1>8, Structure DEF PointsChained, Rooted, Present
    <2>3. m.pay.sup \in Known'
      BY <1>8, <2>2 DEF PointsChained, Rooted, Known
    <2> QED BY <1>0, <1>3, <2>1, <2>3 DEF CallChained, Own
  <1>9. ASSUME NEW m \in Local, Moves(c, "finish_journal", m)
        PROVE  CallChained(c)'
    BY <1>0, <1>1, <1>3, <1>9 DEF Moves, CallChained, Own
  <1> QED BY <1>4, <1>5, <1>6, <1>7, <1>8, <1>9 DEF Launched

----------------------------------------------------------------------------
(* The steps.                                                              *)

\* What a step of call c does to the chain, and that it leaves c sound.
Chained(c) == PointsChained' /\ Stable /\ Contained(c) /\ CallChained(c)'

\* Writes that change no chain and no claim.
LEMMA StateWriteShape ==
    ASSUME TypedInv, NEW q \in PointId, NEW s \in State, NEW t \in Token,
           Present(q), s # "absent", q \in Known <=> s \in Published,
           \/ point' = [point EXCEPT ![q].state = s]
           \/ point' = [point EXCEPT ![q].state = s, ![q].op = t]
           \/ point' = [point EXCEPT ![q].state = s, ![q].src = t]
           \/ point' = point
    PROVE  SameShape
  <1>1. point \in [PointId -> Payload]
    BY DEF TypedInv, TypeOK
  <1>2. point[q] \in Payload
    BY <1>1
  <1>3. CASE point' = point
    BY <1>3 DEF SameShape, Present, Known
  <1>4. CASE point' # point
    <2>1. /\ point'[q].state = s /\ point'[q].sup = point[q].sup
          /\ point'[q].rev = point[q].rev /\ point'[q].tok = point[q].tok
          /\ point'[q].kind = point[q].kind
      <3>1. CASE point' = [point EXCEPT ![q].state = s]
        BY <1>1, <1>2, <3>1 DEF Payload
      <3>2. CASE point' = [point EXCEPT ![q].state = s, ![q].op = t]
        BY <1>1, <1>2, <3>2 DEF Payload
      <3>3. CASE point' = [point EXCEPT ![q].state = s, ![q].src = t]
        BY <1>1, <1>2, <3>3 DEF Payload
      <3> QED BY <1>4, <3>1, <3>2, <3>3
    <2>2. \A p \in PointId : p # q => point'[p] = point[p]
      BY <1>1
    <2> QED BY <2>1, <2>2 DEF SameShape, Present, Known
  <1> QED BY <1>3, <1>4

LEMMA SameShapeContained ==
    ASSUME TypedInv, SameShape, NEW c \in Call
    PROVE  Contained(c) /\ \A t \in Token : Present(t)' => Present(t)
  BY Structure DEF SameShape, Contained

LEMMA PublishesContained ==
    ASSUME TypedInv, NEW c \in Call, NEW t, Publishes(t)
    PROVE  Contained(c) /\ \A r \in Token : Present(r)' => Present(r)
  BY Structure DEF Publishes, Contained

LEMMA UnchangedShape == UNCHANGED point => SameShape
  BY DEF SameShape, Present, Known

\* Making a pending successor active publishes it.
LEMMA ActivatePublishes ==
    ASSUME TypedInv, PointsChained, NEW t \in Token, Present(t),
           point[t].sup \in PointId, point[point[t].sup].tok = t,
           point' = [point EXCEPT ![t].state = "active"]
    PROVE  Publishes(t)
  <1>1. point \in [PointId -> Payload] /\ t \in PointId
    BY Structure DEF TypedInv, TypeOK
  <1>2. point[t] \in Payload
    BY <1>1
  <1>3. /\ point'[t].state = "active" /\ point'[t].sup = point[t].sup
        /\ point'[t].rev = point[t].rev /\ point'[t].tok = point[t].tok
        /\ point'[t].kind = point[t].kind
    BY <1>1, <1>2 DEF Payload
  <1>4. \A p \in PointId : p # t => point'[p] = point[p]
    BY <1>1
  <1> QED BY <1>1, <1>3, <1>4 DEF Publishes, Known, Present, Published

\* The recovery of a claim.
LEMMA RecoverChained ==
    ASSUME TypedInv, TypedInv', PointsChained, NEW c \in Call, CallChained(c),
           \/ Recover(c) \/ RecoverActive(c) \/ RecoverSuperseded(c)
           \/ RecoverRetracted(c) \/ RecoverCommit(c) \/ ResolveAgain(c)
    PROVE  Chained(c)
  <1> DEFINE l == loc[c]
  <1>1. /\ pc \in [Call -> Running \cup Ended \cup {"idle"}]
        /\ loc \in [Call -> Local] /\ TypedCall(c)
    BY LocalTyped DEF TypedInv, TypeOK
  \* A claim that was found is still there, with its successor in store.
  <1>2. pc[c] \in {"recover", "recover_active", "recover_superseded",
                   "recover_retracted"} =>
            /\ l.from \in PointId /\ l.mine \in Token
            /\ point[l.from].tok = l.mine /\ point[l.from].kind = l.kind
            /\ l.from \in Known /\ Present(l.from) /\ l.kind \in ClaimKind
            /\ l.kind = "revise" =>
                  Present(l.mine) /\ point[l.mine].sup = l.from
    BY <1>1, Structure
       DEF CallChained, TypedCall, Resolving, PointsChained, ClaimsSound
  <1>3. ASSUME SameShape, CallChained(c)' PROVE Chained(c)
    BY <1>3, SameShapeChained, SameShapeContained DEF Chained
  <1>4. ASSUME pc'[c] \in Ended, UNCHANGED point PROVE Chained(c)
    BY <1>3, <1>4, UnchangedShape, EndChained
  <1>5. ASSUME SameShape, pc[c] \in Resolving, NEW w \in Resolving,
               pc'[c] = w, loc'[c] = l,
               w \in {"recover", "recover_active", "recover_superseded",
                      "recover_retracted"} =>
                  /\ l.from \in PointId /\ point[l.from].tok = l.mine
                  /\ point[l.from].kind = l.kind,
               w = "recover_active" => l.kind = "revise"
        PROVE  Chained(c)
    <2>1. w \in {"recover", "recover_active", "recover_superseded",
                 "recover_retracted"} =>
              /\ l.from \in PointId /\ point'[l.from].tok = l.mine
              /\ point'[l.from].kind = l.kind
      BY <1>5 DEF SameShape
    <2>2. \A t \in Token : Present(t)' => Present(t)
      BY <1>5, SameShapeContained
    <2>3. \A p \in PointId : point'[p].tok = point[p].tok
      BY <1>5 DEF SameShape
    <2> QED BY <1>3, <1>5, <2>1, <2>2, <2>3, ResolvingPathChained
  <1>6. CASE Recover(c)
    <2>1. CASE Answer(c, "incomplete", l.from)
      BY <1>1, <1>4, <1>6, <2>1 DEF Recover, Answer, Ended
    <2>2. ASSUME NEW w \in {"recover_retracted", "recover_active",
                            "recover_superseded"}, Goto(c, w, l),
                 w = "recover_active" => l.kind # "retract"
          PROVE  Chained(c)
      <3>1. pc'[c] = w /\ loc'[c] = l /\ pc[c] = "recover" /\ UNCHANGED point
        BY <1>1, <1>6, <2>2 DEF Goto, Recover
      <3> QED BY <1>2, <1>5, <2>2, <3>1, UnchangedShape DEF Resolving, ClaimKind
    <2> QED BY <1>6, <2>1, <2>2 DEF Recover
  <1>7. CASE RecoverActive(c)
    <2>1. /\ pc[c] = "recover_active" /\ l.kind = "revise"
          /\ pc'[c] = "recover_superseded" /\ loc'[c] = l
          /\ point' = [point EXCEPT ![l.mine].state = "active"]
      BY <1>1, <1>7 DEF RecoverActive, Goto, CallChained
    <2>0. PICK t \in Token : t = l.mine
      BY <1>2, <2>1
    <2>2. Publishes(t)
      BY <1>2, <2>0, <2>1, ActivatePublishes
    <2>3. PointsChained' /\ Stable /\ Contained(c)
      BY <2>2, PublishChained, PublishesContained
    <2>4. CallChained(c)'
      <3>1. \A r \in Token : Present(r)' => Present(r)
        BY <2>2, PublishesContained
      <3>2. /\ point'[l.from].tok = l.mine /\ point'[l.from].kind = l.kind
            /\ \A p \in PointId : point'[p].tok = point[p].tok
        BY <1>2, <2>1, <2>2 DEF Publishes
      <3> QED BY <1>2, <2>1, <3>1, <3>2, ResolvingPathChained DEF Resolving
    <2> QED BY <2>3, <2>4 DEF Chained
  <1>8. CASE RecoverSuperseded(c)
    <2>1. /\ pc[c] = "recover_superseded"
          /\ pc'[c] = "resolve_again" /\ loc'[c] = l
      BY <1>1, <1>8 DEF RecoverSuperseded, Goto
    <2>2. SameShape
      BY <1>2, <1>8, <2>1, StateWriteShape
         DEF RecoverSuperseded, State, Published
    <2> QED BY <1>5, <2>1, <2>2 DEF Resolving
  <1>9. CASE RecoverRetracted(c)
    <2>1. /\ pc[c] = "recover_retracted"
          /\ pc'[c] = "recover_commit" /\ loc'[c] = l
      BY <1>1, <1>9 DEF RecoverRetracted, Goto
    <2>2. SameShape
      BY <1>2, <1>9, <2>1, StateWriteShape
         DEF RecoverRetracted, State, Published
    <2> QED BY <1>5, <2>1, <2>2 DEF Resolving
  <1>10. CASE RecoverCommit(c)
    <2>1. /\ pc[c] = "recover_commit" /\ UNCHANGED point
          /\ pc'[c] = "resolve_again" /\ loc'[c] = l
      BY <1>1, <1>10 DEF RecoverCommit, Goto
    <2> QED BY <1>5, <2>1, UnchangedShape DEF Resolving
  <1>11. CASE ResolveAgain(c)
    <2>1. Launched(c) /\ pc[c] = "resolve_again" /\ UNCHANGED point
      BY <1>11, ResolveAgainLaunches DEF ResolveAgain
    <2>2. CallChained(c)'
      BY <2>1, LaunchedChained DEF Own, Ended
    <2> QED BY <1>3, <2>1, <2>2, UnchangedShape
  <1> QED BY <1>6, <1>7, <1>8, <1>9, <1>10, <1>11

\* revise and retract: prepare, claim, change, commit.
LEMMA OwnStepChained ==
    ASSUME TypedInv, TypedInv', PointsChained, NEW c \in Call, CallChained(c),
           \/ Upsert(c) \/ Plan(c) \/ Claim(c) \/ Fenced(c) \/ Readback(c)
           \/ Abort(c) \/ Conflict(c)
           \/ Activate(c) \/ NoteActivated(c) \/ Supersede(c)
           \/ NoteClaimed(c) \/ Withdraw(c) \/ Commit(c)
    PROVE  Chained(c)
  <1> DEFINE l == loc[c]
  <1>1. /\ pc \in [Call -> Running \cup Ended \cup {"idle"}]
        /\ loc \in [Call -> Local] /\ point \in [PointId -> Payload]
        /\ TypedCall(c)
    BY LocalTyped DEF TypedInv, TypeOK
  <1>2. pc[c] \in Own
    BY DEF Upsert, Plan, Claim, Fenced, Readback, Abort, Conflict, Activate,
           NoteActivated, Supersede, NoteClaimed, Withdraw, Commit, Own
  <1>3. /\ l.tok \in OwnTokens(c) /\ l.tok \in Token /\ l.tok # None
        /\ l.tok \in PointId /\ l.cur \in PointId
        /\ KindOf[c] \in {"revise", "retract"}
    BY <1>1, <1>2, LocalTyped, Structure DEF TypedCall
  \* A claim read on the revision is held by a published revision.
  <1>4. point[l.cur].tok = l.tok => l.cur \in Known /\ Present(l.cur)
    BY <1>3, Structure DEF PointsChained, ClaimsSound
  <1>5. ASSUME SameShape, CallChained(c)' PROVE Chained(c)
    BY <1>5, SameShapeChained, SameShapeContained DEF Chained
  <1>6. ASSUME SameShape, pc'[c] \in Ended PROVE Chained(c)
    BY <1>5, <1>6, EndChained
  <1>7. ASSUME SameShape, pc[c] # "upsert", NEW w \in Own \ {"upsert", "plan"},
               pc'[c] = w, loc'[c] = l,
               w \in {"activate", "note_activated", "supersede"} =>
                  KindOf[c] = "revise" /\ point[l.cur].tok = l.tok,
               w = "abort" =>
                  KindOf[c] = "revise" /\ point[l.cur].tok # l.tok,
               w = "claim" => Unclaimed(c)
        PROVE  Chained(c)
    <2>1. point'[l.cur].tok = point[l.cur].tok
      BY <1>3, <1>7 DEF SameShape
    <2>2. Stable /\ \A t \in Token : Present(t)' => Present(t)
      BY <1>7, SameShapeChained, SameShapeContained
    <2>3. w = "claim" => Unclaimed(c)'
      BY <1>7 DEF SameShape, Unclaimed, OwnTokens
    <2> QED BY <1>2, <1>5, <1>7, <2>1, <2>2, <2>3, OwnPathChained
  <1>8. CASE Upsert(c)
    <2>1. /\ pc[c] = "upsert" /\ pc'[c] = "plan" /\ loc'[c] = l
          /\ point' = [point EXCEPT ![l.tok] = Successor(c)]
      BY <1>1, <1>8 DEF Upsert, Goto
    <2>2. PICK t \in OwnTokens(c), p \in PointId : t = l.tok /\ p = l.cur
      BY <1>3
    <2>3. /\ ~Present(t) /\ KindOf[c] = "revise" /\ p \in Known
          /\ l.pay.rev = point[p].rev /\ t \in Token /\ t \in PointId
      BY <1>3, <2>1, <2>2, NothingPrepared DEF CallChained
    <2>4. /\ Successor(c).sup = p /\ Successor(c).state = "pending"
          /\ Successor(c).rev = point[p].rev + 1
          /\ Successor(c).tok = None
      BY <2>1, <2>2, <2>3, SuccessorTyped
    <2>5. point'[t] = Successor(c)
          /\ \A q \in PointId : q # t => point'[q] = point[q]
      BY <1>1, <2>1, <2>2, <2>3
    <2>6. Prepares(t, p)
      <3>1. Present(t)' /\ t \notin Known /\ t \notin Known'
        BY <2>3, <2>4, <2>5 DEF Present, Known, Published
      <3>2. \A q \in PointId : q \in Known' <=> q \in Known
        BY <2>5, <3>1 DEF Known
      <3>3. Known' = Known
        BY <3>2 DEF Known
      <3>4. /\ point'[t].sup = p /\ point'[t].tok = None
            /\ point'[t].rev = point[p].rev + 1
        BY <2>4, <2>5
      <3> QED BY <2>3, <2>5, <3>1, <3>3, <3>4 DEF Prepares
    <2>7. PointsChained' /\ Stable
      BY <2>6, PrepareChained
    <2>8. Contained(c)
      <3>1. point[t].tok = None
        BY <2>3, Structure DEF PointsChained, ClaimsSound
      <3>2. \A r \in Token : r # t => (Present(r)' => Present(r))
        BY <2>5, Structure DEF Present
      <3>3. \A q \in PointId : point'[q].tok = point[q].tok
        BY <2>4, <2>5, <3>1
      <3> QED BY <2>2, <3>2, <3>3 DEF Contained
    <2>9. CallChained(c)'
      <3>1. \A r \in OwnTokens(c) : Present(r)' => r = t
        BY <2>1, <2>5, NothingPrepared, LocalTyped DEF Present
      <3>2. (\A r \in OwnTokens(c) : Present(r) =>
                /\ pc[c] \in (Own \ {"upsert"}) \cup Ended
                /\ pc[c] \in Own => loc[c].tok = r)'
        BY <2>1, <2>2, <3>1 DEF OwnTokens, Own
      <3>3. Present(t)' /\ point'[t].sup = p
        BY <2>6 DEF Prepares
      <3>4. Unclaimed(c)'
        <4>1. Unclaimed(c)
          BY <2>1 DEF CallChained, Own, Ended
        <4>2. /\ \A q \in PointId : point'[q].tok \in {None, point[q].tok}
              /\ None \notin OwnTokens(c)
          BY <1>3, <2>4, <2>5, LocalTyped, Structure
        <4> QED BY <4>1, <4>2 DEF Unclaimed, OwnTokens
      <3> QED BY <2>1, <2>2, <3>2, <3>3, <3>4 DEF CallChained, Own, Present
    <2> QED BY <2>7, <2>8, <2>9 DEF Chained
  <1>9. CASE Plan(c)
    <2>1. /\ pc[c] = "plan" /\ pc'[c] = "claim" /\ loc'[c] = l
          /\ UNCHANGED point
      BY <1>1, <1>9 DEF Plan, Goto
    <2>2. Unclaimed(c)
      BY <2>1 DEF CallChained, Own, Ended
    <2> QED BY <1>7, <2>1, <2>2, UnchangedShape DEF Own
  <1>10. CASE Claim(c)
    <2>1. pc[c] = "claim" /\ pc'[c] = "readback" /\ loc'[c] = l
      BY <1>1, <1>10 DEF Claim, Goto
    <2>2. CASE point' = point
      BY <1>7, <2>1, <2>2, UnchangedShape DEF Own
    <2>3. CASE point' # point
      <3>1. /\ point[l.cur].state = "active" /\ point[l.cur].tok = None
            /\ point' = [point EXCEPT ![l.cur].tok = l.tok,
                                      ![l.cur].kind = KindOf[c]]
        BY <1>10, <2>3 DEF Claim
      <3>2. KindOf[c] = "revise" => Present(l.tok) /\ point[l.tok].sup = l.cur
        BY <2>1 DEF CallChained, Own
      <3>3. /\ point'[l.cur].tok = l.tok /\ point'[l.cur].kind = KindOf[c]
            /\ point'[l.cur].state = point[l.cur].state
            /\ point'[l.cur].sup = point[l.cur].sup
            /\ point'[l.cur].rev = point[l.cur].rev
            /\ \A q \in PointId : q # l.cur => point'[q] = point[q]
        <4>1. point[l.cur] \in Payload
          BY <1>1, <1>3
        <4> QED BY <1>1, <1>3, <3>1, <4>1 DEF Payload
      <3>4. Claims(l.cur, l.tok, KindOf[c])
        BY <1>3, <3>1, <3>2, <3>3
           DEF Claims, Known, Published, Present, ClaimKind
      <3>5. PointsChained' /\ Stable
        BY <3>4, ClaimChained
      <3>6. Contained(c) /\ \A t \in Token : Present(t)' => Present(t)
        <4>1. \A t \in Token : Present(t)' => Present(t)
          BY <3>4, Structure DEF Claims
        <4>2. \A p \in PointId : \/ point'[p].tok = point[p].tok
                                 \/ point'[p].tok \in OwnTokens(c)
          BY <1>3, <3>3
        <4> QED BY <4>1, <4>2 DEF Contained
      <3>7. CallChained(c)'
        BY <2>1, <3>5, <3>6, OwnPathChained DEF Own
      <3> QED BY <3>5, <3>6, <3>7 DEF Chained
    <2> QED BY <2>2, <2>3
  <1>20. CASE Fenced(c)
    <2>1. /\ pc[c] = "claim" /\ pc'[c] = "abort" /\ loc'[c] = l
          /\ KindOf[c] = "revise" /\ UNCHANGED point
      BY <1>1, <1>20 DEF Fenced, Goto
    <2>2. point[l.cur].tok # l.tok
      BY <1>3, <2>1 DEF CallChained, Unclaimed, Own, Ended
    <2> QED BY <1>7, <2>1, <2>2, UnchangedShape DEF Own
  <1>11. CASE Readback(c)
    <2>1. pc[c] = "readback" /\ UNCHANGED point
      BY <1>11 DEF Readback
    <2>2. CASE Answer(c, "stale", l.cur)
      BY <1>1, <1>6, <2>1, <2>2, UnchangedShape DEF Answer, Ended
    <2>3. CASE point[l.cur].tok = l.tok /\ ~Answer(c, "stale", l.cur)
      BY <1>1, <1>7, <1>11, <2>1, <2>3, UnchangedShape DEF Readback, Goto, Own
    <2>4. CASE point[l.cur].tok # l.tok /\ ~Answer(c, "stale", l.cur)
      <3>1. KindOf[c] = "revise" /\ Goto(c, "abort", l)
        BY <1>11, <2>4 DEF Readback
      <3> QED BY <1>1, <1>7, <2>1, <2>4, <3>1, UnchangedShape DEF Goto, Own
    <2> QED BY <2>2, <2>3, <2>4
  <1>12. CASE Abort(c)
    <2>1. /\ pc[c] = "abort" /\ pc'[c] = "conflict" /\ loc'[c] = l
          /\ point' = [point EXCEPT ![l.tok].state = "aborted"]
      BY <1>1, <1>12 DEF Abort, Goto
    <2>2. /\ Present(l.tok) /\ point[l.tok].sup = l.cur
          /\ point[l.cur].tok # l.tok
      BY <2>1 DEF CallChained, Own
    <2>3. l.tok \notin Known
      BY <1>3, <2>2 DEF PointsChained, Backed
    <2>4. SameShape
      BY <1>3, <2>1, <2>2, <2>3, StateWriteShape DEF State, Published
    <2> QED BY <1>7, <2>1, <2>4 DEF Own
  <1>13. CASE Conflict(c)
    BY <1>1, <1>6, <1>13, UnchangedShape DEF Conflict, Answer, Ended
  <1>14. CASE Activate(c)
    <2>1. pc[c] = "activate" /\ pc'[c] = "note_activated" /\ loc'[c] = l
      BY <1>1, <1>14 DEF Activate, Goto
    <2>2. /\ KindOf[c] = "revise" /\ point[l.cur].tok = l.tok
          /\ Present(l.tok) /\ point[l.tok].sup = l.cur
      BY <2>1 DEF CallChained, Own
    <2>3. CASE point' = point
      BY <1>7, <2>1, <2>2, <2>3, UnchangedShape DEF Own
    <2>4. CASE point' # point
      <3>0. PICK t \in Token : t = l.tok
        BY <1>3
      <3>1. Publishes(t)
        BY <1>3, <1>14, <2>2, <2>4, <3>0, ActivatePublishes DEF Activate
      <3>2. PointsChained' /\ Stable /\ Contained(c)
        BY <3>1, PublishChained, PublishesContained
      <3>3. \A r \in Token : Present(r)' => Present(r)
        BY <3>1, PublishesContained
      <3>4. point'[l.cur].tok = l.tok
        BY <1>3, <2>2, <3>1 DEF Publishes
      <3>5. CallChained(c)'
        BY <2>1, <2>2, <3>2, <3>3, <3>4, OwnPathChained DEF Own
      <3> QED BY <3>2, <3>5 DEF Chained
    <2> QED BY <2>3, <2>4
  <1>15. CASE NoteActivated(c)
    <2>1. /\ pc[c] = "note_activated" /\ pc'[c] = "supersede" /\ loc'[c] = l
          /\ UNCHANGED point
      BY <1>1, <1>15 DEF NoteActivated, Goto
    <2> QED BY <1>7, <2>1, UnchangedShape DEF CallChained, Own
  <1>16. CASE Supersede(c)
    <2>1. pc[c] = "supersede" /\ pc'[c] = "commit" /\ loc'[c] = l
      BY <1>1, <1>16 DEF Supersede, Goto
    <2>2. SameShape
      BY <1>3, <1>4, <1>16, StateWriteShape, UnchangedShape
         DEF Supersede, State, Published
    <2> QED BY <1>7, <2>1, <2>2 DEF Own
  <1>17. CASE NoteClaimed(c)
    BY <1>1, <1>7, <1>17, UnchangedShape DEF NoteClaimed, Goto, Own
  <1>18. CASE Withdraw(c)
    <2>1. pc[c] = "withdraw" /\ pc'[c] = "commit" /\ loc'[c] = l
      BY <1>1, <1>18 DEF Withdraw, Goto
    <2>2. SameShape
      BY <1>3, <1>4, <1>18, StateWriteShape, UnchangedShape
         DEF Withdraw, State, Published
    <2> QED BY <1>7, <2>1, <2>2 DEF Own
  <1>19. CASE Commit(c)
    BY <1>1, <1>6, <1>19, UnchangedShape DEF Commit, Tells, Answer, Ended
  <1> QED BY <1>8, <1>9, <1>10, <1>11, <1>12, <1>13, <1>14, <1>15, <1>16,
             <1>17, <1>18, <1>19, <1>20

\* The rest of the calls: replays, mark_source and the start of a call.
LEMMA OtherStepChained ==
    ASSUME TypedInv, TypedInv', PointsChained, NEW c \in Call, CallChained(c),
           \/ FinishPredecessor(c) \/ FinishJournal(c)
           \/ SetSource(c) \/ CheckSource(c)
           \/ Begin(c) \/ BeginSource(c) \/ Crash(c)
    PROVE  Chained(c)
  <1> DEFINE l == loc[c]
  <1>1. /\ pc \in [Call -> Running \cup Ended \cup {"idle"}]
        /\ loc \in [Call -> Local] /\ TypedCall(c)
    BY LocalTyped DEF TypedInv, TypeOK
  <1>2. ASSUME SameShape, CallChained(c)' PROVE Chained(c)
    BY <1>2, SameShapeChained, SameShapeContained DEF Chained
  <1>3. ASSUME SameShape, pc'[c] \in Ended PROVE Chained(c)
    BY <1>2, <1>3, EndChained
  <1>4. ASSUME SameShape, pc[c] \notin Own \cup Ended,
               pc'[c] \in Sourcing \cup {"finish_journal"}
        PROVE  Chained(c)
    <2>1. \A p \in PointId : point'[p].tok = point[p].tok
      BY <1>4 DEF SameShape
    <2> QED BY <1>2, <1>4, <2>1, PlainChained, SameShapeContained
  <1>5. CASE FinishPredecessor(c)
    <2>1. /\ pc[c] = "finish_predecessor" /\ pc'[c] = "finish_journal"
          /\ point' = [point EXCEPT ![l.pay.sup].state = "superseded"]
      BY <1>1, <1>5 DEF FinishPredecessor, Goto
    <2>2. l.pay.sup \in Known
      BY <2>1 DEF CallChained
    <2>3. SameShape
      <3>1. point \in [PointId -> Payload] /\ l.pay.sup \in PointId
        BY <2>2, Structure DEF TypedInv, TypeOK
      <3>2. point[l.pay.sup] \in Payload
        BY <3>1
      <3> DEFINE q == l.pay.sup
      <3> HIDE DEF q
      <3>3. /\ point'[q].state = "superseded" /\ point'[q].sup = point[q].sup
            /\ point'[q].rev = point[q].rev /\ point'[q].tok = point[q].tok
            /\ point'[q].kind = point[q].kind
        BY <2>1, <3>1, <3>2 DEF Payload, q
      <3>4. \A p \in PointId : p # q => point'[p] = point[p]
        BY <2>1, <3>1 DEF q
      <3>5. q \in Known /\ Present(q)
        BY <2>2, Structure DEF q
      <3> QED BY <3>3, <3>4, <3>5 DEF SameShape, Known, Present, Published
    <2> QED BY <1>4, <2>1, <2>3 DEF Own, Ended
  <1>6. CASE FinishJournal(c)
    BY <1>1, <1>3, <1>6, UnchangedShape DEF FinishJournal, Tells, Answer, Ended
  <1>7. CASE SetSource(c)
    <2>1. pc[c] = "set_source" /\ pc'[c] = "check_source"
      BY <1>1, <1>7 DEF SetSource, Goto
    <2>2. l.cur \in PointId /\ TokenOf[c][l.cur] \in Token
      BY <1>1, <2>1, ConstantsAssumption DEF TypedCall, Sourcing
    <2>3. SameShape
      <3>1. CASE point' = point
        BY <3>1, UnchangedShape
      <3>2. CASE point' # point
        <4>1. /\ point[l.cur].state = "active"
              /\ point' = [point EXCEPT ![l.cur].state = "source",
                                        ![l.cur].src = TokenOf[c][l.cur]]
          BY <1>7, <3>2 DEF SetSource
        <4>2. l.cur \in Known /\ Present(l.cur)
          BY <2>2, <4>1 DEF Known, Published, Present
        <4> QED BY <2>2, <4>1, <4>2, StateWriteShape DEF State, Published
      <3> QED BY <3>1, <3>2
    <2> QED BY <1>4, <2>1, <2>3 DEF Own, Ended, Sourcing
  <1>8. CASE CheckSource(c)
    BY <1>1, <1>3, <1>8, UnchangedShape DEF CheckSource, Answer, Ended
  <1>9. CASE Begin(c)
    <2>1. Launched(c) /\ pc[c] = "idle" /\ UNCHANGED point
      BY <1>9, BeginLaunches DEF Begin, TypedInv
    <2>2. CallChained(c)'
      BY <2>1, LaunchedChained DEF Own, Ended
    <2> QED BY <1>2, <2>1, <2>2, UnchangedShape
  <1>10. CASE BeginSource(c)
    <2>1. /\ pc[c] = "idle" /\ pc'[c] = "set_source" /\ UNCHANGED point
      BY <1>1, <1>10 DEF BeginSource, Goto
    <2> QED BY <1>4, <2>1, UnchangedShape DEF Own, Ended, Sourcing
  <1>11. CASE Crash(c)
    BY <1>1, <1>3, <1>11, UnchangedShape DEF Crash, Ended
  <1> QED BY <1>5, <1>6, <1>7, <1>8, <1>9, <1>10, <1>11

\* A call that is not stepping stays where it is.
LEMMA OnlyOneMoves ==
    ASSUME TypedInv, NEW c \in Call, NEW d \in Call, d # c,
           Begin(c) \/ BeginSource(c) \/ Step(c) \/ Crash(c) \/ Fenced(c)
    PROVE  pc'[d] = pc[d] /\ loc'[d] = loc[d]
  <1>1. /\ pc \in [Call -> Running \cup Ended \cup {"idle"}]
        /\ loc \in [Call -> Local]
    BY DEF TypedInv, TypeOK
  <1>2. ASSUME Launched(c) PROVE pc'[d] = pc[d] /\ loc'[d] = loc[d]
    BY <1>1, <1>2 DEF Launched, Moves
  <1>3. ASSUME NEW w, NEW m, pc' = [pc EXCEPT ![c] = w],
               loc' = [loc EXCEPT ![c] = m]
        PROVE  pc'[d] = pc[d] /\ loc'[d] = loc[d]
    BY <1>1, <1>3
  <1>4. CASE Begin(c)
    BY <1>2, <1>4, BeginLaunches DEF TypedInv
  <1>5. CASE ResolveAgain(c)
    BY <1>2, <1>5, ResolveAgainLaunches
  <1>6. CASE BeginSource(c) \/ Crash(c) \/ Fenced(c)
    BY <1>3, <1>6 DEF BeginSource, Crash, Fenced, Goto
  <1>7. CASE Recover(c)
    BY <1>3, <1>7 DEF Recover, Goto, Answer
  <1>8. CASE Readback(c)
    BY <1>3, <1>8 DEF Readback, Goto, Answer
  <1>9. CASE \/ RecoverActive(c) \/ RecoverSuperseded(c)
             \/ RecoverRetracted(c) \/ RecoverCommit(c)
             \/ FinishPredecessor(c) \/ FinishJournal(c)
             \/ Upsert(c) \/ Plan(c) \/ Claim(c)
    BY <1>3, <1>9
       DEF RecoverActive, RecoverSuperseded, RecoverRetracted, RecoverCommit,
           FinishPredecessor, FinishJournal, Upsert, Plan, Claim,
           Goto, Tells, Answer
  <1>10. CASE \/ Abort(c) \/ Conflict(c) \/ Activate(c) \/ NoteActivated(c)
              \/ Supersede(c) \/ NoteClaimed(c) \/ Withdraw(c) \/ Commit(c)
              \/ SetSource(c) \/ CheckSource(c)
    BY <1>3, <1>10
       DEF Abort, Conflict, Activate, NoteActivated, Supersede, NoteClaimed,
           Withdraw, Commit, SetSource, CheckSource, Goto, Tells, Answer
  <1> QED BY <1>4, <1>5, <1>6, <1>7, <1>8, <1>9, <1>10 DEF Step

LEMMA InitChained == Init => ChainInv
  <1> SUFFICES ASSUME Init PROVE ChainInv
    OBVIOUS
  <1>1. TypedInv
    BY InitTyped
  <1>2. /\ point[Root].state = "active" /\ point[Root].rev = 1
        /\ point[Root].sup = None /\ point[Root].tok = None
        /\ \A t \in Token : point[t] = AbsentPoint
    BY Structure, <1>1 DEF Init, AbsentPoint
  <1>3. Known = {Root} /\ \A t \in Token : ~Present(t) /\ point[t].tok = None
    BY Structure, <1>1, <1>2 DEF Known, Present, Published, AbsentPoint
  <1>4. PointsChained
    BY Structure, <1>1, <1>2, <1>3
    DEF PointsChained, Rooted, Backed, ClaimsSound, LinearHistory, NoGap
  <1>5. ASSUME NEW c \in Call PROVE CallChained(c)
    <2>1. pc[c] = "idle" /\ OwnTokens(c) \subseteq Token
      BY <1>1, LocalTyped DEF Init
    <2>2. Unclaimed(c)
      BY <1>1, <1>2, <1>3, <2>1, Structure DEF Unclaimed
    <2> QED BY <1>3, <2>1, <2>2 DEF CallChained, Own
  <1> QED BY <1>1, <1>4, <1>5 DEF ChainInv

LEMMA NextChained ==
    ASSUME ExclusiveTokens, ChainInv, [Next]_vars
    PROVE  ChainInv' /\ Stable
  <1>1. TypedInv /\ PointsChained /\ TypedInv'
    BY NextTyped DEF ChainInv
  <1>2. CASE UNCHANGED vars
    <2>1. PointsChained' /\ Stable
      BY <1>1, <1>2, UnchangedShape, SameShapeChained DEF vars
    <2>2. \A c \in Call : CallChained(c)'
      BY <1>2 DEF vars, ChainInv, CallChained, Unclaimed, Present, Known
    <2> QED BY <1>1, <2>1, <2>2 DEF ChainInv
  <1>3. ASSUME NEW c \in Call,
               Begin(c) \/ BeginSource(c) \/ Step(c) \/ Crash(c) \/ Fenced(c)
        PROVE  ChainInv' /\ Stable
    <2>1. CallChained(c)
      BY DEF ChainInv
    <2>2. Chained(c)
      <3>1. CASE \/ Begin(c) \/ BeginSource(c) \/ Crash(c)
                 \/ FinishPredecessor(c) \/ FinishJournal(c)
                 \/ SetSource(c) \/ CheckSource(c)
        BY <1>1, <2>1, <3>1, OtherStepChained
      <3>2. CASE \/ Recover(c) \/ RecoverActive(c) \/ RecoverSuperseded(c)
                 \/ RecoverRetracted(c) \/ RecoverCommit(c) \/ ResolveAgain(c)
        BY <1>1, <2>1, <3>2, RecoverChained
      <3>3. CASE \/ Upsert(c) \/ Plan(c) \/ Claim(c) \/ Fenced(c) \/ Readback(c)
                 \/ Abort(c) \/ Conflict(c)
                 \/ Activate(c) \/ NoteActivated(c) \/ Supersede(c)
                 \/ NoteClaimed(c) \/ Withdraw(c) \/ Commit(c)
        BY <1>1, <2>1, <3>3, OwnStepChained
      <3> QED BY <1>3, <3>1, <3>2, <3>3 DEF Step
    <2>3. ASSUME NEW d \in Call, d # c PROVE CallChained(d)'
      <3>1. pc'[d] = pc[d] /\ loc'[d] = loc[d]
        BY <1>1, <1>3, <2>3, OnlyOneMoves
      <3> QED BY <1>1, <2>2, <2>3, <3>1, OthersChained DEF Chained, ChainInv
    <2>4. \A d \in Call : CallChained(d)'
      BY <2>2, <2>3 DEF Chained
    <2> QED BY <1>1, <2>2, <2>4 DEF Chained, ChainInv
  <1> QED BY <1>2, <1>3 DEF Next

----------------------------------------------------------------------------
(* The theorems.                                                           *)

\* While ExclusiveTokens holds, no two published revisions have one revision
\* number: revise in mnemory/revisions.py never forks a lineage, whatever calls
\* race, whichever workers die and whoever recovers their claims.
THEOREM LinearHistoryHolds == ExclusiveTokens /\ Spec => []LinearHistory
  <1> SUFFICES ASSUME ExclusiveTokens PROVE Spec => []LinearHistory
    OBVIOUS
  <1>1. Init => ChainInv
    BY InitChained
  <1>2. ChainInv /\ [Next]_vars => ChainInv'
    BY NextChained
  <1>3. ChainInv => LinearHistory
    BY DEF ChainInv, PointsChained
  <1> QED BY <1>1, <1>2, <1>3, PTL DEF Spec

\* ... and a lineage never offers two heads free of a claim, the ones a later
\* revise or retract could claim independently.
THEOREM SingleHeadHolds == ExclusiveTokens /\ Spec => []SingleHead
  <1> SUFFICES ASSUME ExclusiveTokens PROVE Spec => []SingleHead
    OBVIOUS
  <1>1. Init => ChainInv
    BY InitChained
  <1>2. ChainInv /\ [Next]_vars => ChainInv'
    BY NextChained
  <1>3. ChainInv => SingleHead
    BY ChainGivesSingleHead DEF ChainInv
  <1> QED BY <1>1, <1>2, <1>3, PTL DEF Spec

\* ... and no step un-publishes a revision or moves it in the chain.
THEOREM HistoryIsImmutableHolds == ExclusiveTokens /\ Spec => HistoryIsImmutable
  <1> SUFFICES ASSUME ExclusiveTokens PROVE Spec => HistoryIsImmutable
    OBVIOUS
  <1>1. Init => ChainInv
    BY InitChained
  <1>2. ChainInv /\ [Next]_vars => ChainInv' /\ KeepsHistory
    <2> SUFFICES ASSUME ChainInv, [Next]_vars PROVE ChainInv' /\ KeepsHistory
      OBVIOUS
    <2>1. ChainInv' /\ Stable /\ TypedInv
      BY NextChained DEF ChainInv
    <2>2. KeepsHistory
      BY <2>1, Structure DEF Stable, Known, KeepsHistory
    <2> QED BY <2>1, <2>2
  <1> QED BY <1>1, <1>2, PTL DEF Spec, HistoryIsImmutable

----------------------------------------------------------------------------
(* RevisionLineage implements VersionedMemory.  A step writes at most one  *)
(* point (OnePointWritten), and what is published stays (Stable), so a     *)
(* step adds at most one revision to the history.  The new revision t has  *)
(* a published predecessor s (Rooted).  Were s not the newest, NoGap would *)
(* name another published successor of s, and s would hold the claims of   *)
(* two (Backed).                                                           *)

OnePointWritten == \E q \in PointId : \A p \in PointId : p # q => point'[p] = point[p]

LEMMA EveryStepWritesOnePoint ==
    ASSUME ChainInv, [Next]_vars
    PROVE  OnePointWritten
  <1>1. point \in [PointId -> Payload] /\ Root \in PointId
    BY Structure DEF ChainInv, TypedInv, TypeOK
  <1>2. ASSUME UNCHANGED point PROVE OnePointWritten
    BY <1>1, <1>2 DEF OnePointWritten
  <1>3. ASSUME NEW q, \A p \in PointId : p # q => point'[p] = point[p]
        PROVE  OnePointWritten
    BY <1>1, <1>3 DEF OnePointWritten
  <1>4. ASSUME NEW c \in Call,
               Begin(c) \/ BeginSource(c) \/ Step(c) \/ Crash(c) \/ Fenced(c)
        PROVE  OnePointWritten
    <2> DEFINE l == loc[c]
    <2>1. CASE \/ Begin(c) \/ BeginSource(c) \/ Crash(c) \/ Fenced(c) \/ Recover(c)
               \/ RecoverCommit(c) \/ ResolveAgain(c) \/ FinishJournal(c)
               \/ Plan(c) \/ Readback(c) \/ Conflict(c) \/ NoteActivated(c)
               \/ NoteClaimed(c) \/ Commit(c) \/ CheckSource(c)
      BY <1>2, <2>1 DEF Begin, BeginSource, Crash, Fenced, Recover, RecoverCommit,
         ResolveAgain, FinishJournal, Plan, Readback, Conflict, NoteActivated,
         NoteClaimed, Commit, CheckSource
    <2>2. CASE RecoverActive(c)
      BY <1>1, <1>3, <2>2 DEF RecoverActive
    <2>3. CASE RecoverSuperseded(c) \/ RecoverRetracted(c)
      BY <1>1, <1>3, <2>3 DEF RecoverSuperseded, RecoverRetracted
    <2>4. CASE FinishPredecessor(c)
      BY <1>1, <1>3, <2>4 DEF FinishPredecessor
    <2>5. CASE Upsert(c) \/ Abort(c) \/ Activate(c)
      BY <1>1, <1>3, <2>5 DEF Upsert, Abort, Activate
    <2>6. CASE Claim(c) \/ Supersede(c) \/ Withdraw(c) \/ SetSource(c)
      BY <1>1, <1>3, <2>6 DEF Claim, Supersede, Withdraw, SetSource
    <2> QED BY <1>4, <2>1, <2>2, <2>3, <2>4, <2>5, <2>6 DEF Step
  <1> QED BY <1>2, <1>4 DEF Next, vars

\* A revision that a step publishes is made on top of the newest.
LEMMA PublishedOnNewest ==
    ASSUME ChainInv, ChainInv', Stable, OnePointWritten,
           NEW t \in Known', t \notin Known
    PROVE  /\ t \in Token /\ Known' = Known \cup {t}
           /\ \A p \in Known : /\ point'[p].rev = point[p].rev
                               /\ point'[p].sup = point[p].sup
           /\ point'[t].sup \in Known
           /\ point'[t].rev = point[point'[t].sup].rev + 1
           /\ \A p \in Known : point[p].rev <= point[point'[t].sup].rev
  <1> USE DEF ChainInv
  <1>1. t \in PointId /\ t \in Token
    BY Structure DEF Known, PointsChained, Rooted
  <1>2. PICK q \in PointId : \A p \in PointId : p # q => point'[p] = point[p]
    BY DEF OnePointWritten
  <1>3. \A p \in PointId : p \in Known' /\ p \notin Known => p = q
    BY <1>2 DEF Known
  <1>4. Known' = Known \cup {t}
    BY <1>1, <1>3, Structure DEF Stable, Known
  <1>5. \A p \in Known : /\ p \in PointId /\ point'[p].rev = point[p].rev
                         /\ point'[p].sup = point[p].sup /\ point[p].rev \in Nat
    BY Structure DEF Stable
  <1>6. Present(t)'
    BY <1>4 DEF Known, Published, Present
  <1>7. /\ point'[t].sup \in Known' /\ point'[t].rev \in Nat
        /\ point'[t].rev = point'[point'[t].sup].rev + 1
    BY <1>1, <1>6 DEF PointsChained, Rooted, TypedInv, TypeOK, Payload
  <1>8. point'[t].sup # t
    BY <1>7
  <1>9. PICK s \in Known : s = point'[t].sup
    BY <1>4, <1>7, <1>8
  <1>10. ASSUME NEW p \in Known, point[s].rev < point[p].rev PROVE FALSE
    <2>1. PICK r \in Token : r \in Known /\ point[r].sup = s
      BY <1>9, <1>10 DEF PointsChained, NoGap
    <2>2. r \in Known' /\ point'[r].sup = s
      BY <1>4, <1>5, <2>1
    <2>3. point'[s].tok = r
      BY <2>1, <2>2 DEF PointsChained, Backed
    <2>4. point'[s].tok = t
      BY <1>1, <1>9 DEF PointsChained, Backed
    <2> QED BY <2>1, <2>3, <2>4
  <1>11. \A p \in Known : point[p].rev <= point[s].rev
    BY <1>5, <1>9, <1>10
  <1> QED BY <1>1, <1>4, <1>5, <1>7, <1>9, <1>11

LEMMA HistoryGrows ==
    ASSUME ChainInv, ChainInv', Stable, OnePointWritten
    PROVE  [Memory!Next]_History
  <1> DEFINE Entry(p) == [id |-> p, rev |-> point[p].rev, sup |-> point[p].sup]
  <1>1. \A p \in Known : /\ p \in Known' /\ point'[p].rev = point[p].rev
                         /\ point'[p].sup = point[p].sup
    BY Structure DEF Stable, ChainInv
  <1>2. CASE Known' = Known
    BY <1>1, <1>2 DEF History
  <1>3. CASE Known' # Known
    <2>1. PICK t \in Known' : t \notin Known
      BY <1>1, <1>3
    <2> DEFINE s == point'[t].sup
    <2>2. /\ t \in Token /\ Known' = Known \cup {t} /\ s \in Known
          /\ point'[t].rev = point[s].rev + 1
          /\ \A p \in Known : point[p].rev <= point[s].rev
      BY <2>1, PublishedOnNewest
    <2>3. t \in PointId
      BY <2>2, Structure DEF ChainInv
    <2>4. \A r \in History : r.id # t
      BY <2>1 DEF History
    <2>5. Entry(s) \in History /\ Memory!Newest(Entry(s))
      BY <2>2 DEF History, Memory!Newest
    <2>6. History' = History \cup {[id |-> t, rev |-> point[s].rev + 1, sup |-> s]}
      <3>1. History' = {[id |-> p, rev |-> point'[p].rev, sup |-> point'[p].sup]
                           : p \in Known \cup {t}}
        BY <2>2 DEF History
      <3> QED BY <1>1, <2>2, <3>1 DEF History
    <2>7. Memory!Publish(t)
      BY <2>4, <2>5, <2>6 DEF Memory!Publish
    <2> QED BY <2>3, <2>7 DEF Memory!Next
  <1> QED BY <1>2, <1>3

LEMMA HistoryStarts == Init => Memory!Init
  <1> SUFFICES ASSUME Init PROVE Memory!Init
    OBVIOUS
  <1>1. TypedInv
    BY InitTyped
  <1>2. /\ point[Root].rev = 1 /\ point[Root].sup = None
        /\ point[Root].state = "active"
        /\ \A t \in Token : point[t].state = "absent"
    BY <1>1, Structure DEF Init, AbsentPoint
  <1>3. Known = {Root}
    BY <1>1, <1>2, Structure DEF Known, Published
  <1> QED BY <1>2, <1>3 DEF History, Memory!Init

\* Whatever the number of calls, keys and crashes, the revisions that revise,
\* retract, mark_source and the recovery of mnemory/revisions.py publish are
\* those of a versioned memory that accepts one change at a time.
THEOREM LineageImplementsMemory == ExclusiveTokens /\ Spec => ImplementsMemory
  <1> SUFFICES ASSUME ExclusiveTokens PROVE Spec => ImplementsMemory
    OBVIOUS
  <1>1. Init => ChainInv /\ Memory!Init
    BY InitChained, HistoryStarts
  <1>2. ChainInv /\ [Next]_vars => ChainInv' /\ [Memory!Next]_History
    BY NextChained, EveryStepWritesOnePoint, HistoryGrows
  <1> QED BY <1>1, <1>2, PTL DEF Spec, ImplementsMemory, Memory!Spec

-----------------------------------------------------------------------------
(***************************************************************************)
(* What the calls of a lineage answer.                                     *)
(*                                                                         *)
(* RecoveryNeverStuck needs no hypothesis on the calls: what a recovery    *)
(* reads is stored before the claim that leads to it, and is never taken   *)
(* away again (Lasting).                                                   *)
(*                                                                         *)
(* AckedUpdateIsPublished needs ExclusiveTokens: an answer is given from   *)
(* the journal or from a revision that was found published, and published  *)
(* revisions stay so; the call that carries out its own request activates  *)
(* a successor that nobody else can have aborted.                          *)
(*                                                                         *)
(* AckedUpdateIsOwn needs that no two calls make one request, whatever     *)
(* their keys (OneRequestEach); each call whose request nobody else makes  *)
(* is answered for its own, whatever the others repeat (Sole).             *)
(***************************************************************************)

\* What the recovery of a claim reads is there.
Completable(t, kind) ==
    /\ t \in Token /\ kind \in ClaimKind
    /\ kind = "revise" => Present(t)
    /\ kind = "retract" => journal[t] # NoRow

\* A call stores its successor and its plan before it claims, and a call that
\* recovers has found a claim that can be completed.
CallCompletable(c) ==
    /\ pc[c] \in {"plan", "claim"} /\ KindOf[c] = "revise" => Present(loc[c].tok)
    /\ pc[c] = "claim" => journal[loc[c].tok] # NoRow
    /\ pc[c] = "recover" => Completable(loc[c].mine, loc[c].kind)
    /\ reply[c].status # "incomplete"

CompletableInv ==
    /\ TypedInv
    /\ \A p \in PointId :
          point[p].tok # None => Completable(point[p].tok, point[p].kind)
    /\ \A c \in Call : CallCompletable(c)

\* An answer "updated" names a published revision, in the journal as at a call.
Answerable(answer) == answer.status = "updated" => answer.id \in Known

\* A call has prepared a successor of its own that it may still activate, has
\* activated it, or repeats the answer of a published one.
CallPublishes(c) ==
    /\ KindOf[c] = "revise" =>
          /\ pc[c] \in {"plan", "claim", "readback", "activate"} =>
                \/ loc[c].tok \in Known
                \/ /\ point[loc[c].tok].state = "pending"
                   /\ point[loc[c].tok].op = loc[c].tok
          /\ pc[c] \in {"note_activated", "supersede", "commit"} =>
                loc[c].tok \in Known
    /\ pc[c] \in {"note_claimed", "withdraw"} => KindOf[c] # "revise"
    /\ pc[c] \in {"finish_predecessor", "finish_journal"} => loc[c].cur \in Known
    /\ Answerable(reply[c])

PublishedInv ==
    /\ ChainInv
    /\ \A t \in Token : Answerable(journal[t].result)
    /\ \A c \in Call : CallPublishes(c)

\* No other call makes the request of c, even under another key.  A call that
\* loses a race leaves an aborted successor; a later call with the same request
\* finds it, takes the claim of the winner on the predecessor for its own, and is
\* told the winner's answer (_check_replay).
Sole(c) == \A d \in Call : RequestOf[d] = RequestOf[c] => d = c

OneRequestEach == \A c \in Call : Sole(c)

\* A call is answered "updated" for a revision that was made for its request.
AnsweredForOwn(c) == reply[c].status = "updated" => reply[c].id \in OwnTokens(c)

\* The token of a call that has got as far as to carry out its own request.
Begun(t) == \E c \in Call : t \in OwnTokens(c) /\ pc[c] \in Own \cup Ended

OwnInv ==
    /\ TypedInv
    /\ \A p \in PointId : /\ point[p].op # None => Begun(point[p].op)
                          /\ point[p].tok # None => Begun(point[p].tok)
    /\ \A c \in Call :
          /\ pc[c] \in Resolving => Begun(loc[c].mine)
          /\ Sole(c) => /\ pc[c] \notin {"finish_predecessor", "finish_journal"}
                        /\ AnsweredForOwn(c)

----------------------------------------------------------------------------
(* What the writes of a step leave in the stores.                          *)

\* Points and rows stay; a claim is made by Claim, and a revision bears the
\* operation of the call that made, retracted or recovered it.
Writes(c) ==
    /\ \A p \in PointId : Present(p) => Present(p)'
    /\ \A t \in Token : journal[t] # NoRow => journal'[t] # NoRow
    /\ \A p \in PointId :
          /\ \/ point'[p].tok = None
             \/ point'[p].tok = point[p].tok /\ point'[p].kind = point[p].kind
             \/ /\ pc[c] = "claim" /\ point'[p].tok = loc[c].tok
                /\ point'[p].kind = KindOf[c]
          /\ \/ point'[p].op = point[p].op
             \/ pc[c] \in Own /\ point'[p].op = loc[c].tok
             \/ pc[c] = "recover_retracted" /\ point'[p].op = loc[c].mine

LEMMA PointWrites ==
    ASSUME TypedInv, NEW c \in Call, UNCHANGED journal,
           NEW q, NEW b \in Payload,
           point' = point \/ point' = [point EXCEPT ![q] = b],
           Present(q) => b.state # "absent",
           \/ b.tok = None
           \/ b.tok = point[q].tok /\ b.kind = point[q].kind
           \/ pc[c] = "claim" /\ b.tok = loc[c].tok /\ b.kind = KindOf[c],
           \/ b.op = point[q].op
           \/ pc[c] \in Own /\ b.op = loc[c].tok
           \/ pc[c] = "recover_retracted" /\ b.op = loc[c].mine
    PROVE  Writes(c)
  <1>1. \A p \in PointId : point'[p] = point[p] \/ (p = q /\ point'[p] = b)
    BY DEF TypedInv, TypeOK
  <1> QED BY <1>1 DEF Writes, Present

LEMMA RowWrites ==
    ASSUME TypedInv, NEW c \in Call, UNCHANGED point, NEW t,
           UNCHANGED journal \/ (\E status \in {"prepared", "pending", "claimed",
                                                "activated", "conflict"} : Note(t, status))
                             \/ (\E result \in Result : Record(t, result))
    PROVE  Writes(c) /\ (t \in Token /\ ~UNCHANGED journal => journal'[t] # NoRow)
  <1>1. journal \in [Token -> Row]
    BY DEF TypedInv, TypeOK
  <1>2. ASSUME NEW u \in Token, journal[u] # NoRow \/ (u = t /\ ~UNCHANGED journal)
        PROVE  journal'[u] # NoRow
    <2>1. CASE UNCHANGED journal
      BY <1>2, <2>1
    <2>2. ASSUME NEW status \in {"prepared", "pending", "claimed", "activated",
                                 "conflict"}, Note(t, status)
          PROVE  journal'[u] # NoRow
      <3>1. journal' = [journal EXCEPT ![t] = [journal[t] EXCEPT !.status = status]]
        BY <2>2 DEF Note
      <3>2. CASE u = t
        <4>1. journal'[u].status = status
          BY <1>1, <3>1, <3>2 DEF Row
        <4> QED BY <4>1 DEF NoRow
      <3>3. CASE u # t
        BY <1>1, <1>2, <3>1, <3>3
      <3> QED BY <3>2, <3>3
    <2>3. ASSUME NEW result \in Result, Record(t, result)
          PROVE  journal'[u] # NoRow
      <3>1. CASE u = t
        <4>1. journal'[u].status = "committed"
          BY <1>1, <2>3, <3>1 DEF Record
        <4> QED BY <4>1 DEF NoRow
      <3>2. CASE u # t
        BY <1>1, <1>2, <2>3, <3>2 DEF Record
      <3> QED BY <3>1, <3>2
    <2> QED BY <2>1, <2>2, <2>3
  <1> QED BY <1>2 DEF Writes, Present

\* The fields of a point that are written together.
LEMMA FieldsWritten ==
    ASSUME TypedInv, NEW c \in Call, UNCHANGED journal,
           NEW q \in PointId \cup {None}, NEW s \in State \ {"absent"},
           NEW t \in Token,
           \/ point' = point
           \/ point' = [point EXCEPT ![q].state = s]
           \/ point' = [point EXCEPT ![q].state = s, ![q].src = t]
           \/ /\ point' = [point EXCEPT ![q].state = s, ![q].op = t]
              /\ \/ pc[c] \in Own /\ t = loc[c].tok
                 \/ pc[c] = "recover_retracted" /\ t = loc[c].mine
           \/ /\ point' = [point EXCEPT ![q].tok = t, ![q].kind = KindOf[c]]
              /\ KindOf[c] \in ClaimKind
              /\ pc[c] = "claim" /\ t = loc[c].tok
    PROVE  Writes(c)
  <1> DEFINE a == point[q]
             b1 == [a EXCEPT !.state = s]
             b2 == [a EXCEPT !.state = s, !.src = t]
             b3 == [a EXCEPT !.state = s, !.op = t]
             b4 == [a EXCEPT !.tok = t, !.kind = KindOf[c]]
  <1>1. point \in [PointId -> Payload]
    BY DEF TypedInv, TypeOK
  <1>2. CASE point' = point
    BY <1>2, RowWrites
  <1>3. CASE q \notin PointId
    <2>1. point' = point
      BY <1>1, <1>3
    <2> QED BY <1>2, <2>1
  <1>4. CASE q \in PointId
    <2>1. a \in Payload
      BY <1>1, <1>4
    <2>2. CASE point' = [point EXCEPT ![q].state = s]
      <3>1. b1 \in Payload /\ b1.tok = a.tok /\ b1.kind = a.kind /\ b1.op = a.op
            /\ b1.state = s
        BY <2>1 DEF Payload
      <3>2. point' = [point EXCEPT ![q] = b1]
        BY <1>1, <1>4, <2>2
      <3> HIDE DEF b1
      <3> QED BY <1>4, <3>1, <3>2, PointWrites
    <2>3. CASE point' = [point EXCEPT ![q].state = s, ![q].src = t]
      <3>1. b2 \in Payload /\ b2.tok = a.tok /\ b2.kind = a.kind /\ b2.op = a.op
            /\ b2.state = s
        BY <2>1 DEF Payload
      <3>2. point' = [point EXCEPT ![q] = b2]
        BY <1>1, <1>4, <2>3
      <3> HIDE DEF b2
      <3> QED BY <1>4, <3>1, <3>2, PointWrites
    <2>4. CASE /\ point' = [point EXCEPT ![q].state = s, ![q].op = t]
               /\ \/ pc[c] \in Own /\ t = loc[c].tok
                  \/ pc[c] = "recover_retracted" /\ t = loc[c].mine
      <3>1. b3 \in Payload /\ b3.tok = a.tok /\ b3.kind = a.kind /\ b3.op = t
            /\ b3.state = s
        BY <2>1 DEF Payload
      <3>2. point' = [point EXCEPT ![q] = b3]
        BY <1>1, <1>4, <2>4
      <3> HIDE DEF b3
      <3>3. \/ pc[c] \in Own /\ b3.op = loc[c].tok
            \/ pc[c] = "recover_retracted" /\ b3.op = loc[c].mine
        BY <2>4, <3>1
      <3>4. /\ UNCHANGED journal /\ b3.state # "absent"
            /\ b3.tok = point[q].tok /\ b3.kind = point[q].kind
        BY <3>1
      <3> QED BY <3>1, <3>2, <3>3, <3>4, PointWrites
    <2>5. CASE /\ point' = [point EXCEPT ![q].tok = t, ![q].kind = KindOf[c]]
               /\ KindOf[c] \in ClaimKind
               /\ pc[c] = "claim" /\ t = loc[c].tok
      <3>1. b4 \in Payload /\ b4.tok = t /\ b4.kind = KindOf[c] /\ b4.op = a.op
            /\ b4.state = a.state
        BY <2>1, <2>5 DEF Payload
      <3>2. point' = [point EXCEPT ![q] = b4]
        BY <1>1, <1>4, <2>5
      <3> HIDE DEF b4
      <3>3. pc[c] = "claim" /\ b4.tok = loc[c].tok /\ b4.kind = KindOf[c]
        BY <2>5, <3>1
      <3>4. /\ UNCHANGED journal /\ (Present(q) => b4.state # "absent")
            /\ b4.op = point[q].op
        BY <3>1 DEF Present
      <3> QED BY <3>1, <3>2, <3>3, <3>4, PointWrites
    <2> QED BY <1>2, <2>2, <2>3, <2>4, <2>5
  <1> QED BY <1>3, <1>4

\* Every step of a call writes in this way.
LEMMA StepWrites ==
    ASSUME TypedInv, NEW c \in Call,
           Begin(c) \/ BeginSource(c) \/ Step(c) \/ Crash(c) \/ Fenced(c)
    PROVE  Writes(c)
  <1> DEFINE l == loc[c]
  <1> USE DEF State, ClaimKind
  <1>1. /\ l \in Local /\ TypedCall(c)
        /\ l.cur \in PointId \cup {None} /\ l.from \in PointId \cup {None}
        /\ l.pay \in Payload /\ l.pay.sup \in PointId \cup {None}
        /\ OwnTokens(c) \subseteq Token /\ Token \subseteq PointId
        /\ \A p \in PointId : TokenOf[c][p] \in Token
    BY LocalTyped DEF Payload
  <1>2. UNCHANGED <<point, journal>> => Writes(c)
    BY RowWrites
  <1>3. CASE \/ Begin(c) \/ BeginSource(c) \/ Crash(c) \/ Fenced(c) \/ Recover(c)
             \/ ResolveAgain(c) \/ Readback(c) \/ CheckSource(c)
    BY <1>2, <1>3 DEF Begin, BeginSource, Crash, Fenced, Recover, ResolveAgain, Readback,
                      CheckSource
  <1>4. CASE RecoverActive(c)
    BY <1>1, <1>4, FieldsWritten DEF RecoverActive, TypedCall, Resolving
  <1>5. CASE RecoverSuperseded(c)
    BY <1>1, <1>5, FieldsWritten DEF RecoverSuperseded, TypedCall, Resolving
  <1>6. CASE RecoverRetracted(c)
    BY <1>1, <1>6, FieldsWritten DEF RecoverRetracted, TypedCall, Resolving
  <1>7. CASE RecoverCommit(c)
    <2>1. [status |-> "retracted", id |-> l.from] \in Result
      BY <1>1 DEF Result
    <2> QED BY <1>7, <2>1, RowWrites DEF RecoverCommit
  <1>8. CASE FinishPredecessor(c)
    <2>1. PICK p \in PointId : TRUE
      BY DEF PointId
    <2>2. TokenOf[c][p] \in Token
      BY <1>1
    <2> QED BY <1>1, <1>8, <2>2, FieldsWritten DEF FinishPredecessor
  <1>9. CASE FinishJournal(c)
    <2>1. [status |-> IF l.pay.state = "retracted" THEN "retracted" ELSE "updated",
           id |-> l.cur] \in Result
      BY <1>1 DEF Result
    <2> QED BY <1>9, <2>1, RowWrites DEF FinishJournal
  <1>10. CASE Upsert(c)
    <2>1. /\ Successor(c) \in Payload /\ Successor(c).state = "pending"
          /\ Successor(c).tok = None
      BY <1>10, SuccessorTyped DEF Upsert
    <2>2. Successor(c).op = l.tok
      BY DEF Successor
    <2>3. pc[c] \in Own /\ UNCHANGED journal /\ point' = [point EXCEPT ![l.tok] = Successor(c)]
      BY <1>10 DEF Upsert, Own
    <2> QED BY <2>1, <2>2, <2>3, PointWrites
  <1>11. CASE Plan(c) \/ Conflict(c) \/ NoteActivated(c) \/ NoteClaimed(c)
    BY <1>11, RowWrites DEF Plan, Conflict, NoteActivated, NoteClaimed
  <1>12. CASE Claim(c)
    <2>1. l.tok \in Token /\ l.cur \in PointId /\ pc[c] \in Own /\ pc[c] = "claim"
          /\ KindOf[c] \in ClaimKind
      BY <1>1, <1>12 DEF Claim, TypedCall, Own
    <2>2. /\ UNCHANGED journal
          /\ \/ point' = point
             \/ point' = [point EXCEPT ![l.cur].tok = l.tok, ![l.cur].kind = KindOf[c]]
      BY <1>12 DEF Claim
    <2>3. CASE point' = point
      BY <1>2, <2>2, <2>3
    <2>4. CASE point' # point
      <3>1. "pending" \in State \ {"absent"} /\ UNCHANGED journal
        BY <2>2
      <3>2. /\ point' = [point EXCEPT ![l.cur].tok = l.tok, ![l.cur].kind = KindOf[c]]
            /\ l.tok = loc[c].tok /\ l.cur \in PointId \cup {None}
        BY <2>1, <2>2, <2>4
      <3> QED BY <2>1, <3>1, <3>2, FieldsWritten
    <2> QED BY <2>3, <2>4
  <1>13. CASE Abort(c)
    BY <1>1, <1>13, FieldsWritten DEF Abort, TypedCall, Own
  <1>14. CASE Activate(c)
    <2>1. l.tok \in Token /\ l.cur \in PointId /\ pc[c] \in Own
      BY <1>1, <1>14 DEF Activate, TypedCall, Own
    <2>2. /\ UNCHANGED journal
          /\ \/ point' = point
             \/ point' = [point EXCEPT ![l.tok].state = "active"]
      BY <1>14 DEF Activate
    <2> QED BY <1>1, <2>1, <2>2, FieldsWritten
  <1>15. CASE Supersede(c)
    <2>1. l.tok \in Token /\ l.cur \in PointId /\ pc[c] \in Own
      BY <1>1, <1>15 DEF Supersede, TypedCall, Own
    <2>2. /\ UNCHANGED journal
          /\ \/ point' = point
             \/ point' = [point EXCEPT ![l.cur].state = "superseded"]
      BY <1>15 DEF Supersede
    <2> QED BY <1>1, <2>1, <2>2, FieldsWritten
  <1>16. CASE Withdraw(c)
    <2>1. l.tok \in Token /\ l.cur \in PointId /\ pc[c] \in Own
      BY <1>1, <1>16 DEF Withdraw, TypedCall, Own
    <2>2. /\ UNCHANGED journal
          /\ \/ point' = point
             \/ point' = [point EXCEPT ![l.cur].state = "retracted", ![l.cur].op = l.tok]
      BY <1>16 DEF Withdraw
    <2>3. CASE point' = point
      BY <1>2, <2>2, <2>3
    <2>4. CASE point' # point
      BY <2>1, <2>2, <2>4, FieldsWritten
    <2> QED BY <2>3, <2>4
  <1>17. CASE Commit(c)
    <2>1. l.tok \in PointId /\ l.cur \in PointId
      BY <1>1, <1>17 DEF Commit, TypedCall, Own
    <2>2. (IF KindOf[c] = "revise" THEN [status |-> "updated", id |-> l.tok]
           ELSE [status |-> "retracted", id |-> l.cur]) \in Result
      BY <2>1 DEF Result
    <2> QED BY <1>17, <2>2, RowWrites DEF Commit
  <1>18. CASE SetSource(c)
    <2>1. l.cur \in PointId /\ TokenOf[c][l.cur] \in Token
      BY <1>1, <1>18 DEF SetSource, TypedCall, Sourcing
    <2>2. UNCHANGED journal
          /\ (point' = point \/ point' = [point EXCEPT ![l.cur].state = "source",
                                                ![l.cur].src = TokenOf[c][l.cur]])
      BY <1>18 DEF SetSource
    <2>3. CASE point' = point
      BY <1>2, <2>2, <2>3
    <2>4. CASE point' # point
      BY <2>1, <2>2, <2>4, FieldsWritten
    <2> QED BY <2>3, <2>4
  <1> QED BY <1>3, <1>4, <1>5, <1>6, <1>7, <1>8, <1>9, <1>10, <1>11, <1>12,
             <1>13, <1>14, <1>15, <1>16, <1>17, <1>18 DEF Step

----------------------------------------------------------------------------
(* What a call answers, and how it gets where it is.                       *)

Deciding == {"idle", "resolve_again"}

Replies(c) ==
    \/ reply'[c] = reply[c]
    \/ reply'[c].status \in {"read", "stale", "idempotency_conflict", "sourced",
                             "conflict", "retracted"}
    \/ pc[c] \in Deciding /\ Matched(c) /\ \E t \in Token : reply'[c] = journal[t].result
    \/ /\ pc[c] = "recover" /\ reply'[c].status = "incomplete"
       /\ ~Completable(loc[c].mine, loc[c].kind)
    \/ /\ pc[c] = "finish_journal" /\ reply'[c].status = "updated"
       /\ reply'[c].id = loc[c].cur
    \/ /\ pc[c] = "commit" /\ KindOf[c] = "revise"
       /\ reply'[c].status = "updated" /\ reply'[c].id = loc[c].tok

\* The action that leads to a place of its own path, and the reads that lead to
\* a recovery, a replay or a plan.
Comes(c) ==
    LET stays == loc'[c] = loc[c]
    IN
    /\ pc'[c] = "recover" =>
          /\ pc[c] \in Deciding /\ loc'[c].from \in PointId
          /\ loc'[c].mine = point[loc'[c].from].tok /\ loc'[c].mine # None
          /\ loc'[c].kind = point[loc'[c].from].kind
    /\ pc'[c] \in Resolving \ {"recover"} =>
          stays /\ pc[c] \in Resolving \ {"resolve_again"}
    /\ pc'[c] = "plan" =>
          \/ Upsert(c) /\ stays
          \/ /\ pc[c] \in Deciding /\ loc'[c].tok \in OwnTokens(c)
             /\ KindOf[c] = "revise" => Present(loc'[c].tok)
    /\ pc'[c] = "claim" => Plan(c) /\ stays
    /\ pc'[c] = "readback" => Claim(c) /\ stays
    /\ pc'[c] = "activate" => Readback(c) /\ stays
    /\ pc'[c] = "note_activated" => Activate(c) /\ stays
    /\ pc'[c] = "supersede" => NoteActivated(c) /\ stays
    /\ pc'[c] = "commit" => stays /\ (Supersede(c) \/ pc[c] = "withdraw")
    /\ pc'[c] = "note_claimed" => Readback(c) /\ stays /\ KindOf[c] # "revise"
    /\ pc'[c] = "withdraw" => pc[c] = "note_claimed" /\ stays
    /\ pc'[c] \in {"finish_predecessor", "finish_journal"} =>
          \/ pc[c] \in Deciding /\ Matched(c) /\ loc'[c].cur \in Known
          \/ pc[c] = "finish_predecessor" /\ stays
    /\ pc[c] \in Own \cup Ended => pc'[c] \in Own \cup Ended

LEMMA LaunchedComes ==
    ASSUME TypedInv, NEW c \in Call, Launched(c), pc[c] \in Deciding
    PROVE  Comes(c) /\ Replies(c) /\ \A d \in Call : d # c => reply'[d] = reply[d]
  <1>1. pc \in [Call -> Running \cup Ended \cup {"idle"}] /\ loc \in [Call -> Local]
    BY DEF TypedInv, TypeOK
  <1>2. CASE /\ pc' = [pc EXCEPT ![c] = "done"] /\ Decided(c)
    <2>1. pc'[c] = "done"
      BY <1>1, <1>2
    <2> QED BY <1>2, <2>1 DEF Comes, Replies, Decided, Resolving, Own, Ended, Deciding
  <1>3. ASSUME NEW m \in Local, NEW w, Moves(c, w, m)
        PROVE  pc'[c] = w /\ loc'[c] = m /\ reply' = reply
    BY <1>1, <1>3 DEF Moves
  <1>4. ASSUME NEW m \in Local, Moves(c, "recover", m), m.from \in PointId,
               m.mine = point[m.from].tok, m.mine # None, m.kind = point[m.from].kind
        PROVE  Comes(c)
    <2>1. pc'[c] = "recover" /\ loc'[c] = m
      BY <1>3, <1>4
    <2> QED BY <1>4, <2>1 DEF Comes, Resolving, Own, Ended, Deciding
  <1>5. ASSUME NEW m \in Local, Moves(c, "upsert", m)
        PROVE  Comes(c)
    <2>1. pc'[c] = "upsert" /\ loc'[c] = m
      BY <1>3, <1>5
    <2> QED BY <2>1 DEF Comes, Resolving, Own, Ended, Deciding
  <1>6. ASSUME NEW m \in Local, Moves(c, "plan", m), m.tok \in OwnTokens(c),
               \/ KindOf[c] = "retract"
               \/ KindOf[c] = "revise" /\ point[m.tok].state # "absent"
        PROVE  Comes(c)
    <2>1. pc'[c] = "plan" /\ loc'[c] = m
      BY <1>3, <1>6
    <2> QED BY <1>6, <2>1 DEF Comes, Resolving, Own, Ended, Deciding, Present
  <1>7. ASSUME NEW m \in Local, NEW w \in {"finish_predecessor", "finish_journal"},
               Moves(c, w, m), Matched(c), m.cur \in Known
        PROVE  Comes(c)
    <2>1. pc'[c] = w /\ loc'[c] = m
      BY <1>3, <1>7
    <2> QED BY <1>7, <2>1 DEF Comes, Resolving, Own, Ended, Deciding
  <1>8. (\E m \in Local : \E w : Moves(c, w, m)) =>
            Replies(c) /\ \A d \in Call : d # c => reply'[d] = reply[d]
    BY DEF Moves, Replies
  <1> QED BY <1>2, <1>4, <1>5, <1>6, <1>7, <1>8 DEF Launched, Decided, Comes, Replies

LEMMA StepComes ==
    ASSUME TypedInv, NEW c \in Call,
           Begin(c) \/ BeginSource(c) \/ Step(c) \/ Crash(c) \/ Fenced(c)
    PROVE  Comes(c) /\ Replies(c) /\ \A d \in Call : d # c => reply'[d] = reply[d]
  <1> DEFINE l == loc[c]
             Goal == Comes(c) /\ Replies(c) /\ \A d \in Call : d # c => reply'[d] = reply[d]
  <1> USE DEF Own, Resolving, Ended, Deciding
  <1>1. /\ pc \in [Call -> Running \cup Ended \cup {"idle"}] /\ loc \in [Call -> Local]
        /\ reply \in [Call -> Reply] /\ TypedCall(c)
    BY DEF TypedInv, TypeOK
  <1>2. ASSUME NEW w, NEW m, Goto(c, w, m)
        PROVE  pc'[c] = w /\ loc'[c] = m /\ reply' = reply
    BY <1>1, <1>2 DEF Goto
  <1>3. ASSUME NEW s, NEW id, Answer(c, s, id)
        PROVE  /\ pc'[c] = "done" /\ reply'[c].status = s /\ reply'[c].id = id
               /\ \A d \in Call : d # c => reply'[d] = reply[d]
    BY <1>1, <1>3 DEF Answer
  <1>4. CASE Begin(c) \/ ResolveAgain(c)
    BY <1>4, BeginLaunches, ResolveAgainLaunches, LaunchedComes
       DEF Begin, ResolveAgain, TypedInv
  <1>5. CASE BeginSource(c)
    <2>1. \E m : Goto(c, "set_source", m)
      BY <1>5 DEF BeginSource
    <2>2. pc[c] = "idle" /\ pc'[c] = "set_source" /\ reply' = reply
      BY <1>2, <1>5, <2>1 DEF BeginSource
    <2> QED BY <2>2 DEF Comes, Replies
  <1>6. CASE Crash(c)
    <2>1. pc'[c] = "crashed" /\ reply' = reply
      BY <1>1, <1>6 DEF Crash
    <2> QED BY <2>1 DEF Comes, Replies
  <1>7. CASE Recover(c)
    <2>1. pc[c] = "recover" /\ l.mine \in Token
      BY <1>1, <1>7 DEF Recover, TypedCall
    <2>2. CASE Answer(c, "incomplete", l.from) /\ ~Completable(l.mine, l.kind)
      <3>1. pc'[c] = "done" /\ reply'[c].status = "incomplete"
            /\ \A d \in Call : d # c => reply'[d] = reply[d]
        BY <1>3, <2>2
      <3> QED BY <2>1, <2>2, <3>1 DEF Comes, Replies
    <2>3. ASSUME NEW w \in {"recover_retracted", "recover_active",
                            "recover_superseded"}, Goto(c, w, l)
          PROVE  Goal
      <3>1. pc'[c] = w /\ loc'[c] = l /\ reply' = reply
        BY <1>2, <2>3
      <3> QED BY <2>1, <3>1 DEF Comes, Replies
    <2>4. \/ Answer(c, "incomplete", l.from) /\ ~Completable(l.mine, l.kind)
          \/ \E w \in {"recover_retracted", "recover_active", "recover_superseded"} :
                Goto(c, w, l)
      <3>1. CASE l.kind = "retract"
        BY <1>7, <3>1 DEF Recover, Completable
      <3>2. CASE l.kind # "retract"
        BY <1>7, <3>2 DEF Recover, Completable, ClaimKind, Present
      <3> QED BY <3>1, <3>2
    <2> QED BY <2>2, <2>3, <2>4
  <1>8. CASE \/ RecoverActive(c) \/ RecoverSuperseded(c)
             \/ RecoverRetracted(c) \/ RecoverCommit(c)
    <2>1. PICK w \in {"recover_superseded", "resolve_again", "recover_commit"} :
            Goto(c, w, l)
      BY <1>8 DEF RecoverActive, RecoverSuperseded, RecoverRetracted, RecoverCommit
    <2>2. pc[c] \in {"recover_active", "recover_superseded", "recover_retracted",
                     "recover_commit"}
      BY <1>8 DEF RecoverActive, RecoverSuperseded, RecoverRetracted, RecoverCommit
    <2>3. pc'[c] = w /\ loc'[c] = l /\ reply' = reply
      BY <1>2, <2>1
    <2> QED BY <2>2, <2>3 DEF Comes, Replies
  <1>9. CASE FinishPredecessor(c)
    <2>1. pc[c] = "finish_predecessor" /\ Goto(c, "finish_journal", l)
      BY <1>9 DEF FinishPredecessor
    <2>2. pc'[c] = "finish_journal" /\ loc'[c] = l /\ reply' = reply
      BY <1>2, <2>1
    <2> QED BY <2>1, <2>2 DEF Comes, Replies
  <1>10. CASE FinishJournal(c)
    <2>1. /\ pc[c] = "finish_journal"
          /\ \/ Answer(c, "retracted", l.cur) \/ Answer(c, "updated", l.cur)
      BY <1>10 DEF FinishJournal, Tells
    <2>2. /\ pc'[c] = "done" /\ reply'[c].status \in {"retracted", "updated"}
          /\ reply'[c].id = l.cur /\ \A d \in Call : d # c => reply'[d] = reply[d]
      BY <1>3, <2>1
    <2> QED BY <2>1, <2>2 DEF Comes, Replies
  <1>11. CASE Upsert(c) \/ Plan(c) \/ Claim(c) \/ Activate(c) \/ NoteActivated(c)
              \/ Supersede(c)
    <2>1. /\ pc[c] \in Own /\ (Upsert(c) => Goto(c, "plan", l))
          /\ (Plan(c) => Goto(c, "claim", l)) /\ (Claim(c) => Goto(c, "readback", l))
          /\ Activate(c) => Goto(c, "note_activated", l)
          /\ NoteActivated(c) => Goto(c, "supersede", l)
          /\ Supersede(c) => Goto(c, "commit", l)
      BY <1>11 DEF Upsert, Plan, Claim, Activate, NoteActivated, Supersede
    <2>2. /\ loc'[c] = l /\ reply' = reply
          /\ pc'[c] \in {"plan", "claim", "readback", "note_activated", "supersede",
                         "commit"}
          /\ (pc'[c] = "plan" => Upsert(c)) /\ (pc'[c] = "claim" => Plan(c))
          /\ (pc'[c] = "readback" => Claim(c))
          /\ (pc'[c] = "note_activated" => Activate(c))
          /\ (pc'[c] = "supersede" => NoteActivated(c))
          /\ (pc'[c] = "commit" => Supersede(c))
      BY <1>2, <1>11, <2>1
    <2> QED BY <2>1, <2>2 DEF Comes, Replies
  <1>12. CASE Readback(c)
    <2>1. pc[c] = "readback"
      BY <1>12 DEF Readback
    <2>2. CASE Answer(c, "stale", l.cur)
      <3>1. /\ pc'[c] = "done" /\ reply'[c].status = "stale"
            /\ \A d \in Call : d # c => reply'[d] = reply[d]
        BY <1>3, <2>2
      <3> QED BY <3>1 DEF Comes, Replies
    <2>3. ASSUME NEW w \in {"activate", "note_claimed", "abort"}, Goto(c, w, l),
                 w = "note_claimed" => KindOf[c] # "revise"
          PROVE  Goal
      <3>1. pc'[c] = w /\ loc'[c] = l /\ reply' = reply
        BY <1>2, <2>3
      <3> QED BY <1>12, <2>1, <2>3, <3>1 DEF Comes, Replies
    <2> QED BY <1>12, <2>2, <2>3 DEF Readback
  <1>13. CASE Abort(c) \/ NoteClaimed(c) \/ Withdraw(c)
    <2>1. \/ pc[c] = "abort" /\ Goto(c, "conflict", l)
          \/ pc[c] = "note_claimed" /\ Goto(c, "withdraw", l)
          \/ pc[c] = "withdraw" /\ Goto(c, "commit", l)
      BY <1>13 DEF Abort, NoteClaimed, Withdraw
    <2>2. /\ loc'[c] = l /\ reply' = reply
          /\ \/ pc[c] = "abort" /\ pc'[c] = "conflict"
             \/ pc[c] = "note_claimed" /\ pc'[c] = "withdraw"
             \/ pc[c] = "withdraw" /\ pc'[c] = "commit"
      BY <1>2, <2>1
    <2> QED BY <2>2 DEF Comes, Replies
  <1>14. CASE Conflict(c) \/ CheckSource(c)
    <2>1. \E s \in {"stale", "sourced", "conflict"} : \E id : Answer(c, s, id)
      BY <1>14 DEF Conflict, CheckSource
    <2>2. /\ pc'[c] = "done" /\ reply'[c].status \in {"stale", "sourced", "conflict"}
          /\ \A d \in Call : d # c => reply'[d] = reply[d]
      BY <1>3, <2>1
    <2> QED BY <2>2 DEF Comes, Replies
  <1>15. CASE Commit(c)
    <2>1. /\ pc[c] = "commit"
          /\ \/ KindOf[c] = "revise" /\ Answer(c, "updated", l.tok)
             \/ Answer(c, "retracted", l.cur)
      BY <1>15 DEF Commit, Tells
    <2>2. /\ pc'[c] = "done" /\ \A d \in Call : d # c => reply'[d] = reply[d]
          /\ \/ /\ KindOf[c] = "revise" /\ reply'[c].status = "updated"
                /\ reply'[c].id = l.tok
             \/ reply'[c].status = "retracted"
      BY <1>3, <2>1
    <2> QED BY <2>1, <2>2 DEF Comes, Replies
  <1>16. CASE SetSource(c)
    <2>1. pc[c] = "set_source" /\ Goto(c, "check_source", l)
      BY <1>16 DEF SetSource
    <2>2. pc'[c] = "check_source" /\ reply' = reply
      BY <1>2, <2>1
    <2> QED BY <2>1, <2>2 DEF Comes, Replies
  <1>17. CASE Fenced(c)
    <2>1. pc[c] = "claim" /\ pc'[c] = "abort" /\ loc'[c] = l /\ reply' = reply
      BY <1>2, <1>17 DEF Fenced
    <2> QED BY <2>1 DEF Comes, Replies
  <1> QED BY <1>4, <1>5, <1>6, <1>7, <1>8, <1>9, <1>10, <1>11, <1>12,
             <1>13, <1>14, <1>15, <1>16, <1>17 DEF Step

----------------------------------------------------------------------------
(* A claim that was found can be completed.                                *)

\* Upsert and Plan write what they are there to write.
LEMMA PrepareWrites ==
    ASSUME TypedInv, NEW c \in Call
    PROVE  /\ Upsert(c) => Present(loc[c].tok)' /\ point'[loc[c].tok] = Successor(c)
           /\ Plan(c) => journal'[loc[c].tok] # NoRow
  <1>1. ASSUME Upsert(c)
        PROVE  Present(loc[c].tok)' /\ point'[loc[c].tok] = Successor(c)
    <2>1. loc[c].tok \in PointId /\ Successor(c).state = "pending"
      BY <1>1, LocalTyped, SuccessorTyped DEF Upsert, TypedCall, Own
    <2>2. point'[loc[c].tok] = Successor(c)
      BY <1>1, <2>1 DEF Upsert, TypedInv, TypeOK
    <2>3. loc'[c].tok = loc[c].tok
      BY <1>1 DEF Upsert, Goto, TypedInv, TypeOK
    <2> QED BY <2>1, <2>2, <2>3 DEF Present
  <1>2. ASSUME Plan(c) PROVE journal'[loc[c].tok] # NoRow
    <2>1. loc[c].tok \in Token
      BY <1>2, LocalTyped DEF Plan, TypedCall, Own
    <2>2. PICK status \in {"pending", "prepared"} : Note(loc[c].tok, status)
      BY <1>2 DEF Plan
    <2>3. journal' = [journal EXCEPT ![loc[c].tok] =
                                [journal[loc[c].tok] EXCEPT !.status = status]]
      BY <2>2 DEF Note
    <2>4. journal'[loc[c].tok].status = status
      BY <2>1, <2>3 DEF TypedInv, TypeOK, Row
    <2> QED BY <2>4 DEF NoRow
  <1> QED BY <1>1, <1>2

LEMMA StaysCompletable ==
    ASSUME TypedInv, NEW c \in Call, Writes(c), NEW t, NEW kind, Completable(t, kind)
    PROVE  Completable(t, kind)'
  BY Structure DEF Completable, Writes

LEMMA StepCompletable ==
    ASSUME CompletableInv, NEW c \in Call,
           Begin(c) \/ BeginSource(c) \/ Step(c) \/ Crash(c) \/ Fenced(c)
    PROVE  CompletableInv'
  <1>1. TypedInv /\ CallCompletable(c)
    BY DEF CompletableInv
  <1>2. TypedInv'
    BY <1>1, NextTyped DEF Next
  <1>3. Writes(c)
    BY <1>1, StepWrites
  <1>4. Comes(c) /\ Replies(c) /\ \A d \in Call : d # c => reply'[d] = reply[d]
    BY <1>1, StepComes
  <1>5. TypedCall(c) /\ OwnTokens(c) \subseteq Token /\ Token \subseteq PointId
    BY <1>1, LocalTyped
  <1>6. ASSUME NEW p \in PointId, point'[p].tok # None
        PROVE  Completable(point[p].tok, point[p].kind)'
    <2>1. CASE point'[p].tok = point[p].tok /\ point'[p].kind = point[p].kind
      <3>1. Completable(point[p].tok, point[p].kind)
        BY <1>6, <2>1 DEF CompletableInv
      <3>2. ASSUME NEW t, NEW kind, Completable(t, kind)
            PROVE  Completable(t, kind)'
        BY <1>1, <1>3, <3>2, StaysCompletable
      <3> QED BY <2>1, <3>1, <3>2 DEF Completable, Present
    <2>2. CASE /\ pc[c] = "claim" /\ point'[p].tok = loc[c].tok
               /\ point'[p].kind = KindOf[c]
      <3>1. /\ KindOf[c] \in ClaimKind /\ loc[c].tok \in Token
            /\ loc[c].tok \in PointId
        BY <1>5, <2>2 DEF TypedCall, Own, ClaimKind
      <3>2. /\ KindOf[c] = "revise" => Present(loc[c].tok)
            /\ journal[loc[c].tok] # NoRow
        BY <1>1, <2>2 DEF CallCompletable
      <3>3. Completable(loc[c].tok, KindOf[c])
        BY <3>1, <3>2 DEF Completable
      <3>4. KindOf[c] = "revise" => point'[loc[c].tok].state # "absent"
        BY <1>3, <3>1, <3>2 DEF Writes, Present
      <3>5. journal'[loc[c].tok] # NoRow
        BY <1>3, <3>1, <3>2 DEF Writes
      <3> QED BY <2>2, <3>1, <3>4, <3>5 DEF Completable, Present
    <2> QED BY <1>3, <1>6, <2>1, <2>2 DEF Writes
  <1>7. CallCompletable(c)'
    <2>1. (pc[c] \in {"plan", "claim"} /\ KindOf[c] = "revise" => Present(loc[c].tok))'
      <3> SUFFICES ASSUME pc'[c] \in {"plan", "claim"}, KindOf[c] = "revise"
                   PROVE  point'[loc'[c].tok].state # "absent"
        BY DEF Present
      <3>1. CASE pc'[c] = "plan" /\ Upsert(c)
        BY <1>1, <1>4, <3>1, PrepareWrites DEF Comes, Present
      <3>2. CASE pc'[c] = "plan" /\ ~Upsert(c)
        BY <1>3, <1>4, <1>5, <3>2 DEF Comes, Writes, Present
      <3>3. CASE pc'[c] = "claim"
        <4>1. Plan(c) /\ loc'[c] = loc[c]
          BY <1>4, <3>3 DEF Comes
        <4>2. loc[c].tok \in PointId /\ Present(loc[c].tok)
          BY <1>1, <1>5, <4>1 DEF Plan, CallCompletable, TypedCall, Own
        <4> QED BY <1>3, <4>1, <4>2 DEF Writes, Present
      <3> QED BY <3>1, <3>2, <3>3
    <2>2. (pc[c] = "claim" => journal[loc[c].tok] # NoRow)'
      BY <1>1, <1>4, PrepareWrites DEF Comes
    <2>3. (pc[c] = "recover" => Completable(loc[c].mine, loc[c].kind))'
      <3> SUFFICES ASSUME pc'[c] = "recover"
                   PROVE  Completable(loc[c].mine, loc[c].kind)'
        OBVIOUS
      <3> DEFINE from == loc'[c].from
                 t == point[from].tok
                 kind == point[from].kind
      <3>1. from \in PointId /\ t # None /\ loc'[c].mine = t /\ loc'[c].kind = kind
        BY <1>4 DEF Comes
      <3>2. Completable(t, kind)
        BY <3>1 DEF CompletableInv
      <3> HIDE DEF t, kind
      <3>3. /\ t \in Token /\ t \in PointId /\ kind \in ClaimKind
            /\ kind = "revise" => point'[t].state # "absent"
            /\ kind = "retract" => journal'[t] # NoRow
        BY <1>3, <1>5, <3>2 DEF Completable, Writes, Present
      <3> QED BY <3>1, <3>3 DEF Completable, Present
    <2>4. reply'[c].status # "incomplete"
      <3>1. pc[c] = "recover" => Completable(loc[c].mine, loc[c].kind)
        BY <1>1 DEF CallCompletable
      <3>2. reply[c].status # "incomplete"
        BY <1>1 DEF CallCompletable
      <3>3. \A t \in Token : journal[t].result.status # "incomplete"
        BY <1>1 DEF TypedInv, TypeOK, Row, Result
      <3> QED BY <1>4, <3>1, <3>2, <3>3 DEF Replies
    <2> QED BY <2>1, <2>2, <2>3, <2>4 DEF CallCompletable
  <1>8. ASSUME NEW d \in Call, d # c PROVE CallCompletable(d)'
    <2>1. pc'[d] = pc[d] /\ loc'[d] = loc[d] /\ reply'[d] = reply[d]
      BY <1>1, <1>4, <1>8, OnlyOneMoves
    <2>2. CallCompletable(d) /\ TypedCall(d) /\ OwnTokens(d) \subseteq Token
      BY <1>1, LocalTyped DEF CompletableInv
    <2>3. pc[d] \in {"plan", "claim"} => loc[d].tok \in Token
      BY <2>2 DEF TypedCall, Own
    <2>4. /\ pc[d] \in {"plan", "claim"} /\ KindOf[d] = "revise" =>
                point'[loc[d].tok].state # "absent"
          /\ pc[d] = "claim" => journal'[loc[d].tok] # NoRow
      BY <1>3, <1>5, <2>2, <2>3 DEF CallCompletable, Writes, Present
    <2>5. pc[d] = "recover" =>
             /\ loc[d].mine \in Token /\ loc[d].kind \in ClaimKind
             /\ loc[d].kind = "revise" => point'[loc[d].mine].state # "absent"
             /\ loc[d].kind = "retract" => journal'[loc[d].mine] # NoRow
      BY <1>3, <1>5, <2>2 DEF CallCompletable, Completable, Writes, Present
    <2> QED BY <2>1, <2>2, <2>4, <2>5 DEF CallCompletable, Completable, Present
  <1> QED BY <1>2, <1>6, <1>7, <1>8 DEF CompletableInv

\* Whatever calls race, whichever workers die and whoever finds their claims,
\* _recover_claimed is never without the successor or the journal row it needs:
\* no caller is ever told that a claim is incomplete.  (No hypothesis on keys.)
THEOREM RecoveryNeverStuckHolds == Spec => []RecoveryNeverStuck
  <1>1. Init => CompletableInv
    <2> SUFFICES ASSUME Init PROVE CompletableInv
      OBVIOUS
    <2>1. TypedInv
      BY InitTyped
    <2>2. \A p \in PointId : point[p].tok = None
      BY DEF Init, AbsentPoint
    <2>3. \A c \in Call : pc[c] = "idle" /\ reply[c].status = "none"
      BY DEF Init
    <2> QED BY <2>1, <2>2, <2>3 DEF CompletableInv, CallCompletable
  <1>2. CompletableInv /\ [Next]_vars => CompletableInv'
    <2> SUFFICES ASSUME CompletableInv, [Next]_vars PROVE CompletableInv'
      OBVIOUS
    <2>1. CASE UNCHANGED vars
      <3>1. TypedInv'
        BY <2>1, NextTyped DEF CompletableInv
      <3> QED BY <2>1, <3>1 DEF vars, CompletableInv, CallCompletable, Completable,
                                Present
    <2>2. CASE Next
      BY <2>2, StepCompletable DEF Next
    <2> QED BY <2>1, <2>2
  <1>3. CompletableInv => RecoveryNeverStuck
    BY DEF CompletableInv, CallCompletable, RecoveryNeverStuck
  <1> QED BY <1>1, <1>2, <1>3, PTL DEF Spec

----------------------------------------------------------------------------
(* What is acknowledged has been published.                                *)

\* The results a step leaves in the journal.
RowsTell(c) ==
    \A t \in Token :
        \/ journal'[t].result = journal[t].result
        \/ journal'[t].result.status = "retracted"
        \/ pc[c] = "finish_journal" /\ journal'[t].result.id = loc[c].cur
        \/ /\ pc[c] = "commit" /\ KindOf[c] = "revise"
           /\ journal'[t].result.id = loc[c].tok

LEMMA StepTells ==
    ASSUME TypedInv, NEW c \in Call,
           Begin(c) \/ BeginSource(c) \/ Step(c) \/ Crash(c) \/ Fenced(c)
    PROVE  RowsTell(c)
  <1>1. journal \in [Token -> Row]
    BY DEF TypedInv, TypeOK
  <1>2. UNCHANGED journal => RowsTell(c)
    BY DEF RowsTell
  <1>3. ASSUME NEW t, NEW status, Note(t, status) PROVE RowsTell(c)
    <2>1. journal' = [journal EXCEPT ![t] = [journal[t] EXCEPT !.status = status]]
      BY <1>3 DEF Note
    <2>2. ASSUME NEW u \in Token PROVE journal'[u].result = journal[u].result
      BY <1>1, <2>1 DEF Row
    <2> QED BY <2>2 DEF RowsTell
  <1>4. ASSUME NEW t, NEW result, Record(t, result)
        PROVE  \A u \in Token : \/ journal'[u].result = journal[u].result
                                \/ journal'[u].result = result
    BY <1>1, <1>4 DEF Record
  <1>5. CASE RecoverCommit(c)
    <2> DEFINE result == [status |-> "retracted", id |-> loc[c].from]
    <2>1. Record(loc[c].mine, result)
      BY <1>5 DEF RecoverCommit
    <2>2. result.status = "retracted"
      OBVIOUS
    <2> HIDE DEF result
    <2> QED BY <1>4, <2>1, <2>2 DEF RowsTell
  <1>6. CASE FinishJournal(c)
    <2> DEFINE result == [status |-> IF loc[c].pay.state = "retracted"
                                     THEN "retracted" ELSE "updated",
                          id |-> loc[c].cur]
    <2>1. pc[c] = "finish_journal" /\ Record(loc[c].tok, result)
      BY <1>6 DEF FinishJournal
    <2>2. result.id = loc[c].cur
      OBVIOUS
    <2> HIDE DEF result
    <2> QED BY <1>4, <2>1, <2>2 DEF RowsTell
  <1>7. CASE Commit(c)
    <2> DEFINE result == IF KindOf[c] = "revise"
                         THEN [status |-> "updated", id |-> loc[c].tok]
                         ELSE [status |-> "retracted", id |-> loc[c].cur]
    <2>1. pc[c] = "commit" /\ Record(loc[c].tok, result)
      BY <1>7 DEF Commit
    <2>2. \/ KindOf[c] = "revise" /\ result.id = loc[c].tok
          \/ result.status = "retracted"
      OBVIOUS
    <2> HIDE DEF result
    <2> QED BY <1>4, <2>1, <2>2 DEF RowsTell
  <1>8. CASE Plan(c) \/ Conflict(c) \/ NoteActivated(c) \/ NoteClaimed(c)
    BY <1>3, <1>8 DEF Plan, Conflict, NoteActivated, NoteClaimed
  <1>9. CASE \/ Begin(c) \/ BeginSource(c) \/ Crash(c) \/ Fenced(c) \/ Recover(c)
             \/ ResolveAgain(c) \/ Readback(c) \/ CheckSource(c)
             \/ RecoverActive(c) \/ RecoverSuperseded(c) \/ RecoverRetracted(c)
             \/ FinishPredecessor(c)
    BY <1>2, <1>9 DEF Begin, BeginSource, Crash, Fenced, Recover, ResolveAgain, Readback,
         CheckSource, RecoverActive, RecoverSuperseded, RecoverRetracted,
         FinishPredecessor
  <1>10. CASE \/ Upsert(c) \/ Claim(c) \/ Abort(c) \/ Activate(c)
              \/ Supersede(c) \/ Withdraw(c) \/ SetSource(c)
    BY <1>2, <1>10 DEF Upsert, Claim, Abort, Activate, Supersede, Withdraw, SetSource
  <1> QED BY <1>5, <1>6, <1>7, <1>8, <1>9, <1>10 DEF Step

\* A successor that is not published yet is published by a step, left as it is,
\* or stored or aborted by the call whose it is: all other writes of the code
\* name a point that is active or claimed.
LeavesPending(c) ==
    \A t \in Token :
        \/ t \in Known'
        \/ point'[t].state = point[t].state /\ point'[t].op = point[t].op
        \/ pc[c] \in {"upsert", "abort"} /\ t = loc[c].tok

LEMMA StepLeavesPending ==
    ASSUME ChainInv, Stable, NEW c \in Call,
           Begin(c) \/ BeginSource(c) \/ Step(c) \/ Crash(c) \/ Fenced(c)
    PROVE  LeavesPending(c)
  <1> DEFINE l == loc[c]
  <1>1. TypedInv /\ PointsChained /\ CallChained(c)
    BY DEF ChainInv
  <1>2. /\ TypedCall(c) /\ point \in [PointId -> Payload]
        /\ OwnTokens(c) \subseteq Token /\ Token \subseteq PointId
    BY <1>1, LocalTyped
  <1>3. UNCHANGED point => LeavesPending(c)
    BY DEF LeavesPending
  <1>4. ASSUME NEW q \in Known, \A p \in PointId : p # q => point'[p] = point[p]
        PROVE  LeavesPending(c)
    <2>1. q \in Known'
      BY <1>1, <1>4, Structure DEF Stable
    <2> QED BY <1>2, <1>4, <2>1 DEF LeavesPending
  <1>5. ASSUME NEW q, NEW b, point' = [point EXCEPT ![q] = b]
        PROVE  \A p \in PointId : p # q => point'[p] = point[p]
    BY <1>2, <1>5
  <1>6. ASSUME NEW q \in PointId, point[q].tok # None PROVE q \in Known
    BY <1>1, <1>6 DEF PointsChained, ClaimsSound
  <1>7. CASE \/ Begin(c) \/ BeginSource(c) \/ Crash(c) \/ Fenced(c) \/ Recover(c)
             \/ ResolveAgain(c) \/ Readback(c) \/ CheckSource(c)
             \/ RecoverCommit(c) \/ FinishJournal(c) \/ Commit(c)
             \/ Plan(c) \/ Conflict(c) \/ NoteActivated(c) \/ NoteClaimed(c)
    BY <1>3, <1>7 DEF Begin, BeginSource, Crash, Fenced, Recover, ResolveAgain, Readback,
         CheckSource, RecoverCommit, FinishJournal, Commit, Plan, Conflict,
         NoteActivated, NoteClaimed
  <1>8. CASE RecoverActive(c)
    <2>1. l.mine \in Token /\ point' = [point EXCEPT ![l.mine].state = "active"]
      BY <1>2, <1>8 DEF RecoverActive, TypedCall, Resolving
    <2>2. l.mine \in Known'
      BY <1>2, <2>1 DEF Known, Published, Payload
    <2>3. \A p \in PointId : p # l.mine => point'[p] = point[p]
      BY <1>2, <2>1
    <2> QED BY <1>2, <2>2, <2>3 DEF LeavesPending
  <1>9. CASE RecoverSuperseded(c) \/ RecoverRetracted(c)
    <2>1. /\ l.from \in PointId /\ point[l.from].tok = l.mine /\ l.mine \in Token
      BY <1>1, <1>2, <1>9 DEF RecoverSuperseded, RecoverRetracted, CallChained,
         TypedCall, Resolving
    <2>2. l.from \in Known
      BY <1>6, <2>1, ConstantsAssumption DEF PointId
    <2>3. \A p \in PointId : p # l.from => point'[p] = point[p]
      BY <1>2, <1>9 DEF RecoverSuperseded, RecoverRetracted
    <2> QED BY <1>4, <2>2, <2>3
  <1>10. CASE FinishPredecessor(c)
    <2>1. l.pay.sup \in Known
      BY <1>1, <1>10 DEF FinishPredecessor, CallChained
    <2>2. \A p \in PointId : p # l.pay.sup => point'[p] = point[p]
      BY <1>2, <1>10 DEF FinishPredecessor
    <2> QED BY <1>4, <2>1, <2>2
  <1>11. CASE Upsert(c) \/ Abort(c)
    <2>1. pc[c] \in {"upsert", "abort"}
      BY <1>11 DEF Upsert, Abort
    <2>2. \A p \in PointId : p # l.tok => point'[p] = point[p]
      BY <1>2, <1>11 DEF Upsert, Abort
    <2> QED BY <1>2, <2>1, <2>2 DEF LeavesPending
  <1>12. CASE Claim(c)
    <2> DEFINE a == point[l.cur]
               b == [a EXCEPT !.tok = l.tok, !.kind = KindOf[c]]
    <2>1. CASE point' = point
      BY <1>3, <2>1
    <2>2. CASE point' # point
      <3>1. /\ point' = [point EXCEPT ![l.cur].tok = l.tok, ![l.cur].kind = KindOf[c]]
            /\ l.cur \in PointId
        BY <1>2, <1>12, <2>2 DEF Claim, TypedCall, Own
      <3>2. a \in Payload
        BY <1>2, <3>1
      <3>3. b.state = a.state /\ b.op = a.op
        BY <3>2 DEF Payload
      <3>4. point' = [point EXCEPT ![l.cur] = b]
        BY <1>2, <3>1
      <3> HIDE DEF b
      <3> QED BY <1>2, <3>1, <3>3, <3>4 DEF LeavesPending
    <2> QED BY <2>1, <2>2
  <1>13. CASE Activate(c)
    <2>1. l.tok \in PointId /\ l.tok \in Token
      BY <1>2, <1>13 DEF Activate, TypedCall, Own
    <2>2. CASE point' = point
      BY <1>3, <2>2
    <2>3. CASE point' # point
      <3>1. point' = [point EXCEPT ![l.tok].state = "active"]
        BY <1>13, <2>3 DEF Activate
      <3>2. l.tok \in Known'
        BY <1>2, <2>1, <3>1 DEF Known, Published, Payload
      <3>3. \A p \in PointId : p # l.tok => point'[p] = point[p]
        BY <1>2, <3>1
      <3> QED BY <1>2, <3>2, <3>3 DEF LeavesPending
    <2> QED BY <2>2, <2>3
  <1>14. CASE Supersede(c) \/ Withdraw(c)
    <2>1. l.cur \in PointId /\ l.tok \in Token
      BY <1>2, <1>14 DEF Supersede, Withdraw, TypedCall, Own
    <2>2. CASE point' = point
      BY <1>3, <2>2
    <2>3. CASE point' # point
      <3>1. point[l.cur].tok = l.tok
        BY <1>14, <2>3 DEF Supersede, Withdraw
      <3>2. l.cur \in Known
        BY <1>6, <2>1, <3>1, ConstantsAssumption DEF PointId
      <3>3. \A p \in PointId : p # l.cur => point'[p] = point[p]
        BY <1>2, <1>14 DEF Supersede, Withdraw
      <3> QED BY <1>4, <3>2, <3>3
    <2> QED BY <2>2, <2>3
  <1>15. CASE SetSource(c)
    <2>1. l.cur \in PointId
      BY <1>2, <1>15 DEF SetSource, TypedCall, Sourcing
    <2>2. CASE point' = point
      BY <1>3, <2>2
    <2>3. CASE point' # point
      <3>1. l.cur \in Known
        BY <1>15, <2>1, <2>3 DEF SetSource, Known, Published
      <3>2. \A p \in PointId : p # l.cur => point'[p] = point[p]
        BY <1>2, <1>15 DEF SetSource
      <3> QED BY <1>4, <3>1, <3>2
    <2> QED BY <2>2, <2>3
  <1> QED BY <1>7, <1>8, <1>9, <1>10, <1>11, <1>12, <1>13, <1>14, <1>15 DEF Step

\* The conditional write that activates a successor finds it as it was prepared.
LEMMA ActivatePublished ==
    ASSUME ChainInv, Stable, NEW c \in Call, CallPublishes(c), KindOf[c] = "revise",
           Activate(c)
    PROVE  loc[c].tok \in Known'
  <1> DEFINE t == loc[c].tok
  <1>1. /\ t \in OwnTokens(c) /\ t \in Token /\ t \in PointId
        /\ point \in [PointId -> Payload] /\ Known \subseteq PointId
    BY LocalTyped, Structure DEF ChainInv, Activate, TypedCall, Own
  <1>2. CASE t \in Known
    BY <1>1, <1>2 DEF Stable
  <1>3. CASE t \notin Known
    <2>1. point[t].state = "pending" /\ point[t].op = t
      BY <1>3 DEF CallPublishes, Activate
    <2>2. SameRequest(c, t)
      BY <1>1, <2>1, ConstantsAssumption DEF SameRequest, OwnTokens
    <2>3. point' = [point EXCEPT ![t].state = "active"]
      BY <2>1, <2>2 DEF Activate
    <2> QED BY <1>1, <2>3 DEF Known, Published, Payload
  <1> QED BY <1>2, <1>3

LEMMA StepPublished ==
    ASSUME ExclusiveTokens, PublishedInv, NEW c \in Call,
           Begin(c) \/ BeginSource(c) \/ Step(c) \/ Crash(c) \/ Fenced(c)
    PROVE  PublishedInv'
  <1>1. ChainInv /\ TypedInv /\ CallChained(c) /\ CallPublishes(c)
    BY DEF PublishedInv, ChainInv
  <1>2. ChainInv' /\ Stable
    BY <1>1, NextChained DEF Next
  <1>3. Comes(c) /\ Replies(c) /\ \A d \in Call : d # c => reply'[d] = reply[d]
    BY <1>1, StepComes
  <1>4. RowsTell(c) /\ LeavesPending(c)
    BY <1>1, <1>2, StepTells, StepLeavesPending
  <1>5. /\ TypedCall(c) /\ OwnTokens(c) \subseteq Token /\ Token \subseteq PointId
        /\ Known \subseteq PointId /\ \A p \in Known : p \in Known'
    BY <1>1, <1>2, LocalTyped, Structure DEF Stable
  <1>6. ASSUME NEW t \in Token PROVE Answerable(journal[t].result)'
    <2>1. Answerable(journal[t].result)
      BY DEF PublishedInv
    <2> QED BY <1>1, <1>4, <1>5, <2>1 DEF RowsTell, Answerable, CallPublishes
  <1>7. CallPublishes(c)'
    <2> DEFINE t == loc[c].tok
    <2>1. ASSUME KindOf[c] = "revise",
                 pc'[c] \in {"plan", "claim", "readback", "activate"}
          PROVE  \/ loc'[c].tok \in Known'
                 \/ /\ point'[loc'[c].tok].state = "pending"
                    /\ point'[loc'[c].tok].op = loc'[c].tok
      <3>1. CASE Upsert(c) /\ loc'[c] = loc[c]
        <4>1. point'[loc[c].tok] = Successor(c)
          BY <1>1, <3>1, PrepareWrites
        <4>2. Successor(c).state = "pending" /\ Successor(c).op = loc[c].tok
          BY DEF Successor
        <4> QED BY <3>1, <4>1, <4>2
      <3>2. CASE pc'[c] = "plan" /\ pc[c] \in Deciding
        <4>1. loc'[c].tok \in OwnTokens(c) /\ Present(loc'[c].tok)
          BY <1>3, <2>1, <3>2 DEF Comes, Upsert, Deciding
        <4> QED BY <1>1, <3>2, <4>1 DEF CallChained, Own, Ended, Deciding
      <3>3. CASE pc[c] \in {"plan", "claim", "readback"} /\ loc'[c] = loc[c]
        <4>1. t \in Token
          BY <1>5, <3>3 DEF TypedCall, Own
        <4>2. \/ t \in Known
              \/ point[t].state = "pending" /\ point[t].op = t
          BY <1>1, <2>1, <3>3 DEF CallPublishes
        <4> QED BY <1>4, <1>5, <3>3, <4>1, <4>2 DEF LeavesPending
      <3> QED BY <1>3, <2>1, <3>1, <3>2, <3>3 DEF Comes, Plan, Claim, Readback
    <2>2. ASSUME KindOf[c] = "revise",
                 pc'[c] \in {"note_activated", "supersede", "commit"}
          PROVE  loc'[c].tok \in Known'
      <3>1. CASE Activate(c) /\ loc'[c] = loc[c]
        BY <1>1, <1>2, <2>2, <3>1, ActivatePublished
      <3>2. CASE (NoteActivated(c) \/ Supersede(c)) /\ loc'[c] = loc[c]
        <4>1. t \in Known
          BY <1>1, <2>2, <3>2 DEF NoteActivated, Supersede, CallPublishes
        <4> QED BY <1>5, <3>2, <4>1
      <3> QED BY <1>1, <1>3, <2>2, <3>1, <3>2 DEF Comes, CallPublishes
    <2>3. (pc[c] \in {"note_claimed", "withdraw"} => KindOf[c] # "revise")'
      BY <1>1, <1>3 DEF Comes, CallPublishes
    <2>4. (pc[c] \in {"finish_predecessor", "finish_journal"} => loc[c].cur \in Known)'
      BY <1>1, <1>3, <1>5 DEF Comes, CallPublishes
    <2>5. Answerable(reply[c])'
      <3>1. \A u \in Token : Answerable(journal[u].result)
        BY DEF PublishedInv
      <3>2. Answerable(reply[c])
        BY <1>1 DEF CallPublishes
      <3> QED BY <1>1, <1>3, <1>5, <3>1, <3>2 DEF Replies, Answerable, CallPublishes
    <2> QED BY <2>1, <2>2, <2>3, <2>4, <2>5 DEF CallPublishes
  <1>8. ASSUME NEW d \in Call, d # c PROVE CallPublishes(d)'
    <2> DEFINE t == loc[d].tok
    <2>1. pc'[d] = pc[d] /\ loc'[d] = loc[d] /\ reply'[d] = reply[d]
      BY <1>1, <1>3, <1>8, OnlyOneMoves
    <2>2. CallPublishes(d) /\ TypedCall(d) /\ OwnTokens(d) \subseteq Token
      BY <1>1, LocalTyped DEF PublishedInv
    <2>3. ASSUME KindOf[d] = "revise",
                 pc[d] \in {"plan", "claim", "readback", "activate"}
          PROVE  t \in Known' \/ (point'[t].state = "pending" /\ point'[t].op = t)
      <3>1. t \in OwnTokens(d) /\ t \in Token
        BY <2>2, <2>3 DEF TypedCall, Own
      <3>2. ~(pc[c] \in {"upsert", "abort"} /\ t = loc[c].tok)
        <4>1. pc[c] \in {"upsert", "abort"} => loc[c].tok \in OwnTokens(c)
          BY <1>5 DEF TypedCall, Own
        <4> QED BY <1>8, <3>1, <4>1 DEF ExclusiveTokens
      <3>3. t \in Known \/ (point[t].state = "pending" /\ point[t].op = t)
        BY <2>2, <2>3 DEF CallPublishes
      <3> QED BY <1>4, <1>5, <3>1, <3>2, <3>3 DEF LeavesPending
    <2>4. Answerable(reply[d])'
      BY <1>5, <2>1, <2>2 DEF Answerable, CallPublishes
    <2> QED BY <1>5, <2>1, <2>2, <2>3, <2>4 DEF CallPublishes
  <1> QED BY <1>2, <1>6, <1>7, <1>8 DEF PublishedInv

\* While no two calls carry out one operation, the revision that an update is
\* answered with is one that readers have been able to see: revise answers, for
\* itself or from the journal, of nothing that lost its race or was left pending.
THEOREM AckedUpdateIsPublishedHolds == ExclusiveTokens /\ Spec => []AckedUpdateIsPublished
  <1> SUFFICES ASSUME ExclusiveTokens PROVE Spec => []AckedUpdateIsPublished
    OBVIOUS
  <1>1. Init => PublishedInv
    <2> SUFFICES ASSUME Init PROVE PublishedInv
      OBVIOUS
    <2>1. \A t \in Token : journal[t].result.status = "none"
      BY DEF Init, NoRow, NoResult
    <2>2. \A c \in Call : pc[c] = "idle" /\ reply[c].status = "none"
      BY DEF Init
    <2> QED BY <2>1, <2>2, InitChained DEF PublishedInv, CallPublishes, Answerable
  <1>2. PublishedInv /\ [Next]_vars => PublishedInv'
    <2> SUFFICES ASSUME PublishedInv, [Next]_vars PROVE PublishedInv'
      OBVIOUS
    <2>1. CASE UNCHANGED vars
      <3>1. ChainInv'
        BY <2>1, NextChained DEF PublishedInv
      <3> QED BY <2>1, <3>1 DEF vars, PublishedInv, CallPublishes, Answerable, Known
    <2>2. CASE Next
      BY <2>2, StepPublished DEF Next
    <2> QED BY <2>1, <2>2
  <1>3. PublishedInv => AckedUpdateIsPublished
    BY DEF PublishedInv, CallPublishes, Answerable, AckedUpdateIsPublished
  <1> QED BY <1>1, <1>2, <1>3, PTL DEF Spec

----------------------------------------------------------------------------
(* What is acknowledged is the caller's own.                               *)

\* A call that still decides what to do finds no trace of its own request.
LEMMA NothingMatches ==
    ASSUME OwnInv, NEW c \in Call, Sole(c), pc[c] \in Deciding
    PROVE  ~Matched(c)
  <1> SUFFICES ASSUME NEW p \in PointId, point[p].op # None, SameRequest(c, p)
               PROVE  FALSE
    BY DEF Matched
  <1>1. PICK d \in Call : point[p].op \in OwnTokens(d) /\ pc[d] \in Own \cup Ended
    BY DEF OwnInv, Begun
  <1>2. TokenRequest[point[p].op] = RequestOf[d]
    BY <1>1, ConstantsAssumption DEF OwnTokens
  <1>3. c = d
    BY <1>2 DEF SameRequest, Sole
  <1> QED BY <1>1, <1>3 DEF Own, Ended, Deciding

LEMMA StepOwn ==
    ASSUME OwnInv, NEW c \in Call,
           Begin(c) \/ BeginSource(c) \/ Step(c) \/ Crash(c) \/ Fenced(c)
    PROVE  OwnInv'
  <1>1. TypedInv
    BY DEF OwnInv
  <1>2. TypedInv'
    BY <1>1, NextTyped DEF Next
  <1>3. Writes(c) /\ Comes(c) /\ Replies(c)
        /\ \A d \in Call : d # c => reply'[d] = reply[d]
    BY <1>1, StepWrites, StepComes
  <1>4. \A d \in Call : d # c => pc'[d] = pc[d] /\ loc'[d] = loc[d]
    BY <1>1, OnlyOneMoves
  <1>5. TypedCall(c) /\ (Sole(c) /\ pc[c] \in Deciding => ~Matched(c))
    BY LocalTyped, <1>1, NothingMatches
  <1>6. ASSUME NEW t, Begun(t)
        PROVE  \E d \in Call : t \in OwnTokens(d) /\ pc'[d] \in Own \cup Ended
    <2>1. PICK d \in Call : t \in OwnTokens(d) /\ pc[d] \in Own \cup Ended
      BY <1>6 DEF Begun
    <2>2. pc'[d] \in Own \cup Ended
      BY <1>3, <1>4, <2>1 DEF Comes
    <2> QED BY <2>1, <2>2
  <1>7. pc[c] \in Own => Begun(loc[c].tok)
    BY <1>5 DEF TypedCall, Begun
  <1>8. ASSUME NEW p \in PointId
        PROVE  /\ point'[p].op # None => \E d \in Call :
                      point'[p].op \in OwnTokens(d) /\ pc'[d] \in Own \cup Ended
               /\ point'[p].tok # None => \E d \in Call :
                      point'[p].tok \in OwnTokens(d) /\ pc'[d] \in Own \cup Ended
    <2>1. /\ point[p].op # None => Begun(point[p].op)
          /\ point[p].tok # None => Begun(point[p].tok)
          /\ pc[c] = "recover_retracted" => Begun(loc[c].mine)
      BY DEF OwnInv, Resolving
    <2>2. /\ point'[p].op # None => point'[p].op = point[p].op \/ Begun(point'[p].op)
          /\ point'[p].tok # None => point'[p].tok = point[p].tok \/ Begun(point'[p].tok)
      <3>1. pc[c] = "claim" => pc[c] \in Own
        BY DEF Own
      <3>2. \/ point'[p].op = point[p].op
            \/ pc[c] \in Own /\ point'[p].op = loc[c].tok
            \/ pc[c] = "recover_retracted" /\ point'[p].op = loc[c].mine
        BY <1>3 DEF Writes
      <3>3. \/ point'[p].tok = None
            \/ point'[p].tok = point[p].tok
            \/ pc[c] = "claim" /\ point'[p].tok = loc[c].tok
        BY <1>3 DEF Writes
      <3> QED BY <1>7, <2>1, <3>1, <3>2, <3>3
    <2>3. /\ point'[p].op # None => Begun(point'[p].op)
          /\ point'[p].tok # None => Begun(point'[p].tok)
      BY <2>1, <2>2
    <2> DEFINE o == point'[p].op
               t == point'[p].tok
    <2> HIDE DEF o, t
    <2>4. (o # None => Begun(o)) /\ (t # None => Begun(t))
      BY <2>3 DEF o, t
    <2> QED BY <1>6, <2>4 DEF o, t
  <1>9. ASSUME NEW d \in Call
        PROVE  /\ pc'[d] \in Resolving => \E x \in Call :
                      loc'[d].mine \in OwnTokens(x) /\ pc'[x] \in Own \cup Ended
               /\ Sole(d) =>
                     /\ pc'[d] \notin {"finish_predecessor", "finish_journal"}
                     /\ reply'[d].status = "updated" => reply'[d].id \in OwnTokens(d)
    <2>1. /\ pc[d] \in Resolving => Begun(loc[d].mine)
          /\ Sole(d) =>
                /\ pc[d] \notin {"finish_predecessor", "finish_journal"}
                /\ reply[d].status = "updated" => reply[d].id \in OwnTokens(d)
      BY DEF OwnInv, AnsweredForOwn
    <2>2. CASE d # c
      BY <1>3, <1>4, <1>6, <2>1, <2>2
    <2>3. CASE d = c
      <3>1. ASSUME pc'[c] \in Resolving PROVE Begun(loc'[c].mine)
        <4>1. CASE pc'[c] = "recover"
          <5>1. /\ loc'[c].from \in PointId /\ loc'[c].mine # None
                /\ loc'[c].mine = point[loc'[c].from].tok
            BY <1>3, <4>1 DEF Comes
          <5> QED BY <5>1 DEF OwnInv
        <4>2. CASE pc'[c] \in Resolving \ {"recover"}
          <5>1. loc'[c] = loc[c] /\ pc[c] \in Resolving
            BY <1>3, <4>2 DEF Comes
          <5> QED BY <2>1, <2>3, <5>1
        <4> QED BY <3>1, <4>1, <4>2
      <3>2. Sole(c) => pc'[c] \notin {"finish_predecessor", "finish_journal"}
        BY <1>3, <1>5, <2>1, <2>3 DEF Comes
      <3>3. Sole(c) /\ reply'[c].status = "updated" => reply'[c].id \in OwnTokens(c)
        <4>1. pc[c] = "commit" => loc[c].tok \in OwnTokens(c)
          BY <1>5 DEF TypedCall, Own
        <4> QED BY <1>3, <1>5, <2>1, <2>3, <4>1 DEF Replies
      <3> DEFINE m == loc'[c].mine
      <3> HIDE DEF m
      <3>4. pc'[c] \in Resolving => Begun(m)
        BY <3>1 DEF m
      <3>5. pc'[c] \in Resolving =>
               \E x \in Call : m \in OwnTokens(x) /\ pc'[x] \in Own \cup Ended
        BY <1>6, <3>4
      <3> QED BY <2>3, <3>2, <3>3, <3>5 DEF m
    <2> QED BY <2>2, <2>3
  <1> QED BY <1>2, <1>8, <1>9 DEF OwnInv, Begun, OwnTokens, AnsweredForOwn, Sole

LEMMA OwnInvariant == Spec => []OwnInv
  <1>1. Init => OwnInv
    <2> SUFFICES ASSUME Init PROVE OwnInv
      OBVIOUS
    <2>1. \A p \in PointId : point[p].tok = None /\ point[p].op = None
      BY DEF Init, AbsentPoint
    <2>2. \A c \in Call : pc[c] = "idle" /\ reply[c].status = "none"
      BY DEF Init
    <2> QED BY <2>1, <2>2, InitTyped DEF OwnInv, Resolving, AnsweredForOwn
  <1>2. OwnInv /\ [Next]_vars => OwnInv'
    <2> SUFFICES ASSUME OwnInv, [Next]_vars PROVE OwnInv'
      OBVIOUS
    <2>1. CASE UNCHANGED vars
      <3>1. TypedInv'
        BY <2>1, NextTyped DEF OwnInv
      <3> QED BY <2>1, <3>1 DEF vars, OwnInv, Begun, OwnTokens, AnsweredForOwn, Sole
    <2>2. CASE Next
      BY <2>2, StepOwn DEF Next
    <2> QED BY <2>1, <2>2
  <1> QED BY <1>1, <1>2, PTL DEF Spec

\* A call whose request nobody else makes is answered "updated" only for a
\* revision made for it, never for another caller's, whatever the other calls
\* repeat under one key or several: neither a recovery on the way nor the replay
\* check of mnemory/revisions.py mistakes one operation for another.
THEOREM SoleRequestIsAnswered ==
    Spec => [](\A c \in Call : Sole(c) => AnsweredForOwn(c))
  <1>1. OwnInv => \A c \in Call : Sole(c) => AnsweredForOwn(c)
    BY DEF OwnInv
  <1> QED BY <1>1, OwnInvariant, PTL

\* ... and while no two calls make one request, that goes for every call.
THEOREM AckedUpdateIsOwnHolds == OneRequestEach /\ Spec => []AckedUpdateIsOwn
  <1> SUFFICES ASSUME OneRequestEach PROVE Spec => []AckedUpdateIsOwn
    OBVIOUS
  <1>1. OwnInv => AckedUpdateIsOwn
    <2> SUFFICES ASSUME OwnInv, NEW c \in Call, reply[c].status = "updated"
                 PROVE  reply[c].id \in Token /\ TokenRequest[reply[c].id] = RequestOf[c]
      BY DEF AckedUpdateIsOwn
    <2>1. reply[c].id \in OwnTokens(c)
      BY DEF OwnInv, OneRequestEach, AnsweredForOwn
    <2> QED BY <2>1, ConstantsAssumption DEF OwnTokens
  <1> QED BY <1>1, OwnInvariant, PTL

=============================================================================
