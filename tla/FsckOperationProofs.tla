-------------------------- MODULE FsckOperationProofs --------------------------
(***************************************************************************)
(* Theorems about FsckOperation, for every value of its constants: any     *)
(* issue, any number of appliers and operators, any lease.                 *)
(*                                                                         *)
(* Three invariants build on each other.  TypedInv says which local fields *)
(* are set where an applier stands, TruthInv that no checkpoint claims an  *)
(* effect that is not there, and OneApplierInv, for a row that was created *)
(* once, that the applier that has claimed the row is the only one that    *)
(* ever carries out an action, and how far its row lags behind it.         *)
(***************************************************************************)
EXTENDS FsckOperation, TLAPS, WellFoundedInduction

Caller == Applier \cup Operator

Rows == [status : Status, owner : Applier \cup {None}, expires : Int,
         attempts : Int, boxes : [Action -> Box] \cup {<<>>},
         stamp : Caller \cup {None},
         reason : {None, "target_changed", "reevaluated"}]

Changes == {None, "committed", "skipped", "superseded", "failed"}
Resume == {"check_targets", "next_action", "act"}
Local == [seen : Rows, now : Int, boxes : [Action -> Box] \cup {<<>>},
          todo : SUBSET Action, at : Int, change : Changes,
          then : {None} \cup Resume \cup Answers, wrote : BOOLEAN,
          claimed : BOOLEAN, failing : BOOLEAN]

Points == {"idle", "look_again", "read_row", "create", "exhaust", "exhausted",
           "try_claim", "claim", "claimed", "save", "verify", "check_targets",
           "next_action", "renew", "renewed", "act", "complete", "raise",
           "fail_unclaimed", "terminalize", "terminalized", "done"}
Prepared == Points \ {"idle", "look_again", "terminalize", "terminalized", "done"}
Saving == {"save", "verify"}
Holding == Saving \cup {"check_targets", "next_action", "renew", "renewed",
                        "act", "complete"}

Settled(box) == box.status \in {"committed", "skipped"}
AllSettled(boxes) ==
    /\ \A a \in Action : Settled(boxes[a])
    /\ \E a \in Action : boxes[a].status = "committed"

\* A row that exists has a checkpoint for each action.
RowTyped == row = NoRow \/ (row.status # "none" /\ row.boxes \in [Action -> Box])

\* What an applier at `p` with the local fields `l` is on its way to.
Stage(p, l) == IF p \in Saving THEN l.then ELSE p

\* The local fields that are set where an applier stands.
CallTyped(p, l) ==
    /\ p \in Prepared => l.boxes \in [Action -> Box]
    /\ p \in Holding => l.claimed
    /\ l.claimed => p \in Holding \cup {"raise"}
    /\ l.failing => p \in Saving
    /\ Stage(p, l) \in {"renew", "renewed", "act"} =>
         l.at \in Action \ l.todo /\ ~Settled(l.boxes[l.at])
    /\ Stage(p, l) = "act" => l.boxes[l.at].status = "applying"
    /\ Stage(p, l) \in {"next_action", "renew", "renewed", "act"} =>
         \A a \in l.todo : ~Settled(l.boxes[a])
    /\ p \in Saving =>
         /\ l.then \in Resume \cup {"skipped", "applied", "failed"}
         /\ l.change = None <=> l.then \in Resume
         /\ l.failing <=> l.change = "failed"
         /\ l.change = "committed" => AllSettled(l.boxes)
         /\ l.change = "skipped" => \A a \in Action : l.boxes[a].status = "skipped"

SharedTyped ==
    /\ issue \in Issue
    /\ target \in [Action -> {"expected", "changed", "done", "missing"}]
    /\ sub \in [Action -> {"none", "open", "committed"}]
    /\ row \in Rows /\ RowTyped
    /\ now \in Int /\ created \in Nat

TypedInv ==
    /\ SharedTyped
    /\ pc \in [Caller -> Points] /\ loc \in [Caller -> Local]
    /\ \A w \in Applier : CallTyped(pc[w], loc[w])

\* No checkpoint tells of an effect that is not there.
True(boxes) == \A a \in Action : boxes[a].status = "committed" => target[a] = "done"

TruthInv ==
    /\ \A a \in Action : sub[a] = "committed" => target[a] = "done"
    /\ \A w \in Applier : pc[w] \in Prepared => True(loc[w].boxes)
    /\ row # NoRow => True(row.boxes)
    /\ row.status = "committed" => AllSettled(row.boxes)

Untouched == \A a \in Action : target[a] # "done"

\* An applier that has the claim and that no error has stopped.
Working(p, l) ==
    \/ p \in Holding \ Saving
    \/ p = "save" /\ ~l.failing
    \/ p = "verify" /\ l.then \in Resume

\* It has not come to the actions, or has found nothing of them to do.
Idle(p, l) ==
    \/ Stage(p, l) = "check_targets"
    \/ p = "save" /\ l.change \in {"superseded", "skipped"}

\* The row has what the applier knows, but for what it is about to write.
InStep(p, l) == p = "save" \/ (p = "verify" /\ ~l.wrote) \/ row.boxes = l.boxes

Coming == {"idle", "look_again", "read_row", "create", "exhaust", "exhausted",
           "try_claim", "claim"}

Phase(w, p, l) ==
    /\ p \in Coming => row.owner # w
    /\ l.claimed => row.owner = w
    /\ p = "claimed" /\ row.owner = w => Untouched
    /\ Working(p, l) =>
         /\ row.status = "applying"
         /\ \A a \in Action : target[a] = "done" => l.boxes[a].status = "committed"
         /\ Idle(p, l) => Untouched
         /\ InStep(p, l)

Early == {"idle", "look_again", "read_row", "create", "raise",
          "fail_unclaimed", "done"}

NotCreated ==
    /\ row = NoRow
    /\ \A w \in Applier : /\ pc[w] \in Early /\ ~loc[w].claimed
                          /\ pc[w] = "create" => loc[w].seen = NoRow

RowPhase ==
    /\ row.status = "planned" => row.owner = None
    /\ row.owner = None \/ row.status = "skipped" => Untouched
    /\ row.reason = "target_changed" => row.status = "superseded" /\ Untouched
    /\ row.status = "applying" =>
         \A a \in Action : row.boxes[a].status = "pending" => target[a] # "done"

OneApplierInv ==
    /\ created = 0 => NotCreated
    /\ OneCreator => RowPhase /\ \A w \in Applier : Phase(w, pc[w], loc[w])

----------------------------------------------------------------------------
(* Numbers, and the order of the actions.                                  *)

Precedes == {ss \in Nat \X Nat : ss[1] < ss[2]}

\* A set of numbers that is not empty has a least one.
LEMMA LeastNumber ==
    ASSUME NEW S, S \subseteq Nat, S # {}
    PROVE  \E m \in S : \A k \in S : m <= k
  <1>1. IsWellFoundedOn(Precedes, Nat)
    BY NatLessThanWellFounded DEF OpToRel, Precedes
  <1>2. PICK m \in S : \A k \in S : <<k, m>> \notin Precedes
    BY <1>1, WFMin
  <1>3. ASSUME NEW j \in Nat, NEW k \in Nat, k < j PROVE <<k, j>> \in Precedes
    <2>1. <<k, j>> \in Nat \X Nat /\ <<k, j>>[1] = k /\ <<k, j>>[2] = j
      OBVIOUS
    <2> QED BY <1>3, <2>1 DEF Precedes
  <1>4. ASSUME NEW k \in S PROVE m <= k
    <2>1. ~(k < m)
      BY <1>2, <1>3
    <2> QED BY <2>1
  <1> QED BY <1>4

\* Actions that are left have a first one, sources before the others.
LEMMA EarliestIsOne ==
    ASSUME issue \in Issue, NEW S \in SUBSET Action, S # {}
    PROVE  Earliest(S) \in S
  <1>1. Action \subseteq Nat
    BY ConstantsAssumption DEF Action
  <1>2. ASSUME NEW a \in S, \A b \in S \ {a} : Before(a, b)
        PROVE  Earliest(S) \in S
    BY <1>2 DEF Earliest
  <1> DEFINE Sources == {a \in S : Kind(a) = "source"}
  <1>3. CASE Sources = {}
    <2>1. PICK a \in S : \A b \in S : a <= b
      BY <1>1, LeastNumber
    <2>2. \A b \in S \ {a} : Before(a, b)
      BY <1>1, <1>3, <2>1 DEF Before
    <2> QED BY <1>2, <2>2
  <1>4. CASE Sources # {}
    <2>1. PICK a \in Sources : \A b \in Sources : a <= b
      BY <1>1, <1>4, LeastNumber
    <2>2. \A b \in S \ {a} : Before(a, b)
      BY <1>1, <2>1 DEF Before
    <2> QED BY <1>2, <2>1, <2>2
  <1> QED BY <1>3, <1>4

----------------------------------------------------------------------------
(* Types.                                                                  *)

\* A step of an applier that keeps the issue, the types of what is shared and
\* what its own place asks of its local fields keeps TypedInv.
LEMMA MoveTyped ==
    ASSUME TypedInv, NEW w \in Caller, NEW p \in Points, NEW l \in Local,
           pc' = [pc EXCEPT ![w] = p], loc' = [loc EXCEPT ![w] = l],
           issue' = issue, SharedTyped',
           w \in Applier => CallTyped(p, l)
    PROVE  TypedInv'
  <1>1. Action' = Action
    BY DEF Action
  <1>2. Rows' = Rows
    BY <1>1 DEF Rows
  <1>3. Local' = Local
    BY <1>1, <1>2 DEF Local
  <1>4. pc' \in [Caller -> Points] /\ loc' \in [Caller -> Local]
    BY DEF TypedInv
  <1>5. ASSUME NEW v \in Applier PROVE CallTyped(pc[v], loc[v])'
    <2>1. CallTyped(pc'[v], loc'[v])
      BY DEF TypedInv, Caller
    <2> QED BY <1>1, <2>1 DEF CallTyped, Stage, AllSettled
  <1> QED BY <1>3, <1>4, <1>5 DEF TypedInv

\* What the environment does to the targets and the clock keeps TypedInv.
LEMMA OthersTyped ==
    ASSUME TypedInv, UNCHANGED <<pc, loc, issue>>, SharedTyped'
    PROVE  TypedInv'
  <1>1. Action' = Action
    BY DEF Action
  <1>2. Rows' = Rows
    BY <1>1 DEF Rows
  <1>3. Local' = Local
    BY <1>1, <1>2 DEF Local
  <1>4. ASSUME NEW v \in Applier PROVE CallTyped(pc[v], loc[v])'
    BY <1>1, <1>4 DEF TypedInv, CallTyped, Stage, AllSettled
  <1> QED BY <1>3, <1>4 DEF TypedInv

LEMMA NoLocalTyped == NoLocal \in Local /\ NoRow \in Rows
  BY DEF NoLocal, Local, NoRow, Rows, Status, Changes

\* What the side effects tell of a checkpoint is a checkpoint.
LEMMA ResolvedTyped ==
    ASSUME NEW boxes \in [Action -> Box]
    PROVE  Resolved(boxes) \in [Action -> Box]
  <1>1. ASSUME NEW a \in Action PROVE ResolveBox(a, boxes[a]) \in Box
    BY DEF ResolveBox, OperationOf, Box, BoxStatus
  <1> QED BY <1>1 DEF Resolved

\* Steps that change no more than the place and the local fields of a caller.
LEMMA SharedStays ==
    ASSUME TypedInv, UNCHANGED <<target, sub, row, issue, now, created>>
    PROVE  SharedTyped'
  <1>1. Action' = Action
    BY DEF Action
  <1>2. Rows' = Rows
    BY <1>1 DEF Rows
  <1> QED BY <1>1, <1>2 DEF TypedInv, SharedTyped, RowTyped

LEMMA LooksTyped ==
    ASSUME TypedInv, NEW w \in Applier,
           Look(w) \/ LookAgain(w) \/ ReadRow(w) \/ Exhausted(w)
           \/ TryClaim(w) \/ Claimed(w) \/ Verify(w)
    PROVE  TypedInv'
  <1> DEFINE L == loc[w]
  <1>1. L \in Local /\ CallTyped(pc[w], L) /\ w \in Caller /\ row \in Rows /\ RowTyped
        /\ now \in Int
    BY DEF TypedInv, Caller, SharedTyped
  <1>2. SharedTyped' /\ issue' = issue
    BY SharedStays DEF Look, LookAgain, ReadRow, Exhausted, TryClaim, Claimed,
       Verify, Others
  <1>3. ASSUME NEW p \in Points, NEW l \in Local, CallTyped(p, l), Goto(w, p, l)
        PROVE  TypedInv'
    BY <1>1, <1>2, <1>3, MoveTyped DEF Goto
  <1>4. ASSUME NEW status, Answer(w, status) PROVE TypedInv'
    <2>1. CallTyped("done", NoLocal)
      BY DEF CallTyped, NoLocal, Stage, Prepared, Holding, Saving
    <2> QED BY <1>1, <1>2, <1>4, <2>1, NoLocalTyped, MoveTyped DEF Answer, Points
  <1>5. CASE Look(w)
    <2>1. CallTyped("look_again", NoLocal)
      BY DEF CallTyped, NoLocal, Stage, Prepared, Holding, Saving, Points
    <2> QED BY <1>3, <1>4, <1>5, <2>1, NoLocalTyped DEF Look, Points
  <1>6. CASE LookAgain(w)
    <2> DEFINE boxes == IF row = NoRow THEN [a \in Action |-> Pending] ELSE row.boxes
               l == [L EXCEPT !.boxes = boxes]
    <2>1. boxes \in [Action -> Box]
      BY <1>1 DEF RowTyped, Pending, Box, BoxStatus
    <2>2. l \in Local
      BY <1>1, <2>1 DEF Local
    <2>3. ASSUME NEW p \in {"read_row", "exhaust", "try_claim"}
          PROVE  CallTyped(p, l) /\ p \in Points
      BY <1>1, <1>6, <2>1 DEF LookAgain, CallTyped, Local, Stage, Prepared,
         Holding, Saving, Points
    <2>4. \/ \E p \in {"read_row", "exhaust", "try_claim"} : Goto(w, p, l)
          \/ \E status \in Answers : Answer(w, status)
      BY <1>6 DEF LookAgain, Answers
    <2> QED BY <1>3, <1>4, <2>2, <2>3, <2>4
  <1>7. CASE ReadRow(w)
    <2>1. [L EXCEPT !.seen = row] \in Local
      BY <1>1 DEF Local
    <2>2. CallTyped("create", [L EXCEPT !.seen = row])
      BY <1>1, <1>7 DEF ReadRow, CallTyped, Local, Stage, Prepared, Holding,
         Saving, Points
    <2> QED BY <1>3, <1>7, <2>1, <2>2 DEF ReadRow, Points
  <1>8. CASE Exhausted(w)
    BY <1>4, <1>8 DEF Exhausted
  <1>9. CASE TryClaim(w)
    <2> DEFINE l == [L EXCEPT !.now = now, !.seen = row]
    <2>1. l \in Local
      BY <1>1 DEF Local
    <2>2. CallTyped("claim", l)
      BY <1>1, <1>9 DEF TryClaim, CallTyped, Local, Stage, Prepared, Holding,
         Saving, Points
    <2> QED BY <1>3, <1>4, <1>9, <2>1, <2>2 DEF TryClaim, Points
  <1>10. CASE Claimed(w)
    <2> DEFINE l == [[L EXCEPT !.claimed = TRUE] EXCEPT
                       !.boxes = Resolved(L.boxes), !.change = None,
                       !.then = "check_targets"]
    <2>1. L.boxes \in [Action -> Box]
      BY <1>1, <1>10 DEF Claimed, CallTyped, Prepared, Points
    <2>2. l \in Local
      BY <1>1, <2>1, ResolvedTyped DEF Local, Changes, Resume
    <2>3. CallTyped("save", l)
      BY <1>1, <1>10, <2>1, ResolvedTyped, NoneAssumption DEF Claimed, CallTyped, Local,
         Stage, Prepared, Holding, Saving, Points, Resume, Status, Terminal
    <2>4. Goto(w, "save", l) \/ Answer(w, "skipped")
      BY <1>10 DEF Claimed, Save
    <2> QED BY <1>3, <1>4, <2>2, <2>3, <2>4 DEF Points
  <1>11. CASE Verify(w)
    <2> DEFINE l == [L EXCEPT !.change = None, !.then = None, !.wrote = FALSE]
    <2>1. l \in Local
      BY <1>1 DEF Local, Changes
    <2>2. CASE ~L.failing /\ L.then \in Resume
      <3>1. CallTyped(L.then, l)
        BY <1>1, <1>11, <2>2 DEF Verify, CallTyped, Local, Stage, Prepared,
           Holding, Saving, Points, Resume
      <3>2. L.then \in Points /\ L.then \notin Answers
        BY <2>2 DEF Resume, Points, Answers
      <3>3. CallTyped("raise", L)
        BY <1>1, <1>11, <2>2 DEF Verify, CallTyped, Local, Stage, Prepared,
           Holding, Saving, Points, Resume
      <3>4. Goto(w, "raise", L) \/ Goto(w, L.then, l)
        BY <1>11, <2>2, <3>2 DEF Verify
      <3> QED BY <1>1, <1>3, <2>1, <3>1, <3>2, <3>3, <3>4 DEF Points
    <2>3. CASE ~(~L.failing /\ L.then \in Resume)
      <3>1. CallTyped("raise", L) \/ L.failing
        BY <1>1, <1>11, <2>3 DEF Verify, CallTyped, Local, Stage, Prepared,
           Holding, Saving, Points, Resume
      <3>2. L.failing \/ L.then \in Answers
        BY <1>1, <1>11, <2>3 DEF Verify, CallTyped, Saving, Resume, Answers
      <3>3. (Goto(w, "raise", L) /\ ~L.failing) \/ \E status \in Answers : Answer(w, status)
        BY <1>11, <3>2 DEF Verify, Answers
      <3> QED BY <1>1, <1>3, <1>4, <3>1, <3>3 DEF Points
    <2> QED BY <2>2, <2>3
  <1> QED BY <1>5, <1>6, <1>7, <1>8, <1>9, <1>10, <1>11

\* One checkpoint is marked, the others stay.
LEMMA MarkedTyped ==
    ASSUME NEW boxes \in [Action -> Box], NEW a \in Action, NEW status \in BoxStatus
    PROVE  LET marked == [boxes EXCEPT ![a].status = status] IN
           /\ marked \in [Action -> Box] /\ marked[a].status = status
           /\ \A b \in Action \ {a} : marked[b] = boxes[b]
  BY DEF Box

\* The actions that write local fields only.
LEMMA PlanTyped ==
    ASSUME TypedInv, NEW w \in Applier,
           CheckTargets(w) \/ NextAction(w) \/ Renewed(w) \/ Complete(w) \/ Raise(w)
    PROVE  TypedInv'
  <1> DEFINE L == loc[w]
  <1>1. /\ L \in Local /\ CallTyped(pc[w], L) /\ w \in Caller
        /\ issue \in Issue /\ pc[w] \in Prepared /\ L.boxes \in [Action -> Box]
    BY DEF TypedInv, Caller, SharedTyped, CheckTargets, NextAction, Renewed,
       Complete, Raise, CallTyped, Prepared, Points
  <1>2. SharedTyped' /\ issue' = issue
    BY SharedStays DEF CheckTargets, NextAction, Renewed, Complete, Raise, Others
  <1>3. ASSUME NEW p \in Points, NEW l \in Local, CallTyped(p, l), Goto(w, p, l)
        PROVE  TypedInv'
    BY <1>1, <1>2, <1>3, MoveTyped DEF Goto
  <1> DEFINE Saved2(l, boxes, status, then) ==
               [l EXCEPT !.boxes = boxes, !.change = status, !.then = then]
  <1>4. ASSUME NEW l \in Local, NEW boxes \in [Action -> Box],
               NEW status \in Changes, NEW then \in Resume \cup Answers
        PROVE  Saved2(l, boxes, status, then) \in Local
    BY DEF Local
  <1>5. CASE CheckTargets(w)
    <2> DEFINE open == {a \in Action : L.boxes[a].status \notin {"committed", "skipped"}}
               l == [L EXCEPT !.todo = open]
    <2>1. Goto(w, "next_action", l) \/ Save(w, L, L.boxes, "superseded", "skipped")
      BY <1>5 DEF CheckTargets
    <2>2. l \in Local
      BY <1>1 DEF Local
    <2>3. CallTyped("next_action", l)
      BY <1>1, <1>5 DEF CheckTargets, CallTyped, Local, Stage, Prepared,
         Holding, Saving, Points, Settled
    <2>4. CallTyped("save", Saved2(L, L.boxes, "superseded", "skipped"))
      BY <1>1, <1>5, NoneAssumption DEF CheckTargets, CallTyped, Local, Stage, Prepared,
         Holding, Saving, Points, Resume, Status, Terminal
    <2> QED BY <1>1, <1>3, <1>4, <2>1, <2>2, <2>3, <2>4 DEF Save, Points, Changes, Answers
  <1>6. CASE NextAction(w)
    <2> DEFINE a == Earliest(L.todo)
               rest == [L EXCEPT !.todo = @ \ {a},
                                 !.at = IF issue.artifacts THEN -1 ELSE 0]
               boxes == [L.boxes EXCEPT ![a].status = "skipped"]
    <2>1. \/ L.todo = {} /\ Goto(w, "complete", [L EXCEPT !.at = 0])
          \/ L.todo # {} /\ Save(w, rest, boxes, None, "next_action")
          \/ L.todo # {} /\ Goto(w, "renew", [L EXCEPT !.at = a, !.todo = @ \ {a}])
      BY <1>6 DEF NextAction
    <2>2. CASE L.todo = {} /\ Goto(w, "complete", [L EXCEPT !.at = 0])
      <3>1. [L EXCEPT !.at = 0] \in Local
        BY <1>1 DEF Local
      <3>2. CallTyped("complete", [L EXCEPT !.at = 0])
        BY <1>1, <1>6 DEF NextAction, CallTyped, Local, Stage, Prepared,
           Holding, Saving, Points
      <3> QED BY <1>3, <2>2, <3>1, <3>2 DEF Points
    <2>3. ASSUME L.todo # {}
          PROVE  a \in L.todo /\ a \in Action /\ Action \subseteq Int
      <3>1. L.todo \in SUBSET Action
        BY <1>1 DEF Local
      <3>2. Action \subseteq Int
        BY <1>1, ConstantsAssumption DEF Action
      <3> QED BY <1>1, <2>3, <3>1, <3>2, EarliestIsOne
    <2>4. CASE L.todo # {} /\ Save(w, rest, boxes, None, "next_action")
      <3>1. /\ rest \in Local /\ boxes \in [Action -> Box]
            /\ \A b \in Action \ {a} : boxes[b] = L.boxes[b]
        <4>1. "skipped" \in BoxStatus
          BY DEF BoxStatus
        <4>2. boxes \in [Action -> Box] /\ \A b \in Action \ {a} : boxes[b] = L.boxes[b]
          BY <1>1, <2>3, <2>4, <4>1, MarkedTyped
        <4>3. rest \in Local
          <5> DEFINE k == [L EXCEPT !.todo = @ \ {a}]
          <5>1. k \in Local
            BY <1>1 DEF Local
          <5>2. rest = [k EXCEPT !.at = IF issue.artifacts THEN -1 ELSE 0]
            OBVIOUS
          <5> HIDE DEF k, rest
          <5> QED BY <5>1, <5>2 DEF Local
        <4> QED BY <4>2, <4>3
      <3> DEFINE m == Saved2(rest, boxes, None, "next_action")
      <3>3. /\ m.boxes = boxes /\ m.todo = L.todo \ {a} /\ m.then = "next_action"
            /\ m.change = None /\ m.claimed /\ ~m.failing
        BY <1>1, <1>6, <3>1 DEF Local, NextAction, CallTyped, Holding, Saving
      <3>4. \A b \in L.todo : ~Settled(L.boxes[b]) /\ b \in Action
        BY <1>1, <1>6 DEF NextAction, CallTyped, Stage, Saving, Local
      <3> HIDE DEF boxes, a, m
      <3>2. CallTyped("save", m)
        BY <3>1, <3>3, <3>4, NoneAssumption DEF CallTyped, Stage, Holding, Saving,
           Resume, Status, Terminal, Settled
      <3> USE DEF m
      <3> QED BY <1>3, <1>4, <2>4, <3>1, <3>2 DEF Save, Points, Changes, Resume
    <2>5. CASE L.todo # {} /\ Goto(w, "renew", [L EXCEPT !.at = a, !.todo = @ \ {a}])
      <3>1. [L EXCEPT !.at = a, !.todo = @ \ {a}] \in Local
        BY <1>1, <2>3, <2>5 DEF Local
      <3>2. CallTyped("renew", [L EXCEPT !.at = a, !.todo = @ \ {a}])
        BY <1>1, <1>6, <2>3, <2>5 DEF NextAction, CallTyped, Local, Stage,
           Prepared, Holding, Saving, Points
      <3> QED BY <1>3, <2>5, <3>1, <3>2 DEF Points
    <2> QED BY <2>1, <2>2, <2>4, <2>5
  <1>7. CASE Renewed(w)
    <2> DEFINE l == [L EXCEPT !.wrote = FALSE, !.now = 0]
               boxes == [L.boxes EXCEPT ![L.at].status = "applying"]
    <2>1. /\ l \in Local /\ boxes \in [Action -> Box] /\ L.at \in Action
          /\ \A b \in Action \ {L.at} : boxes[b] = L.boxes[b]
          /\ boxes[L.at].status = "applying"
      <3>1. "applying" \in BoxStatus
        BY DEF BoxStatus
      <3>2. L.at \in Action
        BY <1>1, <1>7 DEF Renewed, CallTyped, Stage, Saving
      <3>3. /\ boxes \in [Action -> Box] /\ boxes[L.at].status = "applying"
            /\ \A b \in Action \ {L.at} : boxes[b] = L.boxes[b]
        BY <1>1, <3>1, <3>2, MarkedTyped
      <3>4. l \in Local
        <4> DEFINE k == [L EXCEPT !.wrote = FALSE]
        <4>1. k \in Local
          BY <1>1 DEF Local
        <4>2. l = [k EXCEPT !.now = 0]
          OBVIOUS
        <4> HIDE DEF k, l
        <4> QED BY <4>1, <4>2 DEF Local
      <3> QED BY <3>2, <3>3, <3>4
    <2>2. CallTyped("raise", l)
      BY <1>1, <1>7 DEF Renewed, CallTyped, Local, Stage, Prepared, Holding,
         Saving, Points
    <2> DEFINE m == Saved2(l, boxes, None, "act")
    <2>5. /\ m.boxes = boxes /\ m.todo = L.todo /\ m.then = "act" /\ m.at = L.at
          /\ m.change = None /\ m.claimed /\ ~m.failing
      BY <1>1, <1>7, <2>1 DEF Local, Renewed, CallTyped, Holding, Saving
    <2>6. L.at \notin L.todo /\ \A b \in L.todo : ~Settled(L.boxes[b]) /\ b \in Action
      BY <1>1, <1>7 DEF Renewed, CallTyped, Stage, Saving, Local
    <2> HIDE DEF boxes, m
    <2>3. CallTyped("save", m)
      BY <2>1, <2>5, <2>6, NoneAssumption DEF CallTyped, Stage, Holding, Saving,
         Resume, Status, Terminal, Settled
    <2> USE DEF m
    <2>4. Goto(w, "raise", l) \/ Save(w, l, boxes, None, "act")
      BY <1>7 DEF Renewed, boxes
    <2> QED BY <1>3, <1>4, <2>1, <2>2, <2>3, <2>4 DEF Save, Points, Changes, Resume
  <1>8. CASE Complete(w)
    <2> DEFINE boxes == Resolved(L.boxes)
               with(s) == {a \in Action : boxes[a].status = s}
    <2>1. boxes \in [Action -> Box]
      BY <1>1, ResolvedTyped
    <2> HIDE DEF boxes
    <2>2. CallTyped("raise", L)
      BY <1>1, <1>8 DEF Complete, CallTyped, Stage, Prepared, Holding, Saving, Points
    <2>3. \/ Goto(w, "raise", L)
          \/ /\ with("committed") \cup with("skipped") = Action
             /\ with("committed") # {} /\ Save(w, L, boxes, "committed", "applied")
          \/ /\ with("committed") \cup with("skipped") = Action
             /\ with("committed") = {} /\ Save(w, L, boxes, "skipped", "skipped")
      BY <1>8 DEF Complete, boxes
    <2>4. ASSUME with("committed") \cup with("skipped") = Action, with("committed") # {}
          PROVE  CallTyped("save", Saved2(L, boxes, "committed", "applied"))
      <3>1. AllSettled(boxes)
        BY <2>4 DEF AllSettled, Settled
      <3> QED
        BY <1>1, <1>8, <2>1, <3>1, NoneAssumption DEF Complete, CallTyped, Local,
           Stage, Prepared, Holding, Saving, Points, Resume, Status, Terminal
    <2>5. ASSUME with("committed") \cup with("skipped") = Action, with("committed") = {}
          PROVE  CallTyped("save", Saved2(L, boxes, "skipped", "skipped"))
      <3>1. \A a \in Action : boxes[a].status = "skipped"
        BY <2>5
      <3> QED
        BY <1>1, <1>8, <2>1, <3>1, NoneAssumption DEF Complete, CallTyped, Local,
           Stage, Prepared, Holding, Saving, Points, Resume, Status, Terminal
    <2> QED BY <1>1, <1>3, <1>4, <2>1, <2>2, <2>3, <2>4, <2>5 DEF Save, Points, Changes, Answers
  <1>9. CASE Raise(w)
    <2> DEFINE boxes == Resolved(L.boxes)
               failed == [L EXCEPT !.failing = TRUE]
               l == [L EXCEPT !.boxes = boxes]
    <2>1. boxes \in [Action -> Box]
      BY <1>1, ResolvedTyped
    <2> HIDE DEF boxes
    <2>2. failed \in Local /\ l \in Local
      BY <1>1, <2>1 DEF Local
    <2>3. L.claimed => CallTyped("save", Saved2(failed, boxes, "failed", "failed"))
      BY <1>1, <1>9, <2>1, NoneAssumption DEF Raise, CallTyped, Local, Stage,
         Prepared, Holding, Saving, Points, Resume, Status, Terminal
    <2>4. ~L.claimed => CallTyped("fail_unclaimed", l)
      BY <1>1, <1>9, <2>1 DEF Raise, CallTyped, Local, Stage, Prepared, Holding,
         Saving, Points
    <2>5. \/ L.claimed /\ Save(w, failed, boxes, "failed", "failed")
          \/ ~L.claimed /\ Goto(w, "fail_unclaimed", l)
      BY <1>9 DEF Raise, boxes
    <2> QED BY <1>3, <1>4, <2>1, <2>2, <2>3, <2>4, <2>5 DEF Save, Points, Changes, Answers
  <1> QED BY <1>5, <1>6, <1>7, <1>8, <1>9

\* The writes of the row give it the fields they name.
LEMMA RowWrites ==
    ASSUME NEW r \in Rows, NEW status \in Status, NEW boxes \in [Action -> Box],
           NEW stamp \in Caller, NEW until \in Int, NEW n \in Int,
           NEW owner \in Applier,
           NEW reason \in {None, "target_changed", "reevaluated"}
    PROVE  /\ [r EXCEPT !.status = status, !.stamp = stamp] \in Rows
           /\ [r EXCEPT !.status = status, !.boxes = boxes, !.stamp = stamp] \in Rows
           /\ [r EXCEPT !.boxes = boxes, !.stamp = stamp, !.status = status,
                        !.reason = reason] \in Rows
           /\ [r EXCEPT !.status = status, !.stamp = stamp, !.reason = reason] \in Rows
           /\ [r EXCEPT !.expires = until, !.stamp = stamp] \in Rows
           /\ [r EXCEPT !.status = status, !.owner = owner, !.expires = until,
                        !.attempts = n] \in Rows
  <1>1. [r EXCEPT !.status = status] \in Rows
    BY DEF Rows
  <1>2. [r EXCEPT !.status = status, !.stamp = stamp] \in Rows
    BY DEF Rows
  <1>3. [r EXCEPT !.status = status, !.boxes = boxes, !.stamp = stamp] \in Rows
    BY DEF Rows
  <1>4. [r EXCEPT !.boxes = boxes, !.stamp = stamp, !.status = status,
                  !.reason = reason] \in Rows
    BY DEF Rows
  <1>5. [r EXCEPT !.status = status, !.stamp = stamp, !.reason = reason] \in Rows
    BY DEF Rows
  <1>6. [r EXCEPT !.expires = until, !.stamp = stamp] \in Rows
    BY DEF Rows
  <1>7. [r EXCEPT !.status = status, !.owner = owner, !.expires = until,
                  !.attempts = n] \in Rows
    BY DEF Rows
  <1> QED BY <1>2, <1>3, <1>4, <1>5, <1>6, <1>7

\* A row that is written has a status and its checkpoints.
LEMMA RowStepTyped ==
    ASSUME TypedInv, UNCHANGED <<target, sub, issue, now>>, created' \in Nat,
           \/ row' = row
           \/ row' \in Rows /\ row'.status # "none" /\ row'.boxes \in [Action -> Box]
    PROVE  SharedTyped'
  <1>1. Action' = Action
    BY DEF Action
  <1>2. Rows' = Rows
    BY <1>1 DEF Rows
  <1> QED BY <1>1, <1>2 DEF TypedInv, SharedTyped, RowTyped

\* The actions of an applier that write the row.
LEMMA WritesTyped ==
    ASSUME TypedInv, NEW w \in Applier,
           Create(w) \/ Exhaust(w) \/ Claim(w) \/ Saved(w) \/ Renew(w)
           \/ FailUnclaimed(w)
    PROVE  TypedInv'
  <1> DEFINE L == loc[w]
  <1>1. /\ L \in Local /\ CallTyped(pc[w], L) /\ w \in Caller
        /\ row \in Rows /\ RowTyped /\ now \in Int /\ created \in Nat
        /\ pc[w] \in Prepared /\ L.boxes \in [Action -> Box]
        /\ L.seen \in Rows /\ L.now \in Int /\ Lease \in Int
    BY ConstantsAssumption DEF TypedInv, Caller, SharedTyped, Create, Exhaust,
       Claim, Saved, Renew, FailUnclaimed, CallTyped, Prepared, Points, Local
  <1>2. UNCHANGED <<target, sub, issue, now>> /\ created' \in Nat
    BY <1>1 DEF Create, Exhaust, Claim, Saved, Renew, FailUnclaimed, Others
  <1>3. ASSUME NEW p \in Points, NEW l \in Local, CallTyped(p, l), Goto(w, p, l),
               SharedTyped'
        PROVE  TypedInv'
    BY <1>1, <1>2, <1>3, MoveTyped DEF Goto
  <1>4. {"planned", "failed", "applying"} \cup Changes \subseteq Status \cup {None}
    BY DEF Status, Terminal, Changes
  <1>5. CASE Create(w)
    <2> DEFINE l == [L EXCEPT !.seen = NoRow]
    <2>1. row' = [L.seen EXCEPT !.status = "planned", !.boxes = L.boxes, !.stamp = w]
      BY <1>5 DEF Create
    <2>2. row' \in Rows /\ row'.status = "planned" /\ row'.boxes = L.boxes
      <3>1. "planned" \in Status
        BY DEF Status
      <3>2. row' \in Rows
        BY <1>1, <2>1, <3>1, RowWrites
      <3> QED BY <1>1, <2>1, <3>2 DEF Rows
    <2>3. SharedTyped'
      BY <1>1, <1>2, <2>2, RowStepTyped
    <2>4. l \in Local
      BY <1>1, NoLocalTyped DEF Local
    <2>5. CallTyped("try_claim", l)
      BY <1>1, <1>5 DEF Create, CallTyped, Local, Stage, Prepared, Holding,
         Saving, Points
    <2> QED BY <1>3, <1>5, <2>3, <2>4, <2>5 DEF Create, Points
  <1>6. CASE Exhaust(w)
    <2>1. \/ row' = row
          \/ /\ row.status \in {"planned", "failed"}
             /\ row' = [row EXCEPT !.status = "failed", !.stamp = w]
      BY <1>6 DEF Exhaust, MayTerminalize
    <2>2. SharedTyped'
      <3>1. "failed" \in Status
        BY DEF Status
      <3>2. CASE /\ row.status \in {"planned", "failed"}
                 /\ row' = [row EXCEPT !.status = "failed", !.stamp = w]
        <4>1. row' \in Rows
          BY <1>1, <3>1, <3>2, RowWrites
        <4>2. row'.status = "failed" /\ row'.boxes = row.boxes
          BY <1>1, <3>2 DEF Rows
        <4>3. row.boxes \in [Action -> Box]
          BY <1>1, <3>2 DEF RowTyped, NoRow
        <4> QED BY <1>2, <4>1, <4>2, <4>3, RowStepTyped
      <3> QED BY <1>2, <2>1, <3>2, RowStepTyped
    <2>3. CallTyped("exhausted", L)
      BY <1>1, <1>6 DEF Exhaust, CallTyped, Local, Stage, Prepared, Holding,
         Saving, Points
    <2> QED BY <1>1, <1>3, <1>6, <2>2, <2>3 DEF Exhaust, Points
  <1>7. CASE Claim(w)
    <2> DEFINE k == [L EXCEPT !.seen = NoRow]
               l == [L EXCEPT !.seen = NoRow, !.now = 0]
    <2>1. \/ row' = row
          \/ /\ row.status = "planned"
             /\ row' = Leased(row, w, L.now + Lease, L.seen.attempts)
      BY <1>7 DEF Claim, MayClaim, Claimable
    <2>2. SharedTyped'
      <3>1. "applying" \in Status
        BY DEF Status
      <3>2. L.now + Lease \in Int /\ L.seen.attempts + 1 \in Int
        BY <1>1 DEF Rows
      <3>3. CASE /\ row.status = "planned"
                 /\ row' = Leased(row, w, L.now + Lease, L.seen.attempts)
        <4>1. row' \in Rows
          BY <1>1, <3>1, <3>2, <3>3, RowWrites DEF Leased
        <4>2. row'.status = "applying" /\ row'.boxes = row.boxes
          BY <1>1, <3>3 DEF Rows, Leased
        <4>3. row.boxes \in [Action -> Box]
          BY <1>1, <3>3 DEF RowTyped, NoRow
        <4> QED BY <1>2, <4>1, <4>2, <4>3, RowStepTyped
      <3> QED BY <1>2, <2>1, <3>3, RowStepTyped
    <2>3. l \in Local
      <3>1. k \in Local
        BY <1>1, NoLocalTyped DEF Local
      <3>2. l = [k EXCEPT !.now = 0]
        OBVIOUS
      <3> HIDE DEF k, l
      <3> QED BY <3>1, <3>2 DEF Local
    <2>4. CallTyped("claimed", l)
      BY <1>1, <1>7 DEF Claim, CallTyped, Local, Stage, Prepared, Holding,
         Saving, Points
    <2> QED BY <1>3, <1>7, <2>2, <2>3, <2>4 DEF Claim, Points
  <1>8. CASE Saved(w)
    <2> DEFINE mine == MayWrite(row, w, now)
               status == IF L.change = None THEN row.status ELSE L.change
               reason == IF L.change = "superseded" THEN "target_changed" ELSE row.reason
               l == [L EXCEPT !.wrote = mine]
    <2>1. \/ row' = row
          \/ /\ row.status = "applying"
             /\ row' = [row EXCEPT !.boxes = L.boxes, !.stamp = w,
                                   !.status = status, !.reason = reason]
      BY <1>1, <1>8 DEF Saved, MayWrite, HoldsClaim, Rows
    <2>2. SharedTyped'
      <3>1. L.change \in Changes
        BY <1>1 DEF Local
      <3>2. reason \in {None, "target_changed", "reevaluated"}
        BY <1>1 DEF Rows
      <3>3. CASE row' = row
        BY <1>2, <3>3, RowStepTyped
      <3>4. CASE /\ row.status = "applying"
                 /\ row' = [row EXCEPT !.boxes = L.boxes, !.stamp = w,
                                       !.status = status, !.reason = reason]
        <4>1. status \in Status /\ status # "none"
          BY <1>4, <3>1, <3>4 DEF Changes, Status, Terminal
        <4> HIDE DEF status, reason
        <4>2. row' \in Rows
          BY <1>1, <3>2, <3>4, <4>1, RowWrites
        <4>3. row'.status = status /\ row'.boxes = L.boxes
          BY <1>1, <3>4 DEF Rows
        <4> QED BY <1>1, <1>2, <4>1, <4>2, <4>3, RowStepTyped
      <3> QED BY <2>1, <3>3, <3>4
    <2>3. l \in Local
      <3>1. mine \in BOOLEAN
        BY DEF MayWrite, HoldsClaim
      <3> HIDE DEF mine
      <3> QED BY <1>1, <3>1 DEF Local
    <2> HIDE DEF mine
    <2>4. CallTyped("verify", l)
      BY <1>1, <1>8 DEF Saved, CallTyped, Local, Stage, Prepared, Holding,
         Saving, Points
    <2> QED BY <1>3, <1>8, <2>2, <2>3, <2>4 DEF Saved, Points, mine
  <1>9. CASE Renew(w)
    <2> DEFINE mine == MayWrite(row, w, now)
               k == [L EXCEPT !.wrote = mine]
               l == [L EXCEPT !.wrote = mine, !.now = now]
    <2>1. \/ row' = row
          \/ /\ row.status = "applying"
             /\ row' = [row EXCEPT !.expires = now + Lease, !.stamp = w]
      BY <1>1, <1>9 DEF Renew, MayWrite, HoldsClaim, Rows
    <2>2. SharedTyped'
      <3>1. CASE row' = row
        BY <1>2, <3>1, RowStepTyped
      <3>2. CASE /\ row.status = "applying"
                 /\ row' = [row EXCEPT !.expires = now + Lease, !.stamp = w]
        <4>1. now + Lease \in Int
          BY <1>1
        <4>2. row' \in Rows
          BY <1>1, <3>2, <4>1 DEF Rows
        <4>3. row'.status = "applying" /\ row'.boxes = row.boxes
          BY <1>1, <3>2 DEF Rows
        <4>4. row.boxes \in [Action -> Box]
          BY <1>1, <3>2 DEF RowTyped, NoRow
        <4> QED BY <1>2, <4>2, <4>3, <4>4, RowStepTyped
      <3> QED BY <2>1, <3>1, <3>2
    <2>3. l \in Local
      <3>1. mine \in BOOLEAN
        BY DEF MayWrite, HoldsClaim
      <3> HIDE DEF mine
      <3>2. k \in Local
        BY <1>1, <3>1 DEF Local
      <3>3. l = [k EXCEPT !.now = now]
        OBVIOUS
      <3> HIDE DEF k, l
      <3> QED BY <1>1, <3>2, <3>3 DEF Local
    <2> HIDE DEF mine
    <2>4. CallTyped("renewed", l)
      BY <1>1, <1>9 DEF Renew, CallTyped, Local, Stage, Prepared, Holding,
         Saving, Points
    <2> QED BY <1>3, <1>9, <2>2, <2>3, <2>4 DEF Renew, Points, mine
  <1>10. CASE FailUnclaimed(w)
    <2>1. \/ row' = row
          \/ row' = [row EXCEPT !.status = "failed", !.boxes = L.boxes, !.stamp = w]
      BY <1>10 DEF FailUnclaimed
    <2>2. SharedTyped'
      <3>1. "failed" \in Status
        BY DEF Status
      <3>2. CASE row' = [row EXCEPT !.status = "failed", !.boxes = L.boxes, !.stamp = w]
        <4>1. row' \in Rows
          BY <1>1, <3>1, <3>2, RowWrites
        <4>2. row'.status = "failed" /\ row'.boxes = L.boxes
          BY <1>1, <3>2 DEF Rows
        <4> QED BY <1>1, <1>2, <4>1, <4>2, RowStepTyped
      <3> QED BY <1>2, <2>1, <3>2, RowStepTyped
    <2>3. CallTyped("done", NoLocal)
      BY DEF CallTyped, NoLocal, Stage, Prepared, Holding, Saving
    <2> QED BY <1>1, <1>2, <1>10, <2>2, <2>3, NoLocalTyped, MoveTyped
            DEF FailUnclaimed, Answer, Points
  <1> QED BY <1>5, <1>6, <1>7, <1>8, <1>9, <1>10

\* Of what is shared, the side effect of an action changes its target.
LEMMA EffectTyped ==
    ASSUME TypedInv, UNCHANGED <<row, issue, now, created>>,
           NEW a \in Action, NEW status \in {"open", "committed"},
           Effect(a, status) \/ UNCHANGED <<target, sub>>
    PROVE  SharedTyped'
  <1>1. Action' = Action
    BY DEF Action
  <1>2. Rows' = Rows
    BY <1>1 DEF Rows
  <1>3. target' \in [Action -> {"expected", "changed", "done", "missing"}]
    BY DEF TypedInv, SharedTyped, Effect
  <1>4. sub' \in [Action -> {"none", "open", "committed"}]
    BY DEF TypedInv, SharedTyped, Effect
  <1> QED BY <1>1, <1>2, <1>3, <1>4 DEF TypedInv, SharedTyped, RowTyped

LEMMA ActTyped ==
    ASSUME TypedInv, NEW w \in Applier, Act(w)
    PROVE  TypedInv'
  <1> DEFINE L == loc[w]
             a == L.at
             box == [status |-> "committed",
                     op |-> IF Kind(a) = "add" THEN None ELSE "own"]
             boxes == [L.boxes EXCEPT ![a] = box]
             stopped == [L EXCEPT !.at = 0]
             l == [stopped EXCEPT !.boxes = boxes, !.change = None,
                                  !.then = "next_action"]
  <1>1. /\ L \in Local /\ CallTyped("act", L) /\ w \in Caller /\ pc[w] = "act"
    BY DEF TypedInv, Caller, Act
  <1>2. /\ L.boxes \in [Action -> Box] /\ a \in Action \ L.todo /\ L.claimed
        /\ ~L.failing /\ L.todo \in SUBSET Action
        /\ \A b \in L.todo : ~Settled(L.boxes[b])
    BY <1>1 DEF CallTyped, Prepared, Points, Stage, Saving, Holding, Local
  <1>3. SharedTyped' /\ issue' = issue
    BY <1>2, EffectTyped DEF Act, Others
  <1>4. ASSUME NEW p \in Points, NEW m \in Local, CallTyped(p, m), Goto(w, p, m)
        PROVE  TypedInv'
    BY <1>1, <1>3, <1>4, MoveTyped DEF Goto
  <1>5. Goto(w, "raise", stopped) \/ Goto(w, "save", l)
    BY DEF Act, Save
  <1>6. stopped \in Local
    BY <1>1 DEF Local
  <1>7. CallTyped("raise", stopped)
    BY <1>1, <1>2 DEF CallTyped, Local, Stage, Prepared, Holding, Saving, Points
  <1>8. boxes \in [Action -> Box] /\ \A b \in L.todo : boxes[b] = L.boxes[b]
    <2>1. box \in Box
      BY DEF Box, BoxStatus
    <2> HIDE DEF box
    <2> QED BY <1>2, <2>1
  <1> HIDE DEF boxes
  <1>9. l \in Local
    <2> HIDE DEF stopped
    <2> QED BY <1>6, <1>8 DEF Local, Changes, Resume
  <1>10. CallTyped("save", l)
    <2>1. /\ l.boxes = boxes /\ l.todo = L.todo /\ l.then = "next_action"
          /\ l.change = None /\ l.claimed /\ ~l.failing
      BY <1>1, <1>2 DEF Local
    <2> HIDE DEF l, stopped
    <2> QED BY <1>2, <1>8, <2>1, NoneAssumption DEF CallTyped, Stage, Holding,
            Saving, Resume, Status, Terminal, Settled
  <1> QED BY <1>4, <1>5, <1>6, <1>7, <1>9, <1>10 DEF Points

LEMMA FaultTyped ==
    ASSUME TypedInv, NEW w \in Applier, Fault(w)
    PROVE  TypedInv'
  <1> DEFINE L == loc[w]
             k == [L EXCEPT !.at = 0, !.seen = NoRow]
             l == [L EXCEPT !.at = 0, !.seen = NoRow, !.now = 0]
  <1>1. /\ L \in Local /\ CallTyped(pc[w], L) /\ w \in Caller
        /\ pc[w] \in {"create", "claim", "save", "renew", "act"} /\ ~L.failing
    BY DEF TypedInv, Caller, Fault
  <1>2. l \in Local
    <2>1. k \in Local
      <3> DEFINE stopped == [L EXCEPT !.at = 0]
      <3>1. stopped \in Local
        BY <1>1 DEF Local
      <3>2. k = [stopped EXCEPT !.seen = NoRow]
        OBVIOUS
      <3> HIDE DEF stopped, k
      <3> QED BY <3>1, <3>2, NoLocalTyped DEF Local
    <2>2. l = [k EXCEPT !.now = 0]
      OBVIOUS
    <2> HIDE DEF k, l
    <2> QED BY <2>1, <2>2 DEF Local
  <1>3. CallTyped("raise", l)
    BY <1>1 DEF CallTyped, Local, Stage, Prepared, Holding, Saving, Points
  <1>4. SharedTyped' /\ issue' = issue
    <2>1. CASE UNCHANGED <<target, sub>>
      BY <2>1, SharedStays DEF Fault, Others
    <2>2. CASE /\ pc[w] = "act"
               /\ \E status \in {"open", "committed"} : Effect(L.at, status)
      <3>1. L.at \in Action
        BY <1>1, <2>2 DEF CallTyped, Stage, Saving
      <3> QED BY <2>2, <3>1, EffectTyped DEF Fault, Others
    <2> QED BY <2>1, <2>2 DEF Fault
  <1>5. Goto(w, "raise", l)
    BY DEF Fault
  <1> HIDE DEF l, L
  <1> QED BY <1>1, <1>2, <1>3, <1>4, <1>5, MoveTyped DEF Goto, Points

LEMMA OperatorTyped ==
    ASSUME TypedInv, NEW o \in Operator,
           Reevaluate(o) \/ Terminalize(o) \/ Terminalized(o)
    PROVE  TypedInv'
  <1>1. /\ o \in Caller /\ o \notin Applier /\ row \in Rows /\ RowTyped
        /\ created \in Nat
    BY ConstantsAssumption DEF TypedInv, SharedTyped, Caller
  <1>2. UNCHANGED <<target, sub, issue, now, created>>
    BY DEF Reevaluate, Terminalize, Terminalized, Others
  <1>3. \/ row' = row
        \/ /\ row.status \in {"planned", "failed"}
           /\ row' = [row EXCEPT !.status = "superseded", !.stamp = o,
                                 !.reason = "reevaluated"]
    BY DEF Reevaluate, Terminalize, Terminalized, MayTerminalize
  <1>4. SharedTyped'
    <2>1. CASE row' = row
      BY <1>1, <1>2, <2>1, RowStepTyped
    <2>2. CASE /\ row.status \in {"planned", "failed"}
               /\ row' = [row EXCEPT !.status = "superseded", !.stamp = o,
                                     !.reason = "reevaluated"]
      <3>1. row' \in Rows
        BY <1>1, <2>2 DEF Rows, Status, Terminal
      <3>2. row'.status = "superseded" /\ row'.boxes = row.boxes
        BY <1>1, <2>2 DEF Rows
      <3>3. row.boxes \in [Action -> Box]
        BY <1>1, <2>2 DEF RowTyped, NoRow
      <3> QED BY <1>1, <1>2, <3>1, <3>2, <3>3, RowStepTyped
    <2> QED BY <1>3, <2>1, <2>2
  <1>5. \E p \in Points : pc' = [pc EXCEPT ![o] = p] /\ loc' = [loc EXCEPT ![o] = NoLocal]
    BY DEF Reevaluate, Terminalize, Terminalized, Goto, Answer, Points
  <1> QED BY <1>1, <1>2, <1>4, <1>5, NoLocalTyped, MoveTyped

LEMMA EnvironmentTyped ==
    ASSUME TypedInv, (\E a \in Action : Touch(a)) \/ Tick \/ UNCHANGED vars
    PROVE  TypedInv'
  <1>1. issue' = issue /\ UNCHANGED <<sub, row, pc, loc, created>>
    BY DEF Touch, Tick, vars, Others
  <1>2. Action' = Action
    BY <1>1 DEF Action
  <1>3. Rows' = Rows
    BY <1>2 DEF Rows
  <1>4. target' \in [Action -> {"expected", "changed", "done", "missing"}]
    BY DEF TypedInv, SharedTyped, Touch, Tick, vars, Others
  <1>5. now' \in Int
    BY DEF TypedInv, SharedTyped, Touch, Tick, vars, Others
  <1>6. SharedTyped'
    BY <1>1, <1>2, <1>3, <1>4, <1>5 DEF TypedInv, SharedTyped, RowTyped
  <1> QED BY <1>1, <1>6, OthersTyped

LEMMA InitTyped == Init => TypedInv
  <1> SUFFICES ASSUME Init PROVE TypedInv
    OBVIOUS
  <1>1. SharedTyped
    BY NoLocalTyped DEF Init, SharedTyped, RowTyped
  <1>2. CallTyped("idle", NoLocal)
    BY DEF CallTyped, NoLocal, Stage, Prepared, Holding, Saving
  <1> QED BY <1>1, <1>2, NoLocalTyped DEF Init, TypedInv, Points, Caller

LEMMA StepTyped == TypedInv /\ [Next]_vars => TypedInv'
  <1> SUFFICES ASSUME TypedInv, [Next]_vars PROVE TypedInv'
    OBVIOUS
  <1>1. ASSUME NEW w \in Applier, ApplierStep(w) \/ Fault(w) PROVE TypedInv'
    BY <1>1, LooksTyped, PlanTyped, WritesTyped, ActTyped, FaultTyped DEF ApplierStep
  <1> QED BY <1>1, OperatorTyped, EnvironmentTyped DEF Next

\* Where an applier stands tells which of its local fields are set, and the row
\* has a checkpoint for each action as soon as it exists.
THEOREM TypeCorrect == Spec => []TypedInv
  BY InitTyped, StepTyped, PTL DEF Spec

----------------------------------------------------------------------------
(* What a step of one caller leaves alone.                                 *)

Moved(w) == \E p, l : /\ pc' = [pc EXCEPT ![w] = p]
                      /\ loc' = [loc EXCEPT ![w] = l]

LEMMA StepMoves ==
    ASSUME TypedInv, NEW w \in Applier, ApplierStep(w) \/ Fault(w)
    PROVE  /\ issue' = issue /\ Action' = Action /\ Moved(w) /\ w \in Caller
           /\ \A v \in Caller \ {w} : pc'[v] = pc[v] /\ loc'[v] = loc[v]
  <1>1. issue' = issue
    BY DEF ApplierStep, Look, LookAgain, ReadRow, Create, Exhaust, Exhausted,
       TryClaim, Claim, Claimed, Saved, Verify, CheckTargets, NextAction, Renew,
       Renewed, Act, Complete, Raise, FailUnclaimed, Fault, Others
  <1>2. ASSUME NEW p, NEW l, Goto(w, p, l) PROVE Moved(w)
    BY <1>2 DEF Goto, Moved
  <1>3. ASSUME NEW status, Answer(w, status) PROVE Moved(w)
    BY <1>3 DEF Answer, Moved
  <1>4. Moved(w)
    <2>1. CASE Look(w) \/ LookAgain(w) \/ ReadRow(w) \/ Create(w) \/ Exhaust(w)
               \/ Exhausted(w) \/ TryClaim(w)
      BY <1>2, <1>3, <2>1 DEF Look, LookAgain, ReadRow, Create, Exhaust,
         Exhausted, TryClaim
    <2>2. CASE Claim(w) \/ Claimed(w) \/ Saved(w) \/ Verify(w) \/ CheckTargets(w)
      BY <1>2, <1>3, <2>2 DEF Claim, Claimed, Saved, Verify, CheckTargets, Save
    <2>3. CASE NextAction(w) \/ Renew(w) \/ Renewed(w) \/ Act(w)
      BY <1>2, <2>3 DEF NextAction, Renew, Renewed, Act, Save
    <2>4. CASE Complete(w) \/ Raise(w) \/ FailUnclaimed(w) \/ Fault(w)
      BY <1>2, <1>3, <2>4 DEF Complete, Raise, FailUnclaimed, Fault, Save
    <2> QED BY <2>1, <2>2, <2>3, <2>4 DEF ApplierStep
  <1> QED BY <1>1, <1>4 DEF Moved, TypedInv, Action, Caller

\* Where a caller is, and what it remembers, after its step.
LEMMA Arrives ==
    ASSUME TypedInv, NEW w \in Caller, NEW p, NEW l, Goto(w, p, l)
    PROVE  pc'[w] = p /\ loc'[w] = l
  BY DEF TypedInv, Goto

LEMMA Ends ==
    ASSUME TypedInv, NEW w \in Caller, NEW status, Answer(w, status)
    PROVE  pc'[w] = "done" /\ loc'[w] = NoLocal
  BY DEF TypedInv, Answer

\* An effect is never undone, and what a journal row tells of it is true.
Progress ==
    \A a \in Action :
      /\ target[a] = "done" => target'[a] = "done"
      /\ sub'[a] = "committed" => sub[a] = "committed" \/ target'[a] = "done"

LEMMA StepProgresses ==
    ASSUME TypedInv, [Next]_vars
    PROVE  Progress
  <1>1. ASSUME UNCHANGED <<target, sub>> PROVE Progress
    BY <1>1 DEF Progress
  <1>2. ASSUME NEW a \in Action, NEW status \in {"open", "committed"}, Effect(a, status)
        PROVE  Progress
    BY <1>2 DEF Progress, Effect, TypedInv, SharedTyped
  <1>3. ASSUME NEW w \in Applier, Act(w) \/ Fault(w) PROVE Progress
    <2>1. pc[w] = "act" => loc[w].at \in Action
      BY DEF TypedInv, CallTyped, Stage, Saving
    <2> QED BY <1>1, <1>2, <1>3, <2>1 DEF Act, Fault
  <1>4. ASSUME NEW w \in Applier, ApplierStep(w) PROVE Progress
    BY <1>1, <1>3, <1>4 DEF ApplierStep, Look, LookAgain, ReadRow, Create,
       Exhaust, Exhausted, TryClaim, Claim, Claimed, Saved, Verify, CheckTargets,
       NextAction, Renew, Renewed, Complete, Raise, FailUnclaimed
  <1>5. ASSUME NEW a \in Action, Touch(a) PROVE Progress
    BY <1>5 DEF Touch, Progress, TypedInv, SharedTyped
  <1>6. CASE Tick \/ UNCHANGED vars
           \/ \E o \in Operator : Reevaluate(o) \/ Terminalize(o) \/ Terminalized(o)
    BY <1>1, <1>6 DEF Tick, vars, Reevaluate, Terminalize, Terminalized
  <1> QED BY <1>3, <1>4, <1>5, <1>6 DEF Next

----------------------------------------------------------------------------
(* The checkpoints are true.                                               *)

\* What is true of the checkpoints stays true when effects are made.
LEMMA TruthLasts ==
    ASSUME Progress, Action' = Action, NEW boxes, True(boxes)
    PROVE  \A a \in Action : boxes[a].status = "committed" => target'[a] = "done"
  BY DEF True, Progress

\* The checkpoints of an applier are true after its step.
LEMMA StepBoxesTrue ==
    ASSUME TypedInv, TruthInv, Progress, NEW w \in Applier,
           ApplierStep(w) \/ Fault(w)
    PROVE  pc'[w] \in Prepared =>
             \A a \in Action : loc'[w].boxes[a].status = "committed" => target'[a] = "done"
  <1> DEFINE L == loc[w]
             Good(boxes) == \A a \in Action : boxes[a].status = "committed" =>
                                                target'[a] = "done"
             Goal == pc'[w] \in Prepared => Good(loc'[w].boxes)
  <1>1. /\ L \in Local /\ CallTyped(pc[w], L) /\ w \in Caller /\ Action' = Action
        /\ row \in Rows /\ RowTyped
    BY StepMoves DEF TypedInv, SharedTyped
  <1>2. pc[w] \in Prepared => L.boxes \in [Action -> Box] /\ Good(L.boxes)
    BY <1>1, TruthLasts DEF CallTyped, TruthInv
  <1>3. ASSUME NEW status, Answer(w, status) PROVE Goal
    BY <1>1, <1>3, Ends DEF Prepared
  <1>4. ASSUME NEW p, NEW l, Goto(w, p, l), Good(l.boxes) PROVE Goal
    BY <1>1, <1>4, Arrives
  <1>5. ASSUME pc[w] \in Prepared PROVE Good(Resolved(L.boxes))
    <2>1. ASSUME NEW a \in Action, ResolveBox(a, L.boxes[a]).status = "committed"
          PROVE  target'[a] = "done"
      BY <1>2, <1>5, <2>1 DEF ResolveBox, TruthInv, Progress
    <2> QED BY <2>1 DEF Resolved
  <1> SUFFICES Goal
    OBVIOUS
  <1> HIDE DEF Goal
  <1>6. CASE Look(w)
    BY <1>1, <1>3, <1>6, Arrives DEF Look, Prepared, Goal
  <1>7. CASE LookAgain(w)
    <2> DEFINE boxes == IF row = NoRow THEN [a \in Action |-> Pending] ELSE row.boxes
               l == [L EXCEPT !.boxes = boxes]
    <2>1. l.boxes = boxes
      BY <1>1 DEF Local
    <2>2. Good(boxes)
      BY TruthLasts, <1>1 DEF Pending, TruthInv
    <2>3. (\E status : Answer(w, status)) \/ (\E p : Goto(w, p, l))
      BY <1>7 DEF LookAgain
    <2> HIDE DEF l, Good
    <2> QED BY <1>3, <1>4, <2>1, <2>2, <2>3
  <1>8. ASSUME NEW p, NEW l, Goto(w, p, l), l.boxes = L.boxes, pc[w] \in Prepared
        PROVE  Goal
    BY <1>2, <1>4, <1>8
  <1> HIDE DEF Good
  <1>9. CASE ReadRow(w) \/ Create(w) \/ Exhaust(w) \/ Exhausted(w) \/ TryClaim(w) \/ Claim(w)
    BY <1>1, <1>3, <1>8, <1>9 DEF ReadRow, Create, Exhaust, Exhausted, TryClaim, Claim,
       Local, Prepared, Points
  <1>10. CASE Saved(w) \/ Verify(w) \/ CheckTargets(w) \/ Renew(w) \/ FailUnclaimed(w)
    BY <1>1, <1>3, <1>8, <1>10 DEF Saved, Verify, CheckTargets, Renew, FailUnclaimed,
       Save, Local, Prepared, Points
  <1>11. CASE Claimed(w) \/ Complete(w) \/ Raise(w)
    <2>1. pc[w] \in Prepared
      BY <1>11 DEF Claimed, Complete, Raise, Prepared, Points
    <2>2. ASSUME NEW l \in Local, NEW status, NEW then,
                 Save(w, l, Resolved(L.boxes), status, then)
          PROVE  Goal
      <3> DEFINE m == [l EXCEPT !.boxes = Resolved(L.boxes), !.change = status,
                                !.then = then]
      <3>1. m.boxes = Resolved(L.boxes)
        BY <2>2 DEF Local
      <3>2. Goto(w, "save", m)
        BY <2>2 DEF Save
      <3> HIDE DEF m
      <3> QED BY <1>4, <1>5, <2>1, <3>1, <3>2
    <2>3. CASE Claimed(w)
      <3>1. [L EXCEPT !.claimed = TRUE] \in Local
        BY <1>1 DEF Local
      <3> QED BY <1>3, <2>2, <2>3, <3>1 DEF Claimed
    <2>4. CASE Complete(w)
      BY <1>1, <1>8, <2>1, <2>2, <2>4 DEF Complete
    <2>5. CASE Raise(w)
      <3>1. [L EXCEPT !.failing = TRUE] \in Local
        BY <1>1 DEF Local
      <3>2. [L EXCEPT !.boxes = Resolved(L.boxes)].boxes = Resolved(L.boxes)
        BY <1>1 DEF Local
      <3> QED BY <1>4, <1>5, <2>1, <2>2, <2>5, <3>1, <3>2 DEF Raise
    <2> QED BY <1>11, <2>3, <2>4, <2>5
  <1>12. ASSUME NEW a \in Action, NEW status \in BoxStatus, status # "committed",
                pc[w] \in Prepared
         PROVE  Good([L.boxes EXCEPT ![a].status = status])
    BY <1>2, <1>12, MarkedTyped DEF Good
  <1>13. CASE NextAction(w)
    <2> DEFINE a == Earliest(L.todo)
               marked == [L.boxes EXCEPT ![a].status = "skipped"]
    <2>1. pc[w] \in Prepared /\ (L.todo # {} => a \in Action)
      <3>1. L.todo \in SUBSET Action /\ issue \in Issue
        BY <1>1 DEF Local, TypedInv, SharedTyped
      <3> QED BY <1>13, <3>1, EarliestIsOne DEF NextAction, Prepared, Points
    <2>2. L.todo # {} => Good(marked)
      <3>1. "skipped" \in BoxStatus
        BY DEF BoxStatus
      <3> QED BY <1>12, <2>1, <3>1
    <2> HIDE DEF marked
    <2>4. CASE \E p, l : Goto(w, p, l) /\ l.boxes = L.boxes
      BY <1>8, <2>1, <2>4
    <2>5. [L EXCEPT !.at = 0].boxes = L.boxes /\ [L EXCEPT !.at = a, !.todo = @ \ {a}].boxes = L.boxes
      BY <1>1 DEF Local
    <2> DEFINE rest == [L EXCEPT !.todo = @ \ {a},
                                 !.at = IF issue.artifacts THEN -1 ELSE 0]
    <2>6. rest \in Local
      <3> DEFINE k == [L EXCEPT !.todo = @ \ {a}]
      <3>1. k \in Local
        BY <1>1 DEF Local
      <3>2. rest = [k EXCEPT !.at = IF issue.artifacts THEN -1 ELSE 0]
        OBVIOUS
      <3> HIDE DEF k, rest
      <3> QED BY <3>1, <3>2 DEF Local
    <2> HIDE DEF rest
    <2> DEFINE m == [rest EXCEPT !.boxes = marked, !.change = None, !.then = "next_action"]
    <2>7. m.boxes = marked
      BY <2>6 DEF Local
    <2>8. CASE L.todo # {} /\ Save(w, rest, marked, None, "next_action")
      <3>1. Goto(w, "save", m)
        BY <2>8 DEF Save
      <3> HIDE DEF m
      <3> QED BY <1>4, <2>2, <2>7, <2>8, <3>1
    <2> QED BY <1>13, <2>4, <2>5, <2>8 DEF NextAction, marked, rest
  <1>14. CASE Renewed(w)
    <2> DEFINE marked == [L.boxes EXCEPT ![L.at].status = "applying"]
               k == [L EXCEPT !.wrote = FALSE]
               l == [L EXCEPT !.wrote = FALSE, !.now = 0]
    <2>1. pc[w] \in Prepared /\ L.at \in Action /\ "applying" \in BoxStatus
      BY <1>1, <1>14 DEF Renewed, CallTyped, Stage, Saving, Prepared, Points, BoxStatus
    <2>2. Good(marked)
      BY <1>12, <2>1
    <2> HIDE DEF marked
    <2>3. l.boxes = L.boxes /\ [l EXCEPT !.boxes = marked, !.change = None, !.then = "act"].boxes = marked
      BY <1>1 DEF Local
    <2>4. Goto(w, "raise", l) \/ Save(w, l, marked, None, "act")
      BY <1>14 DEF Renewed, marked
    <2> QED BY <1>4, <1>8, <2>1, <2>2, <2>3, <2>4 DEF Save
  <1>15. CASE Act(w)
    <2> DEFINE a == L.at
               box == [status |-> "committed",
                       op |-> IF Kind(a) = "add" THEN None ELSE "own"]
               boxes == [L.boxes EXCEPT ![a] = box]
               stopped == [L EXCEPT !.at = 0]
    <2>1. pc[w] \in Prepared /\ a \in Action
      BY <1>1, <1>15 DEF Act, CallTyped, Stage, Saving, Prepared, Points
    <2>2. stopped.boxes = L.boxes /\ [stopped EXCEPT !.boxes = boxes, !.change = None, !.then = "next_action"].boxes = boxes
      BY <1>1 DEF Local
    <2>3. \/ Goto(w, "raise", stopped)
          \/ target'[a] = "done" /\ Save(w, stopped, boxes, None, "next_action")
      BY <1>15, <2>1 DEF Act, Effect, TypedInv, SharedTyped
    <2>4. target'[a] = "done" => Good(boxes)
      BY <1>2, <2>1 DEF Good
    <2> HIDE DEF boxes, stopped, box
    <2> QED BY <1>4, <1>8, <2>1, <2>2, <2>3, <2>4 DEF Save
  <1>16. CASE Fault(w)
    <2>1. [L EXCEPT !.at = 0, !.seen = NoRow, !.now = 0].boxes = L.boxes
      BY <1>1 DEF Local
    <2>2. pc[w] \in Prepared
      BY <1>16 DEF Fault, Prepared, Points
    <2> QED BY <1>8, <1>16, <2>1, <2>2 DEF Fault
  <1> QED
    BY <1>6, <1>7, <1>9, <1>10, <1>11, <1>13, <1>14, <1>15, <1>16 DEF ApplierStep

----------------------------------------------------------------------------
(* The steps by which the row changes.                                     *)

RowCreated(w) ==
    /\ Create(w) /\ row'.status = "planned" /\ row'.boxes = loc[w].boxes
    /\ row'.owner = loc[w].seen.owner /\ row'.reason = loc[w].seen.reason
RowClaimed(w) ==
    /\ Claim(w) /\ row.status = "planned" /\ row'.status = "applying"
    /\ row'.owner = w /\ row'.boxes = row.boxes /\ row'.reason = row.reason
RowSaved(w) ==
    /\ Saved(w) /\ HoldsClaim(row, w) /\ row'.owner = w /\ row'.boxes = loc[w].boxes
    /\ row'.status = IF loc[w].change = None THEN "applying" ELSE loc[w].change
    /\ row'.reason = IF loc[w].change = "superseded" THEN "target_changed" ELSE row.reason
RowRenewed(w) ==
    /\ Renew(w) /\ HoldsClaim(row, w) /\ row'.status = "applying" /\ row'.owner = w
    /\ row'.boxes = row.boxes /\ row'.reason = row.reason
RowEnded ==
    /\ row.status \in {"planned", "failed"} /\ row'.status \in {"failed", "superseded"}
    /\ row'.owner = row.owner /\ row'.reason \in {row.reason, "reevaluated"}
    /\ \/ row'.boxes = row.boxes
       \/ \E w \in Applier : pc[w] = "fail_unclaimed" /\ row'.boxes = loc[w].boxes

RowKept == row' = row

LEMMA CreatesRow ==
    ASSUME TypedInv, NEW w \in Applier, Create(w)
    PROVE  RowCreated(w)
  BY DEF Create, RowCreated, TypedInv, SharedTyped, Caller, Local, Rows

LEMMA WriteSteps ==
    ASSUME TypedInv, NEW w \in Applier,
           Create(w) \/ Exhaust(w) \/ Claim(w) \/ Saved(w) \/ Renew(w)
           \/ FailUnclaimed(w)
    PROVE  RowKept \/ RowCreated(w) \/ RowClaimed(w) \/ RowSaved(w) \/ RowRenewed(w)
           \/ RowEnded
  <1>1. row \in Rows /\ loc[w] \in Local /\ loc[w].seen \in Rows
    BY DEF TypedInv, SharedTyped, Caller, Local
  <1>2. CASE Create(w)
    BY <1>2, CreatesRow
  <1>3. CASE Exhaust(w)
    BY <1>1, <1>3 DEF Exhaust, RowEnded, RowKept, Rows, MayTerminalize
  <1>4. CASE Claim(w)
    BY <1>1, <1>4 DEF Claim, RowClaimed, RowKept, Rows, MayClaim, Leased, Claimable
  <1>5. CASE Saved(w)
    <2>1. CASE ~MayWrite(row, w, now)
      BY <1>5, <2>1 DEF Saved, RowKept
    <2>2. CASE MayWrite(row, w, now)
      <3>1. row' = [row EXCEPT !.boxes = loc[w].boxes, !.stamp = w,
                               !.status = IF loc[w].change = None THEN row.status
                                          ELSE loc[w].change,
                               !.reason = IF loc[w].change = "superseded"
                                          THEN "target_changed" ELSE row.reason]
        BY <1>1, <1>5, <2>2 DEF Saved, Rows
      <3>2. row.status = "applying" /\ row.owner = w /\ HoldsClaim(row, w)
        BY <2>2 DEF MayWrite, HoldsClaim
      <3> QED BY <1>1, <1>5, <3>1, <3>2 DEF RowSaved, Rows
    <2> QED BY <2>1, <2>2
  <1>6. CASE Renew(w)
    BY <1>1, <1>6 DEF Renew, RowRenewed, RowKept, Rows, MayWrite, HoldsClaim
  <1>7. CASE FailUnclaimed(w)
    BY <1>1, <1>7 DEF FailUnclaimed, RowEnded, RowKept, Rows, MayTerminalize
  <1> QED BY <1>2, <1>3, <1>4, <1>5, <1>6, <1>7

LEMMA RowSteps ==
    ASSUME TypedInv, [Next]_vars
    PROVE  \/ RowKept \/ RowEnded
           \/ \E w \in Applier : RowCreated(w) \/ RowClaimed(w) \/ RowSaved(w)
                                 \/ RowRenewed(w)
  <1>1. ASSUME NEW w \in Applier, ApplierStep(w) \/ Fault(w),
               ~(Create(w) \/ Exhaust(w) \/ Claim(w) \/ Saved(w) \/ Renew(w)
                 \/ FailUnclaimed(w))
        PROVE  RowKept
    BY <1>1 DEF ApplierStep, Look, LookAgain, ReadRow, Exhausted, TryClaim, Claimed,
       Verify, CheckTargets, NextAction, Renewed, Act, Complete, Raise, Fault, RowKept
  <1>2. ASSUME NEW o \in Operator, Reevaluate(o) \/ Terminalize(o) \/ Terminalized(o)
        PROVE  RowKept \/ RowEnded
    BY <1>2 DEF Reevaluate, Terminalize, Terminalized, RowKept, RowEnded,
       MayTerminalize, TypedInv, SharedTyped, Rows
  <1>3. ASSUME (\E a \in Action : Touch(a)) \/ Tick \/ UNCHANGED vars
        PROVE  RowKept
    BY <1>3 DEF Touch, Tick, vars, RowKept
  <1> QED BY <1>1, <1>2, <1>3, WriteSteps DEF Next

\* An outcome once recorded stays, when the row is created once: an issue that
\* was carried out or ended is not applied again, nor its row overwritten.
LEMMA StepKeepsOutcome ==
    ASSUME TypedInv, created = 0 => row = NoRow, [Next]_vars
    PROVE  OutcomeIsKept
  <1> SUFFICES ASSUME row.status \in {"committed", "superseded"}, created' <= 1, ~RowKept
               PROVE  FALSE
    BY DEF OutcomeIsKept, RowKept
  <1>1. row.status \notin {"none", "planned", "failed", "applying"}
    OBVIOUS
  <1>2. ASSUME NEW w \in Applier, RowCreated(w) PROVE FALSE
    <2>1. created = 0
      BY <1>2 DEF RowCreated, Create, TypedInv, SharedTyped
    <2> QED BY <1>1, <2>1 DEF NoRow
  <1> QED BY <1>1, <1>2, RowSteps DEF RowEnded, RowClaimed, RowSaved, RowRenewed,
          HoldsClaim

LEMMA StepRowTrue ==
    ASSUME TypedInv, TruthInv, Progress, Action' = Action, [Next]_vars
    PROVE  /\ row' # NoRow => \A a \in Action : row'.boxes[a].status = "committed" =>
                                                  target'[a] = "done"
           /\ row'.status = "committed" => AllSettled(row'.boxes)
  <1> DEFINE Good(boxes) == \A a \in Action : boxes[a].status = "committed" =>
                                                target'[a] = "done"
  <1>1. ASSUME NEW w \in Applier, pc[w] \in Prepared PROVE Good(loc[w].boxes)
    BY <1>1, TruthLasts DEF TruthInv
  <1>2. row # NoRow => Good(row.boxes)
    BY TruthLasts DEF TruthInv
  <1>3. row.status # "none" => row # NoRow
    BY DEF NoRow
  <1> HIDE DEF Good
  <1> SUFFICES (row' # NoRow => Good(row'.boxes))
               /\ (row'.status = "committed" => AllSettled(row'.boxes))
    BY DEF Good
  <1>4. CASE RowKept
    BY <1>2, <1>4 DEF RowKept, TruthInv
  <1>5. CASE RowEnded
    BY <1>1, <1>2, <1>3, <1>5 DEF RowEnded, Prepared, Points
  <1>6. ASSUME NEW w \in Applier, RowCreated(w) \/ RowClaimed(w) \/ RowRenewed(w)
        PROVE  Good(row'.boxes) /\ row'.status # "committed"
    BY <1>1, <1>2, <1>3, <1>6 DEF RowCreated, RowClaimed, RowRenewed, HoldsClaim,
       Create, Prepared, Points
  <1>7. ASSUME NEW w \in Applier, RowSaved(w)
        PROVE  Good(row'.boxes) /\ (row'.status = "committed" => AllSettled(row'.boxes))
    <2>1. pc[w] = "save" /\ CallTyped("save", loc[w])
      BY <1>7 DEF RowSaved, Saved, TypedInv
    <2>2. loc[w].change = "committed" => AllSettled(loc[w].boxes)
      BY <2>1 DEF CallTyped, Saving
    <2>3. Good(loc[w].boxes)
      BY <1>1, <2>1 DEF Prepared, Points
    <2> QED BY <1>7, <2>2, <2>3 DEF RowSaved
  <1> QED BY <1>4, <1>5, <1>6, <1>7, RowSteps

LEMMA IssueStays ==
    ASSUME TypedInv, [Next]_vars
    PROVE  issue' = issue /\ Action' = Action
  <1>1. CASE \E w \in Applier : ApplierStep(w) \/ Fault(w)
    BY <1>1, StepMoves
  <1>2. CASE \/ \E o \in Operator : Reevaluate(o) \/ Terminalize(o) \/ Terminalized(o)
             \/ \E a \in Action : Touch(a)
             \/ Tick \/ UNCHANGED vars
    BY <1>2 DEF Reevaluate, Terminalize, Terminalized, Touch, Tick, vars, Others, Action
  <1> QED BY <1>1, <1>2 DEF Next

\* Appliers do not move when an operator or the environment does.
LEMMA AppliersStay ==
    ASSUME TypedInv,
           \/ \E o \in Operator : Reevaluate(o) \/ Terminalize(o) \/ Terminalized(o)
           \/ \E a \in Action : Touch(a)
           \/ Tick \/ UNCHANGED vars
    PROVE  \A v \in Applier : pc'[v] = pc[v] /\ loc'[v] = loc[v]
  <1>1. ASSUME NEW o \in Operator, Reevaluate(o) \/ Terminalize(o) \/ Terminalized(o)
        PROVE  \A v \in Applier : pc'[v] = pc[v] /\ loc'[v] = loc[v]
    <2>1. o \notin Applier
      BY ConstantsAssumption
    <2> QED BY <1>1, <2>1 DEF Reevaluate, Terminalize, Terminalized, Goto, Answer,
            TypedInv, Caller
  <1>2. CASE (\E a \in Action : Touch(a)) \/ Tick \/ UNCHANGED vars
    BY <1>2 DEF Touch, Tick, vars
  <1> QED BY <1>1, <1>2

LEMMA StepTrue == TypedInv /\ TruthInv /\ [Next]_vars => TruthInv'
  <1> SUFFICES ASSUME TypedInv, TruthInv, [Next]_vars PROVE TruthInv'
    OBVIOUS
  <1>1. Progress /\ Action' = Action
    BY StepProgresses, IssueStays
  <1>2. \A a \in Action : sub'[a] = "committed" => target'[a] = "done"
    BY <1>1 DEF Progress, TruthInv
  <1>3. ASSUME NEW v \in Applier, pc'[v] \in Prepared
        PROVE  \A a \in Action : loc'[v].boxes[a].status = "committed" => target'[a] = "done"
    <2>1. CASE pc'[v] = pc[v] /\ loc'[v] = loc[v]
      BY <1>1, <1>3, <2>1, TruthLasts DEF TruthInv
    <2>2. CASE ~(pc'[v] = pc[v] /\ loc'[v] = loc[v])
      <3>1. PICK w \in Applier : ApplierStep(w) \/ Fault(w)
        BY <2>2, AppliersStay DEF Next
      <3>2. v = w
        BY <2>2, <3>1, StepMoves DEF Caller
      <3> QED BY <1>1, <1>3, <3>1, <3>2, StepBoxesTrue
    <2> QED BY <2>1, <2>2
  <1>4. /\ row' # NoRow => \A a \in Action : row'.boxes[a].status = "committed" =>
                                               target'[a] = "done"
        /\ row'.status = "committed" => AllSettled(row'.boxes)
    BY <1>1, StepRowTrue
  <1> QED BY <1>1, <1>2, <1>3, <1>4 DEF TruthInv, True, AllSettled, NoRow

LEMMA InitTrue == Init => TruthInv
  BY DEF Init, TruthInv, Prepared, NoRow

----------------------------------------------------------------------------
(* One applier.                                                            *)

\* The steps after which nothing more has been done.
Quiet == \A a \in Action : target'[a] = "done" => target[a] = "done"
\* Those by which an action of the plan has its effect.
Acted(w) ==
    /\ pc[w] = "act" /\ row' = row /\ (Act(w) \/ Fault(w))
    /\ \A a \in Action \ {loc[w].at} : target'[a] = target[a]

LEMMA TargetSteps ==
    ASSUME TypedInv, [Next]_vars
    PROVE  Quiet \/ \E w \in Applier : Acted(w)
  <1>1. ASSUME UNCHANGED target PROVE Quiet
    BY <1>1 DEF Quiet
  <1>2. ASSUME NEW w \in Applier, Act(w) \/ Fault(w) PROVE Quiet \/ Acted(w)
    <2>1. CASE Act(w)
      BY <1>1, <2>1 DEF Act, Effect, Acted, TypedInv, SharedTyped
    <2>2. CASE Fault(w)
      BY <1>1, <2>2 DEF Fault, Effect, Acted, TypedInv, SharedTyped
    <2> QED BY <1>2, <2>1, <2>2
  <1>3. ASSUME NEW w \in Applier, ApplierStep(w), ~Act(w) PROVE Quiet
    BY <1>1, <1>3 DEF ApplierStep, Look, LookAgain, ReadRow, Create,
       Exhaust, Exhausted, TryClaim, Claim, Claimed, Saved, Verify, CheckTargets,
       NextAction, Renew, Renewed, Complete, Raise, FailUnclaimed
  <1>4. ASSUME NEW a \in Action, Touch(a) PROVE Quiet
    BY <1>4 DEF Touch, Quiet, TypedInv, SharedTyped
  <1>5. CASE Tick \/ UNCHANGED vars
           \/ \E o \in Operator : Reevaluate(o) \/ Terminalize(o) \/ Terminalized(o)
    BY <1>1, <1>5 DEF Tick, vars, Reevaluate, Terminalize, Terminalized
  <1> QED BY <1>2, <1>3, <1>4, <1>5 DEF Next

\* An applier that works has the claim, and is the only one that has it.
LEMMA WorkerClaims ==
    ASSUME TypedInv, OneApplierInv, OneCreator, NEW w \in Applier,
           Working(pc[w], loc[w])
    PROVE  /\ loc[w].claimed /\ row.owner = w /\ row.status = "applying"
           /\ Phase(w, pc[w], loc[w])
  <1>1. pc[w] \in Holding
    BY DEF Working, Holding, Saving
  <1> QED BY <1>1 DEF OneApplierInv, Phase, TypedInv, CallTyped

LEMMA ActedWorks ==
    ASSUME TypedInv, OneApplierInv, OneCreator, NEW w \in Applier, Acted(w)
    PROVE  /\ loc[w].claimed /\ row.owner = w /\ row.status = "applying"
           /\ row.boxes = loc[w].boxes /\ loc[w].at \in Action
           /\ loc[w].boxes[loc[w].at].status = "applying"
  <1>1. pc[w] = "act" /\ Working(pc[w], loc[w])
    BY DEF Acted, Working, Holding, Saving
  <1>2. loc[w].at \in Action /\ loc[w].boxes[loc[w].at].status = "applying"
    BY <1>1 DEF TypedInv, CallTyped, Stage, Saving
  <1> QED BY <1>1, <1>2, WorkerClaims DEF Phase, InStep

\* What the row tells, after a step that does not create it.
LEMMA StepRowPhase ==
    ASSUME TypedInv, OneApplierInv, OneCreator, [Next]_vars, Action' = Action,
           \A w \in Applier : ~RowCreated(w)
    PROVE  RowPhase'
  <1>1. RowPhase
    BY DEF OneApplierInv
  <1>2. Quiet /\ Untouched => Untouched'
    BY DEF Quiet, Untouched
  <1>3. CASE \E w \in Applier : Acted(w)
    <2>1. PICK w \in Applier : Acted(w)
      BY <1>3
    <2>2. /\ row' = row /\ row.owner = w /\ row.status = "applying" /\ w # None
          /\ \A a \in Action \ {loc[w].at} : target'[a] = target[a]
          /\ row.boxes[loc[w].at].status = "applying"
      BY <2>1, ActedWorks, ConstantsAssumption DEF Acted
    <2> QED BY <1>1, <2>2 DEF RowPhase
  <1>4. CASE Quiet /\ RowKept
    BY <1>1, <1>2, <1>4 DEF RowKept, RowPhase, Quiet
  <1>5. CASE Quiet /\ RowEnded
    BY <1>1, <1>2, <1>5 DEF RowEnded, RowPhase, Quiet
  <1>6. ASSUME Quiet, NEW w \in Applier, RowClaimed(w) PROVE RowPhase'
    <2>1. w # None /\ row.owner = None
      BY <1>1, <1>6, ConstantsAssumption DEF RowClaimed, RowPhase
    <2> QED BY <1>1, <1>2, <1>6, <2>1 DEF RowClaimed, RowPhase, Untouched, Quiet
  <1>7. ASSUME Quiet, NEW w \in Applier, RowRenewed(w) PROVE RowPhase'
    <2>1. w # None
      BY ConstantsAssumption
    <2> QED BY <1>1, <1>2, <1>7, <2>1 DEF RowRenewed, HoldsClaim, RowPhase, Quiet
  <1>8. ASSUME Quiet, NEW w \in Applier, RowSaved(w) PROVE RowPhase'
    <2> DEFINE L == loc[w]
    <2>1. /\ w # None /\ pc[w] = "save" /\ CallTyped("save", L) /\ L.change \in Changes
          /\ row.status = "applying" /\ row'.owner = w /\ row'.boxes = L.boxes
      BY <1>8, ConstantsAssumption DEF RowSaved, Saved, TypedInv, HoldsClaim, Local, Caller
    <2>2. L.failing <=> L.change = "failed"
      BY <2>1 DEF CallTyped, Saving
    <2>3. ~L.failing => /\ \A a \in Action : target[a] = "done" =>
                                                L.boxes[a].status = "committed"
                        /\ L.change \in {"superseded", "skipped"} => Untouched
      BY <2>1, WorkerClaims DEF Working, Phase, Idle
    <2>4. row.reason # "target_changed"
      BY <1>1, <2>1 DEF RowPhase
    <2>5. CASE L.change = None
      <3>1. row'.status = "applying" /\ row'.reason = row.reason /\ ~L.failing
        BY <1>8, <2>2, <2>5, NoneAssumption DEF RowSaved, Status, Terminal
      <3> QED BY <1>8, <2>1, <2>3, <2>4, <3>1 DEF RowPhase, Quiet
    <2>6. CASE L.change # None
      <3>1. /\ row'.status = L.change
            /\ L.change \in {"committed", "skipped", "superseded", "failed"}
            /\ row'.reason = IF L.change = "superseded" THEN "target_changed" ELSE row.reason
        BY <1>8, <2>1, <2>6 DEF RowSaved, Changes
      <3> QED BY <1>2, <1>8, <2>1, <2>2, <2>3, <2>4, <3>1 DEF RowPhase
    <2> QED BY <2>5, <2>6
  <1> QED BY <1>3, <1>4, <1>5, <1>6, <1>7, <1>8, TargetSteps, RowSteps

\* An applier that does not move keeps its claim and what it knows.
LEMMA OthersKeepPhase ==
    ASSUME TypedInv, OneApplierInv, OneCreator, [Next]_vars, Action' = Action,
           \A w \in Applier : ~RowCreated(w),
           NEW v \in Applier, pc'[v] = pc[v], loc'[v] = loc[v],
           \A w \in Applier : ApplierStep(w) \/ Fault(w) => w # v
    PROVE  Phase(v, pc[v], loc[v])'
  <1> DEFINE L == loc[v]
  <1>1. Phase(v, pc[v], L) /\ RowPhase /\ v # None
    BY ConstantsAssumption DEF OneApplierInv
  <1>2. Working(pc[v], L) => L.claimed
    BY WorkerClaims
  <1>3. ASSUME ~L.claimed, pc[v] \in Coming => row'.owner # v,
               pc[v] = "claimed" /\ row'.owner = v => Untouched'
        PROVE  Phase(v, pc[v], loc[v])'
    BY <1>2, <1>3 DEF Phase, Working
  <1>4. ASSUME NEW w \in Applier, w # v, row.owner = w, row'.owner = w
        PROVE  Phase(v, pc[v], loc[v])'
    BY <1>1, <1>3, <1>4 DEF Phase
  <1>5. Quiet /\ Untouched => Untouched'
    BY DEF Quiet, Untouched
  <1>6. CASE \E w \in Applier : Acted(w)
    <2>1. PICK w \in Applier : Acted(w)
      BY <1>6
    <2>2. w # v
      BY <2>1 DEF Acted, ApplierStep
    <2> QED BY <1>4, <2>1, <2>2, ActedWorks DEF Acted
  <1>7. CASE Quiet /\ RowKept
    BY <1>1, <1>5, <1>7 DEF RowKept, Phase, Working, Idle, Stage, InStep, Quiet
  <1>8. CASE Quiet /\ RowEnded
    BY <1>1, <1>5, <1>8 DEF RowEnded, Phase, Working, Idle, Stage, InStep, Quiet
  <1>9. ASSUME Quiet, NEW w \in Applier, RowClaimed(w)
        PROVE  Phase(v, pc[v], loc[v])'
    <2>1. w # v /\ row'.owner = w /\ row.owner = None
      BY <1>1, <1>9 DEF RowClaimed, ApplierStep, RowPhase
    <2> QED BY <1>1, <1>3, <2>1 DEF Phase
  <1>10. ASSUME Quiet, NEW w \in Applier, RowSaved(w) \/ RowRenewed(w)
         PROVE  Phase(v, pc[v], loc[v])'
    <2>1. w # v /\ row'.owner = w /\ row.owner = w
      BY <1>10 DEF RowSaved, RowRenewed, ApplierStep, HoldsClaim
    <2> QED BY <1>4, <2>1
  <1> QED BY <1>6, <1>7, <1>8, <1>9, <1>10, TargetSteps, RowSteps

\* Phase of the next state, for a place and local fields of this one.
PhaseNext(w, p, l) ==
    /\ p \in Coming => row'.owner # w
    /\ l.claimed => row'.owner = w
    /\ p = "claimed" /\ row'.owner = w => Untouched'
    /\ Working(p, l) =>
         /\ row'.status = "applying"
         /\ \A a \in Action : target'[a] = "done" => l.boxes[a].status = "committed"
         /\ Idle(p, l) => Untouched'
         /\ p = "save" \/ (p = "verify" /\ ~l.wrote) \/ row'.boxes = l.boxes

LEMMA Lands ==
    ASSUME TypedInv, Action' = Action, NEW w \in Applier, NEW p, NEW l,
           Goto(w, p, l), PhaseNext(w, p, l)
    PROVE  Phase(w, pc[w], loc[w])'
  <1>1. pc'[w] = p /\ loc'[w] = l
    BY Arrives DEF Caller
  <1> QED BY <1>1 DEF Phase, PhaseNext, Working, Idle, Stage, InStep

LEMMA Answered ==
    ASSUME TypedInv, NEW w \in Applier, NEW status, Answer(w, status)
    PROVE  Phase(w, pc[w], loc[w])'
  <1>1. pc'[w] = "done" /\ loc'[w] = NoLocal
    BY Ends DEF Caller
  <1> QED BY <1>1 DEF Phase, Working, Holding, Saving, NoLocal, Coming

\* Before its claim an applier has nothing to keep.
LEMMA ComingPhase ==
    ASSUME TypedInv, OneApplierInv, OneCreator, Action' = Action,
           NEW w \in Applier,
           Look(w) \/ LookAgain(w) \/ ReadRow(w) \/ Exhaust(w) \/ Exhausted(w)
           \/ TryClaim(w) \/ FailUnclaimed(w)
    PROVE  Phase(w, pc[w], loc[w])'
  <1> DEFINE L == loc[w]
  <1>1. Phase(w, pc[w], L) /\ CallTyped(pc[w], L) /\ L \in Local /\ row \in Rows
    BY DEF OneApplierInv, TypedInv, SharedTyped, Caller
  <1>2. ~L.claimed
    BY <1>1 DEF CallTyped, Holding, Saving, Look, LookAgain, ReadRow, Exhaust,
       Exhausted, TryClaim, FailUnclaimed
  <1>3. row'.owner = row.owner
    BY <1>1 DEF Look, LookAgain, ReadRow, Exhaust, Exhausted, TryClaim,
       FailUnclaimed, Rows
  <1>4. ASSUME NEW p \in Coming, NEW l, ~l.claimed, Goto(w, p, l), pc[w] \in Coming
        PROVE  Phase(w, pc[w], loc[w])'
    <2>1. PhaseNext(w, p, l)
      BY <1>1, <1>3, <1>4 DEF PhaseNext, Phase, Coming, Working, Holding, Saving
    <2> QED BY <1>4, <2>1, Lands
  <1>5. CASE Look(w)
    BY <1>4, <1>5, Answered DEF Look, Coming, NoLocal
  <1>6. CASE LookAgain(w)
    <2> DEFINE boxes == IF row = NoRow THEN [a \in Action |-> Pending] ELSE row.boxes
               l == [L EXCEPT !.boxes = boxes]
    <2>1. ~l.claimed
      BY <1>1, <1>2 DEF Local
    <2>2. \/ \E status : Answer(w, status)
          \/ \E p \in Coming : Goto(w, p, l)
      BY <1>6 DEF LookAgain, Coming
    <2>3. pc[w] \in Coming
      BY <1>6 DEF LookAgain, Coming
    <2> HIDE DEF l
    <2> QED BY <1>4, <2>1, <2>2, <2>3, Answered
  <1>7. CASE ReadRow(w)
    <2>1. ~[L EXCEPT !.seen = row].claimed
      BY <1>1, <1>2 DEF Local
    <2> QED BY <1>4, <1>7, <2>1 DEF ReadRow, Coming
  <1>8. CASE Exhaust(w)
    BY <1>2, <1>4, <1>8 DEF Exhaust, Coming
  <1>9. CASE Exhausted(w) \/ FailUnclaimed(w)
    BY <1>9, Answered DEF Exhausted, FailUnclaimed
  <1>10. CASE TryClaim(w)
    <2>1. ~[L EXCEPT !.now = now, !.seen = row].claimed
      BY <1>1, <1>2 DEF Local
    <2> QED BY <1>4, <1>10, <2>1, Answered DEF TryClaim, Coming
  <1> QED BY <1>5, <1>6, <1>7, <1>8, <1>9, <1>10

\* The claim, and the writes under it.
LEMMA HoldingPhase ==
    ASSUME TypedInv, OneApplierInv, OneCreator, [Next]_vars, Action' = Action,
           NEW w \in Applier,
           Claim(w) \/ Claimed(w) \/ Saved(w) \/ Verify(w) \/ Renew(w)
    PROVE  Phase(w, pc[w], loc[w])'
  <1> DEFINE L == loc[w]
  <1>1. /\ Phase(w, pc[w], L) /\ CallTyped(pc[w], L) /\ L \in Local /\ row \in Rows
        /\ RowPhase /\ w \in Caller
    BY DEF OneApplierInv, TypedInv, SharedTyped, Caller
  <1>2. target' = target
    BY DEF Claim, Claimed, Saved, Verify, Renew
  <1>3. Untouched => Untouched'
    BY <1>2 DEF Untouched
  <1>4. CASE Claim(w)
    <2> DEFINE l == [L EXCEPT !.seen = NoRow, !.now = 0]
    <2>1. ~l.claimed /\ row.owner # w
      BY <1>1, <1>4 DEF Claim, CallTyped, Holding, Saving, Local, Phase, Coming
    <2>2. row' = row \/ row.owner = None
      BY <1>1, <1>4 DEF Claim, MayClaim, Claimable, RowPhase
    <2>3. PhaseNext(w, "claimed", l)
      BY <1>1, <1>3, <2>1, <2>2 DEF PhaseNext, Coming, Working, Holding, Saving, RowPhase
    <2> QED BY <1>4, <2>3, Lands DEF Claim
  <1>5. CASE Claimed(w)
    <2> DEFINE k == [L EXCEPT !.claimed = TRUE]
               l == [k EXCEPT !.boxes = Resolved(L.boxes), !.change = None,
                              !.then = "check_targets"]
    <2>1. CASE ~HoldsClaim(row, w)
      BY <1>5, <2>1, Answered DEF Claimed
    <2>2. CASE HoldsClaim(row, w)
      <3>1. row' = row /\ row.owner = w /\ row.status = "applying" /\ Untouched'
        BY <1>1, <1>3, <1>5, <2>2 DEF Claimed, HoldsClaim, Phase
      <3>2. PhaseNext(w, "save", l)
        BY <3>1 DEF PhaseNext, Coming, Untouched
      <3> QED BY <1>5, <2>2, <3>2, Lands DEF Claimed, Save
    <2> QED BY <2>1, <2>2
  <1>6. CASE Saved(w)
    <2> DEFINE mine == MayWrite(row, w, now)
               l == [L EXCEPT !.wrote = mine]
    <2>1. /\ mine \in BOOLEAN /\ pc[w] = "save" /\ L.claimed /\ row.owner = w
          /\ L.then \in Resume <=> L.change = None
          /\ L.then \in Resume => ~L.failing
      BY <1>1, <1>6, NoneAssumption DEF Saved, MayWrite, HoldsClaim, CallTyped, Holding, Saving,
         Phase, Status, Terminal
    <2>2. ~mine => row' = row
      BY <1>6 DEF Saved
    <2>3. mine => row'.boxes = L.boxes /\ row'.owner = w
                  /\ (L.change = None => row'.status = row.status)
      <3>1. SUFFICES ASSUME mine
                     PROVE  row'.boxes = L.boxes /\ row'.owner = w
                            /\ (L.change = None => row'.status = row.status)
        OBVIOUS
      <3>2. row' = [row EXCEPT !.boxes = L.boxes, !.stamp = w,
                               !.status = IF L.change = None THEN row.status
                                          ELSE L.change,
                               !.reason = IF L.change = "superseded"
                                          THEN "target_changed" ELSE row.reason]
        BY <1>1, <1>6, <3>1 DEF Saved, Rows
      <3> QED BY <1>1, <2>1, <3>2 DEF Rows
    <2>4. L.then \in Resume => Working(pc[w], L)
      BY <2>1 DEF Working
    <2> HIDE DEF mine
    <2>5. /\ l.wrote = mine /\ l.claimed = L.claimed /\ l.boxes = L.boxes
          /\ l.then = L.then
      BY <1>1, <2>1 DEF Local
    <2>6. Working("verify", l) => L.then \in Resume
      BY <2>5 DEF Working, Holding, Saving
    <2>7. Idle("verify", l) => Idle(pc[w], L)
      BY <2>1, <2>5 DEF Idle, Stage, Saving
    <2> HIDE DEF l
    <2>8. PhaseNext(w, "verify", l)
      BY <1>1, <1>2, <1>3, <2>1, <2>2, <2>3, <2>4, <2>5, <2>6, <2>7
         DEF PhaseNext, Phase, Coming
    <2> QED BY <1>6, <2>8, Lands DEF Saved, l, mine
  <1>7. CASE Verify(w)
    <2> DEFINE l == [L EXCEPT !.change = None, !.then = None, !.wrote = FALSE]
    <2>1. row' = row /\ pc[w] = "verify" /\ L.claimed /\ row.owner = w
      BY <1>1, <1>7 DEF Verify, CallTyped, Holding, Saving, Phase
    <2>2. PhaseNext(w, "raise", L)
      BY <2>1 DEF PhaseNext, Coming, Working, Holding, Saving
    <2>3. ASSUME L.then \in Resume, L.wrote PROVE PhaseNext(w, L.then, l)
      <3>1. Working(pc[w], L)
        BY <2>1, <2>3 DEF Working
      <3>2. l.claimed = L.claimed /\ l.boxes = L.boxes
        BY <1>1 DEF Local
      <3>3. L.then \notin Coming /\ L.then # "claimed" /\ L.then \notin Saving
        BY <2>3 DEF Resume, Coming, Saving
      <3>4. Idle(L.then, l) => Idle(pc[w], L)
        BY <2>1, <3>3 DEF Idle, Stage, Saving
      <3> HIDE DEF l
      <3> QED BY <1>1, <1>2, <1>3, <2>1, <2>3, <3>1, <3>2, <3>3, <3>4
              DEF PhaseNext, Phase, InStep
    <2>4. \/ \E status : Answer(w, status)
          \/ Goto(w, "raise", L)
          \/ L.wrote /\ L.then \in Resume /\ Goto(w, L.then, l)
      <3>1. L.then \in Resume \cup Answers
        BY <1>1, <2>1 DEF CallTyped, Saving, Answers
      <3> QED BY <1>7, <3>1 DEF Verify
    <2> QED BY <2>2, <2>3, <2>4, Lands, Answered
  <1>8. CASE Renew(w)
    <2> DEFINE mine == MayWrite(row, w, now)
               l == [L EXCEPT !.wrote = mine, !.now = now]
    <2>1. Working(pc[w], L) /\ pc[w] = "renew"
      BY <1>8 DEF Renew, Working, Holding, Saving
    <2>2. l.claimed = L.claimed /\ l.boxes = L.boxes
      BY <1>1 DEF Local
    <2>3. row'.owner = row.owner /\ row'.status = row.status /\ row'.boxes = row.boxes
      BY <1>1, <1>8 DEF Renew, Rows
    <2>4. ~Idle("renewed", l)
      BY DEF Idle, Stage, Saving
    <2>5. PhaseNext(w, "renewed", l)
      <3> HIDE DEF l
      <3> QED BY <1>1, <1>2, <2>1, <2>2, <2>3, <2>4, WorkerClaims
              DEF PhaseNext, Phase, Coming, InStep
    <2> QED BY <1>8, <2>5, Lands DEF Renew
  <1> QED BY <1>4, <1>5, <1>6, <1>7, <1>8


\* The plan, the handler of an error, and the error.
LEMMA PlanPhase ==
    ASSUME TypedInv, OneApplierInv, OneCreator, [Next]_vars, Action' = Action,
           NEW w \in Applier,
           CheckTargets(w) \/ NextAction(w) \/ Renewed(w) \/ Act(w)
           \/ Complete(w) \/ Raise(w) \/ Fault(w)
    PROVE  Phase(w, pc[w], loc[w])'
  <1> DEFINE L == loc[w]
             Told(boxes) == \A a \in Action : target'[a] = "done" =>
                                                boxes[a].status = "committed"
  <1>1. /\ Phase(w, pc[w], L) /\ CallTyped(pc[w], L) /\ L \in Local
        /\ row' = row /\ issue \in Issue /\ w \in Caller
    BY DEF OneApplierInv, TypedInv, SharedTyped, Caller, CheckTargets, NextAction,
       Renewed, Act, Complete, Raise, Fault
  <1>2. ASSUME NEW p \in {"raise", "fail_unclaimed"}, NEW l, l.claimed = L.claimed,
               Goto(w, p, l)
        PROVE  Phase(w, pc[w], loc[w])'
    <2>1. PhaseNext(w, p, l)
      BY <1>1, <1>2 DEF PhaseNext, Phase, Coming, Working, Holding, Saving
    <2> QED BY <1>2, <2>1, Lands
  <1>3. ASSUME Working(pc[w], L), target' = target
        PROVE  Told(L.boxes)
    BY <1>1, <1>3 DEF Phase
  <1>4. ASSUME Working(pc[w], L), NEW l \in Local, l.claimed = L.claimed, NEW boxes,
               Told(boxes), NEW change, NEW then, then # "check_targets",
               change \in {"superseded", "skipped"} => Untouched',
               Save(w, l, boxes, change, then)
        PROVE  Phase(w, pc[w], loc[w])'
    <2> DEFINE m == [l EXCEPT !.boxes = boxes, !.change = change, !.then = then]
    <2>1. m.claimed = L.claimed /\ m.boxes = boxes /\ m.change = change /\ m.then = then
      BY <1>4 DEF Local
    <2>2. Goto(w, "save", m)
      BY <1>4 DEF Save
    <2> HIDE DEF m, Told
    <2>3. Idle("save", m) => Untouched'
      BY <1>4, <2>1 DEF Idle, Stage, Saving
    <2>4. Told(m.boxes)
      BY <1>4, <2>1
    <2>5. PhaseNext(w, "save", m)
      BY <1>1, <1>4, <2>1, <2>3, <2>4, WorkerClaims DEF PhaseNext, Coming, Told
    <2> QED BY <2>2, <2>5, Lands
  <1>5. ASSUME Working(pc[w], L), pc[w] \notin Saving, target' = target,
               NEW p \in {"next_action", "complete", "renew", "act"},
               NEW l, l.claimed = L.claimed, l.boxes = L.boxes, Goto(w, p, l)
        PROVE  Phase(w, pc[w], loc[w])'
    <2>1. ~Idle(p, l)
      BY <1>5 DEF Idle, Stage, Saving
    <2>2. row.boxes = L.boxes /\ row.status = "applying" /\ row.owner = w
      BY <1>5, WorkerClaims DEF Phase, InStep, Saving
    <2>3. PhaseNext(w, p, l)
      BY <1>1, <1>3, <1>5, <2>1, <2>2 DEF PhaseNext, Coming
    <2> QED BY <1>5, <2>3, Lands
  <1> HIDE DEF Told
  <1>6. CASE CheckTargets(w)
    <2>1. /\ Working(pc[w], L) /\ pc[w] \notin Saving /\ target' = target
          /\ Idle(pc[w], L)
      BY <1>6 DEF CheckTargets, Working, Holding, Saving, Idle, Stage
    <2>2. Untouched'
      BY <1>1, <2>1 DEF Phase, Untouched
    <2>3. \A S : [L EXCEPT !.todo = S].claimed = L.claimed
                 /\ [L EXCEPT !.todo = S].boxes = L.boxes
      BY <1>1 DEF Local
    <2>4. CASE Save(w, L, L.boxes, "superseded", "skipped")
      BY <1>1, <1>3, <1>4, <2>1, <2>2, <2>4
    <2>5. CASE \E S : Goto(w, "next_action", [L EXCEPT !.todo = S])
      BY <1>5, <2>1, <2>3, <2>5
    <2> QED BY <1>6, <2>4, <2>5 DEF CheckTargets
  <1>7. CASE NextAction(w)
    <2> DEFINE a == Earliest(L.todo)
               marked == [L.boxes EXCEPT ![a].status = "skipped"]
               rest == [L EXCEPT !.todo = @ \ {a},
                                 !.at = IF issue.artifacts THEN -1 ELSE 0]
               k == [L EXCEPT !.todo = @ \ {a}]
    <2>1. /\ Working(pc[w], L) /\ pc[w] \notin Saving /\ target' = target
          /\ pc[w] = "next_action"
      BY <1>7 DEF NextAction, Working, Holding, Saving
    <2>2. L.boxes \in [Action -> Box] /\ \A b \in L.todo : ~Settled(L.boxes[b])
      BY <1>1, <2>1 DEF CallTyped, Prepared, Points, Stage, Saving
    <2>3. L.todo # {} => a \in L.todo /\ a \in Action
      BY <1>1, EarliestIsOne DEF Local
    <2>4. L.todo # {} => Told(marked)
      <3>1. L.todo # {} => target'[a] # "done"
        BY <1>3, <2>1, <2>2, <2>3 DEF Told, Settled
      <3> QED BY <1>3, <2>1, <2>2, <2>3, <3>1 DEF Told
    <2>5. k \in Local /\ k.claimed = L.claimed
      BY <1>1 DEF Local
    <2>6. rest = [k EXCEPT !.at = IF issue.artifacts THEN -1 ELSE 0]
      OBVIOUS
    <2>7. rest \in Local /\ rest.claimed = L.claimed
      <3> HIDE DEF k, rest
      <3> QED BY <2>5, <2>6 DEF Local
    <2>8. /\ [L EXCEPT !.at = 0].claimed = L.claimed
          /\ [L EXCEPT !.at = 0].boxes = L.boxes
          /\ [L EXCEPT !.at = a, !.todo = @ \ {a}].claimed = L.claimed
          /\ [L EXCEPT !.at = a, !.todo = @ \ {a}].boxes = L.boxes
      BY <1>1 DEF Local
    <2>9. \/ Goto(w, "complete", [L EXCEPT !.at = 0])
          \/ L.todo # {} /\ Save(w, rest, marked, None, "next_action")
          \/ Goto(w, "renew", [L EXCEPT !.at = a, !.todo = @ \ {a}])
      BY <1>7 DEF NextAction
    <2> HIDE DEF rest, marked, k
    <2> QED BY <1>4, <1>5, <2>1, <2>4, <2>7, <2>8, <2>9, NoneAssumption
            DEF Status, Terminal
  <1>8. CASE Renewed(w)
    <2> DEFINE k == [L EXCEPT !.wrote = FALSE]
               l == [L EXCEPT !.wrote = FALSE, !.now = 0]
               marked == [L.boxes EXCEPT ![L.at].status = "applying"]
    <2>1. /\ Working(pc[w], L) /\ pc[w] \notin Saving /\ target' = target
          /\ pc[w] = "renewed"
      BY <1>8 DEF Renewed, Working, Holding, Saving
    <2>2. L.boxes \in [Action -> Box] /\ L.at \in Action /\ ~Settled(L.boxes[L.at])
      BY <1>1, <2>1 DEF CallTyped, Prepared, Points, Stage, Saving
    <2>3. Told(marked)
      <3>1. target'[L.at] # "done"
        BY <1>3, <2>1, <2>2 DEF Told, Settled
      <3> QED BY <1>3, <2>1, <2>2, <3>1 DEF Told
    <2>4. k \in Local /\ k.claimed = L.claimed /\ l = [k EXCEPT !.now = 0]
      BY <1>1 DEF Local
    <2>5. l \in Local /\ l.claimed = L.claimed
      <3> HIDE DEF k, l
      <3> QED BY <2>4 DEF Local
    <2>6. Goto(w, "raise", l) \/ Save(w, l, marked, None, "act")
      BY <1>8 DEF Renewed
    <2> HIDE DEF l, marked
    <2> QED BY <1>2, <1>4, <2>1, <2>3, <2>5, <2>6, NoneAssumption DEF Status, Terminal
  <1>9. CASE Act(w)
    <2> DEFINE a == L.at
               box == [status |-> "committed",
                       op |-> IF Kind(a) = "add" THEN None ELSE "own"]
               boxes == [L.boxes EXCEPT ![a] = box]
               l == [L EXCEPT !.at = 0]
    <2>1. Working(pc[w], L) /\ pc[w] \notin Saving /\ pc[w] = "act"
      BY <1>9 DEF Act, Working, Holding, Saving
    <2>2. L.boxes \in [Action -> Box] /\ a \in Action
      BY <1>1, <2>1 DEF CallTyped, Prepared, Points, Stage, Saving
    <2>3. l \in Local /\ l.claimed = L.claimed
      BY <1>1 DEF Local
    <2>4. CASE Goto(w, "raise", l)
      BY <1>2, <2>3, <2>4
    <2>5. CASE Effect(a, "committed") /\ Save(w, l, boxes, None, "next_action")
      <3>1. \A b \in Action : target'[b] = "done" => b = a \/ target[b] = "done"
        BY <2>5 DEF Effect, TypedInv, SharedTyped
      <3>2. \A b \in Action : target[b] = "done" => L.boxes[b].status = "committed"
        BY <2>1, WorkerClaims DEF Phase
      <3>3. Told(boxes)
        BY <2>2, <3>1, <3>2 DEF Told
      <3> HIDE DEF boxes, l
      <3> QED BY <1>4, <2>1, <2>3, <2>5, <3>3, NoneAssumption DEF Status, Terminal
    <2> QED BY <1>9, <2>4, <2>5 DEF Act
  <1>10. CASE Complete(w)
    <2> DEFINE boxes == Resolved(L.boxes)
               with(s) == {a \in Action : boxes[a].status = s}
    <2>1. /\ Working(pc[w], L) /\ pc[w] \notin Saving /\ target' = target
          /\ pc[w] = "complete"
      BY <1>10 DEF Complete, Working, Holding, Saving
    <2>2. ASSUME NEW a \in Action, L.boxes[a].status = "committed"
          PROVE  boxes[a].status = "committed"
      BY <2>2 DEF Resolved, ResolveBox
    <2>3. Told(boxes)
      BY <1>3, <2>1, <2>2 DEF Told
    <2>4. with("committed") = {} => Untouched'
      BY <2>3 DEF Told, Untouched
    <2>5. \/ Goto(w, "raise", L)
          \/ Save(w, L, boxes, "committed", "applied")
          \/ with("committed") = {} /\ Save(w, L, boxes, "skipped", "skipped")
      BY <1>10 DEF Complete
    <2> HIDE DEF boxes
    <2> QED BY <1>1, <1>2, <1>4, <2>1, <2>3, <2>4, <2>5
  <1>11. CASE Raise(w)
    <2> DEFINE boxes == Resolved(L.boxes)
               l == [[L EXCEPT !.failing = TRUE] EXCEPT
                        !.boxes = boxes, !.change = "failed", !.then = "failed"]
    <2>1. CASE Goto(w, "save", l)
      <3>1. l.claimed = L.claimed /\ l.failing
        BY <1>1 DEF Local
      <3> HIDE DEF l
      <3>2. PhaseNext(w, "save", l)
        BY <1>1, <3>1 DEF PhaseNext, Phase, Coming, Working, Holding, Saving
      <3> QED BY <2>1, <3>2, Lands
    <2>2. CASE Goto(w, "fail_unclaimed", [L EXCEPT !.boxes = boxes])
      <3>1. [L EXCEPT !.boxes = boxes].claimed = L.claimed
        BY <1>1 DEF Local
      <3> QED BY <1>2, <2>2, <3>1
    <2> QED BY <1>11, <2>1, <2>2 DEF Raise, Save
  <1>12. CASE Fault(w)
    <2>1. [L EXCEPT !.at = 0, !.seen = NoRow, !.now = 0].claimed = L.claimed
      BY <1>1 DEF Local
    <2> QED BY <1>2, <1>12, <2>1 DEF Fault
  <1> QED BY <1>6, <1>7, <1>8, <1>9, <1>10, <1>11, <1>12

\* Nothing but the creation makes a row.
LEMMA NotCreatedStays ==
    ASSUME TypedInv, NotCreated, [Next]_vars, \A w \in Applier : ~RowCreated(w)
    PROVE  NotCreated'
  <1>1. row' = row /\ row = NoRow /\ row.status = "none"
    BY RowSteps DEF NotCreated, NoRow, RowKept, RowEnded, RowClaimed, RowSaved,
       RowRenewed, HoldsClaim
  <1> DEFINE Fits(p, l) == /\ p \in Early /\ ~l.claimed
                           /\ p = "create" => l.seen = NoRow
  <1>2. ASSUME NEW w \in Applier, ApplierStep(w) \/ Fault(w)
        PROVE  Fits(pc'[w], loc'[w])
    <2> DEFINE L == loc[w]
    <2>1. /\ pc[w] \in Early /\ ~L.claimed /\ L \in Local /\ w \in Caller
          /\ pc[w] = "create" => L.seen = NoRow
      BY DEF NotCreated, TypedInv, Caller
    <2>2. ASSUME NEW p, NEW l, Goto(w, p, l), Fits(p, l)
          PROVE  Fits(pc'[w], loc'[w])
      BY <2>1, <2>2, Arrives
    <2>3. ASSUME NEW status, Answer(w, status) PROVE Fits(pc'[w], loc'[w])
      BY <2>1, <2>3, Ends DEF Early, NoLocal
    <2>4. \/ Look(w) \/ LookAgain(w) \/ ReadRow(w) \/ Create(w) \/ Raise(w)
          \/ FailUnclaimed(w) \/ (Fault(w) /\ pc[w] = "create")
      BY <1>2, <2>1 DEF ApplierStep, Early, Exhaust, Exhausted, TryClaim, Claim,
         Claimed, Saved, Verify, CheckTargets, NextAction, Renew, Renewed, Act,
         Complete, Fault
    <2>5. ~Create(w)
      BY CreatesRow
    <2>6. CASE Look(w)
      BY <1>1, <2>2, <2>6 DEF Look, Early, NoLocal, Terminal
    <2>7. CASE LookAgain(w)
      <3> DEFINE l == [L EXCEPT !.boxes = [a \in Action |-> Pending]]
      <3>1. ~l.claimed
        BY <2>1 DEF Local
      <3>2. Goto(w, "read_row", l)
        BY <1>1, <2>7 DEF LookAgain, Terminal
      <3> HIDE DEF l
      <3> QED BY <2>2, <3>1, <3>2 DEF Early
    <2>8. CASE ReadRow(w)
      <3>1. ~[L EXCEPT !.seen = row].claimed /\ [L EXCEPT !.seen = row].seen = row
        BY <2>1 DEF Local
      <3> QED BY <1>1, <2>2, <2>8, <3>1 DEF ReadRow, Early
    <2>9. CASE Raise(w)
      <3>1. ~[L EXCEPT !.boxes = Resolved(L.boxes)].claimed
        BY <2>1 DEF Local
      <3> QED BY <2>1, <2>2, <2>9, <3>1 DEF Raise, Early
    <2>10. CASE FailUnclaimed(w)
      BY <2>3, <2>10 DEF FailUnclaimed
    <2>11. CASE Fault(w)
      <3>1. ~[L EXCEPT !.at = 0, !.seen = NoRow, !.now = 0].claimed
        BY <2>1 DEF Local
      <3> QED BY <2>2, <2>11, <3>1 DEF Fault, Early
    <2> QED BY <2>4, <2>5, <2>6, <2>7, <2>8, <2>9, <2>10, <2>11
  <1>3. ASSUME NEW v \in Applier PROVE Fits(pc'[v], loc'[v])
    <2>1. CASE pc'[v] = pc[v] /\ loc'[v] = loc[v]
      BY <2>1 DEF NotCreated
    <2>2. CASE ~(pc'[v] = pc[v] /\ loc'[v] = loc[v])
      <3>1. PICK w \in Applier : ApplierStep(w) \/ Fault(w)
        BY <2>2, AppliersStay DEF Next
      <3>2. v = w
        BY <2>2, <3>1, StepMoves DEF Caller
      <3> QED BY <1>2, <3>1, <3>2
    <2> QED BY <2>1, <2>2
  <1> QED BY <1>1, <1>3 DEF NotCreated

\* The first creation finds a fresh row, and no applier past its own.
LEMMA CreationPhase ==
    ASSUME TypedInv, OneApplierInv, created = 0, Action' = Action,
           NEW w \in Applier, RowCreated(w)
    PROVE  RowPhase' /\ \A v \in Applier : Phase(v, pc[v], loc[v])'
  <1> DEFINE L == loc[w]
             l == [L EXCEPT !.seen = NoRow]
  <1>1. NotCreated /\ RowPhase /\ L \in Local /\ w \in Caller /\ pc[w] = "create"
    BY DEF OneApplierInv, OneCreator, TypedInv, Caller, RowCreated, Create
  <1>2. row'.owner = None /\ row'.reason = None /\ row'.status = "planned"
    BY <1>1 DEF RowCreated, NotCreated, NoRow
  <1>3. Untouched'
    BY <1>1 DEF RowPhase, NotCreated, NoRow, Untouched, RowCreated, Create
  <1>4. RowPhase'
    BY <1>2, <1>3, NoneAssumption DEF RowPhase, Untouched
  <1>5. ASSUME NEW v \in Applier PROVE Phase(v, pc[v], loc[v])'
    <2>1. pc'[w] = "try_claim" /\ loc'[w] = l /\ l.claimed = L.claimed
      BY <1>1, Arrives DEF RowCreated, Create, Local
    <2>2. v # w => pc'[v] = pc[v] /\ loc'[v] = loc[v]
      BY StepMoves DEF RowCreated, ApplierStep, Caller
    <2>3. pc'[v] \in Early \cup {"try_claim"} /\ ~loc'[v].claimed
      BY <1>1, <2>1, <2>2 DEF NotCreated
    <2>4. row'.owner # v
      BY <1>2, ConstantsAssumption
    <2> QED BY <2>3, <2>4 DEF Phase, Working, Early, Holding, Saving
  <1> QED BY <1>4, <1>5

LEMMA StepOne == TypedInv /\ OneApplierInv /\ [Next]_vars => OneApplierInv'
  <1> SUFFICES ASSUME TypedInv, OneApplierInv, [Next]_vars PROVE OneApplierInv'
    OBVIOUS
  <1>1. Action' = Action /\ created \in Nat
    BY IssueStays DEF TypedInv, SharedTyped
  <1>2. CASE \E w \in Applier : RowCreated(w)
    <2>1. created' = created + 1
      BY <1>2 DEF RowCreated, Create
    <2>2. OneCreator' => created = 0
      BY <1>1, <2>1 DEF OneCreator
    <2>3. created' # 0
      BY <1>1, <2>1
    <2> QED BY <1>1, <1>2, <2>2, <2>3, CreationPhase DEF OneApplierInv
  <1>3. CASE \A w \in Applier : ~RowCreated(w)
    <2>1. created' = created
      <3>1. ASSUME NEW w \in Applier, ApplierStep(w) \/ Fault(w), ~Create(w)
            PROVE  created' = created
        BY <3>1 DEF ApplierStep, Look, LookAgain, ReadRow, Exhaust, Exhausted,
           TryClaim, Claim, Claimed, Saved, Verify, CheckTargets, NextAction, Renew,
           Renewed, Act, Complete, Raise, FailUnclaimed, Fault, Others
      <3>2. ASSUME ~\E w \in Applier : ApplierStep(w) \/ Fault(w)
            PROVE  created' = created
        BY <3>2 DEF Next, Reevaluate, Terminalize, Terminalized, Touch, Tick, vars,
           Others
      <3> QED BY <1>3, <3>1, <3>2, CreatesRow
    <2>2. created' = 0 => NotCreated'
      BY <1>3, <2>1, NotCreatedStays DEF OneApplierInv
    <2>3. ASSUME OneCreator', NEW v \in Applier PROVE Phase(v, pc[v], loc[v])'
      <3>1. OneCreator
        BY <2>1, <2>3 DEF OneCreator
      <3>2. CASE ApplierStep(v) \/ Fault(v)
        <4>1. ~Create(v)
          BY <1>3, CreatesRow
        <4> QED BY <1>1, <3>1, <3>2, <4>1, ComingPhase, HoldingPhase, PlanPhase
                DEF ApplierStep
      <3>3. CASE ~(ApplierStep(v) \/ Fault(v))
        <4>1. pc'[v] = pc[v] /\ loc'[v] = loc[v]
          <5>1. CASE \E w \in Applier : ApplierStep(w) \/ Fault(w)
            BY <3>3, <5>1, StepMoves DEF Caller
          <5> QED BY <5>1, AppliersStay DEF Next
        <4> QED BY <1>1, <1>3, <3>1, <3>3, <4>1, OthersKeepPhase
      <3> QED BY <3>2, <3>3
    <2>4. OneCreator' => RowPhase'
      BY <1>1, <1>3, <2>1, StepRowPhase DEF OneCreator
    <2> QED BY <2>2, <2>3, <2>4 DEF OneApplierInv
  <1> QED BY <1>2, <1>3

LEMMA InitOne == Init => OneApplierInv
  <1> SUFFICES ASSUME Init PROVE OneApplierInv
    OBVIOUS
  <1>1. row = NoRow /\ created = 0 /\ Untouched
    BY DEF Init, Untouched
  <1>2. RowPhase
    BY <1>1, NoneAssumption DEF RowPhase, NoRow
  <1>3. ASSUME NEW w \in Applier
        PROVE  pc[w] = "idle" /\ ~loc[w].claimed /\ row.owner # w
    BY <1>1, ConstantsAssumption DEF Init, NoLocal, NoRow
  <1>4. ASSUME NEW w \in Applier PROVE Phase(w, pc[w], loc[w])
    BY <1>3 DEF Phase, Working, Holding, Saving
  <1>5. NotCreated
    BY <1>1, <1>3 DEF NotCreated, Early
  <1> QED BY <1>2, <1>4, <1>5 DEF OneApplierInv

----------------------------------------------------------------------------
(* The theorems.                                                           *)

LEMMA Invariants == Spec => [](TypedInv /\ TruthInv /\ OneApplierInv)
  <1>1. Init => TypedInv /\ TruthInv /\ OneApplierInv
    BY InitTyped, InitTrue, InitOne
  <1>2. TypedInv /\ TruthInv /\ OneApplierInv /\ [Next]_vars
          => (TypedInv /\ TruthInv /\ OneApplierInv)'
    BY StepTyped, StepTrue, StepOne
  <1> QED BY <1>1, <1>2, PTL DEF Spec

\* What the journal row of an issue tells is true, whatever raced, failed or
\* died between its writes: a checkpoint says committed only of an effect that
\* is there, and an outcome without effects is recorded only when there are none.
THEOREM RowTellsTruthHolds == Spec => []RowTellsTruth
  <1>1. TypedInv /\ TruthInv /\ OneApplierInv => RowTellsTruth
    <2> SUFFICES ASSUME TypedInv, TruthInv, OneApplierInv PROVE RowTellsTruth
      OBVIOUS
    <2>1. row # NoRow => \A a \in Action : row.boxes[a].status = "committed" =>
                                             target[a] = "done"
      BY DEF TruthInv, True
    <2>2. row.status = "committed" =>
            /\ \A a \in Action : row.boxes[a].status \in {"committed", "skipped"}
            /\ \E a \in Action : row.boxes[a].status = "committed"
      BY DEF TruthInv, AllSettled, Settled
    <2>3. OneCreator /\ (row.status = "skipped" \/ row.reason = "target_changed") =>
            \A a \in Action : target[a] # "done"
      BY DEF OneApplierInv, RowPhase, Untouched
    <2> QED BY <2>1, <2>2, <2>3 DEF RowTellsTruth
  <1> QED BY <1>1, Invariants, PTL

\* An action is recorded before it is carried out: while the row says applying,
\* a pending checkpoint is one of an action without effect.
THEOREM PendingIsUntouchedHolds == Spec => []PendingIsUntouched
  <1>1. OneApplierInv => PendingIsUntouched
    BY DEF OneApplierInv, RowPhase, PendingIsUntouched
  <1> QED BY <1>1, Invariants, PTL

\* The outcome of an issue is final: no applier and no operator overwrites a row
\* that says committed or superseded.
THEOREM OutcomeIsFinalHolds == Spec => OutcomeIsFinal
  <1>1. TypedInv /\ OneApplierInv /\ [Next]_vars => [OutcomeIsKept]_vars
    <2>1. OneApplierInv => (created = 0 => row = NoRow)
      BY DEF OneApplierInv, NotCreated
    <2> QED BY <2>1, StepKeepsOutcome
  <1> QED BY <1>1, Invariants, PTL DEF Spec, OutcomeIsFinal

===============================================================================
