--------------------------- MODULE EvidencePlanProofs ---------------------------
(***************************************************************************)
(* Theorems about EvidencePlan, for every value of its constants: any      *)
(* number of deliveries of the plan and of other writers, any of them      *)
(* dying, and running for longer than their leases.                        *)
(*                                                                         *)
(* RejectInv: as long as no plan is sealed, no delivery is past the claim  *)
(* of one, so nothing has been written.  CountInv: as long as no upsert of *)
(* the child row took back what another delivery wrote, a claim on the     *)
(* target stays until the child is committed, its owner is still at work   *)
(* on it, and the fence it was made under is there if the child is still   *)
(* its owner's; so who completes the child has projected its values.       *)
(***************************************************************************)
EXTENDS EvidencePlan, TLAPS

\* Where a call is: before it has claimed a plan, in the plan and in confirm,
\* and at work on the claimed target.
Early == {"idle", "decide", "seal", "reject", "check_plan", "claim_plan"} \cup Over
Confirming == {"verify", "again", "settle", "copy_prepared", "put_prepared",
               "check_child", "set_child", "read_child", "set_fence", "fenced",
               "claim_target", "read_claim", "lost", "put_claimed",
               "checkpoint", "commit"}
Targeting == {"project", "complete", "release", "delete_claim"}
DeliveryPoints == Early \cup Confirming \cup Targeting
WriterPoints == {"idle", "write", "revise", "done"} \cup Targeting
Points == DeliveryPoints \cup WriterPoints
PointsOf(c) == IF c \in Delivery THEN DeliveryPoints ELSE WriterPoints

Local == [epoch : Nat, tok : Delivery \cup {None}, seen : Call \cup {None},
          copy : Child, back : {"confirm", "recover", "again", "settle", "write"},
          tries : Nat, out : Outcome \cup {"no"}]

\* A writer completes the claims of others, never one of its own; a delivery
\* claims the child for its own confirmation or to take another's claim over.
ClaimingChild == {"copy_prepared", "put_prepared", "check_child", "set_child",
                  "read_child", "set_fence", "fenced"}
Back(c) == IF c \in Delivery THEN {"confirm", "again", "settle"} ELSE {"write"}
CallTyped(c, p, l) ==
    /\ p \in PointsOf(c)
    /\ p \in Targeting => l.back \in Back(c)
    /\ p \in ClaimingChild => l.back \in {"confirm", "recover"}

TypedInv ==
    /\ TypeOK /\ stale \in BOOLEAN
    /\ loc \in [Call -> Local] /\ pc \in [Call -> Points]
    /\ \A c \in Call : CallTyped(c, pc[c], loc[c])

\* Before a plan is sealed no delivery is past the claim of one.
Unsealed == plan.status \in {"none", "rejected"}
RejectInv ==
    /\ Unsealed =>
         /\ ~target.counted /\ child = NoChild /\ target.claim \notin Delivery
         /\ \A d \in Delivery : pc[d] \in Early
         /\ \A w \in Writer : pc[w] \notin Targeting
    /\ \A d \in Delivery : reply[d] = "rejected" => plan.status = "rejected"

\* A delivery that has claimed the target, for itself, does not come back to the
\* claim of the child.
Confirms(d) == pc[d] \in {"project", "complete"} /\ loc[d].back = "confirm"
Resting == {"checkpoint", "commit"} \cup Over
Holds(d) == pc[d] \in {"read_claim", "put_claimed"} \cup Resting \/ Confirms(d)
OwnClaim(d) ==
    /\ pc[d] \in {"set_fence", "fenced"} /\ loc[d].back = "confirm" =>
           (child.owner = d => loc[d].tok = d)
    /\ pc[d] \in {"claim_target", "read_claim", "put_claimed"} \/ Confirms(d) =>
           loc[d].tok = d
    /\ pc[d] = "put_claimed" \/ Confirms(d) => target.claim = d /\ loc[d].seen = d
    /\ target.claim = d => Holds(d)

\* A fence that is about to be set under a claim is not set by a call that found
\* the child another's than the claim's, when the child is the claim's now.
SeenClaim(d) ==
    pc[d] = "set_fence" =>
      /\ loc[d].seen \in {None, target.claim}
      /\ loc[d].seen \in Delivery /\ child.owner = loc[d].seen =>
             loc[d].tok = loc[d].seen

\* Who is about to complete its own child has projected.
Projects(d) ==
    pc[d] = "complete" /\ loc[d].back = "confirm" /\ child.owner = d => target.counted

CallCounts(c) ==
    /\ loc[c].out = "confirmed" => target.counted
    /\ pc[c] \in {"release", "delete_claim"} => child.status = "committed"
    /\ pc[c] \in {"set_fence", "fenced"} /\ loc[c].copy.status = "committed" =>
           child.status = "committed"
    /\ child.status # "committed" /\ c \in Delivery =>
           OwnClaim(c) /\ SeenClaim(c) /\ Projects(c)

\* The fence under which the target was claimed is there if the child is still
\* that of the claim.
FenceKept ==
    \A d \in Delivery : target.claim = d /\ child.owner = d => target.fence = d
SharedCounts ==
    /\ child.status = "committed" => target.counted
    /\ plan.done = "confirmed" => target.counted
    /\ child.status # "committed" => FenceKept
CountInv ==
    ~stale => SharedCounts /\ \A c \in Call : CallCounts(c)

----------------------------------------------------------------------------
(* Types.                                                                  *)

\* A step moves one call.
At(c, p, l) == pc' = [pc EXCEPT ![c] = p] /\ loc' = [loc EXCEPT ![c] = l]

RowsTyped ==
    /\ route' = route /\ plan' \in Plan /\ child' \in Child /\ target' \in Target
    /\ stale' \in BOOLEAN

LEMMA Structure == /\ Delivery \subseteq Call /\ Writer \subseteq Call
                   /\ \A c \in Call : c \in Delivery <=> c \notin Writer
                   /\ None \notin Call
  BY ConstantsAssumption DEF Call

LEMMA ConstantsTyped ==
    /\ NoPlan \in Plan /\ Planned \in Plan /\ Rejection \in Plan
    /\ NoChild \in Child /\ NoLocal \in Local
  BY DEF NoPlan, Planned, Rejection, Plan, NoChild, Child, NoLocal, Local, Outcome

\* What a step of one call leaves alone, and where it arrives.
LEMMA Arrives ==
    ASSUME TypedInv, NEW c \in Call, NEW p, NEW l, At(c, p, l)
    PROVE  /\ pc'[c] = p /\ loc'[c] = l
           /\ \A x \in Call \ {c} : pc'[x] = pc[x] /\ loc'[x] = loc[x]
  BY DEF TypedInv, At

LEMMA AtTyped ==
    ASSUME TypedInv, RowsTyped, NEW c \in Call, NEW p \in Points, NEW l \in Local,
           At(c, p, l), CallTyped(c, p, l),
           lease' \in [Delivery -> {"both", "child", "none"}],
           reply' \in [Call -> {"none", "done", "rejected", "failed"}]
    PROVE  TypedInv'
  <1>1. TypeOK' /\ stale' \in BOOLEAN
    BY DEF TypedInv, TypeOK, RowsTyped
  <1>2. loc' \in [Call -> Local] /\ pc' \in [Call -> Points]
    BY DEF TypedInv, At
  <1>3. ASSUME NEW x \in Call PROVE CallTyped(x, pc'[x], loc'[x])
    BY Arrives DEF TypedInv
  <1> QED BY <1>1, <1>2, <1>3 DEF TypedInv, CallTyped, PointsOf, Back

LEMMA GotoTyped ==
    ASSUME TypedInv, RowsTyped, NEW c \in Call, NEW p \in Points, NEW l \in Local,
           Goto(c, p, l), CallTyped(c, p, l)
    PROVE  TypedInv'
  <1>1. At(c, p, l) /\ UNCHANGED <<lease, reply>>
    BY DEF Goto, At
  <1> QED BY <1>1, AtTyped DEF TypedInv, TypeOK

LEMMA AnswerTyped ==
    ASSUME TypedInv, RowsTyped, NEW c \in Call,
           NEW r \in {"done", "rejected", "failed"}, Answer(c, r)
    PROVE  TypedInv'
  <1>1. At(c, "done", NoLocal) /\ lease' = lease /\ reply' = [reply EXCEPT ![c] = r]
    BY DEF Answer, At
  <1>2. CallTyped(c, "done", NoLocal)
    BY DEF CallTyped, PointsOf, DeliveryPoints, WriterPoints, Early, Over, Targeting, ClaimingChild
  <1>3. reply' \in [Call -> {"none", "done", "rejected", "failed"}]
    BY <1>1 DEF TypedInv, TypeOK
  <1>4. "done" \in Points /\ lease' \in [Delivery -> {"both", "child", "none"}]
    BY <1>1 DEF TypedInv, TypeOK, Points, WriterPoints
  <1>5. NoLocal \in Local
    BY ConstantsTyped
  <1> QED BY <1>1, <1>2, <1>3, <1>4, <1>5, AtTyped

LEMMA SameRows == TypedInv /\ UNCHANGED rows => RowsTyped
  BY DEF TypedInv, TypeOK, RowsTyped, rows

\* Where the calls go when a confirmation ends or is given up.
LEMMA DeliveryGoes ==
    ASSUME TypedInv, RowsTyped, NEW d \in Delivery, NEW p \in DeliveryPoints,
           NEW l \in Local, Goto(d, p, l), p \notin Targeting,
           p \in ClaimingChild => l.back \in {"confirm", "recover"}
    PROVE  TypedInv'
  <1>1. p \in Points
    BY DEF Points
  <1>2. d \in Call /\ d \notin Writer
    BY Structure
  <1> QED BY <1>1, <1>2, GotoTyped DEF CallTyped, PointsOf

LEMMA ConcludeTyped ==
    ASSUME TypedInv, RowsTyped, NEW d \in Delivery, NEW out \in Outcome,
           Conclude(d, out)
    PROVE  TypedInv'
  <1>1. [loc[d] EXCEPT !.out = out] \in Local
    BY Structure DEF TypedInv, Local
  <1> QED BY <1>1, DeliveryGoes DEF Conclude, DeliveryPoints, Confirming, Targeting, ClaimingChild

LEMMA RaiseTyped ==
    ASSUME TypedInv, RowsTyped, NEW c \in Call, Raise(c)
    PROVE  TypedInv'
  <1>1. CASE c \in Delivery /\ Goto(c, "checkpoint", [loc[c] EXCEPT !.out = "skipped"])
    BY <1>1, ConcludeTyped DEF Conclude, Outcome
  <1>2. CASE Fail(c)
    BY <1>2, AnswerTyped DEF Fail
  <1> QED BY <1>1, <1>2 DEF Raise

LEMMA ConsiderTyped ==
    ASSUME TypedInv, RowsTyped, NEW d \in Delivery, Consider(d)
    PROVE  TypedInv'
  <1> DEFINE l == [loc[d] EXCEPT !.back = "confirm"]
  <1>1. l \in Local /\ l.back = "confirm"
    BY Structure DEF TypedInv, Local
  <1>2. \/ Raise(d) \/ Conclude(d, "confirmed") \/ Conclude(d, "skipped")
        \/ Goto(d, "copy_prepared", l) \/ Goto(d, "check_child", l)
    BY DEF Consider
  <1>3. {"copy_prepared", "check_child"} \subseteq DeliveryPoints \ Targeting
    BY DEF DeliveryPoints, Confirming, Targeting
  <1> HIDE DEF l
  <1> QED BY <1>1, <1>2, <1>3, RaiseTyped, ConcludeTyped, DeliveryGoes, Structure
          DEF Outcome

LEMMA ResolveTyped ==
    ASSUME TypedInv, RowsTyped, NEW d \in Delivery, Resolve(d)
    PROVE  TypedInv'
  <1> DEFINE l == [loc[d] EXCEPT !.back = "recover"]
  <1>1. l \in Local /\ l.back = "recover"
    BY Structure DEF TypedInv, Local
  <1>2. Consider(d) \/ Goto(d, "check_child", l)
    BY DEF Resolve
  <1> HIDE DEF l
  <1> QED BY <1>1, <1>2, ConsiderTyped, DeliveryGoes DEF DeliveryPoints, Confirming, Targeting, ClaimingChild

LEMMA ReadTargetTyped ==
    ASSUME TypedInv, RowsTyped, NEW d \in Delivery, pc[d] \in ClaimingChild,
           ReadTarget(d, child)
    PROVE  TypedInv'
  <1> DEFINE l == [loc[d] EXCEPT !.tok = child.owner, !.seen = target.claim,
                                 !.copy = child]
  <1>1. l \in Local /\ l.back = loc[d].back
    <2>1. loc[d] \in Local /\ child \in Child /\ child.owner \in Delivery \cup {None}
          /\ target.claim \in Call \cup {None}
      BY Structure DEF TypedInv, TypeOK, Child, Target
    <2> QED BY <2>1 DEF Local
  <1>2. Raise(d) \/ Goto(d, "set_fence", l)
    BY DEF ReadTarget
  <1>3. loc[d].back \in {"confirm", "recover"}
    BY Structure DEF TypedInv, CallTyped
  <1> HIDE DEF l
  <1> QED BY <1>1, <1>2, <1>3, RaiseTyped, DeliveryGoes, Structure DEF DeliveryPoints, Confirming, Targeting, ClaimingChild

LEMMA RecoverTyped ==
    ASSUME TypedInv, RowsTyped, NEW c \in Call,
           NEW back \in Back(c) \ {"confirm"}, Recover(c, back)
    PROVE  TypedInv'
  <1> DEFINE l == [loc[c] EXCEPT !.tok = child.owner, !.seen = target.claim, !.back = back]
  <1>1. loc[c] \in Local
    BY DEF TypedInv
  <1>2. l \in Local /\ l.back = back
    <2>1. /\ child.owner \in Delivery \cup {None}
          /\ target.claim \in Call \cup {None}
      BY DEF TypedInv, TypeOK, Child, Target
    <2> QED BY <1>1, <2>1 DEF Local, Back
  <1>3. Raise(c) \/ Goto(c, "project", l)
    BY DEF Recover
  <1>4. CallTyped(c, "project", l) /\ "project" \in Points
    BY <1>2 DEF CallTyped, Points, PointsOf, DeliveryPoints, WriterPoints, Targeting, ClaimingChild
  <1> HIDE DEF l
  <1> QED BY <1>2, <1>3, <1>4, RaiseTyped, GotoTyped

LEMMA ResumeTyped ==
    ASSUME TypedInv, RowsTyped, NEW c \in Call, pc[c] \in Targeting, Resume(c)
    PROVE  TypedInv'
  <1>1. loc[c] \in Local /\ CallTyped(c, pc[c], loc[c])
    BY DEF TypedInv
  <1>2. [loc[c] EXCEPT !.tries = @ + 1] \in Local
    BY <1>1 DEF Local
  <1>3. CASE c \in Writer
    <2>1. Goto(c, "write", loc[c])
      BY <1>1, <1>3, Structure DEF Resume, CallTyped, Back
    <2>2. CallTyped(c, "write", loc[c]) /\ "write" \in Points
      BY <1>3, Structure DEF CallTyped, Points, PointsOf, WriterPoints, Targeting, ClaimingChild
    <2> QED BY <1>1, <2>1, <2>2, GotoTyped
  <1>4. CASE c \in Delivery
    <2>1. \/ Conclude(c, "confirmed")
          \/ Goto(c, "again", [loc[c] EXCEPT !.tries = @ + 1])
          \/ Goto(c, "settle", loc[c])
      BY <1>1, <1>4 DEF Resume, CallTyped, Back
    <2> QED BY <1>1, <1>2, <1>4, <2>1, ConcludeTyped, DeliveryGoes
            DEF DeliveryPoints, Confirming, Targeting, ClaimingChild, Outcome
  <1> QED BY <1>3, <1>4, Structure

LEMMA FailTyped ==
    ASSUME TypedInv, RowsTyped, NEW c \in Call, Fail(c) PROVE TypedInv'
  BY AnswerTyped DEF Fail

LEMMA LocalTyped ==
    ASSUME TypedInv, NEW c \in Call
    PROVE  /\ loc[c] \in Local /\ CallTyped(c, pc[c], loc[c])
           /\ plan \in Plan /\ child \in Child /\ target \in Target
           /\ stale \in BOOLEAN
  BY DEF TypedInv, TypeOK

LEMMA PlanStepTyped ==
    ASSUME TypedInv, NEW d \in Delivery,
           Begin(d) \/ Decide(d) \/ Seal(d) \/ Reject(d) \/ CheckPlan(d)
           \/ ClaimPlan(d) \/ Checkpoint(d) \/ Commit(d)
    PROVE  TypedInv'
  <1> DEFINE L == loc[d]
  <1>1. /\ d \in Call /\ L \in Local /\ plan \in Plan /\ child \in Child
        /\ target \in Target /\ stale \in BOOLEAN
    BY Structure, LocalTyped
  <1>2. {"decide", "seal", "reject", "check_plan", "claim_plan", "verify", "commit"}
          \subseteq DeliveryPoints \ Targeting
    BY DEF DeliveryPoints, Early, Confirming, Targeting, Over
  <1>0. {"decide", "seal", "reject", "check_plan", "claim_plan", "verify", "commit"}
          \cap ClaimingChild = {}
    BY DEF ClaimingChild
  <1>3. CASE Begin(d)
    <2>1. [NoLocal EXCEPT !.epoch = plan.epoch + 1] \in Local
      BY <1>1, ConstantsTyped DEF Local, Plan
    <2>2. RowsTyped
      BY <1>3, SameRows DEF Begin
    <2>3. \/ Answer(d, "done") \/ Answer(d, "rejected") \/ Goto(d, "decide", NoLocal)
          \/ Goto(d, "check_plan", [NoLocal EXCEPT !.epoch = plan.epoch + 1])
      BY <1>3 DEF Begin
    <2> QED BY <1>0, <1>1, <1>2, <2>1, <2>2, <2>3, AnswerTyped, DeliveryGoes, ConstantsTyped
  <1>4. CASE Decide(d) \/ CheckPlan(d)
    <2>1. RowsTyped
      BY <1>4, SameRows DEF Decide, CheckPlan
    <2>2. \/ Fail(d) \/ Goto(d, "seal", L) \/ Goto(d, "reject", L) \/ Goto(d, "claim_plan", L)
      BY <1>4 DEF Decide, CheckPlan
    <2> QED BY <1>0, <1>1, <1>2, <2>1, <2>2, FailTyped, DeliveryGoes
  <1>5. CASE Seal(d)
    <2>1. plan' \in Plan
      BY <1>1, <1>5, ConstantsTyped DEF Seal
    <2>2. RowsTyped
      BY <1>1, <1>5, <2>1 DEF Seal, RowsTyped
    <2>3. [L EXCEPT !.epoch = plan'.epoch + 1] \in Local
      BY <1>1, <2>1 DEF Local, Plan
    <2> QED BY <1>0, <1>2, <1>5, <2>2, <2>3, DeliveryGoes DEF Seal
  <1>6. CASE Reject(d)
    <2>1. RowsTyped
      BY <1>1, <1>6, ConstantsTyped DEF Reject, RowsTyped
    <2> QED BY <1>1, <1>6, <2>1, AnswerTyped, FailTyped DEF Reject
  <1>7. CASE ClaimPlan(d)
    <2> DEFINE k1 == [plan EXCEPT !.status = "claimed"]
               k2 == [k1 EXCEPT !.owner = d]
    <2>1. k2 \in Plan
      BY <1>1 DEF Plan
    <2>2. [k2 EXCEPT !.epoch = L.epoch] \in Plan
      BY <1>1, <2>1 DEF Plan, Local
    <2>3. plan' = plan \/ plan' = [k2 EXCEPT !.epoch = L.epoch]
      BY <1>1, <1>7 DEF ClaimPlan, Plan
    <2>4. RowsTyped
      BY <1>1, <1>7, <2>2, <2>3 DEF ClaimPlan, RowsTyped
    <2> QED BY <1>0, <1>1, <1>2, <1>7, <2>4, FailTyped, DeliveryGoes DEF ClaimPlan
  <1>8. CASE Checkpoint(d)
    <2>1. plan' = plan \/ plan' = [plan EXCEPT !.done = L.out]
      BY <1>8 DEF Checkpoint
    <2>2. RowsTyped
      BY <1>1, <1>8, <2>1 DEF Checkpoint, RowsTyped, Plan, Local
    <2> QED BY <1>0, <1>1, <1>2, <1>8, <2>2, FailTyped, DeliveryGoes DEF Checkpoint
  <1>9. CASE Commit(d)
    <2>1. plan' = plan \/ plan' = [plan EXCEPT !.status = "committed"]
      BY <1>9 DEF Commit
    <2>2. RowsTyped
      BY <1>1, <1>9, <2>1 DEF Commit, RowsTyped, Plan
    <2> QED BY <1>1, <1>9, <2>2, FailTyped, AnswerTyped DEF Commit
  <1> QED BY <1>3, <1>4, <1>5, <1>6, <1>7, <1>8, <1>9

LEMMA ConfirmStepTyped ==
    ASSUME TypedInv, NEW d \in Delivery,
           Verify(d) \/ Again(d) \/ Settle(d) \/ CopyPrepared(d) \/ PutPrepared(d)
           \/ CheckChild(d) \/ SetChild(d) \/ ReadChild(d) \/ SetFence(d) \/ Fenced(d)
    PROVE  TypedInv'
  <1> DEFINE L == loc[d]
  <1>1. /\ d \in Call /\ L \in Local /\ plan \in Plan /\ child \in Child
        /\ target \in Target /\ stale \in BOOLEAN
    BY Structure, LocalTyped
  <1>2. {"commit", "put_prepared", "check_child", "set_child", "read_child",
         "fenced", "claim_target", "lost"} \subseteq DeliveryPoints \ Targeting
    BY DEF DeliveryPoints, Confirming, Targeting
  <1>3. /\ [L EXCEPT !.copy = child] \in Local /\ [L EXCEPT !.copy = NoChild] \in Local
        /\ [L EXCEPT !.tok = None] \in Local
        /\ [L EXCEPT !.copy = child].back = L.back
        /\ [L EXCEPT !.copy = NoChild].back = L.back /\ [L EXCEPT !.tok = None].back = L.back
    BY <1>1, ConstantsTyped DEF Local
  <1>0. /\ {"commit", "claim_target", "lost"} \cap ClaimingChild = {}
        /\ pc[d] \in ClaimingChild => L.back \in {"confirm", "recover"}
    BY <1>1, LocalTyped DEF ClaimingChild, CallTyped
  <1>4. CASE Verify(d) \/ Again(d) \/ Settle(d)
    <2>1. RowsTyped
      BY <1>4, SameRows DEF Verify, Again, Settle
    <2>2. \/ Fail(d) \/ Goto(d, "commit", L) \/ Conclude(d, "skipped") \/ Resolve(d)
          \/ Raise(d) \/ Consider(d)
      BY <1>4 DEF Verify, Again, Settle
    <2> QED BY <1>0,  <1>1, <1>2, <2>1, <2>2, FailTyped, DeliveryGoes, ConcludeTyped,
            ResolveTyped, RaiseTyped, ConsiderTyped DEF Outcome
  <1>5. CASE CopyPrepared(d)
    <2>0. pc[d] \in ClaimingChild
      BY <1>5 DEF CopyPrepared, ClaimingChild
    <2>1. RowsTyped
      BY <1>5, SameRows DEF CopyPrepared
    <2> QED BY <1>0, <2>0,  <1>2, <1>3, <1>5, <2>1, DeliveryGoes DEF CopyPrepared
  <1>6. CASE PutPrepared(d)
    <2>0. pc[d] \in ClaimingChild
      BY <1>6 DEF PutPrepared, ClaimingChild
    <2>1. child' \in Child
      BY <1>1, <1>6 DEF PutPrepared, Local, Child
    <2>2. RowsTyped
      BY <1>1, <1>6, <2>1 DEF PutPrepared, RowsTyped, TakesBack
    <2> QED BY <1>0, <2>0,  <1>2, <1>3, <1>6, <2>2, DeliveryGoes DEF PutPrepared
  <1>7. CASE CheckChild(d)
    <2>0. pc[d] \in ClaimingChild
      BY <1>7 DEF CheckChild, ClaimingChild
    <2>1. RowsTyped
      BY <1>7, SameRows DEF CheckChild
    <2>2. \/ Conclude(d, "confirmed") \/ Goto(d, "fenced", [L EXCEPT !.tok = None])
          \/ ReadTarget(d, child) \/ Raise(d)
          \/ Goto(d, "set_child", [L EXCEPT !.copy = child])
      BY <1>7 DEF CheckChild
    <2> QED BY <1>0, <2>0,  <1>1, <1>2, <1>3, <2>1, <2>2, ConcludeTyped, DeliveryGoes,
            ReadTargetTyped, RaiseTyped DEF Outcome
  <1>8. CASE SetChild(d)
    <2>0. pc[d] \in ClaimingChild
      BY <1>8 DEF SetChild, ClaimingChild
    <2>1. child' = child \/ child' = [status |-> "claimed", owner |-> d, epoch |-> L.epoch]
      BY <1>8 DEF SetChild
    <2>2. RowsTyped
      BY <1>1, <1>8, <2>1 DEF SetChild, RowsTyped, Child, Local
    <2> QED BY <1>0, <2>0,  <1>2, <1>3, <1>8, <2>2, DeliveryGoes DEF SetChild
  <1>9. CASE ReadChild(d)
    <2>0. pc[d] \in ClaimingChild
      BY <1>9 DEF ReadChild, ClaimingChild
    <2>1. RowsTyped
      BY <1>9, SameRows DEF ReadChild
    <2> QED BY <1>0, <2>0,  <1>1, <1>9, <2>1, ReadTargetTyped, RaiseTyped DEF ReadChild
  <1>10. CASE SetFence(d)
    <2>0. pc[d] \in ClaimingChild
      BY <1>10 DEF SetFence, ClaimingChild
    <2>1. target' = target \/ target' = [target EXCEPT !.fence = L.tok]
      BY <1>10 DEF SetFence
    <2>2. RowsTyped
      BY <1>1, <1>10, <2>1 DEF SetFence, RowsTyped, Target, Local
    <2> QED BY <1>0, <2>0,  <1>1, <1>2, <1>10, <2>2, DeliveryGoes DEF SetFence
  <1>11. CASE Fenced(d)
    <2>0. pc[d] \in ClaimingChild
      BY <1>11 DEF Fenced, ClaimingChild
    <2>1. RowsTyped
      BY <1>11, SameRows DEF Fenced
    <2>2. \/ Raise(d) \/ Recover(d, "settle") \/ Consider(d) \/ Conclude(d, "confirmed")
          \/ Goto(d, "claim_target", L) \/ Goto(d, "lost", L)
      BY <1>0, <1>1, <1>11, <2>0 DEF Fenced
    <2>3. "settle" \in Back(d) \ {"confirm"}
      BY DEF Back
    <2> QED BY <1>0, <2>0,  <1>1, <1>2, <2>1, <2>2, <2>3, RaiseTyped, RecoverTyped, ConsiderTyped,
            ConcludeTyped, DeliveryGoes DEF Outcome
  <1> QED BY <1>4, <1>5, <1>6, <1>7, <1>8, <1>9, <1>10, <1>11

LEMMA TargetStepTyped ==
    ASSUME TypedInv, NEW c \in Call,
           \/ TargetStep(c)
           \/ c \in Delivery /\ (ClaimTarget(c) \/ ReadClaim(c) \/ Lost(c) \/ PutClaimed(c))
           \/ c \in Writer /\ (Write(c) \/ Revise(c))
    PROVE  TypedInv'
  <1> DEFINE L == loc[c]
  <1>1. /\ L \in Local /\ plan \in Plan /\ child \in Child
        /\ target \in Target /\ stale \in BOOLEAN /\ CallTyped(c, pc[c], L)
    BY LocalTyped
  <1>2. {"read_claim", "put_claimed", "lost", "again"} \subseteq DeliveryPoints \ Targeting
    BY DEF DeliveryPoints, Confirming, Targeting
  <1>0. {"read_claim", "put_claimed", "lost", "again"} \cap ClaimingChild = {}
    BY DEF ClaimingChild
  <1>3. Targeting \subseteq Points /\ {"write", "revise"} \subseteq Points
    BY DEF Points, WriterPoints
  <1>4. ASSUME pc[c] \in Targeting, NEW p \in Targeting PROVE CallTyped(c, p, L)
    BY <1>1, <1>4 DEF CallTyped, PointsOf, DeliveryPoints, WriterPoints, Targeting, ClaimingChild
  <1>5. CASE Project(c)
    <2>1. target' = target \/ target' = [target EXCEPT !.counted = TRUE]
      BY <1>5 DEF Project
    <2>2. RowsTyped
      BY <1>1, <1>5, <2>1 DEF Project, RowsTyped, Target
    <2>3. CallTyped(c, "complete", L) /\ "complete" \in Points
      BY <1>3, <1>4, <1>5 DEF Project, Targeting
    <2> QED BY <1>1, <1>5, <2>2, <2>3, GotoTyped DEF Project
  <1>6. CASE Complete(c)
    <2>1. child' = child \/ child' = [child EXCEPT !.status = "committed"]
      BY <1>6 DEF Complete
    <2>2. RowsTyped
      BY <1>1, <1>6, <2>1 DEF Complete, RowsTyped, Child
    <2>3. CallTyped(c, "release", L) /\ "release" \in Points
      BY <1>3, <1>4, <1>6 DEF Complete, Targeting
    <2> QED BY <1>1, <1>6, <2>2, <2>3, GotoTyped, RaiseTyped DEF Complete
  <1>7. CASE Release(c)
    <2>1. RowsTyped
      BY <1>7, SameRows DEF Release
    <2>2. CallTyped(c, "delete_claim", L) /\ "delete_claim" \in Points
      BY <1>3, <1>4, <1>7 DEF Release, Targeting
    <2>3. pc[c] \in Targeting
      BY <1>7 DEF Release, Targeting
    <2>4. Raise(c) \/ Goto(c, "delete_claim", L) \/ Resume(c)
      BY <1>7 DEF Release
    <2> QED BY <1>1, <2>1, <2>2, <2>3, <2>4, GotoTyped, RaiseTyped, ResumeTyped
  <1>8. CASE DeleteClaim(c)
    <2>1. RowsTyped
      BY <1>1, <1>8 DEF DeleteClaim, RowsTyped, Target
    <2>2. pc[c] \in Targeting
      BY <1>8 DEF DeleteClaim, Targeting
    <2> QED BY <1>8, <2>1, <2>2, ResumeTyped DEF DeleteClaim
  <1>9. CASE c \in Delivery /\ ClaimTarget(c)
    <2>1. target' = target \/ target' = [target EXCEPT !.claim = L.tok]
      BY <1>9 DEF ClaimTarget
    <2>2. RowsTyped
      BY <1>1, <1>9, <2>1, Structure DEF ClaimTarget, RowsTyped, Target, Local
    <2> QED BY <1>0, <1>1, <1>2, <1>9, <2>2, DeliveryGoes DEF ClaimTarget
  <1>10. CASE c \in Delivery /\ ReadClaim(c)
    <2> DEFINE k == [L EXCEPT !.copy = child]
               l == [k EXCEPT !.seen = L.tok]
    <2>1. RowsTyped
      BY <1>10, SameRows DEF ReadClaim
    <2>2. k \in Local
      BY <1>1 DEF Local
    <2>3. l \in Local /\ l = [L EXCEPT !.copy = child, !.seen = L.tok]
      BY <1>1, <2>2, Structure DEF Local
    <2> QED BY <1>0, <1>1, <1>2, <1>10, <2>1, <2>3, DeliveryGoes DEF ReadClaim
  <1>11. CASE c \in Delivery /\ Lost(c)
    <2>1. RowsTyped
      BY <1>11, SameRows DEF Lost
    <2>2. Raise(c) \/ Recover(c, "again") \/ Goto(c, "again", [L EXCEPT !.tries = @ + 1])
      BY <1>11 DEF Lost
    <2>3. [L EXCEPT !.tries = @ + 1] \in Local /\ "again" \in Back(c) \ {"confirm"}
      BY <1>1, <1>11 DEF Local, Back
    <2> QED BY <1>0, <1>1, <1>2, <1>11, <2>1, <2>2, <2>3, RaiseTyped, RecoverTyped, DeliveryGoes
  <1>12. CASE c \in Delivery /\ PutClaimed(c)
    <2> DEFINE k == [L EXCEPT !.copy = NoChild]
               l == [k EXCEPT !.back = "confirm"]
    <2>1. child' \in Child
      BY <1>1, <1>12 DEF PutClaimed, Local, Child
    <2>2. RowsTyped
      BY <1>1, <1>12, <2>1 DEF PutClaimed, RowsTyped, TakesBack
    <2>3. k \in Local
      BY <1>1, ConstantsTyped DEF Local
    <2>4. /\ l \in Local /\ l = [L EXCEPT !.copy = NoChild, !.back = "confirm"]
          /\ l.back = "confirm"
      BY <1>1, <2>3 DEF Local
    <2> HIDE DEF k, l
    <2>5. CallTyped(c, "project", l) /\ "project" \in Points
      BY <1>3, <1>12, <2>4 DEF CallTyped, PointsOf, DeliveryPoints, Targeting, Back, ClaimingChild
    <2> QED BY <1>12, <2>2, <2>4, <2>5, GotoTyped DEF PutClaimed
  <1>13. CASE c \in Writer /\ Write(c)
    <2>1. RowsTyped
      BY <1>13, SameRows DEF Write
    <2>2. Answer(c, "done") \/ Recover(c, "write") \/ Goto(c, "revise", L)
      BY <1>13 DEF Write
    <2>3. "write" \in Back(c) \ {"confirm"} /\ CallTyped(c, "revise", L)
      BY <1>13, Structure DEF Back, CallTyped, PointsOf, WriterPoints, Targeting, ClaimingChild
    <2> QED BY <1>1, <1>3, <2>1, <2>2, <2>3, AnswerTyped, RecoverTyped, GotoTyped
  <1>14. CASE c \in Writer /\ Revise(c)
    <2> DEFINE k == [target EXCEPT !.current = FALSE]
    <2>1. k \in Target
      BY <1>1 DEF Target
    <2>2. [k EXCEPT !.claim = c] \in Target
      BY <2>1 DEF Target
    <2>3. target' = target \/ target' = [k EXCEPT !.claim = c]
      BY <1>1, <1>14 DEF Revise, Target
    <2>4. RowsTyped
      BY <1>1, <1>14, <2>2, <2>3 DEF Revise, RowsTyped
    <2>5. CallTyped(c, "write", NoLocal)
      BY <1>14, Structure DEF CallTyped, PointsOf, WriterPoints, Targeting, ClaimingChild
    <2> QED BY <1>1, <1>3, <1>14, <2>4, <2>5, AnswerTyped, GotoTyped, ConstantsTyped DEF Revise
  <1> QED BY <1>5, <1>6, <1>7, <1>8, <1>9, <1>10, <1>11, <1>12, <1>13, <1>14
          DEF TargetStep

LEMMA StepTyped == TypedInv /\ [Next]_vars => TypedInv'
  <1> SUFFICES ASSUME TypedInv, [Next]_vars PROVE TypedInv'
    OBVIOUS
  <1>1. ASSUME NEW d \in Delivery, Crash(d) PROVE TypedInv'
    <2>1. RowsTyped
      BY <1>1, SameRows DEF Crash
    <2>2. At(d, "crashed", NoLocal) /\ UNCHANGED <<lease, reply>> /\ d \in Call
      BY <1>1, Structure DEF Crash, At
    <2>3. CallTyped(d, "crashed", NoLocal) /\ "crashed" \in Points
      BY DEF CallTyped, Points, PointsOf, DeliveryPoints, Early, Over, Targeting, ClaimingChild
    <2>4. /\ lease' \in [Delivery -> {"both", "child", "none"}]
          /\ reply' \in [Call -> {"none", "done", "rejected", "failed"}]
      BY <2>2 DEF TypedInv, TypeOK
    <2> QED BY <2>1, <2>2, <2>3, <2>4, AtTyped, ConstantsTyped
  <1>2. ASSUME NEW d \in Delivery, Lapse(d) PROVE TypedInv'
    <2>1. lease' \in [Delivery -> {"both", "child", "none"}]
      BY <1>2 DEF Lapse, TypedInv, TypeOK
    <2> QED BY <1>2, <2>1 DEF Lapse, TypedInv, TypeOK, CallTyped, PointsOf, Back, rows
  <1>3. CASE UNCHANGED vars
    BY <1>3 DEF vars, TypedInv, TypeOK, CallTyped, PointsOf, Back
  <1> QED BY <1>1, <1>2, <1>3, PlanStepTyped, ConfirmStepTyped, TargetStepTyped, Structure
          DEF Next, DeliveryStep

LEMMA InitTyped == Init => TypedInv
  <1> SUFFICES ASSUME Init PROVE TypedInv
    OBVIOUS
  <1>1. TypeOK /\ stale \in BOOLEAN
    BY ConstantsTyped, Structure DEF Init, TypeOK, Target
  <1>2. loc \in [Call -> Local] /\ pc \in [Call -> Points]
    BY ConstantsTyped DEF Init, Points, WriterPoints
  <1>3. \A c \in Call : CallTyped(c, pc[c], loc[c])
    BY DEF Init, CallTyped, PointsOf, DeliveryPoints, WriterPoints, Early, Targeting, ClaimingChild
  <1> QED BY <1>1, <1>2, <1>3 DEF TypedInv

----------------------------------------------------------------------------
(* A rejected event.                                                       *)

\* Only the calls that carry a plan out write the plan past its sealing; what
\* was rejected stays so, and what was sealed stays sealed.
LEMMA PlanSteps ==
    ASSUME TypedInv, [Next]_vars
    PROVE  /\ plan.status = "rejected" => plan'.status = "rejected"
           /\ Unsealed' => Unsealed
  <1>1. plan \in Plan
    BY DEF TypedInv, TypeOK
  <1>2. CASE UNCHANGED plan
    BY <1>2 DEF Unsealed
  <1>3. ASSUME NEW d \in Delivery,
               Seal(d) \/ Reject(d) \/ ClaimPlan(d) \/ Checkpoint(d) \/ Commit(d)
        PROVE  /\ plan.status = "rejected" => plan'.status = "rejected"
               /\ Unsealed' => Unsealed
    <2>1. CASE Seal(d) \/ Reject(d)
      BY <1>1, <2>1 DEF Seal, Reject, Unsealed, Plan, NoPlan, Planned, Rejection
    <2>2. CASE ClaimPlan(d)
      BY <1>1, <2>2 DEF ClaimPlan, Open, Unsealed, Plan
    <2>3. CASE Checkpoint(d) \/ Commit(d)
      BY <1>1, <2>3 DEF Checkpoint, Commit, Fence, Owns, Unsealed, Plan
    <2> QED BY <1>3, <2>1, <2>2, <2>3
  <1>4. ASSUME NEW d \in Delivery,
               Begin(d) \/ Decide(d) \/ CheckPlan(d) \/ Verify(d) \/ Again(d) \/ Settle(d)
               \/ CopyPrepared(d) \/ PutPrepared(d) \/ CheckChild(d) \/ SetChild(d)
               \/ ReadChild(d) \/ SetFence(d) \/ Fenced(d) \/ ClaimTarget(d)
               \/ ReadClaim(d) \/ Lost(d) \/ PutClaimed(d) \/ Crash(d) \/ Lapse(d)
        PROVE  UNCHANGED plan
    BY <1>4 DEF Begin, Decide, CheckPlan, Verify, Again, Settle, CopyPrepared, PutPrepared,
       CheckChild, SetChild, ReadChild, SetFence, Fenced, ClaimTarget, ReadClaim, Lost,
       PutClaimed, Crash, Lapse, rows
  <1>5. ASSUME NEW c \in Call,
               Write(c) \/ Revise(c) \/ Project(c) \/ Complete(c) \/ Release(c) \/ DeleteClaim(c)
        PROVE  UNCHANGED plan
    BY <1>5 DEF Write, Revise, Project, Complete, Release, DeleteClaim, rows
  <1>6. UNCHANGED vars => UNCHANGED plan
    BY DEF vars
  <1> QED BY <1>2, <1>3, <1>4, <1>5, <1>6, Structure DEF Next, DeliveryStep, TargetStep

\* How a step answers.
LEMMA Answers ==
    ASSUME TypedInv, NEW c \in Call, NEW r, Answer(c, r)
    PROVE  /\ At(c, "done", NoLocal) /\ reply'[c] = r
           /\ \A x \in Call \ {c} : reply'[x] = reply[x]
  BY DEF Answer, At, TypedInv, TypeOK

\* While no plan is sealed, what a call does leaves the rows of the confirmation
\* alone and stays before them.
Harmless(c) ==
    /\ child' = child /\ target'.counted = target.counted
    /\ target'.claim \in {target.claim} \cup Writer
    /\ pc'[c] \in IF c \in Delivery THEN Early ELSE Points \ Targeting
    /\ \A x \in Call \ {c} : pc'[x] = pc[x] /\ reply'[x] = reply[x]
    /\ reply'[c] = "rejected" => plan'.status = "rejected" \/ reply'[c] = reply[c]

LEMMA EarlyStep ==
    ASSUME TypedInv, RejectInv, Unsealed, NEW c \in Call,
           \/ c \in Delivery /\ (DeliveryStep(c) \/ Crash(c))
           \/ c \in Writer /\ (Write(c) \/ Revise(c))
           \/ TargetStep(c),
           Unsealed'
    PROVE  Harmless(c)
  <1>1. /\ pc[c] \in IF c \in Delivery THEN Early ELSE Points \ Targeting
        /\ target.claim \notin Delivery /\ child = NoChild /\ plan \in Plan
        /\ target \in Target
    BY Structure DEF RejectInv, TypedInv, TypeOK
  <1>2. ASSUME NEW p, NEW l, Goto(c, p, l), child' = child,
               target'.counted = target.counted,
               target'.claim \in {target.claim} \cup Writer,
               p \in IF c \in Delivery THEN Early ELSE Points \ Targeting
        PROVE  Harmless(c)
    <2>1. At(c, p, l) /\ reply' = reply
      BY <1>2 DEF Goto, At
    <2> QED BY <1>2, <2>1, Arrives DEF Harmless
  <1>3. ASSUME NEW r, Answer(c, r), child' = child,
               target'.counted = target.counted,
               target'.claim \in {target.claim} \cup Writer,
               r = "rejected" => plan'.status = "rejected"
        PROVE  Harmless(c)
    <2>1. "done" \in IF c \in Delivery THEN Early ELSE Points \ Targeting
      BY DEF Early, Over, Points, WriterPoints, Targeting
    <2>2. pc'[c] = "done" /\ \A x \in Call \ {c} : pc'[x] = pc[x]
      BY <1>3, Answers, Arrives
    <2> QED BY <1>3, <2>1, <2>2, Answers DEF Harmless
  <1>4. {"decide", "seal", "reject", "check_plan", "claim_plan"} \subseteq Early
        /\ {"write", "revise"} \subseteq Points \ Targeting
    BY DEF Early, Points, WriterPoints, Targeting
  <1>5. CASE c \in Delivery /\ Begin(c)
    <2>1. \/ Answer(c, "done") \/ (plan.status = "rejected" /\ Answer(c, "rejected"))
          \/ Goto(c, "decide", NoLocal)
          \/ Goto(c, "check_plan", [NoLocal EXCEPT !.epoch = plan.epoch + 1])
      BY <1>5 DEF Begin
    <2> QED BY <1>2, <1>3, <1>4, <1>5, <2>1 DEF Begin, rows
  <1>6. CASE c \in Delivery /\ (Decide(c) \/ CheckPlan(c))
    <2>1. \/ Answer(c, "failed") \/ Goto(c, "seal", loc[c]) \/ Goto(c, "reject", loc[c])
          \/ Goto(c, "claim_plan", loc[c])
      BY <1>6 DEF Decide, CheckPlan, Fail
    <2>2. UNCHANGED rows
      BY <1>6 DEF Decide, CheckPlan
    <2> QED BY <1>2, <1>3, <1>4, <1>6, <2>1, <2>2 DEF rows
  <1>7. CASE c \in Delivery /\ Seal(c)
    BY <1>2, <1>4, <1>7 DEF Seal
  <1>8. CASE c \in Delivery /\ Reject(c)
    <2>1. \/ plan'.status = "rejected" /\ Answer(c, "rejected")
          \/ Answer(c, "failed")
      BY <1>8 DEF Reject, Fail, Rejection, NoPlan
    <2> QED BY <1>3, <1>8, <2>1 DEF Reject
  <1>9. CASE c \in Delivery /\ ClaimPlan(c)
    BY <1>3, <1>9 DEF ClaimPlan, Open, Unsealed, Fail
  <1>10. CASE c \in Delivery /\ Crash(c)
    <2>1. At(c, "crashed", NoLocal) /\ UNCHANGED <<rows, reply>>
      BY <1>10 DEF Crash, At
    <2>2. "crashed" \in Early
      BY DEF Early, Over
    <2> QED BY <1>10, <2>1, <2>2, Arrives DEF Harmless, rows
  <1>11. CASE c \in Writer /\ Write(c)
    <2>1. Answer(c, "done") \/ Goto(c, "revise", loc[c])
      BY <1>1, <1>11 DEF Write, Claimed
    <2> QED BY <1>2, <1>3, <1>4, <1>11, <2>1, Structure DEF Write, rows
  <1>12. CASE c \in Writer /\ Revise(c)
    <2>1. /\ target'.counted = target.counted
          /\ target'.claim \in {target.claim} \cup Writer
      BY <1>1, <1>12 DEF Revise, Target
    <2>2. Answer(c, "done") \/ Goto(c, "write", NoLocal)
      BY <1>12 DEF Revise
    <2> QED BY <1>2, <1>3, <1>4, <1>12, <2>1, <2>2, Structure DEF Revise
  <1>13. CASE c \in Delivery /\ (Checkpoint(c) \/ Commit(c) \/ Verify(c) \/ Again(c) \/ Settle(c)
               \/ CopyPrepared(c) \/ PutPrepared(c) \/ CheckChild(c) \/ SetChild(c)
               \/ ReadChild(c) \/ SetFence(c) \/ Fenced(c) \/ ClaimTarget(c)
               \/ ReadClaim(c) \/ Lost(c) \/ PutClaimed(c))
    BY <1>1, <1>13 DEF Checkpoint, Commit, Verify, Again, Settle, CopyPrepared, PutPrepared,
       CheckChild, SetChild, ReadChild, SetFence, Fenced, ClaimTarget, ReadClaim, Lost,
       PutClaimed, Early, Over
  <1>14. CASE TargetStep(c)
    <2>1. pc[c] \in Targeting
      BY <1>14 DEF TargetStep, Project, Complete, Release, DeleteClaim, Targeting
    <2> QED BY <1>1, <2>1, Structure DEF Targeting, Early, Over
  <1> QED BY <1>5, <1>6, <1>7, <1>8, <1>9, <1>10, <1>11, <1>12, <1>13, <1>14 DEF DeliveryStep

\* Once a plan is sealed, a rejection is answered only where the plan says so.
LEMMA LateReply ==
    ASSUME TypedInv, [Next]_vars, NEW d \in Delivery, reply'[d] = "rejected"
    PROVE  reply[d] = "rejected" \/ plan'.status = "rejected"
  <1>1. SUFFICES ASSUME reply'[d] # reply[d] PROVE plan'.status = "rejected"
    OBVIOUS
  <1>2. ASSUME NEW c \in Call, Fail(c) \/ Answer(c, "done") PROVE FALSE
    <2>1. reply'[c] \in {"failed", "done"} /\ \A x \in Call \ {c} : reply'[x] = reply[x]
      BY <1>2, Answers DEF Fail
    <2> QED BY <1>1, <2>1, Structure
  <1>3. ASSUME NEW c, NEW p, NEW l, Goto(c, p, l) PROVE FALSE
    BY <1>1, <1>3 DEF Goto
  <1>4. ASSUME NEW c \in Call, Raise(c) PROVE FALSE
    BY <1>2, <1>3, <1>4 DEF Raise
  <1>5. ASSUME NEW c \in Call, Consider(c) \/ Resolve(c) PROVE FALSE
    <2>1. ASSUME Consider(c) PROVE FALSE
      BY <1>3, <1>4, <2>1 DEF Consider, Conclude
    <2> QED BY <1>3, <1>5, <2>1 DEF Resolve
  <1>6. ASSUME NEW c \in Delivery, Begin(c) \/ Reject(c) PROVE plan'.status = "rejected"
    <2>1. CASE Begin(c)
      BY <1>2, <1>3, <2>1, Structure DEF Begin, rows
    <2>2. CASE Reject(c)
      BY <1>2, <2>2, Structure DEF Reject, Rejection, NoPlan
    <2> QED BY <1>6, <2>1, <2>2
  <1>7. ASSUME NEW c \in Delivery,
               Decide(c) \/ Seal(c) \/ CheckPlan(c) \/ ClaimPlan(c) \/ Checkpoint(c) \/ Commit(c)
        PROVE  FALSE
    BY <1>2, <1>3, <1>7, Structure DEF Decide, Seal, CheckPlan, ClaimPlan, Checkpoint, Commit
  <1>8. ASSUME NEW c \in Delivery,
               Verify(c) \/ Again(c) \/ Settle(c) \/ CopyPrepared(c) \/ PutPrepared(c)
        PROVE  FALSE
    BY <1>2, <1>3, <1>4, <1>5, <1>8, Structure
       DEF Verify, Again, Settle, CopyPrepared, PutPrepared, Conclude
  <1>9. ASSUME NEW c \in Delivery, CheckChild(c) \/ SetChild(c) \/ ReadChild(c) \/ SetFence(c)
        PROVE  FALSE
    BY <1>3, <1>4, <1>9, Structure
       DEF CheckChild, SetChild, ReadChild, SetFence, ReadTarget, Conclude
  <1>10. ASSUME NEW c \in Call, NEW back, Recover(c, back) PROVE FALSE
    BY <1>3, <1>4, <1>10 DEF Recover
  <1>11. ASSUME NEW c \in Delivery, Fenced(c) PROVE FALSE
    <2>1. loc[c].back \in {"confirm", "recover"}
      <3>1. CallTyped(c, pc[c], loc[c])
        BY LocalTyped, Structure
      <3> QED BY <1>11, <3>1 DEF Fenced, CallTyped, ClaimingChild
    <2>2. \/ Raise(c) \/ Recover(c, "settle") \/ Consider(c) \/ Conclude(c, "confirmed")
          \/ Goto(c, "claim_target", loc[c]) \/ Goto(c, "lost", loc[c])
      BY <1>11, <2>1 DEF Fenced
    <2> QED BY <1>3, <1>4, <1>5, <1>10, <2>2, Structure DEF Conclude
  <1>12. ASSUME NEW c \in Delivery, ClaimTarget(c) \/ ReadClaim(c) \/ Lost(c) \/ PutClaimed(c)
        PROVE  FALSE
    BY <1>3, <1>4, <1>10, <1>12, Structure DEF ClaimTarget, ReadClaim, Lost, PutClaimed
  <1>13. ASSUME NEW c \in Call, Resume(c) PROVE FALSE
    BY <1>3, <1>13 DEF Resume, Conclude
  <1>14. ASSUME NEW c \in Call, TargetStep(c) PROVE FALSE
    BY <1>3, <1>4, <1>13, <1>14 DEF TargetStep, Project, Complete, Release, DeleteClaim
  <1>15. ASSUME NEW c \in Writer, Write(c) \/ Revise(c) PROVE FALSE
    BY <1>2, <1>3, <1>10, <1>15, Structure DEF Write, Revise
  <1>16. ASSUME NEW c \in Delivery, Crash(c) \/ Lapse(c) PROVE FALSE
    BY <1>1, <1>16 DEF Crash, Lapse
  <1>17. CASE UNCHANGED vars
    BY <1>1, <1>17 DEF vars
  <1> QED BY <1>6, <1>7, <1>8, <1>9, <1>11, <1>12, <1>14, <1>15, <1>16, <1>17
          DEF Next, DeliveryStep

LEMMA StepReject == TypedInv /\ RejectInv /\ [Next]_vars => RejectInv'
  <1> SUFFICES ASSUME TypedInv, RejectInv, [Next]_vars PROVE RejectInv'
    OBVIOUS
  <1>1. \A d \in Delivery : reply'[d] = "rejected" => plan'.status = "rejected"
    BY LateReply, PlanSteps DEF RejectInv
  <1>2. ASSUME Unsealed'
        PROVE  /\ ~target'.counted /\ child' = NoChild /\ target'.claim \notin Delivery
               /\ \A d \in Delivery : pc'[d] \in Early
               /\ \A w \in Writer : pc'[w] \notin Targeting
    <2>1. /\ Unsealed /\ ~target.counted /\ child = NoChild /\ target.claim \notin Delivery
          /\ \A d \in Delivery : pc[d] \in Early
          /\ \A w \in Writer : pc[w] \notin Targeting
      BY <1>2, PlanSteps DEF RejectInv
    <2>2. CASE UNCHANGED vars
      BY <2>1, <2>2 DEF vars
    <2>3. CASE \E d \in Delivery : Lapse(d)
      BY <2>1, <2>3 DEF Lapse, rows
    <2>4. CASE \E c \in Call : Harmless(c)
      BY <2>1, <2>4, Structure DEF Harmless
    <2> QED BY <1>2, <2>1, <2>2, <2>3, <2>4, EarlyStep, Structure DEF Next
  <1> QED BY <1>1, <1>2 DEF RejectInv, Unsealed

----------------------------------------------------------------------------
(* What is confirmed is counted.                                           *)

\* What a step of one call may do to the child and the target.
Calm(m) ==
    /\ target.counted => target'.counted
    /\ child.status = "committed" => child'.status = "committed"
    /\ child'.status # "committed" =>
         /\ \/ target'.claim = target.claim
            \/ target.claim = None /\ target'.claim \in {m} \cup Writer
         /\ child'.owner = child.owner \/ (child'.owner = m /\ target'.claim # m)

Special == {"set_fence", "fenced", "claim_target", "read_claim", "put_claimed"}
             \cup Targeting

LEMMA StepCounts ==
    ASSUME TypedInv, CountInv, ~stale, NEW m \in Call, NEW p, NEW l, At(m, p, l),
           Calm(m), SharedCounts', CallCounts(m)'
    PROVE  CountInv'
  <1>1. ASSUME NEW x \in Call \ {m} PROVE CallCounts(x)'
    <2>1. /\ pc'[x] = pc[x] /\ loc'[x] = loc[x] /\ CallCounts(x)
          /\ target.claim \in Call \cup {None} /\ loc[x] \in Local
      BY Arrives DEF CountInv, TypedInv, TypeOK, Target
    <2>2. /\ loc'[x].out = "confirmed" => target'.counted
          /\ pc'[x] \in {"release", "delete_claim"} => child'.status = "committed"
          /\ pc'[x] \in {"set_fence", "fenced"} /\ loc'[x].copy.status = "committed" =>
                 child'.status = "committed"
      BY <2>1 DEF CallCounts, Calm
    <2>3. ASSUME child'.status # "committed", x \in Delivery
          PROVE  OwnClaim(x)' /\ SeenClaim(x)' /\ Projects(x)'
      <3>0. /\ \/ target'.claim = target.claim
               \/ target.claim = None /\ target'.claim \in {m} \cup Writer
            /\ child'.owner = child.owner \/ (child'.owner = m /\ target'.claim # m)
            /\ child.status # "committed"
        BY <2>3 DEF Calm
      <3>1. /\ OwnClaim(x) /\ SeenClaim(x) /\ Projects(x)
            /\ x \notin Writer /\ x # None /\ x # m
        BY <2>1, <2>3, <3>0, Structure DEF CallCounts
      <3>5. (Holds(x)' <=> Holds(x)) /\ (Confirms(x)' <=> Confirms(x))
        BY <2>1 DEF Holds, Confirms
      <3>2. OwnClaim(x)'
        <4>1. (target'.claim = x => target.claim = x) /\ (target.claim = x => target'.claim = x)
          BY <3>0, <3>1
        <4>2. child'.owner = x => child.owner = x
          BY <3>0, <3>1
        <4> QED BY <2>1, <3>1, <3>5, <4>1, <4>2 DEF OwnClaim
      <3>3. SeenClaim(x)'
        BY <2>1, <2>3, <3>0, <3>1, Structure DEF SeenClaim
      <3>4. Projects(x)'
        BY <2>1, <2>3, <3>0, <3>1 DEF Projects, Calm
      <3> QED BY <3>2, <3>3, <3>4
    <2> QED BY <2>2, <2>3 DEF CallCounts
  <1> QED BY <1>1 DEF CountInv

LEMMA PlainCounts ==
    ASSUME TypedInv, NEW m \in Call, NEW p, NEW l, At(m, p, l), p \notin Special,
           l.out = "confirmed" => target'.counted,
           child'.status # "committed" /\ m \in Delivery /\ target'.claim = m =>
               p \in Resting
    PROVE  CallCounts(m)'
  <1>1. pc'[m] = p /\ loc'[m] = l
    BY Arrives
  <1> QED BY <1>1 DEF CallCounts, OwnClaim, SeenClaim, Projects, Holds, Confirms, Special,
          Targeting

\* A step that changes neither the child nor the target.
LEMMA QuietCounts ==
    ASSUME CountInv, ~stale, UNCHANGED <<child, target>>,
           plan'.done = "confirmed" => target.counted, NEW m
    PROVE  Calm(m) /\ SharedCounts'
  BY DEF CountInv, SharedCounts, FenceKept, Calm

LEMMA PlainStep ==
    ASSUME TypedInv, CountInv, ~stale, NEW m \in Call, NEW p, NEW l, At(m, p, l),
           UNCHANGED <<child, target>>, plan'.done = "confirmed" => target.counted,
           p \notin Special, l.out = "confirmed" => target.counted,
           child.status # "committed" /\ m \in Delivery /\ target.claim = m => p \in Resting
    PROVE  CountInv'
  <1>1. CallCounts(m)'
    BY PlainCounts
  <1> QED BY <1>1, QuietCounts, StepCounts

LEMMA QuietStep ==
    ASSUME TypedInv, CountInv, ~stale, NEW m \in Call, NEW p, NEW l, At(m, p, l),
           UNCHANGED rows, CallCounts(m)'
    PROVE  CountInv'
  <1>1. UNCHANGED <<child, target>> /\ (plan'.done = "confirmed" => target.counted)
    BY DEF rows, CountInv, SharedCounts
  <1> QED BY <1>1, QuietCounts, StepCounts

\* What a step finds.
Calmly(c) == TypedInv /\ CountInv /\ ~stale /\ c \in Call /\ UNCHANGED rows
Unclaimed(d) == child.status # "committed" => target.claim # d

LEMMA QuietFacts ==
    ASSUME NEW c, Calmly(c)
    PROVE  /\ loc[c].out = "confirmed" => target.counted
           /\ plan'.done = "confirmed" => target.counted
           /\ child.status = "committed" => target.counted
           /\ UNCHANGED <<child, target>> /\ c \in Call
           /\ loc[c] \in Local /\ target \in Target
           /\ NoLocal.out = "no"
           /\ (c \in Delivery /\ ~Holds(c)) => Unclaimed(c)
  BY LocalTyped DEF Calmly, rows, CountInv, SharedCounts, CallCounts, OwnClaim, Unclaimed,
     NoLocal

LEMMA GotoPlain ==
    ASSUME NEW c, Calmly(c), NEW p, NEW l, Goto(c, p, l), p \notin Special,
           l.out = "confirmed" => target.counted,
           c \in Writer \/ Unclaimed(c) \/ p \in Resting
    PROVE  CountInv'
  <1>1. At(c, p, l)
    BY DEF Goto, At
  <1> QED BY <1>1, QuietFacts, PlainStep, Structure DEF Calmly, Unclaimed

LEMMA AnswerPlain ==
    ASSUME NEW c, Calmly(c), NEW r, Answer(c, r)
    PROVE  CountInv'
  <1>1. At(c, "done", NoLocal)
    BY DEF Answer, At
  <1>2. "done" \notin Special /\ "done" \in Resting
    BY DEF Special, Targeting, Resting, Over
  <1> QED BY <1>1, <1>2, QuietFacts, PlainStep DEF Calmly

LEMMA ConcludeCounts ==
    ASSUME NEW c, Calmly(c), NEW out, Conclude(c, out),
           out = "confirmed" => target.counted
    PROVE  CountInv'
  <1> DEFINE l == [loc[c] EXCEPT !.out = out]
  <1>1. Goto(c, "checkpoint", l) /\ l.out = out
    BY QuietFacts DEF Conclude, Local
  <1>2. "checkpoint" \notin Special /\ "checkpoint" \in Resting
    BY DEF Special, Targeting, Resting
  <1> HIDE DEF l
  <1> QED BY <1>1, <1>2, GotoPlain

LEMMA RaiseCounts ==
    ASSUME NEW c, Calmly(c), Raise(c)
    PROVE  CountInv'
  <1>1. Conclude(c, "skipped") \/ Answer(c, "failed")
    BY DEF Raise, Conclude, Fail
  <1> QED BY <1>1, ConcludeCounts, AnswerPlain

LEMMA ConsiderCounts ==
    ASSUME NEW d, Calmly(d), Unclaimed(d), Consider(d) \/ Resolve(d)
    PROVE  CountInv'
  <1> DEFINE l(b) == [loc[d] EXCEPT !.back = b]
  <1>1. ASSUME NEW b PROVE l(b).out = loc[d].out
    BY QuietFacts DEF Local
  <1>2. \/ Raise(d) \/ (child.status = "committed" /\ Conclude(d, "confirmed"))
        \/ Conclude(d, "skipped")
        \/ \E b : Goto(d, "copy_prepared", l(b)) \/ Goto(d, "check_child", l(b))
    BY DEF Consider, Resolve
  <1>3. "copy_prepared" \notin Special /\ "check_child" \notin Special
    BY DEF Special, Targeting
  <1> HIDE DEF l
  <1> QED BY <1>1, <1>2, <1>3, RaiseCounts, ConcludeCounts, GotoPlain, QuietFacts

\* The reads before a fence is set, and before a claim is recovered.
LEMMA ReadTargetCounts ==
    ASSUME NEW d \in Delivery, Calmly(d), Unclaimed(d), ReadTarget(d, child)
    PROVE  CountInv'
  <1> DEFINE l == [loc[d] EXCEPT !.tok = child.owner, !.seen = target.claim,
                                 !.copy = child]
  <1>1. CASE Raise(d)
    BY <1>1, RaiseCounts
  <1>2. CASE Goto(d, "set_fence", l)
    <2>1. At(d, "set_fence", l)
      BY <1>2 DEF Goto, At
    <2>2. /\ l.tok = child.owner /\ l.seen = target.claim /\ l.out = loc[d].out
          /\ l.copy = child
      BY QuietFacts DEF Local
    <2>3. pc'[d] = "set_fence" /\ loc'[d] = l
      BY <2>1, Arrives DEF Calmly
    <2> HIDE DEF l
    <2>4. CallCounts(d)'
      BY <2>2, <2>3, QuietFacts
         DEF CallCounts, OwnClaim, SeenClaim, Projects, Holds, Confirms, Unclaimed
    <2> QED BY <2>1, <2>4, QuietStep DEF Calmly
  <1> QED BY <1>1, <1>2 DEF ReadTarget

LEMMA RecoverCounts ==
    ASSUME NEW c, Calmly(c), c \in Writer \/ Unclaimed(c), NEW back, back # "confirm",
           Recover(c, back)
    PROVE  CountInv'
  <1> DEFINE l == [loc[c] EXCEPT !.tok = child.owner, !.seen = target.claim, !.back = back]
  <1>1. CASE Raise(c)
    BY <1>1, RaiseCounts
  <1>2. CASE Goto(c, "project", l)
    <2>1. At(c, "project", l)
      BY <1>2 DEF Goto, At
    <2>2. l.back = back /\ l.out = loc[c].out
      BY QuietFacts DEF Local
    <2>3. pc'[c] = "project" /\ loc'[c] = l
      BY <2>1, Arrives DEF Calmly
    <2> HIDE DEF l
    <2>4. CallCounts(c)'
      BY <2>2, <2>3, QuietFacts, Structure
         DEF CallCounts, OwnClaim, SeenClaim, Projects, Holds, Confirms, Unclaimed
    <2> QED BY <2>1, <2>4, QuietStep DEF Calmly
  <1> QED BY <1>1, <1>2 DEF Recover

\* The steps that read only.
LEMMA ReadsCount ==
    ASSUME TypedInv, CountInv, ~stale, NEW d \in Delivery,
           Begin(d) \/ Decide(d) \/ CheckPlan(d) \/ Verify(d) \/ Again(d) \/ Settle(d)
           \/ CopyPrepared(d) \/ CheckChild(d) \/ ReadChild(d) \/ Fenced(d)
           \/ ReadClaim(d) \/ Lost(d)
    PROVE  CountInv'
  <1> DEFINE L == loc[d]
  <1>1. UNCHANGED rows /\ d \in Call
    BY Structure DEF Begin, Decide, CheckPlan, Verify, Again, Settle, CopyPrepared,
       CheckChild, ReadChild, Fenced, ReadClaim, Lost
  <1>2. Calmly(d)
    BY <1>1 DEF Calmly
  <1>3. /\ L \in Local /\ (L.out = "confirmed" => target.counted)
        /\ ~Holds(d) => Unclaimed(d)
        /\ child.status = "committed" => target.counted
        /\ child.status # "committed" => OwnClaim(d)
    BY <1>1, <1>2, QuietFacts DEF Calmly, CountInv, CallCounts
  <1>4. pc[d] # "read_claim" => ~Holds(d)
    <2>1. pc[d] \in {"idle", "decide", "check_plan", "verify", "again", "settle",
                     "copy_prepared", "check_child", "read_child", "fenced", "read_claim",
                     "lost"}
      BY DEF Begin, MayBegin, Decide, CheckPlan, Verify, Again, Settle, CopyPrepared,
         CheckChild, ReadChild, Fenced, ReadClaim, Lost
    <2> QED BY <2>1 DEF Holds, Resting, Over, Confirms
  <1>5. {"decide", "seal", "reject", "check_plan", "claim_plan", "put_prepared",
         "set_child", "lost", "again", "commit"} \cap Special = {}
    BY DEF Special, Targeting
  <1>6. CASE Begin(d)
    <2> DEFINE l == [NoLocal EXCEPT !.epoch = plan.epoch + 1]
    <2>1. l.out = "no" /\ NoLocal.out = "no"
      BY DEF NoLocal
    <2>2. Unclaimed(d)
      BY <1>3, <1>4, <1>6 DEF Begin, MayBegin
    <2>3. \/ Answer(d, "done") \/ Answer(d, "rejected")
          \/ Goto(d, "decide", NoLocal) \/ Goto(d, "check_plan", l)
      BY <1>6 DEF Begin
    <2> HIDE DEF l
    <2> QED BY <1>2, <1>5, <2>1, <2>2, <2>3, AnswerPlain, GotoPlain
  <1>7. CASE Decide(d) \/ CheckPlan(d)
    <2>1. Unclaimed(d)
      BY <1>3, <1>4, <1>7 DEF Decide, CheckPlan
    <2>2. \/ Answer(d, "failed") \/ Goto(d, "seal", L) \/ Goto(d, "reject", L)
          \/ Goto(d, "claim_plan", L)
      BY <1>7 DEF Decide, CheckPlan, Fail
    <2> QED BY <1>2, <1>3, <1>5, <2>1, <2>2, AnswerPlain, GotoPlain
  <1>8. CASE Verify(d) \/ Again(d) \/ Settle(d)
    <2>1. Unclaimed(d)
      BY <1>3, <1>4, <1>8 DEF Verify, Again, Settle
    <2>2. \/ Answer(d, "failed") \/ Goto(d, "commit", L) \/ Conclude(d, "skipped")
          \/ Raise(d) \/ Consider(d) \/ Resolve(d)
      BY <1>8 DEF Verify, Again, Settle, Fail
    <2> QED BY <1>2, <1>3, <1>5, <2>1, <2>2, AnswerPlain, GotoPlain, ConcludeCounts,
            RaiseCounts, ConsiderCounts
  <1>9. CASE CopyPrepared(d)
    <2> DEFINE l == [L EXCEPT !.copy = child]
    <2>1. l.out = L.out
      BY <1>3 DEF Local
    <2>2. Unclaimed(d) /\ Goto(d, "put_prepared", l)
      BY <1>3, <1>4, <1>9 DEF CopyPrepared
    <2> HIDE DEF l
    <2> QED BY <1>2, <1>3, <1>5, <2>1, <2>2, GotoPlain
  <1>10. CASE CheckChild(d)
    <2> DEFINE k == [L EXCEPT !.tok = None]
               l == [L EXCEPT !.copy = child]
    <2>1. k.out = L.out /\ l.out = L.out /\ k.back = L.back
      BY <1>3 DEF Local
    <2>2. Unclaimed(d)
      BY <1>3, <1>4, <1>10 DEF CheckChild
    <2>3. \/ child.status = "committed" /\ Conclude(d, "confirmed")
          \/ ReadTarget(d, child) \/ Raise(d) \/ Goto(d, "set_child", l)
          \/ /\ child.status = "committed" /\ L.back = "recover"
             /\ Goto(d, "fenced", k)
      BY <1>10 DEF CheckChild
    <2>4. CASE child.status = "committed" /\ L.back = "recover" /\ Goto(d, "fenced", k)
      <3>1. At(d, "fenced", k)
        BY <2>4 DEF Goto, At
      <3>2. pc'[d] = "fenced" /\ loc'[d] = k
        BY <1>1, <3>1, Arrives
      <3> HIDE DEF k
      <3>3. CallCounts(d)'
        BY <1>2, <1>3, <2>1, <2>2, <2>4, <3>2, QuietFacts
           DEF CallCounts, OwnClaim, SeenClaim, Projects, Confirms, Unclaimed
      <3> QED BY <1>1, <3>1, <3>3, QuietStep
    <2> HIDE DEF k, l
    <2> QED BY <1>2, <1>3, <1>5, <2>1, <2>2, <2>3, <2>4, ConcludeCounts, ReadTargetCounts,
            RaiseCounts, GotoPlain
  <1>11. CASE ReadChild(d)
    <2>1. Unclaimed(d)
      BY <1>3, <1>4, <1>11 DEF ReadChild
    <2> QED BY <1>2, <1>11, <2>1, ReadTargetCounts, RaiseCounts DEF ReadChild
  <1>12. CASE Fenced(d)
    <2>1. Unclaimed(d)
      BY <1>3, <1>4, <1>12 DEF Fenced
    <2>2. L.back \in {"confirm", "recover"}
      <3>1. CallTyped(d, pc[d], L)
        BY <1>1, LocalTyped
      <3> QED BY <1>12, <3>1 DEF Fenced, CallTyped, ClaimingChild
    <2>3. \/ Raise(d) \/ Recover(d, "settle") \/ Consider(d)
          \/ L.copy.status = "committed" /\ Conclude(d, "confirmed")
          \/ Goto(d, "lost", L)
          \/ L.back = "confirm" /\ HoldsChild(d) /\ Goto(d, "claim_target", L)
      BY <1>12, <2>2 DEF Fenced
    <2>4. CASE L.back = "confirm" /\ HoldsChild(d) /\ Goto(d, "claim_target", L)
      <3>1. At(d, "claim_target", L) /\ pc[d] = "fenced"
        BY <1>12, <2>4 DEF Goto, At, Fenced
      <3>2. pc'[d] = "claim_target" /\ loc'[d] = L
        BY <1>1, <3>1, Arrives
      <3>3. child.owner = d /\ child.status # "committed"
        BY <2>4 DEF HoldsChild, Live
      <3>4. L.tok = d
        BY <1>3, <2>4, <3>1, <3>3 DEF OwnClaim
      <3>5. CallCounts(d)'
        BY <1>2, <1>3, <2>1, <3>2, <3>3, <3>4, QuietFacts
           DEF CallCounts, OwnClaim, SeenClaim, Projects, Confirms, Unclaimed
      <3> QED BY <1>1, <3>1, <3>5, QuietStep
    <2>5. CASE L.copy.status = "committed" /\ Conclude(d, "confirmed")
      <3>1. child.status = "committed"
        BY <1>1, <1>12, <2>5 DEF Fenced, CountInv, CallCounts
      <3> QED BY <1>2, <1>3, <2>5, <3>1, ConcludeCounts
    <2> QED BY <1>2, <1>3, <1>5, <2>1, <2>3, <2>4, <2>5, RaiseCounts, RecoverCounts,
            ConsiderCounts, GotoPlain
  <1>13. CASE ReadClaim(d)
    <2> DEFINE l == [L EXCEPT !.copy = child, !.seen = L.tok]
    <2>1. l.out = L.out /\ l.tok = L.tok /\ l.seen = L.tok /\ l.back = L.back
      BY <1>3 DEF Local
    <2>2. child.status # "committed" => L.tok = d
      BY <1>3, <1>13 DEF ReadClaim, OwnClaim
    <2>3. CASE target.claim = L.tok
      <3>1. At(d, "put_claimed", l)
        BY <1>13, <2>3 DEF ReadClaim, Goto, At
      <3>2. pc'[d] = "put_claimed" /\ loc'[d] = l
        BY <1>1, <3>1, Arrives
      <3> HIDE DEF l
      <3>3. CallCounts(d)'
        BY <1>2, <1>3, <2>1, <2>2, <2>3, <3>2, QuietFacts
           DEF CallCounts, OwnClaim, SeenClaim, Projects, Confirms, Holds
      <3> QED BY <1>1, <3>1, <3>3, QuietStep
    <2>4. CASE target.claim # L.tok
      <3>1. Unclaimed(d) /\ Goto(d, "lost", L)
        BY <1>13, <2>2, <2>4 DEF ReadClaim, Unclaimed
      <3> QED BY <1>2, <1>3, <1>5, <3>1, GotoPlain
    <2> QED BY <2>3, <2>4
  <1>14. CASE Lost(d)
    <2> DEFINE l == [L EXCEPT !.tries = @ + 1]
    <2>1. l.out = L.out
      BY <1>3 DEF Local
    <2>2. Unclaimed(d) /\ (Raise(d) \/ Recover(d, "again") \/ Goto(d, "again", l))
      BY <1>3, <1>4, <1>14 DEF Lost
    <2> HIDE DEF l
    <2> QED BY <1>2, <1>3, <1>5, <2>1, <2>2, RaiseCounts, RecoverCounts, GotoPlain
  <1> QED BY <1>6, <1>7, <1>8, <1>9, <1>10, <1>11, <1>12, <1>13, <1>14

\* The steps that write the plan.
LEMMA PlanWritesCount ==
    ASSUME TypedInv, CountInv, ~stale, NEW d \in Delivery,
           Seal(d) \/ Reject(d) \/ ClaimPlan(d) \/ Checkpoint(d) \/ Commit(d)
    PROVE  CountInv'
  <1> DEFINE L == loc[d]
  <1>1. /\ UNCHANGED <<child, target>> /\ d \in Call
        /\ L \in Local /\ (L.out = "confirmed" => target.counted)
        /\ plan \in Plan /\ (plan.done = "confirmed" => target.counted)
        /\ child.status # "committed" => OwnClaim(d)
    BY Structure, LocalTyped
       DEF Seal, Reject, ClaimPlan, Checkpoint, Commit, CountInv, SharedCounts, CallCounts
  <1>2. plan'.done = "confirmed" => target.counted
    BY <1>1 DEF Seal, Reject, ClaimPlan, Checkpoint, Commit, Plan, NoPlan, Planned, Rejection
  <1>3. NoLocal.out = "no" /\ "done" \in Resting /\ "commit" \in Resting
        /\ {"done", "commit", "check_plan", "verify"} \cap Special = {}
    BY DEF NoLocal, Resting, Over, Special, Targeting
  <1>4. ASSUME NEW r, Answer(d, r) PROVE CountInv'
    <2>1. At(d, "done", NoLocal)
      BY <1>4 DEF Answer, At
    <2> QED BY <1>1, <1>2, <1>3, <2>1, PlainStep
  <1>5. ASSUME NEW p, NEW l, Goto(d, p, l), p \notin Special,
               l.out = "confirmed" => target.counted,
               child.status # "committed" => target.claim # d \/ p \in Resting
        PROVE  CountInv'
    <2>1. At(d, p, l)
      BY <1>5 DEF Goto, At
    <2> QED BY <1>1, <1>2, <1>5, <2>1, PlainStep
  <1>6. CASE Seal(d)
    <2> DEFINE l == [L EXCEPT !.epoch = plan'.epoch + 1]
    <2>1. l.out = L.out
      BY <1>1 DEF Local
    <2>2. child.status # "committed" => target.claim # d
      BY <1>1, <1>6 DEF Seal, OwnClaim, Holds, Confirms, Resting, Over
    <2>3. At(d, "check_plan", l)
      BY <1>6 DEF Seal, Goto, At
    <2>4. pc'[d] = "check_plan" /\ loc'[d] = l
      BY <1>1, <2>3, Arrives
    <2>5. CallCounts(d)'
      <3> HIDE DEF l
      <3> QED BY <1>1, <2>1, <2>2, <2>4
              DEF CallCounts, OwnClaim, SeenClaim, Projects, Confirms
    <2> QED BY <1>1, <1>2, <2>3, <2>5, QuietCounts, StepCounts
  <1>7. CASE Reject(d) \/ Commit(d)
    <2>1. \E r : Answer(d, r)
      BY <1>7 DEF Reject, Commit, Fail
    <2> QED BY <1>4, <2>1
  <1>8. CASE ClaimPlan(d)
    <2>1. child.status # "committed" => target.claim # d
      BY <1>1, <1>8 DEF ClaimPlan, OwnClaim, Holds, Confirms, Resting, Over
    <2>2. Answer(d, "failed") \/ Goto(d, "verify", L)
      BY <1>8 DEF ClaimPlan, Fail
    <2> QED BY <1>1, <1>3, <1>4, <1>5, <2>1, <2>2
  <1>9. CASE Checkpoint(d)
    <2>1. Answer(d, "failed") \/ Goto(d, "commit", L)
      BY <1>9 DEF Checkpoint, Fail
    <2> QED BY <1>1, <1>3, <1>4, <1>5, <2>1
  <1> QED BY <1>6, <1>7, <1>8, <1>9

\* The steps that write the child's row.
LEMMA ChildWritesCount ==
    ASSUME TypedInv, CountInv, ~stale, ~stale', NEW d \in Delivery,
           PutPrepared(d) \/ SetChild(d) \/ PutClaimed(d)
    PROVE  CountInv'
  <1> DEFINE L == loc[d]
             l == [L EXCEPT !.copy = NoChild]
  <1>1. /\ UNCHANGED <<plan, target>> /\ d \in Call
        /\ L \in Local /\ (L.out = "confirmed" => target.counted)
        /\ child \in Child /\ SharedCounts /\ CallCounts(d)
    BY Structure, LocalTyped DEF PutPrepared, SetChild, PutClaimed, CountInv, CallCounts
  <1>2. l.out = L.out /\ l.back = L.back
    BY <1>1 DEF Local
  <1>3. CASE PutPrepared(d)
    <2>1. child' = [child EXCEPT !.status = "prepared"] /\ child.status # "committed"
      BY <1>3 DEF PutPrepared, TakesBack
    <2>2. target.claim # d
      BY <1>1, <1>3, <2>1 DEF PutPrepared, CallCounts, OwnClaim, Holds, Confirms, Resting, Over
    <2>3. child'.owner = child.owner /\ child'.status # "committed"
      BY <1>1, <2>1 DEF Child
    <2>4. Calm(d) /\ SharedCounts'
      BY <1>1, <2>1, <2>3 DEF Calm, SharedCounts, FenceKept
    <2>5. At(d, "check_child", l) /\ "check_child" \notin Special
      BY <1>3 DEF PutPrepared, Goto, At, Special, Targeting
    <2> HIDE DEF l
    <2>6. CallCounts(d)'
      BY <1>1, <1>2, <2>2, <2>5, PlainCounts
    <2> QED BY <1>1, <2>4, <2>5, <2>6, StepCounts
  <1>4. CASE SetChild(d)
    <2>1. child' = child \/ (child'.owner = d /\ child.status # "committed"
                             /\ child'.status # "committed")
      BY <1>4 DEF SetChild
    <2>2. child.status # "committed" => target.claim # d
      BY <1>1, <1>4 DEF SetChild, CallCounts, OwnClaim, Holds, Confirms, Resting, Over
    <2>3. Calm(d) /\ SharedCounts'
      BY <1>1, <2>1, <2>2 DEF Calm, SharedCounts, FenceKept
    <2>4. At(d, "read_child", l) /\ "read_child" \notin Special
      BY <1>4 DEF SetChild, Goto, At, Special, Targeting
    <2> HIDE DEF l
    <2>5. CallCounts(d)'
      BY <1>1, <1>2, <2>1, <2>2, <2>4, PlainCounts
    <2> QED BY <1>1, <2>3, <2>4, <2>5, StepCounts
  <1>5. CASE PutClaimed(d)
    <2> DEFINE k == [L EXCEPT !.copy = NoChild, !.back = "confirm"]
    <2>1. child' = [child EXCEPT !.status = "claimed"] /\ child.status # "committed"
      BY <1>5 DEF PutClaimed, TakesBack
    <2>2. L.tok = d /\ target.claim = d /\ L.seen = d
      BY <1>1, <1>5, <2>1 DEF PutClaimed, CallCounts, OwnClaim
    <2>3. child'.owner = child.owner /\ child'.status # "committed"
      BY <1>1, <2>1 DEF Child
    <2>4. Calm(d) /\ SharedCounts'
      BY <1>1, <2>1, <2>3 DEF Calm, SharedCounts, FenceKept
    <2>5. At(d, "project", k)
      BY <1>5 DEF PutClaimed, Goto, At
    <2>6. k.out = L.out /\ k.tok = L.tok /\ k.seen = L.seen /\ k.back = "confirm"
      BY <1>1 DEF Local
    <2>7. pc'[d] = "project" /\ loc'[d] = k
      BY <1>1, <2>5, Arrives
    <2> HIDE DEF k
    <2>8. CallCounts(d)'
      BY <1>1, <2>2, <2>3, <2>6, <2>7
         DEF CallCounts, OwnClaim, SeenClaim, Projects, Holds, Confirms
    <2> QED BY <1>1, <2>4, <2>5, <2>8, StepCounts
  <1> QED BY <1>3, <1>4, <1>5

\* The steps of a delivery that write the target's fence and its claim.
LEMMA ClaimWritesCount ==
    ASSUME TypedInv, CountInv, ~stale, NEW d \in Delivery, SetFence(d) \/ ClaimTarget(d)
    PROVE  CountInv'
  <1> DEFINE L == loc[d]
  <1>1. /\ UNCHANGED <<plan, child>> /\ d \in Call /\ L \in Local
        /\ target \in Target /\ SharedCounts /\ CallCounts(d) /\ None \notin Delivery
    BY Structure, LocalTyped DEF SetFence, ClaimTarget, CountInv
  <1>2. CASE SetFence(d)
    <2>1. /\ target'.claim = target.claim /\ target'.counted = target.counted
          /\ target'.fence = IF target.claim = L.seen THEN L.tok ELSE target.fence
      BY <1>1, <1>2 DEF SetFence, Target
    <2>2. child.status # "committed" =>
            target.claim # d /\ OwnClaim(d) /\ SeenClaim(d)
      BY <1>1, <1>2 DEF SetFence, CallCounts, OwnClaim, Holds, Confirms, Resting, Over
    <2>3. SharedCounts'
      BY <1>1, <1>2, <2>1, <2>2 DEF SetFence, SharedCounts, FenceKept, SeenClaim
    <2>4. Calm(d)
      BY <1>1, <2>1 DEF Calm
    <2>5. At(d, "fenced", L) /\ pc[d] = "set_fence"
      BY <1>2 DEF SetFence, Goto, At
    <2>6. pc'[d] = "fenced" /\ loc'[d] = L
      BY <1>1, <2>5, Arrives
    <2>7. CallCounts(d)'
      BY <1>1, <2>1, <2>2, <2>5, <2>6
         DEF CallCounts, OwnClaim, SeenClaim, Projects, Holds, Confirms
    <2> QED BY <1>1, <2>3, <2>4, <2>5, <2>7, StepCounts
  <1>3. CASE ClaimTarget(d)
    <2>1. /\ target'.fence = target.fence /\ target'.counted = target.counted
          /\ \/ target'.claim = target.claim
             \/ /\ target.claim = None /\ target'.claim = L.tok
                /\ target.fence = L.tok
      BY <1>1, <1>3 DEF ClaimTarget, Target
    <2>2. child.status # "committed" => target.claim # d /\ L.tok = d
      BY <1>1, <1>3 DEF ClaimTarget, CallCounts, OwnClaim, Holds, Confirms, Resting, Over
    <2>3. SharedCounts'
      BY <1>1, <2>1, <2>2 DEF SharedCounts, FenceKept
    <2>4. Calm(d)
      BY <1>1, <2>1, <2>2 DEF Calm
    <2>5. At(d, "read_claim", L)
      BY <1>3 DEF ClaimTarget, Goto, At
    <2>6. pc'[d] = "read_claim" /\ loc'[d] = L
      BY <1>1, <2>5, Arrives
    <2>7. CallCounts(d)'
      BY <1>1, <2>1, <2>2, <2>6
         DEF CallCounts, OwnClaim, SeenClaim, Projects, Holds, Confirms
    <2> QED BY <1>1, <2>3, <2>4, <2>5, <2>7, StepCounts
  <1> QED BY <1>2, <1>3

\* Where a confirmation or a recovery ends, the child being committed.
LEMMA ResumeCounts ==
    ASSUME TypedInv, CountInv, ~stale, NEW c \in Call, Resume(c), pc[c] \in Targeting,
           child.status = "committed", UNCHANGED <<plan, child>>,
           target'.counted = target.counted
    PROVE  CountInv'
  <1> DEFINE L == loc[c]
             l == [L EXCEPT !.out = "confirmed"]
             k == [L EXCEPT !.tries = @ + 1]
  <1>1. /\ L \in Local /\ target'.counted /\ CallTyped(c, pc[c], L)
        /\ Calm(c) /\ SharedCounts'
    BY LocalTyped DEF CountInv, SharedCounts, Calm
  <1>2. {"checkpoint", "again", "settle", "write"} \cap Special = {}
    BY DEF Special, Targeting
  <1>3. L.back \in {"confirm", "again", "settle", "write"}
    BY <1>1 DEF CallTyped, Back
  <1>4. \/ At(c, "checkpoint", l) \/ At(c, "again", k)
        \/ At(c, "settle", L) \/ At(c, "write", L)
    BY <1>3 DEF Resume, Conclude, Goto, At
  <1>5. ASSUME NEW p \in {"checkpoint", "again", "settle", "write"}, NEW m, At(c, p, m)
        PROVE  CountInv'
    <2>1. CallCounts(c)'
      BY <1>1, <1>2, <1>5, PlainCounts
    <2> QED BY <1>1, <1>5, <2>1, StepCounts
  <1> QED BY <1>4, <1>5

\* The steps on a claimed target, and those of a writer.
LEMMA TargetStepsCount ==
    ASSUME TypedInv, CountInv, ~stale, NEW c \in Call,
           TargetStep(c) \/ (c \in Writer /\ (Write(c) \/ Revise(c)))
    PROVE  CountInv'
  <1> DEFINE L == loc[c]
  <1>1. /\ L \in Local /\ (L.out = "confirmed" => target.counted)
        /\ target \in Target /\ child \in Child /\ SharedCounts /\ CallCounts(c)
        /\ CallTyped(c, pc[c], L) /\ NoLocal.out = "no"
    BY LocalTyped DEF CountInv, CallCounts, NoLocal
  <1>2. CASE Project(c)
    <2>1. /\ target'.claim = target.claim /\ target'.fence = target.fence
          /\ target.counted => target'.counted
          /\ target.claim = L.seen /\ target.fence = L.tok => target'.counted
          /\ UNCHANGED <<child, plan>>
      BY <1>1, <1>2 DEF Project, Target
    <2>2. SharedCounts'
      BY <1>1, <2>1 DEF SharedCounts, FenceKept
    <2>3. Calm(c)
      BY <2>1 DEF Calm
    <2>4. At(c, "complete", L) /\ pc[c] = "project"
      BY <1>2 DEF Project, Goto, At
    <2>5. pc'[c] = "complete" /\ loc'[c] = L
      BY <2>4, Arrives
    <2>6. ASSUME child.status # "committed", c \in Delivery
          PROVE  OwnClaim(c)' /\ SeenClaim(c)' /\ Projects(c)'
      <3>1. OwnClaim(c) /\ FenceKept
        BY <1>1, <2>6 DEF CallCounts, SharedCounts
      <3>2. OwnClaim(c)' /\ SeenClaim(c)'
        BY <2>1, <2>4, <2>5, <3>1 DEF OwnClaim, SeenClaim, Holds, Confirms, Resting, Over
      <3>3. Projects(c)'
        BY <2>1, <2>4, <2>5, <2>6, <3>1 DEF Projects, OwnClaim, Confirms, FenceKept
      <3> QED BY <3>2, <3>3
    <2>7. CallCounts(c)'
      BY <1>1, <2>1, <2>5, <2>6 DEF CallCounts
    <2> QED BY <2>2, <2>3, <2>4, <2>7, StepCounts
  <1>3. CASE Complete(c)
    <2>1. CASE UNCHANGED child /\ Raise(c)
      <3>1. Calmly(c)
        BY <1>3, <2>1 DEF Complete, Calmly, rows
      <3> QED BY <2>1, <3>1, RaiseCounts
    <2>2. CASE /\ Projected(c) /\ HoldsChild(Holder(c)) /\ Goto(c, "release", L)
               /\ child' = [child EXCEPT !.status = "committed"]
      <3>1. child.status # "committed" /\ child'.status = "committed"
        BY <1>1, <2>2 DEF HoldsChild, Live, Child
      <3>2. target.counted
        <4>1. CASE L.back # "confirm"
          BY <2>2, <4>1 DEF Projected
        <4>2. CASE L.back = "confirm"
          <5>1. c \in Delivery
            BY <1>1, <1>3, <4>2, Structure DEF Complete, CallTyped, Back, Targeting
          <5>2. child.owner = c /\ pc[c] = "complete"
            BY <1>3, <2>2, <4>2 DEF Complete, HoldsChild, Holder
          <5> QED BY <1>1, <3>1, <4>2, <5>1, <5>2 DEF CallCounts, Projects
        <4> QED BY <4>1, <4>2
      <3>3. UNCHANGED <<plan, target>>
        BY <1>3 DEF Complete
      <3>4. SharedCounts' /\ Calm(c)
        BY <3>1, <3>2, <3>3 DEF SharedCounts, Calm
      <3>5. At(c, "release", L)
        BY <2>2 DEF Goto, At
      <3>6. pc'[c] = "release" /\ loc'[c] = L
        BY <3>5, Arrives
      <3>7. CallCounts(c)'
        BY <3>1, <3>2, <3>3, <3>6 DEF CallCounts
      <3> QED BY <3>4, <3>5, <3>7, StepCounts
    <2> QED BY <1>3, <2>1, <2>2 DEF Complete
  <1>4. CASE Release(c)
    <2>1. UNCHANGED rows /\ Calmly(c) /\ pc[c] \in Targeting
      BY <1>4 DEF Release, Calmly, Targeting
    <2>2. \/ Raise(c)
          \/ child.status = "committed" /\ Goto(c, "delete_claim", L)
          \/ child.status = "committed" /\ Resume(c)
      BY <1>4 DEF Release
    <2>3. CASE child.status = "committed" /\ Goto(c, "delete_claim", L)
      <3>1. At(c, "delete_claim", L)
        BY <2>3 DEF Goto, At
      <3>2. pc'[c] = "delete_claim" /\ loc'[c] = L
        BY <3>1, Arrives
      <3>3. CallCounts(c)'
        BY <1>1, <2>1, <2>3, <3>2 DEF CallCounts, rows
      <3> QED BY <2>1, <3>1, <3>3, QuietStep
    <2>4. UNCHANGED <<plan, child>> /\ target'.counted = target.counted
      BY <2>1 DEF rows
    <2> QED BY <2>1, <2>2, <2>3, <2>4, RaiseCounts, ResumeCounts
  <1>5. CASE DeleteClaim(c)
    <2>1. /\ UNCHANGED <<plan, child>> /\ target'.counted = target.counted /\ Resume(c)
          /\ pc[c] \in Targeting /\ child.status = "committed"
      BY <1>1, <1>5 DEF DeleteClaim, Target, Targeting, CallCounts
    <2> QED BY <2>1, ResumeCounts
  <1>6. CASE c \in Writer /\ Write(c)
    <2>1. Calmly(c) /\ "revise" \notin Special
      BY <1>6 DEF Write, Calmly, Special, Targeting
    <2>2. Answer(c, "done") \/ Recover(c, "write") \/ Goto(c, "revise", L)
      BY <1>6 DEF Write
    <2> QED BY <1>1, <1>6, <2>1, <2>2, AnswerPlain, RecoverCounts, GotoPlain
  <1>7. CASE c \in Writer /\ Revise(c)
    <2>1. /\ UNCHANGED <<plan, child>>
          /\ target'.fence = target.fence /\ target'.counted = target.counted
          /\ \/ target'.claim = target.claim
             \/ target.claim = None /\ target'.claim = c
      BY <1>1, <1>7 DEF Revise, Target
    <2>2. c \notin Delivery
      BY <1>7, Structure
    <2>3. SharedCounts' /\ Calm(c)
      BY <1>1, <1>7, <2>1, <2>2 DEF SharedCounts, FenceKept, Calm
    <2>4. At(c, "done", NoLocal) \/ At(c, "write", NoLocal)
      BY <1>7 DEF Revise, Answer, Goto, At
    <2>5. "done" \notin Special /\ "write" \notin Special
      BY DEF Special, Targeting
    <2>6. CallCounts(c)'
      BY <1>1, <2>2, <2>4, <2>5, PlainCounts
    <2> QED BY <2>3, <2>4, <2>6, StepCounts
  <1> QED BY <1>2, <1>3, <1>4, <1>5, <1>6, <1>7 DEF TargetStep

\* No step takes back that an upsert has.
LEMMA StaleForGood == [Next]_vars => (stale => stale')
  <1> SUFFICES ASSUME [Next]_vars PROVE stale => stale'
    OBVIOUS
  <1>1. ASSUME NEW d \in Delivery, DeliveryStep(d) \/ Crash(d) \/ Lapse(d)
        PROVE  stale => stale'
    <2>1. CASE Begin(d) \/ Decide(d) \/ Seal(d) \/ Reject(d) \/ CheckPlan(d) \/ ClaimPlan(d)
               \/ Checkpoint(d) \/ Commit(d) \/ Verify(d) \/ Again(d) \/ Settle(d)
      BY <2>1 DEF Begin, Decide, Seal, Reject, CheckPlan, ClaimPlan, Checkpoint, Commit,
         Verify, Again, Settle, rows
    <2>2. CASE CopyPrepared(d) \/ PutPrepared(d) \/ CheckChild(d) \/ SetChild(d)
               \/ ReadChild(d) \/ SetFence(d) \/ Fenced(d) \/ ClaimTarget(d)
               \/ ReadClaim(d) \/ Lost(d) \/ PutClaimed(d)
      BY <2>2 DEF CopyPrepared, PutPrepared, CheckChild, SetChild, ReadChild, SetFence,
         Fenced, ClaimTarget, ReadClaim, Lost, PutClaimed, rows
    <2>3. CASE Crash(d) \/ Lapse(d)
      BY <2>3 DEF Crash, Lapse, rows
    <2> QED BY <1>1, <2>1, <2>2, <2>3 DEF DeliveryStep
  <1>2. ASSUME NEW c \in Call, TargetStep(c) \/ Write(c) \/ Revise(c) PROVE stale => stale'
    BY <1>2 DEF TargetStep, Project, Complete, Release, DeleteClaim, Write, Revise, rows
  <1>3. UNCHANGED vars => (stale => stale')
    BY DEF vars
  <1> QED BY <1>1, <1>2, <1>3, Structure DEF Next

LEMMA StepCount == TypedInv /\ CountInv /\ [Next]_vars => CountInv'
  <1> SUFFICES ASSUME TypedInv, CountInv, [Next]_vars, ~stale' PROVE CountInv'
    BY DEF CountInv
  <1>1. ~stale
    BY StaleForGood
  <1>2. ASSUME NEW d \in Delivery, Crash(d) PROVE CountInv'
    <2>1. At(d, "crashed", NoLocal) /\ UNCHANGED rows /\ d \in Call
      BY <1>2, Structure DEF Crash, At
    <2>2. "crashed" \notin Special /\ "crashed" \in Resting /\ NoLocal.out # "confirmed"
      BY DEF Special, Targeting, Resting, Over, NoLocal
    <2>3. UNCHANGED <<child, target>> /\ (plan'.done = "confirmed" => target.counted)
      BY <1>1, <2>1 DEF rows, CountInv, SharedCounts
    <2> QED BY <1>1, <2>1, <2>2, <2>3, PlainStep
  <1>3. ASSUME UNCHANGED <<rows, pc, loc>> PROVE CountInv'
    BY <1>1, <1>3 DEF rows, CountInv, SharedCounts, FenceKept, CallCounts, OwnClaim,
       SeenClaim, Projects, Holds, Confirms
  <1>4. ASSUME NEW d \in Delivery, Lapse(d) PROVE CountInv'
    BY <1>3, <1>4 DEF Lapse, rows
  <1>5. CASE UNCHANGED vars
    BY <1>3, <1>5 DEF vars, rows
  <1>6. ASSUME NEW d \in Delivery, DeliveryStep(d) PROVE CountInv'
    BY <1>1, <1>6, ReadsCount, PlanWritesCount, ChildWritesCount, ClaimWritesCount
       DEF DeliveryStep
  <1> QED BY <1>1, <1>2, <1>4, <1>5, <1>6, TargetStepsCount, Structure DEF Next

----------------------------------------------------------------------------
(* The theorems.                                                           *)

Inv == TypedInv /\ RejectInv /\ CountInv

LEMMA Invariants == Spec => []Inv
  <1>1. Init => Inv
    <2> SUFFICES ASSUME Init PROVE Inv
      OBVIOUS
    <2>1. RejectInv
      BY Structure DEF Init, RejectInv, Early, Targeting
    <2>2. CountInv
      BY Structure DEF Init, CountInv, SharedCounts, FenceKept, CallCounts, OwnClaim,
         SeenClaim, Projects, Holds, Confirms, NoChild, NoPlan, Planned, NoLocal
    <2> QED BY <2>1, <2>2, InitTyped DEF Inv
  <1>2. Inv /\ [Next]_vars => Inv'
    BY StepTyped, StepReject, StepCount DEF Inv
  <1> QED BY <1>1, <1>2, PTL DEF Spec

\* The rows, and what the calls remember of them, are well-formed records, and each
\* call is where its method can be.
THEOREM TypeCorrect == Spec => []TypedInv
  <1>1. Inv => TypedInv
    BY DEF Inv
  <1> QED BY <1>1, Invariants, PTL

\* Once a delivery has been told that the event is rejected, no delivery of it, then
\* or later, counts it or stores an operation for it, whichever of them decided
\* otherwise, stall or die.
THEOREM RejectedHasNoEffectsHolds == Spec => []RejectedHasNoEffects
  <1>1. Inv => RejectedHasNoEffects
    BY DEF Inv, RejectInv, Unsealed, RejectedHasNoEffects
  <1> QED BY <1>1, Invariants, PTL

\* A confirmation that the plan records is counted in the memory, unless an upsert of
\* the child row took back what another delivery had written: however many deliveries
\* run for longer than their leases, and whichever die.
THEOREM AnsweredIsCountedHolds == Spec => [](~stale => AnsweredIsCounted)
  <1>1. Inv => (~stale => AnsweredIsCounted)
    BY DEF Inv, CountInv, SharedCounts, AnsweredIsCounted
  <1> QED BY <1>1, Invariants, PTL

================================================================================
