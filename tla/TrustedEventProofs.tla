--------------------------- MODULE TrustedEventProofs ---------------------------
(***************************************************************************)
(* Theorems about TrustedEvent, for every value of its constants: any      *)
(* number of events and deliveries, any of them dying, failing and being   *)
(* repeated.                                                               *)
(*                                                                         *)
(* The argument follows the lease of the scope.  FreshInv: a new attempt   *)
(* has an identity that nothing has.  LeaseInv: so a delivery that has     *)
(* taken the lease has it until it ends, and is alone.  BoundInv: so the   *)
(* binding of the scope names the only plan that can be open, until a      *)
(* takeover writes over it.  FactInv: so until then an ADD that has been   *)
(* decided is of a fact that no memory has.                                *)
(***************************************************************************)
EXTENDS TrustedEvent, FiniteSetTheorems, TLAPS

Field == Event \cup {None}
Acts == [fact : Field, snapshot : Nat]
Plans == [status : {"none", "planned", "claimed", "committed"}, acts : Acts,
          nonce : Identity \cup {None}, live : BOOLEAN, done : Nat]
Scopes == [owner : Identity \cup {None}, live : BOOLEAN, bound : Field]
Local == [bound : Field, seen : Identity \cup {None}, job : Field, acts : Acts,
          n : Nat]

\* Where a delivery is before it has the lease of the scope, while it decides,
\* and while it carries out a plan.
Outside == {"poll", "clock", "claim", "takeover"}
Deciding == {"own", "decide", "bind", "set_bound", "seal", "reject"}
Claiming == {"fence", "act", "free", "fence_again", "checkpoint", "commit"}
Applying == Claiming \cup {"apply", "claim_plan"}
Inside == Deciding \cup Applying \cup {"enter", "release"}

SharedTyped ==
    /\ scope \in Scopes
    /\ scope = NoScope \/ (scope.owner # None /\ scope.bound # None)
    /\ plan \in [Event -> Plans]
    /\ \A e \in Event : ~Open(e) => plan[e].nonce = None
    /\ added \in [Event -> {0, 1}] /\ roots \in [Event -> SUBSET Event]
    /\ held \in [Event -> Identity \cup {None}]
    /\ note \in [rev : Nat, by : SUBSET Event, aborted : SUBSET Event, visible : BOOLEAN]
    /\ displaced \in BOOLEAN

\* The local fields that are set where a delivery is.
CallTyped(p, l) ==
    /\ p \in Inside \cup {"clock", "claim", "takeover"} => l.bound # None
    /\ p = "takeover" => l.seen # None
    /\ p \in Applying => l.job # None

TypedInv ==
    /\ SharedTyped
    /\ pc \in [Worker -> Points] /\ loc \in [Worker -> Local]
    /\ turn \in [Worker -> Turn]
    /\ \A w \in Worker : CallTyped(pc[w], loc[w])

\* Nothing has the identity of a delivery before it has claimed.
FreshInv ==
    \A w \in Worker : pc[w] \in Outside =>
      /\ scope.owner # Me(w)
      /\ \A e \in Event : plan[e].nonce # Me(w)
      /\ \A v \in Worker : loc[v].seen # Me(w)

\* A delivery has the lease of the scope until it ends.
LeaseInv ==
    \A w \in Worker :
      /\ pc[w] \in Inside => Guard(w)
      /\ pc[w] = "enter" => scope.bound = loc[w].bound

\* The scope is bound to the event whose plan is open, as long as no takeover has
\* written over such a binding.
Bound(w, p, l) ==
    /\ p \in Deciding \cup {"release"} => \A e \in Event : ~Open(e)
    /\ p = "seal" => scope.bound = EventOf[w]
    /\ p \in Applying => scope.bound = l.job
    /\ p \in Claiming => Claims(w, l.job)
BoundInv ==
    ~displaced =>
      /\ \A e \in Event : Open(e) => scope.bound = e
      /\ \A w \in Worker : Bound(w, pc[w], loc[w])

\* An ADD is decided, and sealed, when no other event's memory has the fact.
Alone(e) == \A x \in Event \ {e} : added[x] = 0
Adding(w, p, l) == p \in {"bind", "set_bound", "seal"} /\ l.acts.fact = EventOf[w]
FactInv ==
    ~displaced =>
      /\ \A e \in Event : added[e] # 0 => Alone(e)
      /\ \A e \in Event : Open(e) /\ plan[e].acts.fact = e => Alone(e)
      /\ \A w \in Worker : Adding(w, pc[w], loc[w]) => Alone(EventOf[w])

\* The steps that end a delivery from outside.
Halt(w) == Crash(w) \/ Cancel(w)

----------------------------------------------------------------------------
(* Types.                                                                  *)

LEMMA ActMoves ==
    ASSUME NEW w \in Worker, Act(w)
    PROVE  /\ UNCHANGED <<scope, plan>> /\ pc[w] = "act"
           /\ \/ Fail(w) \/ Goto(w, "fence_again", loc[w]) \/ Goto(w, "free", loc[w])
  BY DEF Act, Add, Confirm, Update, Skip

\* What a step of one delivery leaves alone.
LEMMA StepMoves ==
    ASSUME TypedInv, NEW w \in Worker, Step(w) \/ Halt(w)
    PROVE  \A v \in Worker \ {w} : pc'[v] = pc[v] /\ loc'[v] = loc[v]
                                   /\ turn'[v] = turn[v] /\ Me(v)' = Me(v)
  <1> DEFINE Moved == \E p, l, t : /\ pc' = [pc EXCEPT ![w] = p]
                                   /\ loc' = [loc EXCEPT ![w] = l]
                                   /\ turn' = [turn EXCEPT ![w] = t]
  <1>1. ASSUME NEW p, NEW l, Goto(w, p, l) PROVE Moved
    <2>1. turn' = [turn EXCEPT ![w] = turn[w]]
      BY <1>1 DEF Goto, TypedInv
    <2> QED BY <1>1, <2>1 DEF Goto
  <1>2. CASE Retry(w)
    <2>1. loc' = [loc EXCEPT ![w] = loc[w]]
      BY <1>2 DEF Retry, TypedInv
    <2>2. PICK t : turn' = [turn EXCEPT ![w] = t]
      BY <1>2 DEF Retry
    <2> QED BY <1>2, <2>1, <2>2 DEF Retry, TypedInv, Me
  <1>3. CASE Crash(w) \/ Release(w)
    BY <1>3 DEF Crash, Release, TypedInv, Me
  <1>4. Moved => \A v \in Worker \ {w} : pc'[v] = pc[v] /\ loc'[v] = loc[v]
                   /\ turn'[v] = turn[v] /\ Me(v)' = Me(v)
    BY DEF TypedInv, Me
  <1> HIDE DEF Moved
  <1>5. CASE Poll(w) \/ Clock(w) \/ Claim(w) \/ Takeover(w) \/ Enter(w) \/ Own(w)
             \/ Bind(w) \/ Cancel(w)
    BY <1>1, <1>4, <1>5 DEF Poll, Clock, Claim, Takeover, Enter, Own, Bind, Cancel, Fail
  <1>6. CASE Decide(w) \/ SetBound(w) \/ Seal(w) \/ Reject(w) \/ Apply(w) \/ ClaimPlan(w)
    BY <1>1, <1>4, <1>6 DEF Decide, SetBound, Seal, Reject, Apply, ClaimPlan, Fail
  <1>7. CASE CheckFence(w) \/ FenceAgain(w) \/ Checkpoint(w) \/ Commit(w) \/ Free(w)
    BY <1>1, <1>4, <1>7 DEF CheckFence, FenceAgain, Checkpoint, Commit, Free, Fail
  <1>8. CASE Act(w)
    BY <1>1, <1>4, <1>8, ActMoves DEF Fail
  <1> QED BY <1>2, <1>3, <1>5, <1>6, <1>7, <1>8 DEF Step, Halt

LEMMA Arrives ==
    ASSUME TypedInv, NEW w \in Worker, NEW p, NEW l, Goto(w, p, l)
    PROVE  pc'[w] = p /\ loc'[w] = l /\ turn' = turn /\ Me(w)' = Me(w)
  BY DEF TypedInv, Goto, Me

LEMMA Fails ==
    ASSUME TypedInv, NEW w \in Worker, Fail(w)
    PROVE  pc'[w] = "failed" /\ loc'[w] = NoLocal /\ turn' = turn /\ Me(w)' = Me(w)
  BY Arrives DEF Fail

LEMMA MoveTyped ==
    ASSUME TypedInv, SharedTyped', NEW w \in Worker, NEW p \in Points, NEW l \in Local,
           Goto(w, p, l), CallTyped(p, l)
    PROVE  TypedInv'
  <1>1. /\ pc' \in [Worker -> Points] /\ loc' \in [Worker -> Local]
        /\ turn' \in [Worker -> Turn]
    BY DEF TypedInv, Goto
  <1>2. ASSUME NEW v \in Worker PROVE CallTyped(pc'[v], loc'[v])
    BY DEF TypedInv, Goto
  <1> QED BY <1>1, <1>2 DEF TypedInv, CallTyped

LEMMA NoLocalTyped == NoLocal \in Local
  BY DEF NoLocal, Local, Field, NoActions, Acts

LEMMA EndTyped ==
    ASSUME TypedInv, SharedTyped', NEW w \in Worker, NEW p \in Points,
           pc' = [pc EXCEPT ![w] = p], loc' = [loc EXCEPT ![w] = NoLocal],
           turn' = turn, CallTyped(p, NoLocal)
    PROVE  TypedInv'
  BY MoveTyped, NoLocalTyped DEF Goto

LEMMA FailTyped ==
    ASSUME TypedInv, SharedTyped', NEW w \in Worker, Fail(w)
    PROVE  TypedInv'
  BY MoveTyped, NoLocalTyped DEF Fail, CallTyped, Applying, Claiming, Deciding, Inside,
     Points

LEMMA SharedStays ==
    ASSUME TypedInv, UNCHANGED <<scope, plan, Memories>>, displaced' \in BOOLEAN
    PROVE  SharedTyped'
  BY DEF TypedInv, SharedTyped, Memories, Open

\* A step that changes the scope, or the row of one plan, and no memory.
LEMMA ScopeStepTyped ==
    ASSUME TypedInv, UNCHANGED <<plan, Memories>>, displaced' \in BOOLEAN,
           scope' \in Scopes, scope'.owner # None /\ scope'.bound # None
    PROVE  SharedTyped'
  BY DEF TypedInv, SharedTyped, Memories, Open

LEMMA PlanStepTyped ==
    ASSUME TypedInv, UNCHANGED <<scope, Memories>>, displaced' \in BOOLEAN, NEW e \in Event,
           NEW r \in Plans, plan' = [plan EXCEPT ![e] = r],
           r.status \notin {"planned", "claimed"} => r.nonce = None
    PROVE  SharedTyped'
  <1>1. plan' \in [Event -> Plans]
    BY DEF TypedInv, SharedTyped
  <1>2. ASSUME NEW x \in Event, ~Open(x)' PROVE plan'[x].nonce = None
    BY <1>2 DEF TypedInv, SharedTyped, Open
  <1> QED BY <1>1, <1>2 DEF TypedInv, SharedTyped, Memories

LEMMA TakingTyped ==
    ASSUME TypedInv, NEW w \in Worker, displaced' \in BOOLEAN,
           Poll(w) \/ Clock(w) \/ Claim(w) \/ Takeover(w) \/ Enter(w) \/ Own(w)
           \/ Release(w)
    PROVE  TypedInv'
  <1> DEFINE L == loc[w]
  <1>1. /\ L \in Local /\ CallTyped(pc[w], L) /\ SharedTyped /\ EventOf[w] \in Event
        /\ Me(w) \in Identity
    BY ConstantsAssumption DEF TypedInv, Me, Identity
  <1>2. None \notin Event \cup Identity
    BY ConstantsAssumption DEF Identity
  <1>3. CASE Poll(w)
    <2> DEFINE l == [NoLocal EXCEPT
                       !.bound = IF scope.bound = None THEN EventOf[w] ELSE scope.bound]
    <2>1. SharedTyped'
      BY <1>3, SharedStays DEF Poll
    <2>2. l \in Local /\ l.bound # None
      BY <1>1, <1>2 DEF NoLocal, Local, Field, SharedTyped, Scopes, NoActions, Acts
    <2>3. CallTyped("clock", l)
      BY <2>2 DEF CallTyped, Applying, Claiming, Deciding, Inside
    <2> QED BY <1>3, <2>1, <2>2, <2>3, MoveTyped DEF Poll, Points
  <1>9. CASE Clock(w)
    <2> DEFINE l == [L EXCEPT !.seen = IF scope.live THEN None ELSE scope.owner]
    <2>1. SharedTyped'
      BY <1>9, SharedStays DEF Clock
    <2>2. L.bound # None
      BY <1>1, <1>9 DEF Clock, CallTyped
    <2>3. l \in Local /\ l.bound # None
      BY <1>1, <2>2 DEF Local, SharedTyped, Scopes
    <2>4. CallTyped("claim", l)
      BY <2>3 DEF CallTyped, Applying, Claiming, Deciding, Inside
    <2> QED BY <1>9, <2>1, <2>3, <2>4, MoveTyped DEF Clock, Points
  <1>4. CASE Claim(w)
    <2>1. L.bound # None
      BY <1>1, <1>4 DEF Claim, CallTyped
    <2>2. SharedTyped'
      <3>1. CASE UNCHANGED scope
        BY <1>4, <3>1, SharedStays DEF Claim
      <3>2. CASE scope' = [owner |-> Me(w), live |-> TRUE, bound |-> L.bound]
        <4>1. scope' \in Scopes /\ scope'.owner # None /\ scope'.bound # None
          BY <1>1, <1>2, <2>1, <3>2 DEF Scopes, Local
        <4> QED BY <1>4, <4>1, ScopeStepTyped DEF Claim
      <3> QED BY <1>4, <3>1, <3>2 DEF Claim
    <2>3. CASE scope = NoScope
      <3>1. CallTyped("enter", L)
        BY <2>1 DEF CallTyped, Applying, Claiming, Deciding, Inside
      <3> QED BY <1>1, <1>4, <2>2, <2>3, <3>1, MoveTyped DEF Claim, Points
    <2>4. CASE scope # NoScope /\ scope.owner = L.seen
      <3>1. CallTyped("takeover", L)
        BY <1>1, <2>1, <2>4 DEF CallTyped, Applying, Claiming, Deciding, Inside, SharedTyped
      <3> QED BY <1>1, <1>4, <2>2, <2>4, <3>1, MoveTyped DEF Claim, Points
    <2>5. CASE scope # NoScope /\ scope.owner # L.seen
      <3>1. CallTyped("poll", NoLocal)
        BY DEF CallTyped, Applying, Claiming, Deciding, Inside
      <3> QED BY <1>4, <2>2, <2>5, <3>1, MoveTyped, NoLocalTyped DEF Claim, Points
    <2> QED BY <2>3, <2>4, <2>5
  <1>5. CASE Takeover(w)
    <2> DEFINE l == [L EXCEPT !.seen = None]
    <2>1. L.bound # None
      BY <1>1, <1>5 DEF Takeover, CallTyped
    <2>2. SharedTyped'
      <3>1. CASE UNCHANGED scope
        BY <1>5, <3>1, SharedStays DEF Takeover
      <3>2. CASE scope' = [owner |-> Me(w), live |-> TRUE, bound |-> L.bound]
        <4>1. scope' \in Scopes /\ scope'.owner # None /\ scope'.bound # None
          BY <1>1, <1>2, <2>1, <3>2 DEF Scopes, Local
        <4> QED BY <1>5, <4>1, ScopeStepTyped DEF Takeover
      <3> QED BY <1>5, <3>1, <3>2 DEF Takeover
    <2>3. l \in Local /\ l.bound # None
      BY <1>1, <2>1 DEF Local
    <2>4. CallTyped("enter", l) /\ CallTyped("poll", NoLocal)
      BY <2>3 DEF CallTyped, Applying, Claiming, Deciding, Inside
    <2>5. Goto(w, "enter", l) \/ Goto(w, "poll", NoLocal)
      BY <1>5 DEF Takeover
    <2> QED BY <2>2, <2>3, <2>4, <2>5, MoveTyped, NoLocalTyped DEF Points
  <1>6. CASE Enter(w)
    <2> DEFINE l == [L EXCEPT !.job = L.bound, !.seen = plan[L.bound].nonce]
    <2>1. SharedTyped'
      BY <1>6, SharedStays DEF Enter
    <2>2. L.bound \in Event
      BY <1>1, <1>6 DEF Enter, CallTyped, Inside, Local, Field
    <2>3. l \in Local /\ l.job # None /\ l.bound # None
      BY <1>1, <1>2, <2>2 DEF Local, SharedTyped, Plans
    <2>4. CallTyped("apply", l) /\ CallTyped("own", L)
      BY <1>2, <2>2, <2>3 DEF CallTyped, Applying, Claiming, Deciding, Inside
    <2>5. Fail(w) \/ Goto(w, "apply", l) \/ Goto(w, "own", L)
      BY <1>6 DEF Enter
    <2> QED BY <1>1, <2>1, <2>3, <2>4, <2>5, MoveTyped, FailTyped DEF Points
  <1>7. CASE Own(w)
    <2> DEFINE k == [L EXCEPT !.job = None, !.n = 0]
               l == [k EXCEPT !.job = EventOf[w], !.seen = plan[EventOf[w]].nonce]
    <2>1. SharedTyped'
      BY <1>7, SharedStays DEF Own
    <2>2. k \in Local /\ k.bound # None
      <3>1. L.bound # None
        BY <1>1, <1>7 DEF Own, CallTyped, Inside, Deciding
      <3> QED BY <1>1, <3>1 DEF Local, Field
    <2>3. l \in Local /\ l.job # None /\ l.bound # None
      <3> HIDE DEF k
      <3> QED BY <1>1, <1>2, <2>2 DEF Local, Field, SharedTyped, Plans
    <2>4. CallTyped("apply", l) /\ CallTyped("release", k) /\ CallTyped("decide", k)
      BY <2>2, <2>3 DEF CallTyped, Applying, Claiming, Deciding, Inside
    <2>5. Goto(w, "release", k) \/ Goto(w, "apply", l) \/ Goto(w, "decide", k)
      BY <1>7 DEF Own
    <2> HIDE DEF k, l
    <2> QED BY <2>1, <2>2, <2>3, <2>4, <2>5, MoveTyped DEF Points
  <1>8. CASE Release(w)
    <2> DEFINE b == IF L.job = EventOf[w] THEN EventOf[w] ELSE L.bound
    <2>1. /\ UNCHANGED <<plan, Memories>>
          /\ scope' = IF scope.owner = Me(w)
                      THEN [scope EXCEPT !.live = FALSE, !.bound = b] ELSE scope
      BY <1>8 DEF Release
    <2>2. b \in Event
      BY <1>1, <1>8 DEF Release, CallTyped, Inside, Local, Field
    <2>3. SharedTyped'
      <3>1. CASE scope.owner # Me(w)
        BY <2>1, <3>1, SharedStays
      <3>2. CASE scope.owner = Me(w)
        <4>1. scope' \in Scopes /\ scope'.owner # None /\ scope'.bound # None
          BY <1>1, <1>2, <2>1, <2>2, <3>2 DEF Scopes, Field, SharedTyped
        <4> QED BY <2>1, <4>1, ScopeStepTyped
      <3> QED BY <3>1, <3>2
    <2>4. CallTyped("done", NoLocal)
      BY DEF CallTyped, Applying, Claiming, Deciding, Inside
    <2> QED BY <1>8, <2>3, <2>4, EndTyped DEF Release, Points
  <1> QED BY <1>3, <1>4, <1>5, <1>6, <1>7, <1>8, <1>9

LEMMA DecidingTyped ==
    ASSUME TypedInv, NEW w \in Worker, displaced' \in BOOLEAN,
           Decide(w) \/ Bind(w) \/ SetBound(w) \/ Seal(w) \/ Reject(w)
    PROVE  TypedInv'
  <1> DEFINE L == loc[w]
             e == EventOf[w]
  <1>1. /\ L \in Local /\ CallTyped(pc[w], L) /\ SharedTyped /\ e \in Event
    BY ConstantsAssumption DEF TypedInv
  <1>2. None \notin Event \cup Identity
    BY ConstantsAssumption DEF Identity
  <1>3. L.bound # None
    BY <1>1 DEF CallTyped, Inside, Deciding, Decide, Bind, SetBound, Seal, Reject
  <1>4. ASSUME SharedTyped', NEW p \in (Points \ Applying) \ {"takeover"},
               NEW l \in Local, l.bound = L.bound, Goto(w, p, l)
        PROVE  TypedInv'
    <2>1. CallTyped(p, l)
      BY <1>3, <1>4 DEF CallTyped
    <2> QED BY <1>4, <2>1, MoveTyped
  <1>5. CASE Decide(w)
    <2>1. SharedTyped'
      BY <1>5, SharedStays DEF Decide
    <2>2. ASSUME NEW fact \in Event, NEW snapshot \in Nat
          PROVE  LET l == [L EXCEPT !.acts = [fact |-> fact, snapshot |-> snapshot]]
                 IN  l \in Local /\ l.bound = L.bound
      BY <1>1 DEF Local, Acts, Field
    <2>3. note.rev \in Nat
      BY <1>1 DEF SharedTyped
    <2>4. \/ Fail(w) \/ Goto(w, "reject", L)
          \/ \E fact \in Event, snapshot \in Nat :
               Goto(w, "bind", [L EXCEPT !.acts = [fact |-> fact, snapshot |-> snapshot]])
      BY <1>1, <1>5, <2>3 DEF Decide
    <2> QED BY <1>1, <1>4, <2>1, <2>2, <2>4, FailTyped DEF Points, Applying, Claiming
  <1>6. CASE Bind(w)
    BY <1>1, <1>4, <1>6, SharedStays, FailTyped DEF Bind, Points, Applying, Claiming
  <1>7. CASE SetBound(w)
    <2>1. SharedTyped'
      <3>1. CASE scope.owner # Me(w)
        BY <1>7, <3>1, SharedStays DEF SetBound
      <3>2. CASE scope.owner = Me(w)
        <4>1. scope' = [scope EXCEPT !.bound = e] /\ scope.owner # None
          BY <1>2, <1>7, <3>2, ConstantsAssumption DEF SetBound, TypedInv, Me
        <4>2. scope' \in Scopes /\ scope'.owner # None /\ scope'.bound # None
          BY <1>1, <1>2, <4>1 DEF Scopes, Field, SharedTyped
        <4> QED BY <1>7, <4>2, ScopeStepTyped DEF SetBound
      <3> QED BY <3>1, <3>2
    <2> QED BY <1>1, <1>4, <1>7, <2>1, FailTyped DEF SetBound, Points, Applying, Claiming
  <1>8. CASE Seal(w)
    <2>1. Sealed(L.acts) \in Plans /\ Sealed(L.acts).nonce = None
      BY <1>1 DEF Sealed, NoPlan, Plans, Local, NoActions, Acts, Field
    <2>2. SharedTyped'
      <3>1. CASE plan[e] = NoPlan
        BY <1>1, <1>8, <2>1, <3>1, PlanStepTyped DEF Seal
      <3>2. CASE plan[e] # NoPlan
        BY <1>8, <3>2, SharedStays DEF Seal
      <3> QED BY <3>1, <3>2
    <2> DEFINE nonce == plan'[e].nonce
               l == [L EXCEPT !.acts = NoActions, !.job = e, !.seen = nonce]
    <2>3. nonce \in Identity \cup {None}
      BY <1>1, <2>2 DEF SharedTyped, Plans
    <2> HIDE DEF nonce
    <2>4. l \in Local /\ l.job # None /\ l.bound = L.bound
      BY <1>1, <1>2, <2>3 DEF Local, NoActions, Acts, Field
    <2>5. CallTyped("apply", l) /\ Goto(w, "apply", l)
      BY <1>3, <1>8, <2>4 DEF CallTyped, Seal, nonce
    <2> HIDE DEF l
    <2> QED BY <2>2, <2>4, <2>5, MoveTyped DEF Points
  <1>9. CASE Reject(w)
    <2>1. Rejection \in Plans /\ Rejection.nonce = None
      BY DEF Rejection, NoPlan, Plans, NoActions, Acts, Field
    <2>2. SharedTyped'
      <3>1. CASE plan[e] = NoPlan
        BY <1>1, <1>9, <2>1, <3>1, PlanStepTyped DEF Reject
      <3>2. CASE plan[e] # NoPlan
        BY <1>9, <3>2, SharedStays DEF Reject
      <3> QED BY <3>1, <3>2
    <2>3. [L EXCEPT !.job = e] \in Local /\ [L EXCEPT !.job = e].bound = L.bound
      BY <1>1 DEF Local, Field
    <2>4. Fail(w) \/ Goto(w, "release", [L EXCEPT !.job = e])
      BY <1>9 DEF Reject
    <2> QED BY <1>4, <2>2, <2>3, <2>4, FailTyped DEF Points, Applying, Claiming
  <1> QED BY <1>5, <1>6, <1>7, <1>8, <1>9

LEMMA ApplyingTyped ==
    ASSUME TypedInv, NEW w \in Worker, displaced' \in BOOLEAN,
           Apply(w) \/ ClaimPlan(w) \/ CheckFence(w) \/ Act(w) \/ Free(w)
           \/ FenceAgain(w) \/ Checkpoint(w) \/ Commit(w)
    PROVE  TypedInv'
  <1> DEFINE L == loc[w]
             e == L.job
  <1>1. /\ L \in Local /\ CallTyped(pc[w], L) /\ SharedTyped
        /\ Me(w) \in Identity /\ pc[w] \in Applying
    BY DEF TypedInv, Me, Identity, Apply, ClaimPlan, CheckFence, Act, Free, FenceAgain,
       Checkpoint, Commit, Applying, Claiming
  <1>2. None \notin Event \cup Identity
    BY ConstantsAssumption DEF Identity
  <1>3. L.bound # None /\ e \in Event /\ L.n \in Nat /\ plan[e] \in Plans
    BY <1>1 DEF CallTyped, Inside, Local, Field, SharedTyped
  <1>4. ASSUME SharedTyped', NEW p \in Points \ {"takeover"},
               NEW l \in Local, l.bound = L.bound, l.job = L.job, Goto(w, p, l)
        PROVE  TypedInv'
    <2>1. CallTyped(p, l)
      BY <1>2, <1>3, <1>4 DEF CallTyped
    <2> QED BY <1>4, <2>1, MoveTyped
  <1>5. CASE Apply(w) \/ CheckFence(w) \/ FenceAgain(w)
    <2>1. SharedTyped'
      BY <1>5, SharedStays DEF Apply, CheckFence, FenceAgain
    <2>2. Fail(w) \/ \E p \in Points \ {"takeover"} : Goto(w, p, L)
      BY <1>5 DEF Apply, CheckFence, FenceAgain, Points
    <2> QED BY <1>1, <1>4, <2>1, <2>2, FailTyped
  <1>6. CASE ClaimPlan(w)
    <2> DEFINE k == [plan[e] EXCEPT !.status = "claimed", !.nonce = Me(w)]
               r == [k EXCEPT !.live = TRUE]
               l == [L EXCEPT !.seen = None, !.n = plan[e].done]
    <2>1. k \in Plans /\ k.status = "claimed"
      BY <1>1, <1>3 DEF Plans
    <2>2. r \in Plans /\ r.status = "claimed"
      <3> HIDE DEF k
      <3> QED BY <2>1 DEF Plans
    <2>3. l \in Local /\ l.bound = L.bound /\ l.job = L.job
      BY <1>1, <1>3 DEF Local, Plans
    <2>4. CASE Fail(w) /\ UNCHANGED plan
      BY <1>6, <2>4, SharedStays, FailTyped DEF ClaimPlan
    <2>5. CASE Goto(w, "fence", l) /\ plan' = [plan EXCEPT ![e] = r]
      <3> HIDE DEF r, l
      <3>1. SharedTyped'
        BY <1>3, <1>6, <2>2, <2>5, PlanStepTyped DEF ClaimPlan
      <3> QED BY <1>4, <2>3, <2>5, <3>1 DEF Points
    <2>6. plan' = [plan EXCEPT ![e] = r] \/ UNCHANGED plan
      <3>1. plan \in [Event -> Plans]
        BY <1>1 DEF SharedTyped
      <3>2. r = [plan[e] EXCEPT !.status = "claimed", !.nonce = Me(w), !.live = TRUE]
        OBVIOUS
      <3> HIDE DEF r
      <3> QED BY <1>3, <1>6, <3>1, <3>2 DEF ClaimPlan
    <2> QED BY <1>6, <2>4, <2>5, <2>6 DEF ClaimPlan
  <1>7. CASE Act(w)
    <2> DEFINE f == plan[e].acts.fact
               Notes == [rev : Nat, by : SUBSET Event, aborted : SUBSET Event,
                         visible : BOOLEAN]
    <2>1. /\ added \in [Event -> {0, 1}] /\ roots \in [Event -> SUBSET Event]
          /\ held \in [Event -> Identity \cup {None}] /\ note \in Notes
      BY <1>1 DEF SharedTyped
    <2>2. added' \in [Event -> {0, 1}]
      <3>1. added' = added \/ added' = [added EXCEPT ![e] = 1]
        BY <1>7 DEF Act, Add, Confirm, Update, Skip, Memories
      <3> QED BY <1>3, <2>1, <3>1
    <2>3. roots' \in [Event -> SUBSET Event] /\ held' \in [Event -> Identity \cup {None}]
      <3>1. \/ UNCHANGED <<roots, held>>
            \/ /\ roots' = [roots EXCEPT ![f] = @ \cup {e}]
               /\ held' = [held EXCEPT ![f] = Me(w)]
        BY <1>7 DEF Act, Add, Confirm, Update, Skip, Memories
      <3> HIDE DEF f
      <3> QED BY <1>1, <1>3, <2>1, <3>1
    <2>4. note' \in Notes
      <3>1. note' = note \/ note' = Successor(e)
        <4>1. CASE Add(w, e) \/ Confirm(w, e)
          BY <4>1 DEF Add, Confirm
        <4>2. CASE Update(w, e)
          BY <4>2 DEF Update
        <4>3. CASE Skip(w, e)
          BY <4>3 DEF Skip, Memories
        <4> QED BY <1>7, <4>1, <4>2, <4>3 DEF Act
      <3>2. [note EXCEPT !.visible = FALSE] \in Notes
        BY <2>1
      <3>3. [note EXCEPT !.rev = @ + 1, !.by = @ \cup {e}] \in Notes
        <4> DEFINE k == [note EXCEPT !.rev = @ + 1]
        <4>1. k \in Notes /\ k.by = note.by
          BY <2>1
        <4>2. [k EXCEPT !.by = note.by \cup {e}] \in Notes
          <5> HIDE DEF k
          <5> QED BY <1>3, <2>1, <4>1
        <4>3. [note EXCEPT !.rev = @ + 1, !.by = @ \cup {e}]
                = [k EXCEPT !.by = note.by \cup {e}]
          BY <2>1
        <4> QED BY <4>2, <4>3
      <3> HIDE DEF Notes
      <3> QED BY <2>1, <3>1, <3>2, <3>3 DEF Successor
    <2>5. SharedTyped'
      BY <1>1, <1>7, <2>2, <2>3, <2>4, ActMoves DEF SharedTyped, Open
    <2> QED BY <1>1, <1>4, <1>7, <2>5, ActMoves, FailTyped DEF Points
  <1>10. CASE Free(w)
    <2> DEFINE f == plan[e].acts.fact
    <2>1. held' \in [Event -> Identity \cup {None}]
      BY <1>1, <1>10 DEF Free, SharedTyped
    <2>2. SharedTyped'
      BY <1>1, <1>10, <2>1 DEF Free, SharedTyped, Open
    <2> QED BY <1>1, <1>4, <1>10, <2>2 DEF Free, Points
  <1>8. CASE Checkpoint(w)
    <2> DEFINE r == [plan[e] EXCEPT !.done = L.n + 1]
               l == [L EXCEPT !.n = L.n + 1]
    <2>1. r \in Plans /\ r.status = plan[e].status /\ r.nonce = plan[e].nonce
      BY <1>3 DEF Plans
    <2>2. l \in Local /\ l.bound = L.bound /\ l.job = L.job
      BY <1>1, <1>3 DEF Local
    <2>3. CASE Fail(w) /\ UNCHANGED plan
      BY <1>8, <2>3, SharedStays, FailTyped DEF Checkpoint
    <2>4. CASE Goto(w, "fence", l) /\ plan' = [plan EXCEPT ![e] = r]
      <3> HIDE DEF r, l
      <3>1. r.status \notin {"planned", "claimed"} => r.nonce = None
        BY <1>1, <1>3, <2>1 DEF SharedTyped, Open
      <3>2. SharedTyped'
        BY <1>3, <1>8, <2>1, <2>4, <3>1, PlanStepTyped DEF Checkpoint
      <3> QED BY <1>4, <2>2, <2>4, <3>2 DEF Points
    <2> QED BY <1>8, <2>3, <2>4 DEF Checkpoint
  <1>9. CASE Commit(w)
    <2> DEFINE k == [plan[e] EXCEPT !.status = "committed", !.nonce = None]
               r == [k EXCEPT !.live = FALSE]
    <2>1. k \in Plans /\ k.nonce = None
      BY <1>3 DEF Plans
    <2>2. r \in Plans /\ r.nonce = None
      <3> HIDE DEF k
      <3> QED BY <2>1 DEF Plans
    <2>3. CASE Fail(w) /\ UNCHANGED plan
      BY <1>9, <2>3, SharedStays, FailTyped DEF Commit
    <2>4. CASE plan' = [plan EXCEPT ![e] = r]
               /\ (Goto(w, "release", L) \/ Goto(w, "own", L))
      <3>1. SharedTyped'
        <4> HIDE DEF r
        <4> QED BY <1>3, <1>9, <2>2, <2>4, PlanStepTyped DEF Commit
      <3> QED BY <1>1, <1>4, <2>4, <3>1 DEF Points
    <2>5. \/ plan' = [plan EXCEPT ![e] = r]
             /\ (Goto(w, "release", L) \/ Goto(w, "own", L))
          \/ UNCHANGED plan /\ Fail(w)
      <3>1. plan \in [Event -> Plans]
        BY <1>1 DEF SharedTyped
      <3>2. r = [plan[e] EXCEPT !.status = "committed", !.nonce = None, !.live = FALSE]
        OBVIOUS
      <3> HIDE DEF r
      <3>3. CASE Claims(w, e) \/ plan[e].status = "committed"
        <4>1. plan' = [plan EXCEPT ![e].status = "committed", ![e].nonce = None,
                                   ![e].live = FALSE]
          BY <1>9, <3>3 DEF Commit
        <4> DEFINE k1 == [plan EXCEPT ![e].status = "committed"]
                   k2 == [k1 EXCEPT ![e].nonce = None]
        <4>2. k1 = [plan EXCEPT ![e] = [plan[e] EXCEPT !.status = "committed"]]
          OBVIOUS
        <4>3. k2 = [plan EXCEPT ![e] = k]
          BY <1>3, <3>1, <4>2
        <4>4. plan' = [k2 EXCEPT ![e].live = FALSE]
          BY <4>1
        <4> HIDE DEF k1, k2, k
        <4>5. plan' = [plan EXCEPT ![e] = [k EXCEPT !.live = FALSE]]
          BY <1>3, <3>1, <4>3, <4>4
        <4>6. Goto(w, "release", L) \/ Goto(w, "own", L)
          BY <1>9, <3>3 DEF Commit
        <4> QED BY <4>5, <4>6 DEF r
      <3> QED BY <1>9, <3>3 DEF Commit
    <2> QED BY <2>3, <2>4, <2>5
  <1> QED BY <1>5, <1>6, <1>7, <1>8, <1>9, <1>10

LEMMA EnvironmentTyped ==
    ASSUME TypedInv, displaced' \in BOOLEAN,
           \/ \E w \in Worker : Retry(w) \/ Halt(w)
           \/ \E e \in Event : Lapse(e)
           \/ Expire \/ Revise \/ UNCHANGED vars
    PROVE  TypedInv'
  <1>1. SharedTyped
    BY DEF TypedInv
  <1>2. ASSUME NEW w \in Worker, Retry(w) PROVE TypedInv'
    <2>1. PICK t \in Turn \ {0} : turn' = [turn EXCEPT ![w] = t]
      BY <1>2 DEF Retry
    <2>2. turn' \in [Worker -> Turn] /\ pc' \in [Worker -> Points]
      BY <1>2, <2>1 DEF Retry, TypedInv, Points
    <2>3. ASSUME NEW v \in Worker PROVE CallTyped(pc'[v], loc'[v])
      <3>1. CallTyped("poll", loc[v])
        BY DEF CallTyped, Applying, Claiming, Deciding, Inside
      <3> QED BY <1>2, <3>1 DEF Retry, TypedInv
    <2>4. SharedTyped'
      BY <1>2, SharedStays DEF Retry
    <2> QED BY <1>2, <2>2, <2>3, <2>4 DEF TypedInv, Retry, CallTyped
  <1>3. ASSUME NEW w \in Worker, Crash(w) PROVE TypedInv'
    <2>1. CallTyped("failed", NoLocal)
      BY DEF CallTyped, Applying, Claiming, Deciding, Inside
    <2> QED BY <1>3, <2>1, SharedStays, EndTyped DEF Crash, Points
  <1>9. ASSUME NEW w \in Worker, Cancel(w) PROVE TypedInv'
    <2>1. loc[w].job \in Event
      BY <1>9 DEF Cancel, TypedInv, CallTyped, Applying, Claiming, Local, Field
    <2>2. note' \in [rev : Nat, by : SUBSET Event, aborted : SUBSET Event, visible : BOOLEAN]
      BY <1>1, <1>9, <2>1 DEF Cancel, SharedTyped
    <2>3. SharedTyped'
      BY <1>1, <1>9, <2>2 DEF Cancel, SharedTyped, Open
    <2> QED BY <1>9, <2>3, FailTyped DEF Cancel
  <1>4. ASSUME SharedTyped', UNCHANGED <<pc, loc, turn>> PROVE TypedInv'
    BY <1>4 DEF TypedInv, CallTyped
  <1>5. ASSUME NEW e \in Event, Lapse(e) PROVE TypedInv'
    <2> DEFINE r == [plan[e] EXCEPT !.live = FALSE]
    <2>1. r \in Plans /\ r.status = plan[e].status /\ r.nonce = plan[e].nonce
      <3>1. plan[e] \in Plans
        BY <1>1 DEF SharedTyped
      <3> QED BY <3>1 DEF Plans
    <2>2. plan' = [plan EXCEPT ![e] = r] /\ UNCHANGED <<scope, Memories, pc, loc, turn>>
      BY <1>5 DEF Lapse
    <2>3. r.status \notin {"planned", "claimed"} => r.nonce = None
      BY <1>1, <2>1 DEF SharedTyped, Open
    <2> HIDE DEF r
    <2> QED BY <1>4, <2>1, <2>2, <2>3, PlanStepTyped
  <1>6. CASE Expire
    <2>1. /\ scope # NoScope /\ scope' = [scope EXCEPT !.live = FALSE]
          /\ UNCHANGED <<plan, Memories, pc, loc, turn>>
      BY <1>6 DEF Expire, NoScope
    <2>2. scope' \in Scopes /\ scope'.owner # None /\ scope'.bound # None
      BY <1>1, <2>1 DEF Scopes, SharedTyped
    <2> QED BY <1>4, <2>1, <2>2, ScopeStepTyped
  <1>7. CASE Revise
    BY <1>1, <1>4, <1>7 DEF Revise, SharedTyped, Open
  <1>8. CASE UNCHANGED vars
    BY <1>4, <1>8, SharedStays DEF vars, Memories
  <1> QED BY <1>2, <1>3, <1>5, <1>6, <1>7, <1>8, <1>9 DEF Halt

LEMMA InitTyped == Init => TypedInv
  <1> SUFFICES ASSUME Init PROVE TypedInv
    OBVIOUS
  <1>1. NoPlan \in Plans /\ NoPlan.nonce = None /\ NoScope \in Scopes
    BY DEF NoPlan, Plans, NoScope, Scopes, NoActions, Acts, Field
  <1>2. SharedTyped
    BY <1>1 DEF Init, SharedTyped
  <1>3. CallTyped("poll", NoLocal)
    BY DEF CallTyped, Applying, Claiming, Deciding, Inside
  <1> QED BY <1>2, <1>3, NoLocalTyped, ConstantsAssumption DEF Init, TypedInv, Points

\* A binding that was written over stays so.
LEMMA DisplacedStays ==
    ASSUME TypedInv, [Next]_vars
    PROVE  displaced' \in BOOLEAN /\ (displaced => displaced')
  <1>1. displaced \in BOOLEAN
    BY DEF TypedInv, SharedTyped
  <1>2. ASSUME NEW w \in Worker, Takeover(w)
        PROVE  displaced' \in BOOLEAN /\ (displaced => displaced')
    BY <1>1, <1>2, ZenonT(30) DEF Takeover
  <1>3. (\E w \in Worker : Takeover(w)) \/ displaced' = displaced
    BY DEF Next, Step, Environment, vars
  <1> QED BY <1>1, <1>2, <1>3

LEMMA StepTyped == TypedInv /\ [Next]_vars => TypedInv'
  BY DisplacedStays, TakingTyped, DecidingTyped, ApplyingTyped, EnvironmentTyped
     DEF Next, Step, Environment, Halt

\* Where a delivery is tells which of its local fields are set; a plan that is
\* not open has no owner, and a memory is inserted at most once.
THEOREM TypeCorrect == Spec => []TypedInv
  BY InitTyped, StepTyped, PTL DEF Spec

----------------------------------------------------------------------------
(* What the steps do to the lease and to the journal.                      *)

\* The lease changes hands: nobody had it.
Taken(w) ==
    /\ Claim(w) \/ Takeover(w)
    /\ scope' = [owner |-> Me(w), live |-> TRUE, bound |-> loc[w].bound]
    /\ ~scope.live
    /\ \/ scope = NoScope
       \/ /\ scope.owner = loc[w].seen /\ loc[w].seen # None
          /\ ~displaced' => loc[w].bound = scope.bound \/ ~Open(scope.bound)
    /\ pc'[w] = "enter" /\ loc'[w].bound = loc[w].bound
\* Its holder binds it to a plan, or gives it up.
Rebound(w) ==
    /\ SetBound(w) /\ scope.owner = Me(w) /\ scope'.owner = scope.owner
    /\ scope'.live = scope.live /\ scope'.bound = EventOf[w]
Released(w) ==
    /\ Release(w) /\ scope.owner = Me(w) /\ scope'.owner = scope.owner
Ended ==
    /\ Expire /\ scope'.owner = scope.owner /\ scope'.bound = scope.bound

LEMMA ClaimTakes ==
    ASSUME TypedInv, NEW w \in Worker, Claim(w) \/ Takeover(w)
    PROVE  \/ Taken(w)
           \/ /\ scope' = scope
              /\ \/ Claim(w) /\ pc'[w] = "takeover" /\ loc'[w] = loc[w]
                 \/ pc'[w] = "poll" /\ loc'[w] = NoLocal
  <1>1. CASE Claim(w)
    <2>1. scope = NoScope => pc'[w] = "enter" /\ loc'[w] = loc[w]
      BY <1>1, Arrives DEF Claim
    <2>2. scope # NoScope => \/ pc'[w] = "takeover" /\ loc'[w] = loc[w]
                             \/ pc'[w] = "poll" /\ loc'[w] = NoLocal
      BY <1>1, Arrives DEF Claim
    <2> QED BY <1>1, <2>1, <2>2 DEF Claim, Taken, NoScope
  <1>2. CASE Takeover(w)
    <2> DEFINE l == [loc[w] EXCEPT !.seen = None]
    <2>1. \/ Goto(w, "enter", l) /\ scope.owner = loc[w].seen /\ ~scope.live
             /\ scope' = [owner |-> Me(w), live |-> TRUE, bound |-> loc[w].bound]
             /\ (~displaced' => loc[w].bound = scope.bound \/ ~Open(scope.bound))
          \/ Goto(w, "poll", NoLocal) /\ scope' = scope
      BY <1>2 DEF Takeover
    <2>2. l.bound = loc[w].bound /\ loc[w].seen # None
      BY <1>2 DEF TypedInv, CallTyped, Takeover, Local
    <2> HIDE DEF l
    <2>3. CASE Goto(w, "poll", NoLocal) /\ scope' = scope
      BY <2>3, Arrives
    <2>4. CASE ~(Goto(w, "poll", NoLocal) /\ scope' = scope)
      <3>1. pc'[w] = "enter" /\ loc'[w] = l
        BY <2>1, <2>4, Arrives
      <3> QED BY <1>2, <2>1, <2>2, <2>4, <3>1 DEF Taken
    <2> QED BY <2>3, <2>4
  <1> QED BY <1>1, <1>2

LEMMA ScopeSteps ==
    ASSUME TypedInv, [Next]_vars
    PROVE  \/ scope' = scope \/ Ended
           \/ \E w \in Worker : Taken(w) \/ Rebound(w) \/ Released(w)
  <1>1. scope \in Scopes
    BY DEF TypedInv, SharedTyped
  <1>2. ASSUME NEW w \in Worker, Claim(w) \/ Takeover(w) PROVE scope' = scope \/ Taken(w)
    BY <1>2, ClaimTakes
  <1>4. ASSUME NEW w \in Worker, SetBound(w) PROVE scope' = scope \/ Rebound(w)
    BY <1>1, <1>4 DEF SetBound, Rebound, Scopes
  <1>5. ASSUME NEW w \in Worker, Release(w) PROVE scope' = scope \/ Released(w)
    BY <1>1, <1>5 DEF Release, Released, Scopes
  <1>6. CASE Expire
    BY <1>1, <1>6 DEF Expire, Ended, Scopes
  <1>7. ASSUME NEW w \in Worker, Step(w) \/ Halt(w),
               ~(Claim(w) \/ Takeover(w) \/ SetBound(w) \/ Release(w))
        PROVE  scope' = scope
    BY <1>7 DEF Step, Halt, Poll, Clock, Enter, Own, Decide, Bind, Seal, Reject, Apply,
       ClaimPlan, CheckFence, Act, Free, FenceAgain, Checkpoint, Commit, Retry, Crash, Cancel
  <1>8. CASE (\E e \in Event : Lapse(e)) \/ Revise \/ UNCHANGED vars
    BY <1>8 DEF Lapse, Revise, vars
  <1> QED BY <1>2, <1>4, <1>5, <1>6, <1>7, <1>8 DEF Next, Environment, Halt

\* The rows of the journal: sealed, rejected, claimed, or finished by a delivery
\* that has the lease, or left as they are in all that matters here.
Same(e) == /\ plan'[e].status = plan[e].status /\ plan'[e].nonce = plan[e].nonce
           /\ plan'[e].acts = plan[e].acts
AllSame == \A e \in Event : Same(e)
OthersSame(e) == \A x \in Event \ {e} : Same(x)

Sealing(w) ==
    /\ Seal(w) /\ plan[EventOf[w]] = NoPlan /\ OthersSame(EventOf[w])
    /\ plan'[EventOf[w]] = Sealed(loc[w].acts)
Rejecting(w) ==
    /\ Reject(w) /\ OthersSame(EventOf[w]) /\ plan'[EventOf[w]] = Rejection
Taking(w) ==
    LET e == loc[w].job IN
    /\ ClaimPlan(w) /\ Open(e) /\ OthersSame(e)
    /\ plan'[e].status = "claimed" /\ plan'[e].nonce = Me(w)
    /\ plan'[e].acts = plan[e].acts
Committing(w) ==
    LET e == loc[w].job IN
    /\ Commit(w) /\ OthersSame(e)
    /\ plan'[e].status = "committed" /\ plan'[e].nonce = None

LEMMA PlanSteps ==
    ASSUME TypedInv, [Next]_vars
    PROVE  AllSame \/ \E w \in Worker : Sealing(w) \/ Rejecting(w) \/ Taking(w)
                                        \/ Committing(w)
  <1>1. plan \in [Event -> Plans] /\ \A w \in Worker : EventOf[w] \in Event
    BY ConstantsAssumption DEF TypedInv, SharedTyped
  <1>2. ASSUME NEW w \in Worker, pc[w] \in Applying PROVE loc[w].job \in Event
    BY <1>2 DEF TypedInv, CallTyped, Local, Field
  <1>3. plan' = plan => AllSame
    BY DEF AllSame, Same
  <1>4. ASSUME NEW w \in Worker, Seal(w) PROVE AllSame \/ Sealing(w)
    BY <1>1, <1>3, <1>4 DEF Seal, Sealing, OthersSame, Same
  <1>5. ASSUME NEW w \in Worker, Reject(w) PROVE AllSame \/ Rejecting(w)
    BY <1>1, <1>3, <1>5 DEF Reject, Rejecting, OthersSame, Same
  <1>6. ASSUME NEW w \in Worker, ClaimPlan(w) PROVE AllSame \/ Taking(w)
    <2>1. loc[w].job \in Event
      BY <1>2, <1>6 DEF ClaimPlan, Applying
    <2>2. CASE plan' = plan
      BY <1>3, <2>2
    <2>3. CASE plan' # plan
      <3> DEFINE e == loc[w].job
                 r == [plan[e] EXCEPT !.status = "claimed", !.nonce = Me(w),
                                      !.live = TRUE]
                 q == [plan EXCEPT ![e].status = "claimed",
                                   ![e].nonce = Me(w), ![e].live = TRUE]
      <3>1. plan' = q /\ Open(e)
        BY <1>6, <2>3 DEF ClaimPlan
      <3>2. q[e].status = "claimed" /\ q[e].nonce = Me(w) /\ q[e].acts = plan[e].acts
        BY <1>1, <2>1 DEF Plans
      <3>3. \A x \in Event \ {e} : q[x] = plan[x]
        BY <1>1, <2>1
      <3> HIDE DEF q
      <3> QED BY <1>6, <3>1, <3>2, <3>3 DEF Taking, OthersSame, Same
    <2> QED BY <2>2, <2>3
  <1>7. ASSUME NEW w \in Worker, Checkpoint(w) PROVE AllSame
    <2>1. loc[w].job \in Event
      BY <1>2, <1>7 DEF Checkpoint, Applying, Claiming
    <2> QED BY <1>1, <1>3, <1>7, <2>1 DEF Checkpoint, AllSame, Same, Plans
  <1>8. ASSUME NEW w \in Worker, Commit(w) PROVE AllSame \/ Committing(w)
    <2>1. loc[w].job \in Event
      BY <1>2, <1>8 DEF Commit, Applying, Claiming
    <2>2. CASE plan' = plan
      BY <1>3, <2>2
    <2>3. CASE plan' # plan
      <3> DEFINE e == loc[w].job
                 q == [plan EXCEPT ![e].status = "committed",
                                   ![e].nonce = None, ![e].live = FALSE]
      <3>1. plan' = q
        BY <1>8, <2>3 DEF Commit
      <3>2. q[e].status = "committed" /\ q[e].nonce = None
        BY <1>1, <2>1 DEF Plans
      <3>3. \A x \in Event \ {e} : q[x] = plan[x]
        BY <1>1, <2>1
      <3> HIDE DEF q
      <3> QED BY <1>8, <3>1, <3>2, <3>3 DEF Committing, OthersSame, Same
    <2> QED BY <2>2, <2>3
  <1>9. ASSUME NEW w \in Worker, Step(w) \/ Halt(w),
               ~(Seal(w) \/ Reject(w) \/ ClaimPlan(w) \/ Checkpoint(w) \/ Commit(w))
        PROVE  plan' = plan
    BY <1>9 DEF Step, Halt, Poll, Clock, Claim, Takeover, Enter, Own, Decide, Bind, SetBound,
       Apply, CheckFence, Act, Free, FenceAgain, Release, Retry, Crash, Cancel
  <1>10. ASSUME NEW e \in Event, Lapse(e) PROVE AllSame
    BY <1>1, <1>10 DEF Lapse, AllSame, Same, Plans
  <1>11. CASE Expire \/ Revise \/ UNCHANGED vars
    BY <1>3, <1>11 DEF Expire, Revise, vars
  <1> QED BY <1>3, <1>4, <1>5, <1>6, <1>7, <1>8, <1>9, <1>10, <1>11
          DEF Next, Environment, Halt

LEMMA StandsStill ==
    ASSUME TypedInv, [Next]_vars, NEW v \in Worker, ~(Step(v) \/ Halt(v))
    PROVE  pc'[v] = pc[v] /\ loc'[v] = loc[v] /\ turn'[v] = turn[v] /\ Me(v)' = Me(v)
  <1>1. CASE \E w \in Worker : Step(w) \/ Halt(w)
    BY <1>1, StepMoves
  <1>2. CASE (\E e \in Event : Lapse(e)) \/ Expire \/ Revise \/ UNCHANGED vars
    BY <1>2 DEF Lapse, Expire, Revise, vars, Me
  <1> QED BY <1>1, <1>2 DEF Next, Environment, Halt

\* So it writes nothing that another delivery goes by.
LEMMA WritesNothing ==
    ASSUME TypedInv, [Next]_vars, NEW v \in Worker, ~(Step(v) \/ Halt(v))
    PROVE  ~(SetBound(v) \/ Release(v) \/ Seal(v) \/ Reject(v) \/ ClaimPlan(v) \/ Commit(v))
  <1>1. pc'[v] = pc[v]
    BY StandsStill
  <1>2. CASE Release(v)
    BY <1>1, <1>2 DEF Release, TypedInv
  <1>3. CASE SetBound(v) \/ Seal(v) \/ Reject(v) \/ ClaimPlan(v) \/ Commit(v)
    <2>1. \/ Fail(v) /\ pc[v] # "failed"
          \/ \E p \in {"seal", "apply", "release", "fence", "own"} : \E l :
               Goto(v, p, l) /\ pc[v] # p
      BY <1>3 DEF SetBound, Seal, Reject, ClaimPlan, Commit
    <2> QED BY <1>1, <2>1, Arrives, Fails
  <1> QED BY <1>2, <1>3

\* The steps of a delivery that has the lease, but for the last.
Works(v) ==
    \/ Enter(v) \/ Own(v) \/ Decide(v) \/ Bind(v) \/ SetBound(v) \/ Seal(v)
    \/ Reject(v) \/ Apply(v) \/ ClaimPlan(v) \/ CheckFence(v) \/ Act(v) \/ Free(v)
    \/ FenceAgain(v) \/ Checkpoint(v) \/ Commit(v)

LEMMA WorksOn ==
    ASSUME NEW v \in Worker, Works(v)
    PROVE  /\ pc[v] \in Inside
           /\ Fail(v) \/ \E p \in Inside \ {"enter"} : \E l : Goto(v, p, l)
  <1> DEFINE Goal == Fail(v) \/ \E p \in Inside \ {"enter"} : \E l : Goto(v, p, l)
  <1>1. pc[v] \in Inside
    BY DEF Works, Enter, Own, Decide, Bind, SetBound, Seal, Reject, Apply, ClaimPlan,
       CheckFence, Act, Free, FenceAgain, Checkpoint, Commit, Inside, Deciding, Applying,
       Claiming
  <1>2. ASSUME NEW p \in (Deciding \cup Applying) \cup {"release"}, NEW l, Goto(v, p, l)
        PROVE  Goal
    BY <1>2 DEF Inside, Deciding, Applying, Claiming
  <1> SUFFICES Goal
    BY <1>1
  <1>3. Fail(v) => Goal
    OBVIOUS
  <1> HIDE DEF Goal
  <1>4. CASE Enter(v) \/ Own(v)
    BY <1>2, <1>3, <1>4 DEF Enter, Own, Deciding, Applying
  <1>5. CASE Decide(v)
    <2>1. Fail(v) \/ \E p \in {"bind", "reject"} : \E l : Goto(v, p, l)
      BY <1>5 DEF Decide
    <2> QED BY <1>2, <1>3, <2>1 DEF Deciding
  <1>6. CASE Bind(v) \/ SetBound(v) \/ Seal(v) \/ Reject(v)
    BY <1>2, <1>3, <1>6 DEF Bind, SetBound, Seal, Reject, Deciding, Applying
  <1>7. CASE Apply(v) \/ ClaimPlan(v) \/ CheckFence(v)
    BY <1>2, <1>3, <1>7 DEF Apply, ClaimPlan, CheckFence, Applying, Claiming
  <1>8. CASE Act(v)
    BY <1>2, <1>3, <1>8, ActMoves DEF Applying, Claiming
  <1>9. CASE Free(v) \/ FenceAgain(v) \/ Checkpoint(v) \/ Commit(v)
    BY <1>2, <1>3, <1>9 DEF Free, FenceAgain, Checkpoint, Commit, Deciding, Applying, Claiming
  <1> QED BY <1>4, <1>5, <1>6, <1>7, <1>8, <1>9 DEF Works

\* Where a delivery can have come from.
LEMMA Whereabouts ==
    ASSUME TypedInv, [Next]_vars, NEW v \in Worker
    PROVE  /\ pc'[v] \in Outside => Retry(v) \/ (pc[v] \in Outside /\ Me(v)' = Me(v))
           /\ pc'[v] \in Inside => (Taken(v) \/ pc[v] \in Inside) /\ Me(v)' = Me(v)
  <1> DEFINE Goal == /\ pc'[v] \in Outside => Retry(v) \/ (pc[v] \in Outside /\ Me(v)' = Me(v))
                     /\ pc'[v] \in Inside => (Taken(v) \/ pc[v] \in Inside) /\ Me(v)' = Me(v)
  <1>1. ASSUME NEW p, NEW l, Goto(v, p, l), pc[v] \in Inside, p \notin Outside
        PROVE  Goal
    BY <1>1, Arrives
  <1>2. ASSUME Fail(v) PROVE Goal
    BY <1>2, Fails DEF Outside, Inside, Deciding, Applying, Claiming
  <1> SUFFICES Goal
    OBVIOUS
  <1>3. CASE ~(Step(v) \/ Halt(v))
    BY <1>3, StandsStill
  <1>4. CASE Poll(v) \/ Clock(v)
    BY <1>4, Arrives DEF Poll, Clock, Outside, Inside, Deciding, Applying, Claiming
  <1>5. CASE Claim(v) \/ Takeover(v)
    <2>1. Me(v)' = Me(v)
      BY <1>5 DEF Claim, Takeover, Goto, Me
    <2>2. pc[v] \in Outside
      BY <1>5 DEF Claim, Takeover, Outside
    <2>3. "poll" \notin Inside /\ "takeover" \notin Inside
      BY DEF Inside, Deciding, Applying, Claiming
    <2> QED BY <1>5, <2>1, <2>2, <2>3, ClaimTakes
  <1>6. CASE Works(v)
    <2>1. pc[v] \in Inside /\ (Fail(v) \/ \E p \in Inside \ {"enter"} : \E l : Goto(v, p, l))
      BY <1>6, WorksOn
    <2>2. \A p \in Inside : p \notin Outside
      BY DEF Outside, Inside, Deciding, Applying, Claiming
    <2> HIDE DEF Goal
    <2> QED BY <1>1, <1>2, <2>1, <2>2
  <1>7. CASE Release(v) \/ Crash(v)
    BY <1>7 DEF Release, Crash, TypedInv, Outside, Inside, Deciding, Applying, Claiming
  <1>8. CASE Retry(v)
    BY <1>8 DEF Retry, TypedInv, Outside, Inside, Deciding, Applying, Claiming
  <1>9. CASE Cancel(v)
    BY <1>2, <1>9 DEF Cancel
  <1> QED BY <1>3, <1>4, <1>5, <1>6, <1>7, <1>8, <1>9 DEF Step, Halt, Works

----------------------------------------------------------------------------
(* Identities.                                                             *)

\* What a delivery remembers of claims it has read in the scope or the journal.
LEMMA SeenSteps ==
    ASSUME TypedInv, [Next]_vars, NEW v \in Worker
    PROVE  loc'[v].seen \in {None, scope.owner, loc[v].seen}
                              \cup {plan[e].nonce : e \in Event}
  <1> DEFINE L == loc[v]
             Known == {None, scope.owner, L.seen} \cup {plan[e].nonce : e \in Event}
  <1>1. L \in Local /\ CallTyped(pc[v], L) /\ EventOf[v] \in Event
    BY ConstantsAssumption DEF TypedInv
  <1>2. ASSUME NEW p, NEW l, Goto(v, p, l), l.seen \in Known PROVE loc'[v].seen \in Known
    BY <1>2, Arrives
  <1>3. ASSUME NEW p, Goto(v, p, L) PROVE loc'[v].seen \in Known
    BY <1>2, <1>3
  <1>4. NoLocal.seen \in Known
    BY DEF NoLocal
  <1>5. ASSUME Fail(v) PROVE loc'[v].seen \in Known
    BY <1>2, <1>4, <1>5 DEF Fail
  <1> SUFFICES loc'[v].seen \in Known
    OBVIOUS
  <1>6. CASE ~(Step(v) \/ Halt(v))
    BY <1>6, StandsStill
  <1>7. CASE Poll(v)
    <2> DEFINE l == [NoLocal EXCEPT
                       !.bound = IF scope.bound = None THEN EventOf[v] ELSE scope.bound]
    <2>1. l.seen \in Known
      BY DEF NoLocal
    <2> HIDE DEF l, Known
    <2> QED BY <1>2, <1>7, <2>1 DEF Poll, l
  <1>18. CASE Clock(v)
    <2> DEFINE l == [L EXCEPT !.seen = IF scope.live THEN None ELSE scope.owner]
    <2>1. l.seen \in Known
      BY <1>1 DEF Local
    <2> HIDE DEF l, Known
    <2> QED BY <1>2, <1>18, <2>1 DEF Clock, l
  <1>8. CASE Claim(v) \/ Takeover(v)
    <2>1. [L EXCEPT !.seen = None].seen \in Known
      BY <1>1 DEF Local
    <2> HIDE DEF Known
    <2> QED BY <1>2, <1>3, <1>4, <1>8, <2>1 DEF Claim, Takeover
  <1>9. CASE Enter(v)
    <2>1. L.bound \in Event
      BY <1>1, <1>9 DEF Enter, CallTyped, Inside, Local, Field
    <2>2. [L EXCEPT !.job = L.bound, !.seen = plan[L.bound].nonce].seen \in Known
      BY <1>1, <2>1 DEF Local
    <2> HIDE DEF Known
    <2> QED BY <1>2, <1>3, <1>5, <1>9, <2>2 DEF Enter
  <1>10. CASE Own(v)
    <2> DEFINE k == [L EXCEPT !.job = None, !.n = 0]
               l == [k EXCEPT !.job = EventOf[v], !.seen = plan[EventOf[v]].nonce]
    <2>1. k \in Local /\ k.seen = L.seen
      BY <1>1 DEF Local, Field
    <2>2. k.seen \in Known
      BY <2>1
    <2>3. l.seen \in Known
      <3> HIDE DEF k
      <3> QED BY <1>1, <2>1 DEF Local
    <2> HIDE DEF Known
    <2>4. \E p : Goto(v, p, k) \/ Goto(v, p, l)
      BY <1>10 DEF Own
    <2> HIDE DEF k, l
    <2> QED BY <1>2, <2>2, <2>3, <2>4
  <1> HIDE DEF Known
  <1>12. CASE Decide(v)
    <2>1. ASSUME NEW acts PROVE [L EXCEPT !.acts = acts].seen = L.seen
      BY <1>1 DEF Local
    <2>2. L.seen \in Known
      BY DEF Known
    <2>3. \/ Fail(v) \/ Goto(v, "reject", L)
          \/ \E acts : Goto(v, "bind", [L EXCEPT !.acts = acts])
      BY <1>12 DEF Decide
    <2> QED BY <1>2, <1>3, <1>5, <2>1, <2>2, <2>3
  <1>13. CASE Bind(v) \/ SetBound(v) \/ Apply(v) \/ CheckFence(v) \/ Free(v)
              \/ FenceAgain(v) \/ Commit(v)
    BY <1>3, <1>5, <1>13 DEF Bind, SetBound, Apply, CheckFence, Free, FenceAgain, Commit
  <1>19. CASE Act(v) \/ Cancel(v)
    BY <1>3, <1>5, <1>19, ActMoves DEF Cancel
  <1>14. CASE Seal(v)
    <2> DEFINE nonce == plan'[EventOf[v]].nonce
               l == [L EXCEPT !.acts = NoActions, !.job = EventOf[v], !.seen = nonce]
    <2>1. l.seen = nonce
      BY <1>1 DEF Local
    <2>2. nonce \in {None, plan[EventOf[v]].nonce}
      BY <1>1, <1>14 DEF Seal, Sealed, NoPlan, TypedInv, SharedTyped
    <2>3. Goto(v, "apply", l)
      BY <1>14 DEF Seal
    <2> HIDE DEF l, nonce
    <2> QED BY <1>1, <1>2, <2>1, <2>2, <2>3 DEF Known
  <1>15. CASE Reject(v) \/ ClaimPlan(v) \/ Checkpoint(v)
    <2>1. /\ [L EXCEPT !.job = EventOf[v]].seen \in Known
          /\ [L EXCEPT !.seen = None, !.n = plan[L.job].done].seen \in Known
          /\ [L EXCEPT !.n = L.n + 1].seen \in Known
      BY <1>1 DEF Local, Known
    <2> QED BY <1>2, <1>5, <1>15, <2>1 DEF Reject, ClaimPlan, Checkpoint
  <1>16. CASE Release(v) \/ Crash(v)
    BY <1>4, <1>16 DEF Release, Crash, TypedInv
  <1>17. CASE Retry(v)
    BY <1>17 DEF Retry, Known
  <1> QED BY <1>6, <1>7, <1>8, <1>9, <1>10, <1>12, <1>13, <1>14, <1>15, <1>16, <1>17,
             <1>18, <1>19
          DEF Step, Halt

\* A new attempt has an identity that nothing has, until it claims.
LEMMA StepFresh == TypedInv /\ FreshInv /\ [Next]_vars => FreshInv'
  <1> SUFFICES ASSUME TypedInv, FreshInv, [Next]_vars, NEW v \in Worker,
                      pc'[v] \in Outside
               PROVE  /\ scope'.owner # Me(v)'
                      /\ \A e \in Event : plan'[e].nonce # Me(v)'
                      /\ \A u \in Worker : loc'[u].seen # Me(v)'
    BY DEF FreshInv
  <1>1. None \notin Identity /\ \A u \in Worker : Me(u) \in Identity
    BY ConstantsAssumption DEF TypedInv, Me, Identity
  <1>2. \A u \in Worker : u # v => Me(u) # Me(v)
    BY DEF Me
  <1>3. CASE Retry(v)
    <2> DEFINE t == CHOOSE t \in Turn \ {0} : Fresh(v, t)
    <2>1. t \in Turn /\ Fresh(v, t)
      BY <1>3 DEF Retry
    <2>2. turn' = [turn EXCEPT ![v] = t]
      BY <1>3 DEF Retry
    <2> HIDE DEF t
    <2>3. Me(v)' = <<v, t>> /\ <<v, t>> # None
      BY <2>1, <2>2, ConstantsAssumption DEF Me, TypedInv
    <2>4. \A e \in Event : plan[e].nonce # <<v, t>>
      BY <2>1, <2>3 DEF Fresh, TypedInv, SharedTyped
    <2> QED BY <1>3, <2>1, <2>3, <2>4 DEF Retry, Fresh
  <1>4. CASE pc[v] \in Outside /\ Me(v)' = Me(v)
    <2>1. /\ scope.owner # Me(v) /\ \A e \in Event : plan[e].nonce # Me(v)
          /\ \A u \in Worker : loc[u].seen # Me(v)
      BY <1>4 DEF FreshInv
    <2>2. scope'.owner # Me(v)
      <3>1. ASSUME NEW w \in Worker, Taken(w) PROVE scope'.owner # Me(v)
        <4>1. w # v
          BY <3>1 DEF Taken, Outside
        <4> QED BY <1>2, <3>1, <4>1 DEF Taken
      <3> QED BY <2>1, <3>1, ScopeSteps DEF Ended, Rebound, Released
    <2>3. ASSUME NEW e \in Event PROVE plan'[e].nonce # Me(v)
      <3>1. Me(v) # None
        BY <1>1
      <3>2. ASSUME NEW w \in Worker, Sealing(w) \/ Rejecting(w) \/ Committing(w)
            PROVE  plan'[e].nonce # Me(v)
        BY <2>1, <3>1, <3>2 DEF Sealing, Rejecting, Committing, OthersSame, Same,
           Sealed, Rejection, NoPlan
      <3>3. ASSUME NEW w \in Worker, Taking(w) PROVE plan'[e].nonce # Me(v)
        <4>1. w # v
          BY <1>4, <3>3 DEF Taking, ClaimPlan, Outside
        <4> QED BY <1>2, <2>1, <3>3, <4>1 DEF Taking, OthersSame, Same
      <3> QED BY <2>1, <3>2, <3>3, PlanSteps DEF AllSame, Same
    <2>4. ASSUME NEW u \in Worker PROVE loc'[u].seen # Me(v)
      BY <1>1, <2>1, SeenSteps
    <2> QED BY <1>4, <2>2, <2>3, <2>4
  <1> QED BY <1>3, <1>4, Whereabouts

----------------------------------------------------------------------------
(* The lease.                                                              *)

\* The holder of the lease is one delivery.
LEMMA OneInside ==
    ASSUME LeaseInv, NEW v \in Worker, NEW w \in Worker,
           pc[v] \in Inside, pc[w] \in Inside
    PROVE  v = w
  BY DEF LeaseInv, Guard, Me

\* While a delivery has the lease, no other takes it, binds it or gives it up.
LEMMA HeldScope ==
    ASSUME TypedInv, LeaseInv, [Next]_vars, NEW v \in Worker, pc[v] \in Inside
    PROVE  scope' = scope \/ Rebound(v) \/ Released(v)
  <1>1. Guard(v)
    BY DEF LeaseInv
  <1>2. ~Ended
    BY <1>1 DEF Guard, Ended, Expire, Running, Me, Inside, Deciding, Applying, Claiming
  <1>3. ASSUME NEW w \in Worker, Taken(w) PROVE FALSE
    BY <1>1, <1>3 DEF Guard, Taken
  <1>4. ASSUME NEW w \in Worker, Rebound(w) \/ Released(w) PROVE w = v
    <2>1. pc[w] \in Inside
      BY <1>4 DEF Rebound, Released, SetBound, Release, Inside, Deciding
    <2> QED BY <2>1, OneInside
  <1> QED BY <1>2, <1>3, <1>4, ScopeSteps

LEMMA StepLease == TypedInv /\ FreshInv /\ LeaseInv /\ [Next]_vars => LeaseInv'
  <1> SUFFICES ASSUME TypedInv, FreshInv, LeaseInv, [Next]_vars, NEW v \in Worker
               PROVE  /\ pc'[v] \in Inside => Guard(v)'
                      /\ pc'[v] = "enter" => scope'.bound = loc'[v].bound
    BY DEF LeaseInv
  <1>1. scope \in Scopes /\ None \notin Identity /\ EventOf[v] \in Event
    BY ConstantsAssumption DEF TypedInv, SharedTyped, Identity
  <1>2. pc'[v] \in Inside => Guard(v)'
    <2> SUFFICES ASSUME pc'[v] \in Inside PROVE Guard(v)'
      OBVIOUS
    <2>1. Me(v)' = Me(v) /\ (Taken(v) \/ pc[v] \in Inside)
      BY Whereabouts
    <2>2. CASE Taken(v)
      BY <2>1, <2>2 DEF Taken, Guard
    <2>3. CASE pc[v] \in Inside
      <3>1. Guard(v)
        BY <2>3 DEF LeaseInv
      <3>2. ~Released(v)
        BY DEF Released, Release, TypedInv, Inside, Deciding, Applying, Claiming
      <3> QED BY <2>1, <2>3, <3>1, <3>2, HeldScope DEF Rebound, Guard
    <2> QED BY <2>1, <2>2, <2>3
  <1>4. pc'[v] = "enter" => scope'.bound = loc'[v].bound
    <2> SUFFICES ASSUME pc'[v] = "enter" PROVE scope'.bound = loc'[v].bound
      OBVIOUS
    <2>1. CASE Taken(v)
      BY <2>1 DEF Taken
    <2>2. CASE pc[v] = "enter" /\ ~(Step(v) \/ Halt(v))
      <3>1. scope' = scope
        BY <2>2, HeldScope, WritesNothing DEF Rebound, Released, Inside
      <3> QED BY <2>2, <3>1, StandsStill DEF LeaseInv
    <2>3. Taken(v) \/ (pc[v] = "enter" /\ ~(Step(v) \/ Halt(v)))
      <3>1. CASE ~(Step(v) \/ Halt(v))
        BY <3>1, StandsStill
      <3>2. CASE Claim(v) \/ Takeover(v)
        BY <3>2, ClaimTakes
      <3>3. CASE Retry(v) \/ Crash(v) \/ Release(v)
        BY <3>3 DEF Retry, Crash, Release, TypedInv
      <3>4. CASE Poll(v) \/ Clock(v) \/ Cancel(v)
        BY <3>4, Arrives, Fails DEF Poll, Clock, Cancel
      <3>5. CASE Works(v)
        BY <3>5, WorksOn, Arrives, Fails
      <3> QED BY <3>1, <3>2, <3>3, <3>4, <3>5 DEF Step, Halt, Works
    <2> QED BY <2>1, <2>2, <2>3
  <1> QED BY <1>2, <1>4

----------------------------------------------------------------------------
(* The plans.                                                              *)

\* Only the delivery that has the lease writes to the journal.
LEMMA HeldPlan ==
    ASSUME TypedInv, LeaseInv, [Next]_vars, NEW v \in Worker, pc[v] \in Inside
    PROVE  AllSame \/ Sealing(v) \/ Rejecting(v) \/ Taking(v) \/ Committing(v)
  <1>1. ASSUME NEW w \in Worker,
               Sealing(w) \/ Rejecting(w) \/ Taking(w) \/ Committing(w)
        PROVE  w = v
    <2>1. pc[w] \in Inside
      BY <1>1, WorksOn DEF Sealing, Rejecting, Taking, Committing, Works
    <2> QED BY <2>1, OneInside
  <1> QED BY <1>1, PlanSteps

\* The only open plan is that of the event to which the scope is bound.
LEMMA StepOpen ==
    ASSUME TypedInv, LeaseInv, BoundInv, [Next]_vars, NEW e \in Event, Open(e)',
           ~displaced'
    PROVE  scope'.bound = e
  <1> ~displaced
    BY DisplacedStays
  <1>1. CASE ~Open(e)
    <2>1. ~Same(e)
      BY <1>1 DEF Same, Open
    <2>2. PICK w \in Worker : Sealing(w) \/ Rejecting(w) \/ Taking(w) \/ Committing(w)
      BY <2>1, PlanSteps DEF AllSame
    <2>3. Sealing(w) /\ e = EventOf[w]
      BY <1>1, <2>1, <2>2 DEF Sealing, Rejecting, Taking, Committing, OthersSame,
         Open, Rejection, NoPlan
    <2> QED BY <2>3 DEF Sealing, Seal, BoundInv, Bound
  <1>2. CASE Open(e)
    <2>1. scope.bound = e /\ e # None
      BY <1>2, ConstantsAssumption DEF BoundInv
    <2>2. ASSUME NEW w \in Worker, Taken(w) PROVE scope'.bound = e
      <3>1. loc[w].bound = scope.bound
        BY <1>2, <2>1, <2>2 DEF Taken, NoScope
      <3> QED BY <2>1, <2>2, <3>1 DEF Taken
    <2>3. ASSUME NEW w \in Worker, Rebound(w) \/ Released(w) PROVE FALSE
      <3>1. pc[w] \in Deciding \cup {"release"}
        BY <2>3 DEF Rebound, Released, SetBound, Release, Deciding
      <3> QED BY <1>2, <3>1 DEF BoundInv, Bound
    <2> QED BY <2>1, <2>2, <2>3, ScopeSteps DEF Ended
  <1> QED BY <1>1, <1>2

\* A delivery that goes on works on the plan to which the scope is bound.
LEMMA StepBound ==
    ASSUME TypedInv, LeaseInv, BoundInv, [Next]_vars, NEW v \in Worker, ~displaced'
    PROVE  Bound(v, pc[v], loc[v])'
  <1> DEFINE L == loc[v]
             NoneOpen == \A e \in Event : ~Open(e)'
             Next2(p, l) ==
               /\ p \in Deciding \cup {"release"} => NoneOpen
               /\ p = "seal" => scope'.bound = EventOf[v]
               /\ p \in Applying => scope'.bound = l.job
               /\ p \in Claiming => /\ plan'[l.job].status = "claimed"
                                    /\ plan'[l.job].nonce = Me(v)'
  <1>1. /\ L \in Local /\ CallTyped(pc[v], L) /\ EventOf[v] \in Event
        /\ Bound(v, pc[v], L) /\ \A e \in Event : Open(e) => scope.bound = e
    BY ConstantsAssumption, DisplacedStays DEF TypedInv, BoundInv
  <1>2. Next2(pc'[v], loc'[v]) => Bound(v, pc[v], loc[v])'
    BY DEF Bound, Claims
  <1>3. ASSUME NEW p, NEW l, Goto(v, p, l), Next2(p, l) PROVE Next2(pc'[v], loc'[v])
    BY <1>3, Arrives
  <1>4. ASSUME pc'[v] \notin Inside PROVE Next2(pc'[v], loc'[v])
    BY <1>4 DEF Inside, Deciding, Applying, Claiming
  <1>5. Fail(v) => Next2(pc'[v], loc'[v])
    BY <1>4, Fails DEF Inside, Deciding, Applying, Claiming
  <1> SUFFICES Next2(pc'[v], loc'[v])
    BY <1>2
  <1>6. ASSUME AllSame, \A e \in Event : ~Open(e) PROVE NoneOpen
    BY <1>6 DEF AllSame, Same, Open
  <1>7. CASE ~(Step(v) \/ Halt(v))
    <2>1. CASE pc[v] \in Inside
      <3>1. scope' = scope
        BY <1>7, <2>1, HeldScope, WritesNothing DEF Rebound, Released
      <3>2. AllSame
        BY <1>7, <2>1, HeldPlan, WritesNothing DEF Sealing, Rejecting, Taking, Committing
      <3>3. pc[v] \in Claiming => L.job \in Event
        BY <1>1 DEF CallTyped, Applying, Local, Field
      <3> QED BY <1>1, <1>6, <1>7, <3>1, <3>2, <3>3, StandsStill
              DEF Bound, Claims, AllSame, Same
    <2>2. CASE pc[v] \notin Inside
      BY <1>4, <1>7, <2>2, StandsStill
    <2> QED BY <2>1, <2>2
  <1>8. CASE Poll(v) \/ Clock(v) \/ Claim(v) \/ Takeover(v)
    <2>1. pc'[v] \in {"clock", "claim", "takeover", "poll", "enter"}
      BY <1>8, Arrives, ClaimTakes DEF Poll, Clock, Taken
    <2> QED BY <2>1 DEF Deciding, Applying, Claiming
  <1>9. CASE Release(v) \/ Crash(v) \/ Retry(v)
    <2>1. pc'[v] \in {"done", "failed", "poll"}
      BY <1>9 DEF Release, Crash, Retry, TypedInv
    <2> QED BY <1>4, <2>1 DEF Inside, Deciding, Applying, Claiming
  <1>18. CASE Cancel(v)
    BY <1>5, <1>18 DEF Cancel
  <1>10. CASE /\ \/ Enter(v) \/ Own(v) \/ Decide(v) \/ Bind(v) \/ Apply(v)
                 \/ CheckFence(v) \/ Act(v) \/ Free(v) \/ FenceAgain(v)
              /\ UNCHANGED <<scope, plan>>
    <2>1. AllSame
      BY <1>10 DEF AllSame, Same
    <2>2. (\A e \in Event : ~Open(e)) => NoneOpen
      BY <1>6, <2>1
    <2>3. ASSUME NEW p, NEW l, Goto(v, p, l), p \in Claiming \cup {"claim_plan"},
                 pc[v] \in Applying, p \in Claiming => pc[v] \in Claiming, l = L
          PROVE  Next2(pc'[v], loc'[v])
      <3>1. turn' = turn /\ Me(v)' = Me(v)
        BY <2>3, Arrives
      <3>2. Next2(p, l)
        BY <1>1, <1>10, <2>3, <3>1 DEF Bound, Claims, Applying, Claiming, Deciding
      <3> QED BY <1>3, <2>3, <3>2
    <2>4. ASSUME NEW p \in (Deciding \cup {"release"}) \ {"seal"}, NEW l, Goto(v, p, l), NoneOpen
          PROVE  Next2(pc'[v], loc'[v])
      <3>1. Next2(p, l)
        BY <2>4 DEF Deciding, Applying, Claiming
      <3> QED BY <1>3, <2>4, <3>1
    <2> HIDE DEF Next2
    <2>5. CASE Enter(v)
      <3> DEFINE l == [L EXCEPT !.job = L.bound, !.seen = plan[L.bound].nonce]
      <3>1. scope.bound = L.bound
        BY <2>5 DEF Enter, LeaseInv
      <3>2. l.job = L.bound
        BY <1>1 DEF Local
      <3>3. Next2("apply", l)
        BY <1>10, <3>1, <3>2 DEF Next2, Deciding, Applying, Claiming
      <3>4. CASE Goto(v, "apply", l)
        BY <1>3, <3>3, <3>4
      <3>5. CASE ~Open(L.bound) /\ Goto(v, "own", L)
        BY <1>1, <2>2, <2>4, <3>1, <3>5 DEF Deciding
      <3> QED BY <1>5, <2>5, <3>4, <3>5 DEF Enter
    <2>6. CASE Own(v)
      <3>1. \A e \in Event : ~Open(e)
        BY <1>1, <2>6 DEF Bound, Own, Deciding
      <3>2. \E p \in {"release", "decide"} : \E l : Goto(v, p, l)
        BY <1>1, <2>6, <3>1 DEF Own
      <3> QED BY <2>2, <2>4, <3>1, <3>2 DEF Deciding
    <2>7. CASE Decide(v) \/ Bind(v)
      <3>1. \A e \in Event : ~Open(e)
        BY <1>1, <2>7 DEF Bound, Decide, Bind, Deciding
      <3>2. Fail(v) \/ \E p \in {"bind", "reject", "set_bound"} : \E l : Goto(v, p, l)
        BY <2>7 DEF Decide, Bind
      <3> QED BY <1>5, <2>2, <2>4, <3>1, <3>2 DEF Deciding
    <2>8. CASE Apply(v) \/ CheckFence(v) \/ FenceAgain(v)
      <3>1. \/ Fail(v) \/ (pc[v] = "apply" /\ Goto(v, "claim_plan", L))
            \/ pc[v] \in Claiming /\ \E p \in Claiming : Goto(v, p, L)
        BY <2>8 DEF Apply, CheckFence, FenceAgain, Claiming
      <3> QED BY <1>5, <2>3, <3>1 DEF Applying, Claiming
    <2>9. CASE Act(v) \/ Free(v)
      <3>1. \/ Fail(v)
            \/ pc[v] \in Claiming /\ \E p \in {"fence_again", "free"} : Goto(v, p, L)
        BY <2>9, ActMoves DEF Free, Claiming
      <3> QED BY <1>5, <2>3, <3>1 DEF Applying, Claiming
    <2> QED BY <1>10, <2>5, <2>6, <2>7, <2>8, <2>9
  <1>11. CASE SetBound(v)
    <2>1. \A e \in Event : ~Open(e)
      BY <1>1, <1>11 DEF Bound, SetBound, Deciding
    <2>2. NoneOpen
      BY <1>11, <2>1 DEF SetBound, Open
    <2>3. scope'.bound = EventOf[v] => Next2("seal", L)
      BY <2>2 DEF Deciding, Applying, Claiming
    <2> HIDE DEF Next2
    <2> QED BY <1>3, <1>5, <1>11, <2>3 DEF SetBound
  <1>12. CASE Seal(v)
    <2> DEFINE nonce == plan'[EventOf[v]].nonce
               l == [L EXCEPT !.acts = NoActions, !.job = EventOf[v], !.seen = nonce]
    <2>1. l.job = EventOf[v] /\ scope' = scope /\ scope.bound = EventOf[v]
      BY <1>1, <1>12 DEF Local, Seal, Bound
    <2>2. Goto(v, "apply", l)
      BY <1>12 DEF Seal
    <2> HIDE DEF l
    <2>3. Next2("apply", l)
      BY <2>1 DEF Deciding, Applying, Claiming
    <2> QED BY <1>3, <2>2, <2>3
  <1>13. CASE Reject(v)
    <2>1. \A e \in Event : ~Open(e)
      BY <1>1, <1>13 DEF Bound, Reject, Deciding
    <2>2. NoneOpen
      <3>1. AllSame \/ Rejecting(v)
        BY <1>13, HeldPlan, WorksOn DEF Works, Sealing, Taking, Committing, Seal,
           ClaimPlan, Commit, Reject
      <3>2. CASE Rejecting(v)
        BY <2>1, <3>2 DEF Rejecting, OthersSame, Same, Open, Rejection, NoPlan
      <3> QED BY <1>6, <2>1, <3>1, <3>2
    <2>3. Fail(v) \/ \E l : Goto(v, "release", l)
      BY <1>13 DEF Reject
    <2>4. ASSUME NEW l PROVE Next2("release", l)
      BY <2>2 DEF Applying, Claiming
    <2> HIDE DEF Next2
    <2> QED BY <1>3, <1>5, <2>3, <2>4
  <1>14. ASSUME pc[v] \in Applying
         PROVE  L.job \in Event /\ scope.bound = L.job /\ L \in Local
    BY <1>1, <1>14 DEF CallTyped, Local, Field, Bound
  <1>15. CASE ClaimPlan(v)
    <2> DEFINE l == [L EXCEPT !.seen = None, !.n = plan[L.job].done]
    <2>1. L.job \in Event /\ scope.bound = L.job /\ scope' = scope
      BY <1>14, <1>15 DEF ClaimPlan, Applying
    <2>2. Fail(v) \/ (Goto(v, "fence", l) /\ Open(L.job))
      BY <1>15 DEF ClaimPlan
    <2>3. l.job = L.job
      BY <1>1 DEF Local
    <2> HIDE DEF l
    <2>4. ASSUME Goto(v, "fence", l), Open(L.job) PROVE Next2("fence", l)
      <3>1. Me(v)' = Me(v)
        BY <2>4, Arrives
      <3>2. plan'[L.job].status = "claimed" /\ plan'[L.job].nonce = Me(v)
        <4> DEFINE e == L.job
                   q == [plan EXCEPT ![e].status = "claimed",
                                     ![e].nonce = Me(v), ![e].live = TRUE]
        <4>1. plan' = q
          <5>1. ~Fail(v)
            BY <2>4, Arrives, Fails
          <5> QED BY <1>15, <5>1 DEF ClaimPlan
        <4>2. q[e].status = "claimed" /\ q[e].nonce = Me(v)
          BY <2>1 DEF TypedInv, SharedTyped, Plans
        <4> QED BY <4>1, <4>2
      <3> QED BY <2>1, <2>3, <3>1, <3>2 DEF Deciding, Applying, Claiming
    <2> HIDE DEF Next2
    <2> QED BY <1>3, <1>5, <2>2, <2>4
  <1>16. CASE Checkpoint(v)
    <2> DEFINE l == [L EXCEPT !.n = L.n + 1]
    <2>1. /\ L.job \in Event /\ scope.bound = L.job /\ scope' = scope
          /\ Claims(v, L.job)
      BY <1>1, <1>14, <1>16 DEF Checkpoint, Applying, Claiming, Bound
    <2>2. Goto(v, "fence", l)
      BY <1>16, <2>1 DEF Checkpoint
    <2>3. l.job = L.job /\ Me(v)' = Me(v)
      BY <1>1, <2>2, Arrives DEF Local
    <2>4. plan'[L.job].status = "claimed" /\ plan'[L.job].nonce = Me(v)
      <3>1. Same(L.job)
        BY <1>16, <2>1, HeldPlan, WorksOn DEF Works, AllSame, Sealing, Rejecting,
           Taking, Committing, Seal, Reject, ClaimPlan, Commit, Checkpoint
      <3> QED BY <2>1, <3>1 DEF Same, Claims
    <2> HIDE DEF l
    <2>5. Next2("fence", l)
      BY <2>1, <2>3, <2>4 DEF Deciding, Applying, Claiming
    <2> QED BY <1>3, <2>2, <2>5
  <1>17. CASE Commit(v)
    <2>1. /\ L.job \in Event /\ scope.bound = L.job /\ scope' = scope
          /\ Claims(v, L.job)
      BY <1>1, <1>14, <1>17 DEF Commit, Applying, Claiming, Bound
    <2>2. Goto(v, "release", L) \/ Goto(v, "own", L)
      BY <1>17, <2>1 DEF Commit
    <2>3. plan'[L.job].status = "committed" /\ OthersSame(L.job)
      <3>1. AllSame \/ Committing(v)
        BY <1>17, HeldPlan, WorksOn DEF Works, Sealing, Rejecting, Taking, Seal,
           Reject, ClaimPlan, Commit
      <3>2. plan'[L.job].status = "committed"
        <4> DEFINE e == L.job
                   q == [plan EXCEPT ![e].status = "committed",
                                     ![e].nonce = None, ![e].live = FALSE]
        <4>1. plan' = q
          BY <1>17, <2>1 DEF Commit
        <4>2. q[e].status = "committed"
          BY <2>1 DEF TypedInv, SharedTyped, Plans
        <4> QED BY <4>1, <4>2
      <3> QED BY <3>1, <3>2 DEF AllSame, OthersSame, Committing
    <2>4. NoneOpen
      <3>1. ASSUME NEW e \in Event, Open(e)' PROVE FALSE
        BY <1>1, <2>1, <2>3, <3>1 DEF Open, OthersSame, Same
      <3> QED BY <3>1
    <2>5. Next2("release", L) /\ Next2("own", L)
      BY <2>4 DEF Applying, Claiming
    <2> HIDE DEF Next2
    <2> QED BY <1>3, <2>2, <2>5
  <1> QED BY <1>7, <1>8, <1>9, <1>10, <1>11, <1>12, <1>13, <1>15, <1>16, <1>17,
             <1>18
          DEF Step, Halt, Enter, Own, Decide, Bind, Apply, CheckFence, Act, Free, FenceAgain

LEMMA StepPlan == TypedInv /\ LeaseInv /\ BoundInv /\ [Next]_vars => BoundInv'
  <1> SUFFICES ASSUME TypedInv, LeaseInv, BoundInv, [Next]_vars PROVE BoundInv'
    OBVIOUS
  <1>1. ~displaced' => \A e \in Event : Open(e)' => scope'.bound = e
    BY StepOpen
  <1>2. ~displaced' => \A v \in Worker : Bound(v, pc[v], loc[v])'
    BY StepBound
  <1> QED BY <1>1, <1>2 DEF BoundInv

----------------------------------------------------------------------------
(* The fact.                                                               *)

\* The ADD of a plan is the only step that makes a memory.
Added(w) ==
    LET e == loc[w].job IN
    /\ Act(w) /\ e \in Event /\ Open(e) /\ plan[e].acts.fact = e
    /\ added' = [added EXCEPT ![e] = 1] /\ plan' = plan

LEMMA AddedSteps ==
    ASSUME TypedInv, BoundInv, [Next]_vars, ~displaced
    PROVE  added' = added \/ \E w \in Worker : Added(w)
  <1>1. ASSUME NEW w \in Worker, Act(w) PROVE added' = added \/ Added(w)
    <2>1. loc[w].job \in Event /\ Claims(w, loc[w].job)
      BY <1>1 DEF Act, TypedInv, CallTyped, Local, Field, BoundInv, Bound, Applying,
         Claiming
    <2>2. Open(loc[w].job)
      BY <2>1 DEF Claims, Open
    <2>3. added' = added
          \/ (plan[loc[w].job].acts.fact = loc[w].job
              /\ added' = [added EXCEPT ![loc[w].job] = 1])
      BY <1>1 DEF Act, Add, Confirm, Update, Skip, Memories
    <2> QED BY <1>1, <2>1, <2>2, <2>3 DEF Added, Act
  <1>2. ASSUME NEW w \in Worker, Step(w) \/ Halt(w), ~Act(w) PROVE added' = added
    BY <1>2 DEF Step, Halt, Poll, Clock, Claim, Takeover, Enter, Own, Decide, Bind, SetBound,
       Seal, Reject, Apply, ClaimPlan, CheckFence, Free, FenceAgain, Checkpoint, Commit,
       Release, Retry, Crash, Cancel, Memories
  <1>3. CASE (\E e \in Event : Lapse(e)) \/ Expire \/ Revise \/ UNCHANGED vars
    BY <1>3 DEF Lapse, Expire, Revise, vars, Memories
  <1> QED BY <1>1, <1>2, <1>3 DEF Next, Environment, Halt

\* An event that decides on an ADD finds the fact in no other event's memory.
LEMMA DecidesAlone ==
    ASSUME TypedInv, FactInv, ~displaced, NEW v \in Worker, Decide(v),
           Adding(v, pc'[v], loc'[v])
    PROVE  Alone(EventOf[v])
  <1> DEFINE e == EventOf[v]
             L == loc[v]
             known == {x \in Event : added[x] > 0}
  <1>1. L \in Local /\ e \in Event /\ added \in [Event -> {0, 1}]
    BY ConstantsAssumption DEF TypedInv, SharedTyped
  <1>2. pc'[v] \in {"bind", "set_bound", "seal"}
    BY DEF Adding
  <1>3. PICK fact \in IF known = {} THEN {e} ELSE known : \E snapshot :
          Goto(v, "bind", [L EXCEPT !.acts = [fact |-> fact, snapshot |-> snapshot]])
    <2>1. \/ Fail(v) \/ Goto(v, "reject", L)
          \/ \E fact \in IF known = {} THEN {e} ELSE known : \E snapshot :
               Goto(v, "bind", [L EXCEPT !.acts = [fact |-> fact, snapshot |-> snapshot]])
      BY DEF Decide
    <2>2. ~Fail(v) /\ ~Goto(v, "reject", L)
      BY <1>2, Arrives, Fails
    <2> QED BY <2>1, <2>2
  <1> PICK snapshot :
        Goto(v, "bind", [L EXCEPT !.acts = [fact |-> fact, snapshot |-> snapshot]])
    BY <1>3
  <1> DEFINE l == [L EXCEPT !.acts = [fact |-> fact, snapshot |-> snapshot]]
  <1>4. l.acts.fact = fact
    BY <1>1 DEF Local
  <1>5. loc'[v] = l
    BY Arrives
  <1> HIDE DEF l
  <1>6. fact = e
    BY <1>4, <1>5 DEF Adding
  <1>7. CASE known = {}
    BY <1>1, <1>7 DEF Alone
  <1>8. CASE known # {}
    <2>1. e \in known
      BY <1>3, <1>6, <1>8
    <2>2. added[e] # 0
      BY <1>1, <2>1
    <2> QED BY <1>1, <2>2 DEF FactInv
  <1> QED BY <1>7, <1>8

LEMMA StepFact ==
    TypedInv /\ LeaseInv /\ BoundInv /\ FactInv /\ [Next]_vars => FactInv'
  <1> SUFFICES ASSUME TypedInv, LeaseInv, BoundInv, FactInv, [Next]_vars, ~displaced'
               PROVE  FactInv'
    BY DEF FactInv
  <1> ~displaced
    BY DisplacedStays
  <1>1. added \in [Event -> {0, 1}]
    BY DEF TypedInv, SharedTyped
  <1>2. ASSUME NEW w \in Worker, Added(w) PROVE FactInv'
    <2>1. PICK e \in Event : /\ Open(e) /\ plan' = plan /\ Alone(e)
                              /\ added' = [added EXCEPT ![e] = 1]
      BY <1>2 DEF Added, FactInv
    <2>2. Alone(e)'
      BY <1>1, <2>1 DEF Alone
    <2>3. ASSUME NEW x \in Event, added'[x] # 0 PROVE x = e
      BY <1>1, <2>1, <2>3 DEF Alone
    <2>4. ASSUME NEW x \in Event, Open(x)' PROVE x = e
      BY <2>1, <2>4 DEF Open, BoundInv
    <2>5. ASSUME NEW v \in Worker, Adding(v, pc'[v], loc'[v]) PROVE FALSE
      <3>1. pc[w] = "act" /\ pc[w] \in Inside
        BY <1>2 DEF Added, Act, Inside, Applying, Claiming
      <3>6. Fail(w) \/ Goto(w, "fence_again", loc[w]) \/ Goto(w, "free", loc[w])
        BY <1>2, ActMoves DEF Added
      <3>2. pc'[v] \in Inside
        BY <2>5 DEF Adding, Inside, Deciding
      <3>3. ~Taken(v)
        BY <2>5 DEF Adding, Taken
      <3>4. pc[v] \in Inside
        BY <3>2, <3>3, Whereabouts
      <3>5. v = w
        BY <3>1, <3>4, OneInside
      <3> QED BY <2>5, <3>5, <3>6, Arrives, Fails DEF Adding
    <2> QED BY <2>2, <2>3, <2>4, <2>5 DEF FactInv, Adding
  <1>3. CASE added' = added
    <2>1. \A e \in Event : Alone(e) => Alone(e)'
      BY <1>3 DEF Alone
    <2>2. ASSUME NEW e \in Event, added'[e] # 0 PROVE Alone(e)'
      BY <1>3, <2>1, <2>2 DEF FactInv
    <2>3. ASSUME NEW e \in Event, Open(e)', plan'[e].acts.fact = e PROVE Alone(e)'
      <3>1. CASE Open(e) /\ plan[e].acts.fact = e
        BY <2>1, <3>1 DEF FactInv
      <3>2. CASE ~(Open(e) /\ plan[e].acts.fact = e)
        <4>1. ~Same(e)
          BY <2>3, <3>2 DEF Same, Open
        <4>2. PICK w \in Worker : Sealing(w) \/ Rejecting(w) \/ Taking(w) \/ Committing(w)
          BY <4>1, PlanSteps DEF AllSame
        <4>3. Sealing(w) /\ e = EventOf[w] /\ plan'[e] = Sealed(loc[w].acts)
          BY <2>3, <3>2, <4>1, <4>2 DEF Sealing, Rejecting, Taking, Committing,
             OthersSame, Open, Rejection, NoPlan
        <4>4. Adding(w, pc[w], loc[w])
          <5>1. Sealed(loc[w].acts).acts = loc[w].acts
            BY DEF Sealed, NoPlan
          <5> QED BY <2>3, <4>3, <5>1 DEF Sealing, Seal, Adding
        <4> QED BY <2>1, <4>3, <4>4 DEF FactInv
      <3> QED BY <3>1, <3>2
    <2>4. ASSUME NEW v \in Worker, Adding(v, pc'[v], loc'[v]) PROVE Alone(EventOf[v])'
      <3>1. EventOf[v] \in Event
        BY ConstantsAssumption
      <3>2. CASE ~(Step(v) \/ Halt(v))
        BY <2>1, <2>4, <3>1, <3>2, StandsStill DEF FactInv
      <3>3. CASE Decide(v)
        BY <2>1, <2>4, <3>1, <3>3, DecidesAlone
      <3>4. CASE Bind(v) \/ SetBound(v)
        <4>1. loc'[v] = loc[v] /\ pc[v] \in {"bind", "set_bound"}
          BY <2>4, <3>4, Arrives, Fails DEF Bind, SetBound, Adding
        <4> QED BY <2>1, <2>4, <3>1, <4>1 DEF FactInv, Adding
      <3>5. CASE Poll(v) \/ Clock(v) \/ Claim(v) \/ Takeover(v) \/ Release(v) \/ Retry(v)
                 \/ Halt(v)
        <4>1. pc'[v] \in {"clock", "claim", "takeover", "poll", "enter", "done", "failed"}
          BY <3>5, Arrives, ClaimTakes, Fails
             DEF Poll, Clock, Taken, Release, Retry, Halt, Crash, Cancel, TypedInv
        <4> QED BY <2>4, <4>1 DEF Adding
      <3>6. CASE Enter(v) \/ Own(v) \/ Seal(v) \/ Reject(v) \/ Apply(v) \/ ClaimPlan(v)
        BY <2>4, <3>6, Arrives, Fails DEF Enter, Own, Seal, Reject, Apply, ClaimPlan, Adding
      <3>7. CASE CheckFence(v) \/ Act(v) \/ Free(v) \/ FenceAgain(v) \/ Checkpoint(v)
                 \/ Commit(v)
        <4>1. Fail(v) \/ \E p \in Claiming \cup {"release", "own"} : \E l : Goto(v, p, l)
          BY <3>7, ActMoves DEF CheckFence, Free, FenceAgain, Checkpoint, Commit, Claiming
        <4> QED BY <2>4, <4>1, Arrives, Fails DEF Adding, Claiming
      <3> QED BY <3>2, <3>3, <3>4, <3>5, <3>6, <3>7 DEF Step
    <2> QED BY <2>2, <2>3, <2>4 DEF FactInv, Adding
  <1> QED BY <1>2, <1>3, AddedSteps

LEMMA InitAll == Init => FreshInv /\ LeaseInv /\ BoundInv /\ FactInv
  <1> SUFFICES ASSUME Init PROVE FreshInv /\ LeaseInv /\ BoundInv /\ FactInv
    OBVIOUS
  <1>1. \A w \in Worker : Me(w) # None
    BY ConstantsAssumption DEF Init, Me
  <1>2. FreshInv
    BY <1>1 DEF Init, FreshInv, NoScope, NoPlan, NoLocal
  <1>3. LeaseInv
    BY DEF Init, LeaseInv, Inside, Deciding, Applying, Claiming
  <1>4. BoundInv
    BY DEF Init, BoundInv, Bound, Open, NoPlan, Deciding, Applying, Claiming
  <1>5. FactInv
    BY DEF Init, FactInv, Open, NoPlan, Adding
  <1> QED BY <1>2, <1>3, <1>4, <1>5

----------------------------------------------------------------------------
(* The theorems.                                                           *)

Inv == TypedInv /\ FreshInv /\ LeaseInv /\ BoundInv /\ FactInv

LEMMA Invariants == Spec => []Inv
  <1>1. Init => Inv
    BY InitTyped, InitAll DEF Inv
  <1>2. Inv /\ [Next]_vars => Inv'
    BY StepTyped, StepFresh, StepLease, StepPlan, StepFact DEF Inv
  <1> QED BY <1>1, <1>2, PTL DEF Spec

\* The lease of the scope is a lock: a delivery that has taken it has it until
\* it ends, and two deliveries of a scope are never at work at once.
OneAtWork ==
    \A v, w \in Worker : pc[v] \in Inside /\ pc[w] \in Inside => v = w /\ Guard(v)

\* Holds of any number of deliveries, whichever of them die and are repeated.
THEOREM OneAtWorkHolds == Spec => []OneAtWork
  <1>1. Inv => OneAtWork
    BY OneInside DEF Inv, OneAtWork, LeaseInv
  <1> QED BY <1>1, Invariants, PTL

\* However often events are delivered and wherever their deliveries die, at most
\* one sealed plan is unfinished, until a takeover writes over the binding to it: no
\* event decides before its predecessor's plan is carried out.
THEOREM BoundPredecessorFirstHolds == Spec => []BoundPredecessorFirst
  <1>1. Inv => BoundPredecessorFirst
    <2> SUFFICES ASSUME Inv, ~displaced PROVE PredecessorFirst
      BY DEF BoundPredecessorFirst
    <2> DEFINE S == {e \in Event : Open(e)}
    <2>1. S \subseteq {scope.bound}
      BY DEF Inv, BoundInv
    <2>2. S = {} \/ S = {scope.bound}
      BY <2>1
    <2>3. Cardinality({}) = 0 /\ Cardinality({scope.bound}) = 1
      BY FS_EmptySet, FS_Singleton
    <2> QED BY <2>2, <2>3 DEF PredecessorFirst
  <1> QED BY <1>1, Invariants, PTL

\* However often events that state one fact are delivered and wherever their
\* deliveries die, one memory of the fact is inserted, until a takeover writes over
\* the binding to an open plan.
THEOREM NoDuplicateFactHolds == Spec => []NoDuplicateFact
  <1>1. Inv => NoDuplicateFact
    <2> SUFFICES ASSUME Inv, ~displaced, NEW e \in Event, NEW x \in Event
                 PROVE  added[e] + (IF x = e THEN 0 ELSE added[x]) <= 1
      BY DEF NoDuplicateFact
    <2>1. added[e] \in {0, 1} /\ added[x] \in {0, 1}
      BY DEF Inv, TypedInv, SharedTyped
    <2>2. x # e /\ added[e] # 0 => added[x] = 0
      BY DEF Inv, FactInv, Alone
    <2> QED BY <2>1, <2>2
  <1> QED BY <1>1, Invariants, PTL

================================================================================
