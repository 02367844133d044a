--------------------------- MODULE AgentRunProofs ---------------------------
(* One planner per run, and what a run records and spends, for any bounds,   *)
(* any number of resumes, requests and crashes and any budget; and the       *)
(* answers of the model requests those runs make, whatever an endpoint says. *)
(* The two specifications share no variable.                                 *)
EXTENDS AgentRun, Completion, FiniteSetTheorems, TLAPS

\* The tables are functions.
Functions ==
    /\ pc = [p \in Activations |-> pc[p]] /\ base = [p \in Activations |-> base[p]]
    /\ row = [q \in Requests |-> row[q]]

\* Before its first step a run has no rows to resume and nobody at work.
Untouched ==
    run = "none" =>
      /\ \A p \in Activations : pc[p] = "idle"
      /\ \A q \in Requests : row[q] = "absent" /\ decision[q] = "none"

\* The inductive invariant.
PlannerInv == Functions /\ Untouched /\ OnePlanner

Idle == \A p \in Activations : ~Planning(p)

-----------------------------------------------------------------------------
\* A step by which p stops planning, or goes on without parking the run.
LEMMA OneMoves ==
    ASSUME PlannerInv, NEW p \in Activations, run # "none", run' # "none",
           Functions',
           \A o \in Activations \ {p} : pc'[o] = pc[o] /\ base'[o] = base[o],
           Planning(p)' => Planning(p) \/ run = "awaiting_approval",
           run' = "awaiting_approval" =>
               ~Planning(p)' /\ (Planning(p) \/ run = "awaiting_approval")
    PROVE  PlannerInv'
<1>1. Untouched'
  BY DEF Untouched
<1>2. \A o \in Activations \ {p} : Planning(o)' <=> Planning(o)
  BY DEF Planning
<1>3. OnePlanner'
  BY <1>2 DEF PlannerInv, OnePlanner
<1>. QED BY <1>1, <1>3 DEF PlannerInv

\* A step of nobody, or of an activation that does not plan before or after it.
LEMMA NobodyMoves ==
    ASSUME PlannerInv, run # "none", run' # "none",
           Functions', \A o \in Activations : Planning(o)' => Planning(o),
           run' = "awaiting_approval" => run = "awaiting_approval"
    PROVE  PlannerInv'
<1>1. Untouched'
  BY DEF Untouched
<1>2. OnePlanner'
  BY DEF PlannerInv, OnePlanner
<1>. QED BY <1>1, <1>2 DEF PlannerInv

-----------------------------------------------------------------------------
(* what each action does to its activation *)

\* An activation that returns plans no more.
LEMMA Returning ==
    ASSUME PlannerInv, NEW p \in Activations, Return(p)
    PROVE  /\ pc'[p] = "idle" /\ ~Planning(p)'
           /\ pc' = [o \in Activations |-> pc'[o]] /\ base' = [o \in Activations |-> base'[o]]
           /\ \A o \in Activations \ {p} : pc'[o] = pc[o] /\ base'[o] = base[o]
BY DEF PlannerInv, Functions, Return, Planning

\* One that proposes leaves the others where they are.
LEMMA Proposing ==
    ASSUME PlannerInv, NEW p \in Activations, NEW q, NEW n, NEW u, Propose(p, q, n, u)
    PROVE  /\ run' = "reasoning"
           /\ pc' = [o \in Activations |-> pc'[o]]
           /\ \A o \in Activations \ {p} : pc'[o] = pc[o]
BY DEF PlannerInv, Functions, Propose

\* Nobody plans before the message is sent.
LEMMA InitPlanner == ASSUME Init PROVE PlannerInv
<1>1. Functions
  BY DEF Init, Functions
<1>2. Untouched
  BY DEF Init, Untouched
<1>3. OnePlanner
  BY DEF Init, OnePlanner, Planning
<1>. QED BY <1>1, <1>2, <1>3 DEF PlannerInv

\* What a reply of the model does to a run: its planner ends, parks or goes on.
LEMMA ReplySteps ==
    ASSUME PlannerInv, NEW p \in Activations, ModelReplies(p)
    PROVE  PlannerInv' /\ (Idle => Idle')
<1>1. pc[p] = "thinking" /\ Planning(p) /\ run # "none"
  BY DEF ModelReplies, ModelFails, ConsumeConflicts, ModelAnswers, ModelRepeats,
         ModelProposesGated, ModelProposesFree, ModelProposesBadly, Consumable,
         PlannerInv, Untouched, Planning
<1>2. ~Idle
  BY <1>1 DEF Idle
<1>3. row' = [q \in Requests |-> row'[q]]
  BY DEF ModelReplies, ModelFails, ConsumeConflicts, ModelAnswers, ModelRepeats,
         ModelProposesGated, ModelProposesFree, ModelProposesBadly, PlannerInv, Functions,
         ledgerVars
<1>4. ASSUME Return(p), run' \in {"failed", "cancelled", "completed", "awaiting_approval"}
      PROVE  PlannerInv'
  <2>1. Functions'
    BY <1>3, <1>4, Returning DEF Functions
  <2>. QED BY <1>1, <1>4, <2>1, Returning, OneMoves
<1>5. ASSUME NEW q, NEW n, NEW u, Propose(p, q, n, u), UNCHANGED base PROVE PlannerInv'
  <2>1. Functions'
    BY <1>3, <1>5, Proposing DEF Functions, PlannerInv
  <2>. QED BY <1>1, <1>5, <2>1, Proposing, OneMoves
<1>6. ASSUME ModelProposesFree(p) PROVE PlannerInv'
  <2>1. pc' = [pc EXCEPT ![p] = "acting"] /\ run' = "executing" /\ UNCHANGED base
    BY <1>6 DEF ModelProposesFree
  <2>2. Functions'
    BY <1>3, <2>1 DEF Functions, PlannerInv
  <2>3. \A o \in Activations \ {p} : pc'[o] = pc[o] /\ base'[o] = base[o]
    BY <2>1 DEF PlannerInv, Functions
  <2>. QED BY <1>1, <2>1, <2>2, <2>3, OneMoves
<1>7. CASE ModelFails(p) \/ ConsumeConflicts(p) \/ ModelAnswers(p) \/ ModelProposesGated(p)
  <2>1. Return(p)
    BY <1>7 DEF ModelFails, ConsumeConflicts, ModelAnswers, ModelProposesGated
  <2>2. run' \in {"failed", "cancelled", "completed", "awaiting_approval"}
    BY <1>7 DEF ModelFails, ConsumeConflicts, ModelAnswers, ModelProposesGated, Finish
  <2>. QED BY <1>2, <1>4, <2>1, <2>2
<1>8. CASE ModelRepeats(p) \/ \E n \in 1..2 : ModelProposesBadly(p, n)
  <2>1. UNCHANGED base
    BY <1>8 DEF ModelRepeats, ModelProposesBadly
  <2>2. \E q, n, u : Propose(p, q, n, u)
    BY <1>8 DEF ModelRepeats, ModelProposesBadly
  <2>. QED BY <1>2, <1>5, <2>1, <2>2
<1>. QED BY <1>2, <1>6, <1>7, <1>8 DEF ModelReplies

\* A tool call of the planner ends: it observes the pair, or the turn is over.
LEMMA CallSteps ==
    ASSUME PlannerInv, NEW p \in Activations,
           CallReturns(p) \/ CallOutlastsTimeout(p) \/ CallThrows(p)
    PROVE  /\ PlannerInv' /\ (Idle => Idle')
           /\ run' = "awaiting_approval" => run = "awaiting_approval"
<1>1. pc[p] \in {"acting", "resuming", "settling"} /\ run # "none"
  BY DEF CallReturns, CallOutlastsTimeout, CallThrows, PlannerInv, Untouched
<1>2. row' = [q \in Requests |-> row'[q]]
  BY DEF CallReturns, CallOutlastsTimeout, CallThrows, PlannerInv, Functions, ledgerVars
<1>3. CASE CallReturns(p)
  <2>1. PICK q, n, u : Propose(p, q, n, u)
    BY <1>3 DEF CallReturns
  <2>2. pc[p] = "acting" /\ Planning(p) /\ UNCHANGED base
    BY <1>3 DEF CallReturns, Planning
  <2>3. Functions'
    BY <1>2, <2>1, <2>2, Proposing DEF Functions, PlannerInv
  <2>. QED BY <1>1, <2>1, <2>2, <2>3, Proposing, OneMoves DEF Idle
<1>4. CASE CallOutlastsTimeout(p) \/ CallThrows(p)
  <2>1. Return(p) /\ run' \in {run, "completed", "failed"}
    BY <1>4 DEF CallOutlastsTimeout, CallThrows, Finish
  <2>2. Functions'
    BY <1>2, <2>1, Returning DEF Functions
  <2>3. \A o \in Activations : Planning(o)' => Planning(o)
    BY <2>1, Returning DEF Planning
  <2>. QED BY <1>1, <2>1, <2>2, <2>3, NobodyMoves DEF Idle
<1>. QED BY <1>3, <1>4

-----------------------------------------------------------------------------
(* resumes *)

\* What a resume marks the run it found.
LEMMA MarkedIs == ASSUME NEW b PROVE Marked(b) \in {run, "executing"}
BY DEF Marked

\* A resume that waits for a call, or renders what is there, does not plan
\* unless the run it found was parked.
LEMMA LegacySteps ==
    ASSUME PlannerInv, NEW p \in Activations, run # "none", NEW b, NEW q, NEW before,
           NEW state \in {run, "executing"},
           before = [r \in Requests |-> before[r]],
           Legacy(p, b, q, before, state), b = base[p] \/ pc[p] = "idle"
    PROVE  /\ PlannerInv' /\ \A o \in Activations : Planning(o)' => Planning(o)
           /\ run' = "awaiting_approval" => run = "awaiting_approval"
<1>1. \A r : Mirror(before, r) = [t \in Requests |-> Mirror(before, r)[t]]
  BY DEF Mirror
<1>2. row' = [r \in Requests |-> row'[r]]
  BY <1>1 DEF Legacy
<1>3. ASSUME NEW label \in {"settling", "answering"}, NEW t, Await(p, label, t, b, state)
      PROVE  /\ run' \in {run, "executing"} /\ ~Planning(p)'
             /\ pc' = [o \in Activations |-> pc'[o]] /\ base' = [o \in Activations |-> base'[o]]
             /\ \A o \in Activations \ {p} : pc'[o] = pc[o] /\ base'[o] = base[o]
  BY <1>3 DEF Await, PlannerInv, Functions, Planning
<1>4. ASSUME NEW t, NEW rw, Rendered(p, b, t, rw)
      PROVE  Return(p) /\ run' \in {run, "failed", "completed"}
  BY <1>4 DEF Rendered, Finish
<1>5. /\ run' \in {run, "executing", "failed", "completed"} /\ ~Planning(p)'
      /\ pc' = [o \in Activations |-> pc'[o]] /\ base' = [o \in Activations |-> base'[o]]
      /\ \A o \in Activations \ {p} : pc'[o] = pc[o] /\ base'[o] = base[o]
  BY <1>3, <1>4, Returning DEF Legacy
<1>6. Functions'
  BY <1>2, <1>5 DEF Functions
<1>7. \A o \in Activations : Planning(o)' => Planning(o)
  BY <1>5 DEF Planning
<1>. QED BY <1>5, <1>6, <1>7, NobodyMoves

\* A resume is entered: it plans for the run only if it found it parked.
LEMMA ResumeSteps ==
    ASSUME PlannerInv, NEW p \in Activations, NEW q \in Requests,
           ResumeExecutes(p, q) \/ ResumeContinues(p, q) \/ ResumeSettles(p, q)
    PROVE  /\ PlannerInv' /\ (run # "awaiting_approval" /\ Idle => Idle')
           /\ run' = "awaiting_approval" => run = "awaiting_approval"
<1>1. pc[p] = "idle" /\ ~Planning(p)
  BY DEF ResumeExecutes, ResumeContinues, ResumeSettles, Planning
<1>2. row[q] # "absent"
  BY DEF ResumeExecutes, ResumeContinues, ResumeSettles, Executes
<1>3. run # "none"
  BY <1>2 DEF PlannerInv, Untouched
<1>4. Stored(q) = NoRun \/ Stored(q).state = run
  BY DEF Stored
<1>5. Mirror(row, q) = [r \in Requests |-> Mirror(row, q)[r]]
  BY DEF Mirror, PlannerInv, Functions
<1>6. CASE ResumeExecutes(p, q)
  <2>1. /\ row' = [row EXCEPT ![q] = "executing"]
        /\ pc' = [pc EXCEPT ![p] = "resuming"] /\ base' = [base EXCEPT ![p] = Stored(q)]
        /\ run' = IF Stored(q) = NoRun THEN run ELSE "executing"
    BY <1>6 DEF ResumeExecutes, Await, Marked
  <2>2. Functions' /\ \A o \in Activations \ {p} : pc'[o] = pc[o] /\ base'[o] = base[o]
    BY <2>1 DEF Functions, PlannerInv
  <2>3. Planning(p)' => Stored(q).state = "awaiting_approval"
    BY <2>1 DEF Planning, PlannerInv, Functions
  <2>4. Planning(p)' => run = "awaiting_approval" /\ run' = "executing"
    BY <1>4, <2>1, <2>3 DEF NoRun
  <2>5. PlannerInv'
    <3>1. CASE Planning(p)'
      BY <1>3, <2>2, <2>4, <3>1, OneMoves
    <3>2. CASE ~Planning(p)'
      <4>1. \A o \in Activations : Planning(o)' => Planning(o)
        BY <2>2, <3>2 DEF Planning
      <4>. QED BY <1>3, <2>1, <2>2, <4>1, NobodyMoves
    <3>. QED BY <3>1, <3>2
  <2>. QED BY <2>1, <2>2, <2>4, <2>5 DEF Idle, Planning
<1>7. CASE ResumeContinues(p, q)
  <2>1. /\ Propose(p, q, iter, calls) /\ base' = [base EXCEPT ![p] = Stored(q)]
        /\ row' = Mirror(row, q)
        /\ Stored(q).state = "awaiting_approval"
    BY <1>7 DEF ResumeContinues, Continues
  <2>2. run = "awaiting_approval"
    BY <1>4, <2>1 DEF NoRun
  <2>3. Functions' /\ \A o \in Activations \ {p} : pc'[o] = pc[o] /\ base'[o] = base[o]
    BY <1>5, <2>1, Proposing DEF Functions, PlannerInv
  <2>. QED BY <1>3, <2>1, <2>2, <2>3, Proposing, OneMoves
<1>8. CASE ResumeSettles(p, q)
  <2>1. Legacy(p, Stored(q), q, Mirror(row, q), Marked(Stored(q)))
    BY <1>8 DEF ResumeSettles
  <2>. QED BY <1>1, <1>3, <1>5, <2>1, LegacySteps, MarkedIs DEF Idle
<1>. QED BY <1>6, <1>7, <1>8

\* The call a resume waited for ends.
LEMMA SettlingSteps ==
    ASSUME PlannerInv, NEW p \in Activations,
           ResumeReturns(p) \/ SettleReturns(p) \/ AnswerReturns(p)
    PROVE  /\ PlannerInv' /\ (Idle => Idle')
           /\ run' = "awaiting_approval" => run = "awaiting_approval"
<1>1. pc[p] \in {"resuming", "settling", "answering"} /\ run # "none"
  BY DEF ResumeReturns, SettleReturns, AnswerReturns, PlannerInv, Untouched
<1>2. CASE ResumeReturns(p)
  <2>. DEFINE rows == [row EXCEPT ![cur[p]] = "succeeded"]
  <2>1. rows = [r \in Requests |-> rows[r]] /\ pc[p] = "resuming"
    BY <1>2 DEF ResumeReturns, PlannerInv, Functions
  <2>2. ASSUME Continues(base[p], "succeeded"), row' = rows, Propose(p, cur[p], step[p], used[p]),
               UNCHANGED base
        PROVE  PlannerInv' /\ ~Idle /\ run' = "reasoning"
    <3>1. Planning(p)
      BY <2>1, <2>2 DEF Continues, Planning
    <3>2. Functions'
      BY <2>1, <2>2, Proposing DEF Functions, PlannerInv
    <3>. QED BY <1>1, <2>2, <3>1, <3>2, Proposing, OneMoves DEF Idle
  <2>3. ASSUME Legacy(p, base[p], cur[p], rows, run)
        PROVE  /\ PlannerInv' /\ (Idle => Idle')
               /\ run' = "awaiting_approval" => run = "awaiting_approval"
    BY <1>1, <2>1, <2>3, LegacySteps DEF Idle
  <2>. QED BY <1>2, <2>2, <2>3 DEF ResumeReturns
<1>3. CASE SettleReturns(p)
  <2>1. /\ pc' = [pc EXCEPT ![p] = "answering"] /\ UNCHANGED <<base, run>>
        /\ row' = [row EXCEPT ![cur[p]] = "answering"] /\ pc[p] = "settling"
    BY <1>3 DEF SettleReturns, runVars
  <2>2. Functions'
    BY <2>1 DEF Functions, PlannerInv
  <2>3. \A o \in Activations : Planning(o)' => Planning(o)
    BY <2>1 DEF Planning, PlannerInv, Functions
  <2>. QED BY <1>1, <2>1, <2>2, <2>3, NobodyMoves DEF Idle
<1>4. CASE AnswerReturns(p)
  <2>1. /\ Return(p) /\ run' \in {run, "failed", "completed"}
        /\ row' = [row EXCEPT ![cur[p]] = "answered"]
    BY <1>4 DEF AnswerReturns, Rendered, Finish
  <2>2. Functions'
    BY <2>1, Returning DEF Functions, PlannerInv
  <2>3. \A o \in Activations : Planning(o)' => Planning(o)
    BY <2>1, Returning DEF Planning
  <2>. QED BY <1>1, <2>1, <2>2, <2>3, NobodyMoves DEF Idle
<1>. QED BY <1>2, <1>3, <1>4

-----------------------------------------------------------------------------
(* the turn, the user and the process *)

\* Background searches, decisions, cancels and crashes make nobody plan.
LEMMA OtherSteps ==
    ASSUME PlannerInv,
           \/ \E q \in Requests : BackgroundReturns(q) \/ \E d \in {"approved", "denied"} : Decide(q, d)
           \/ CancelRun \/ Crash \/ UNCHANGED vars
    PROVE  /\ PlannerInv' /\ (Idle => Idle')
           /\ run' = "awaiting_approval" => run = "awaiting_approval"
<1>1. ASSUME UNCHANGED <<pc, base>> PROVE \A o \in Activations : Planning(o)' <=> Planning(o)
  BY <1>1 DEF Planning
<1>2. ASSUME NEW q \in Requests,
             BackgroundReturns(q) \/ \E d \in {"approved", "denied"} : Decide(q, d)
      PROVE  PlannerInv' /\ UNCHANGED <<pc, base, run>>
  <2>1. UNCHANGED <<pc, base, run>>
    BY <1>2 DEF BackgroundReturns, Decide, runVars, actVars
  <2>2. run # "none"
    BY <1>2 DEF BackgroundReturns, Decide, PlannerInv, Untouched
  <2>3. Functions'
    BY <1>2, <2>1 DEF BackgroundReturns, Decide, PlannerInv, Functions
  <2>. QED BY <1>1, <2>1, <2>2, <2>3, NobodyMoves
<1>3. CASE CancelRun
  <2>1. UNCHANGED <<pc, base, row>> /\ run # "none" /\ run' = "cancelled"
    BY <1>3 DEF CancelRun, Finish, actVars, ledgerVars
  <2>2. Functions'
    BY <2>1 DEF Functions, PlannerInv
  <2>. QED BY <1>1, <2>1, <2>2, NobodyMoves DEF Idle
<1>4. CASE Crash
  <2>1. /\ pc' = [p \in Activations |-> "idle"] /\ base' = [p \in Activations |-> NoRun]
        /\ row' = [q \in Requests |-> IF row[q] = "background" THEN "executing" ELSE row[q]]
        /\ UNCHANGED run /\ run # "none"
    BY <1>4 DEF Crash, runVars
  <2>2. Functions' /\ \A o \in Activations : ~Planning(o)'
    BY <2>1 DEF Functions, Planning
  <2>. QED BY <2>1, <2>2, NobodyMoves DEF Idle
<1>5. CASE UNCHANGED vars
  <2>1. UNCHANGED <<pc, base, row, run, decision>>
    BY <1>5 DEF vars, actVars, ledgerVars, runVars
  <2>. QED BY <1>1, <2>1 DEF PlannerInv, Functions, Untouched, OnePlanner, Idle
<1>. QED BY <1>1, <1>2, <1>3, <1>4, <1>5 DEF Idle

\* The driver plans for a run nobody has touched.
LEMMA StartSteps == ASSUME AgentRunAssumption, PlannerInv, StartTurn PROVE PlannerInv'
<1>1. run = "none" /\ UNCHANGED <<base, row>> /\ Propose(Driver, issued', 0, 0)
  BY DEF StartTurn, ledgerVars
<1>2. Driver \in Activations
  BY DEF Activations
<1>3. Functions'
  BY <1>1, <1>2, Proposing DEF Functions, PlannerInv
<1>4. \A o \in Activations \ {Driver} : ~Planning(o)'
  BY <1>1, <1>2, Proposing DEF Planning, PlannerInv, Untouched
<1>5. run' = "reasoning"
  BY <1>1, <1>2, Proposing
<1>. QED BY <1>3, <1>4, <1>5 DEF PlannerInv, Untouched, OnePlanner

-----------------------------------------------------------------------------
\* Every step keeps the invariant, and only a parked run, or the start of one,
\* lets anybody begin to plan.
LEMMA PlannerStep ==
    ASSUME AgentRunAssumption, PlannerInv, [Next]_vars
    PROVE  /\ PlannerInv'
           /\ run \notin {"none", "awaiting_approval"} /\ Idle =>
                  run' # "awaiting_approval" /\ Idle'
<1>1. CASE StartTurn
  BY <1>1, StartSteps DEF StartTurn
<1>2. ASSUME NEW p \in Activations, ModelReplies(p) PROVE PlannerInv' /\ ~Idle
  <2>1. Planning(p)
    BY <1>2 DEF ModelReplies, ModelFails, ConsumeConflicts, ModelAnswers, ModelRepeats,
         ModelProposesGated, ModelProposesFree, ModelProposesBadly, Consumable, Planning
  <2>. QED BY <1>2, <2>1, ReplySteps DEF Idle
<1>3. ASSUME NEW p \in Activations, Proceed(p)
      PROVE  PlannerInv' /\ (Idle => (run' = "awaiting_approval" => run = "awaiting_approval"))
                         /\ (Idle => Idle')
  BY <1>2, <1>3, CallSteps, SettlingSteps DEF Proceed
<1>4. ASSUME NEW p \in Resumers, NEW q \in Requests,
             ResumeExecutes(p, q) \/ ResumeContinues(p, q) \/ ResumeSettles(p, q)
      PROVE  /\ PlannerInv' /\ (run # "awaiting_approval" /\ Idle => Idle')
             /\ run' = "awaiting_approval" => run = "awaiting_approval"
  BY <1>4, ResumeSteps DEF Activations
<1>. QED BY <1>1, <1>3, <1>4, OtherSteps DEF Next

\* Of any number of concurrent resumes one continues planning, and nobody plans
\* for a run that is parked.
THEOREM OnlyOnePlans == Spec => []OnePlanner
<1>1. Init => PlannerInv
  BY InitPlanner
<1>2. PlannerInv /\ [Next]_vars => PlannerInv'
  BY PlannerStep, AgentRunAssumption
<1>3. PlannerInv => OnePlanner
  BY DEF PlannerInv
<1>. QED BY <1>1, <1>2, <1>3, PTL DEF Spec

\* A run that is over stays over, whatever resumes, cancels and crashes follow.
THEOREM OverStaysOver == Spec => OverPlansNoMore
<1>1. Init => PlannerInv
  BY InitPlanner
<1>2. PlannerInv /\ [Next]_vars => PlannerInv'
  BY PlannerStep, AgentRunAssumption
<1>3. PlannerInv /\ [Next]_vars =>
        [(run \notin {"none", "awaiting_approval"} /\ \A p \in Activations : ~Planning(p))
         => (run' # "awaiting_approval" /\ \A p \in Activations : ~Planning(p)')]_vars
  BY PlannerStep, AgentRunAssumption DEF Idle
<1>. QED BY <1>1, <1>2, <1>3, PTL DEF Spec, OverPlansNoMore

-----------------------------------------------------------------------------
(* what a run records and spends, from its types to its ids and its budget *)

Bases == [state : RunStates, last : 0..MaxRequests]

\* The activations and their columns.
ActTyped ==
    /\ pc \in [Activations -> Labels]
    /\ step \in [Activations -> Nat] /\ used \in [Activations -> Nat]
    /\ cur \in [Activations -> 0..MaxRequests]
    /\ final \in [Activations -> BOOLEAN]
    /\ base \in [Activations -> Bases]

\* The run, the ledger and the history.
RunTyped ==
    /\ iter = Len(ids) /\ run \in RunStates
    /\ reason \in {"none", "final_answer", "approval_denied", "turn_error", "cancelled"}
    /\ ids \in Seq(Requests) /\ iter \in Nat /\ calls \in Nat
    /\ stream \in BOOLEAN /\ issued \in 0..MaxRequests
    /\ executed \in Nat /\ turns \in Nat
    /\ forced \in BOOLEAN /\ crashes \in 0..MaxCrashes
    /\ failure \in {"none", "provider", "conflict", "ledger"}

LedgerTyped ==
    /\ row \in [Requests -> Rows]
    /\ decision \in [Requests -> {"none", "pending", "approved", "denied"}]
    /\ written \in [Requests -> BOOLEAN]
    /\ continued \in [Requests -> Nat]

\* A call under way is for a request, and so is the last step of a stored run.
Named ==
    \A p \in Activations :
      /\ pc[p] \in {"acting", "resuming", "settling", "answering"} => cur[p] \in Requests
      /\ base[p] # NoRun => base[p].last \in Requests

TypeInv == RunTyped /\ LedgerTyped /\ ActTyped /\ Named

LEMMA Numbers == ASSUME AgentRunAssumption PROVE Requests \subseteq 0..MaxRequests /\ 0 \in 0..MaxRequests /\ 0 \in Nat
BY DEF AgentRunAssumption, Requests

LEMMA TypeInit == ASSUME AgentRunAssumption, Init PROVE TypeInv
<1>1. RunTyped
  <2>1. ids \in Seq(Requests) /\ Len(ids) = 0
    BY DEF Init
  <2>2. 0 \in 0..MaxCrashes
    BY DEF AgentRunAssumption
  <2>. QED BY <2>1, <2>2, Numbers DEF Init, RunTyped, RunStates, Terminal
<1>2. LedgerTyped
  BY DEF Init, LedgerTyped, Rows
<1>3. ActTyped
  <2>1. NoRun \in Bases
    BY Numbers DEF NoRun, Bases, RunStates, Terminal
  <2>. QED BY <2>1, Numbers DEF Init, ActTyped, Labels
<1>4. Named
  BY DEF Init, Named
<1>. QED BY <1>1, <1>2, <1>3, <1>4 DEF TypeInv

\* An activation that returns forgets its request.
LEMMA ReturnTypes ==
    ASSUME AgentRunAssumption, TypeInv, NEW p \in Activations, Return(p)
    PROVE  ActTyped' /\ Named'
<1>1. NoRun \in Bases
  BY Numbers DEF NoRun, Bases, RunStates, Terminal
<1>2. ActTyped'
  BY <1>1, Numbers DEF TypeInv, ActTyped, Return, Labels
<1>3. Named'
  BY DEF TypeInv, ActTyped, Named, Return
<1>. QED BY <1>2, <1>3

LEMMA ProposeTypes ==
    ASSUME AgentRunAssumption, TypeInv, NEW p \in Activations,
           NEW q \in 0..MaxRequests, NEW n \in Nat, NEW u \in Nat, Propose(p, q, n, u),
           base' \in [Activations -> Bases],
           \A o \in Activations : base'[o] # NoRun => base'[o].last \in Requests
    PROVE  ActTyped' /\ Named' /\ run' \in RunStates
<1>1. ActTyped'
  BY DEF TypeInv, ActTyped, Propose, Labels, BoundReached
<1>2. Named'
  BY DEF TypeInv, ActTyped, Named, Propose
<1>. QED BY <1>1, <1>2 DEF Propose, RunStates

\* Drawn gives the id of the next step, if there is one left.
LEMMA DrawTypes ==
    ASSUME AgentRunAssumption, TypeInv, NEW p \in Activations, Drawn(p) \in Requests, Draw(p)
    PROVE  issued' \in 0..MaxRequests
BY Numbers DEF TypeInv, RunTyped, Draw, Drawn

LEMMA RecordTypes ==
    ASSUME AgentRunAssumption, TypeInv, NEW q \in Requests, NEW n \in Nat, RecordStep(q, n)
    PROVE  iter' = Len(ids') /\ ids' \in Seq(Requests) /\ iter' \in Nat /\ calls' \in Nat
BY DEF TypeInv, RunTyped, RecordStep

LEMMA TranscribeTypes ==
    ASSUME TypeInv, NEW q, Transcribe(q)
    PROVE  written' \in [Requests -> BOOLEAN] /\ turns' \in Nat
<1>1. turns' \in Nat
  <2>1. turns' = turns \/ turns' = turns + 1
    BY DEF Transcribe
  <2>. QED BY <2>1 DEF TypeInv, RunTyped
<1>2. written' \in [Requests -> BOOLEAN]
  BY Zenon DEF TypeInv, LedgerTyped, Transcribe
<1>. QED BY <1>1, <1>2

-----------------------------------------------------------------------------
\* What a reply of the model writes is typed.
LEMMA ReplyTypes ==
    ASSUME AgentRunAssumption, TypeInv, NEW p \in Activations, ModelReplies(p)
    PROVE  TypeInv'
<1>. USE DEF TypeInv
<1>1. cur[p] \in 0..MaxRequests /\ step[p] \in Nat /\ used[p] \in Nat
  BY DEF ActTyped
<1>2. \A o \in Activations : base[o] # NoRun => base[o].last \in Requests
  BY DEF Named
<1>3. CASE ModelFails(p) \/ ConsumeConflicts(p)
  <2>1. RunTyped' /\ LedgerTyped'
    BY <1>3 DEF ModelFails, ConsumeConflicts, Finish, RunTyped, LedgerTyped, ledgerVars,
                RunStates, Terminal
  <2>2. Return(p)
    BY <1>3 DEF ModelFails, ConsumeConflicts
  <2>. QED BY <2>1, <2>2, ReturnTypes
<1>4. CASE ModelAnswers(p)
  <2>. DEFINE q == Drawn(p)
  <2>1. q \in Requests /\ Draw(p) /\ RecordStep(q, 0) /\ Transcribe(q) /\ Return(p)
    BY <1>4 DEF ModelAnswers, Consumable
  <2>. HIDE DEF q
  <2>2. LedgerTyped'
    <3>1. row' = [row EXCEPT ![q] = "closed"] /\ UNCHANGED <<decision, continued>>
      BY <1>4 DEF ModelAnswers, q
    <3>. QED BY <2>1, <3>1, TranscribeTypes DEF LedgerTyped, Rows
  <2>3. forced' \in BOOLEAN
    BY <1>4 DEF ModelAnswers, RunTyped, ActTyped
  <2>4. RunTyped'
    <3>1. issued' \in 0..MaxRequests
      BY <2>1, DrawTypes DEF q
    <3>2. UNCHANGED <<stream, executed, failure, crashes>> /\ Finish("completed", "final_answer")
      BY <1>4 DEF ModelAnswers
    <3>. QED BY <2>1, <2>3, <3>1, <3>2, RecordTypes, TranscribeTypes
             DEF RunTyped, Finish, RunStates, Terminal
  <2>. QED BY <2>1, <2>2, <2>4, ReturnTypes
<1>5. CASE ModelRepeats(p)
  <2>1. issued' = issued + 1 /\ issued' \in Requests
    BY <1>5, Numbers DEF ModelRepeats, RunTyped, Requests
  <2>2. PICK q \in 0..MaxRequests : Propose(p, q, step[p] + 1, used[p])
    BY <1>1, <1>5, <2>1, Numbers DEF ModelRepeats
  <2>3. RecordStep(issued', 0) /\ UNCHANGED <<reason, ledgerVars, base, stream, historyVars, crashes>>
    BY <1>5 DEF ModelRepeats
  <2>4. ActTyped' /\ Named' /\ run' \in RunStates
    BY <1>1, <1>2, <2>2, <2>3, ProposeTypes DEF ActTyped
  <2>5. LedgerTyped'
    BY <2>3 DEF LedgerTyped, ledgerVars, historyVars
  <2>6. RunTyped'
    BY <2>1, <2>3, <2>4, RecordTypes, Numbers DEF RunTyped, historyVars
  <2>. QED BY <2>4, <2>5, <2>6
<1>6. ASSUME NEW n \in 1..2, ModelProposesBadly(p, n) PROVE TypeInv'
  <2>. DEFINE q == Drawn(p)
  <2>1. q \in Requests /\ Draw(p) /\ RecordStep(q, n)
    BY <1>6 DEF ModelProposesBadly, Consumable
  <2>2. /\ row' = [row EXCEPT ![q] = "invalid"] /\ Propose(p, cur[p], step[p] + 1, used[p])
        /\ UNCHANGED <<reason, decision, written, base, stream, historyVars, crashes>>
    BY <1>6 DEF ModelProposesBadly
  <2>3. issued' \in 0..MaxRequests
    BY <2>1, DrawTypes
  <2>. HIDE DEF q
  <2>4. ActTyped' /\ Named' /\ run' \in RunStates
    BY <1>1, <1>2, <2>2, ProposeTypes DEF ActTyped
  <2>5. LedgerTyped'
    BY <2>2 DEF LedgerTyped, historyVars, Rows
  <2>6. RunTyped'
    BY <2>1, <2>2, <2>3, <2>4, RecordTypes, Numbers DEF RunTyped, historyVars
  <2>. QED BY <2>4, <2>5, <2>6
<1>7. CASE ModelProposesGated(p)
  <2>. DEFINE q == Drawn(p)
  <2>1. q \in Requests /\ Draw(p) /\ RecordStep(q, 1) /\ Return(p)
    BY <1>7 DEF ModelProposesGated, Consumable
  <2>2. /\ row' = [row EXCEPT ![q] = "parked"] /\ decision' = [decision EXCEPT ![q] = "pending"]
        /\ run' = "awaiting_approval"
        /\ UNCHANGED <<reason, written, stream, historyVars, crashes>>
    BY <1>7 DEF ModelProposesGated
  <2>3. issued' \in 0..MaxRequests
    BY <2>1, DrawTypes
  <2>. HIDE DEF q
  <2>5. LedgerTyped'
    BY <2>2 DEF LedgerTyped, historyVars, Rows
  <2>6. RunTyped'
    BY <2>1, <2>2, <2>3, RecordTypes DEF RunTyped, historyVars, RunStates
  <2>. QED BY <2>1, <2>5, <2>6, ReturnTypes
<1>8. CASE ModelProposesFree(p)
  <2>. DEFINE q == Drawn(p)
  <2>1. q \in Requests /\ Draw(p)
    BY <1>8 DEF ModelProposesFree, Consumable
  <2>2. /\ row' = [row EXCEPT ![q] = "executing"] /\ run' = "executing"
        /\ pc' = [pc EXCEPT ![p] = "acting"] /\ cur' = [cur EXCEPT ![p] = q]
        /\ UNCHANGED <<reason, ids, iter, calls, decision, written, loopVars, base,
                       stream, historyVars, crashes>>
    BY <1>8 DEF ModelProposesFree
  <2>3. issued' \in 0..MaxRequests
    BY <2>1, DrawTypes
  <2>. HIDE DEF q
  <2>4. ActTyped' /\ Named'
    BY <1>2, <2>1, <2>2, Numbers DEF ActTyped, Named, loopVars, Labels
  <2>5. LedgerTyped'
    BY <2>2 DEF LedgerTyped, historyVars, Rows
  <2>6. RunTyped'
    BY <2>2, <2>3 DEF RunTyped, historyVars, RunStates
  <2>. QED BY <2>4, <2>5, <2>6
<1>. QED BY <1>3, <1>4, <1>5, <1>6, <1>7, <1>8 DEF ModelReplies

\* What the end of a planner's call writes is typed.
LEMMA CallTypes ==
    ASSUME AgentRunAssumption, TypeInv, NEW p \in Activations,
           CallReturns(p) \/ CallOutlastsTimeout(p) \/ CallThrows(p)
    PROVE  TypeInv'
<1>. USE DEF TypeInv
<1>1. cur[p] \in 0..MaxRequests /\ step[p] \in Nat /\ used[p] \in Nat
  BY DEF ActTyped
<1>2. \A o \in Activations : base[o] # NoRun => base[o].last \in Requests
  BY DEF Named
<1>3. CASE CallReturns(p)
  <2>1. cur[p] \in Requests
    BY <1>3 DEF CallReturns, Named
  <2>2. /\ row' = [row EXCEPT ![cur[p]] = "succeeded"] /\ executed' = executed + 1
        /\ RecordStep(cur[p], 1)
        /\ UNCHANGED <<reason, decision, written, base, stream, turns, continued,
                       forced, failure, crashes>>
    BY <1>3 DEF CallReturns
  <2>3. /\ issued' \in 0..MaxRequests
        /\ \E q \in 0..MaxRequests : Propose(p, q, step[p] + 1, used[p] + 1)
    <3>1. CASE KeepsId(p)
      <4>1. issued' \in 0..MaxRequests /\ Propose(p, issued', step[p] + 1, used[p] + 1)
        BY <1>3, <3>1, Numbers DEF CallReturns, RunTyped, AgentRunAssumption
      <4>. QED BY <4>1
    <3>2. CASE ~KeepsId(p)
      <4>1. UNCHANGED issued /\ Propose(p, cur[p], step[p] + 1, used[p] + 1)
        BY <1>3, <3>2 DEF CallReturns
      <4>. QED BY <1>1, <4>1 DEF RunTyped
    <3>. QED BY <3>1, <3>2
  <2>4. ActTyped' /\ Named' /\ run' \in RunStates
    BY <1>1, <1>2, <2>2, <2>3, ProposeTypes DEF ActTyped
  <2>5. LedgerTyped'
    BY <2>2 DEF LedgerTyped, Rows
  <2>6. RunTyped'
    BY <2>1, <2>2, <2>3, <2>4, RecordTypes DEF RunTyped
  <2>. QED BY <2>4, <2>5, <2>6
<1>4. CASE CallOutlastsTimeout(p)
  <2>1. cur[p] \in Requests
    BY <1>4 DEF CallOutlastsTimeout, Named
  <2>2. /\ row' = [row EXCEPT ![cur[p]] = "background"] /\ RecordStep(cur[p], 1)
        /\ Finish("completed", "final_answer") /\ Return(p)
        /\ UNCHANGED <<decision, written, stream, issued, historyVars, crashes>>
    BY <1>4 DEF CallOutlastsTimeout
  <2>3. LedgerTyped'
    BY <2>2 DEF LedgerTyped, Rows, historyVars
  <2>4. RunTyped'
    BY <2>1, <2>2, RecordTypes DEF RunTyped, Finish, RunStates, Terminal, historyVars
  <2>. QED BY <2>2, <2>3, <2>4, ReturnTypes
<1>5. CASE CallThrows(p)
  <2>1. Return(p)
    BY <1>5 DEF CallThrows
  <2>2. RunTyped' /\ LedgerTyped'
    BY <1>5 DEF CallThrows, RunTyped, LedgerTyped, Finish, RunStates, Terminal, ledgerVars
  <2>. QED BY <2>1, <2>2, ReturnTypes
<1>. QED BY <1>3, <1>4, <1>5

\* Mirroring a denial keeps the rows typed.
LEMMA MirrorTypes ==
    ASSUME NEW rw \in [Requests -> Rows], NEW q
    PROVE  Mirror(rw, q) \in [Requests -> Rows]
BY DEF Mirror, Rows

\* What a resume reads of the run at entry is typed.
LEMMA StoredTypes ==
    ASSUME AgentRunAssumption, TypeInv, NEW q \in Requests
    PROVE  /\ Stored(q) \in Bases
           /\ Stored(q) # NoRun => Stored(q).last \in Requests /\ Stored(q).state = run
<1>1. NoRun \in Bases
  BY Numbers DEF NoRun, Bases, RunStates, Terminal
<1>2. CASE \E i \in DOMAIN ids : ids[i] = q
  <2>1. ids[Len(ids)] \in Requests
    BY <1>2 DEF TypeInv, RunTyped
  <2>2. Stored(q) = [state |-> run, last |-> ids[Len(ids)]]
    BY <1>2 DEF Stored
  <2>. QED BY <2>1, <2>2, Numbers DEF Bases, TypeInv, RunTyped
<1>. QED BY <1>1, <1>2 DEF Stored

\* A waiting resume is typed, whatever it waits for.
LEMMA AwaitTypes ==
    ASSUME AgentRunAssumption, TypeInv, NEW p \in Activations, NEW t \in Requests,
           NEW label \in {"resuming", "settling", "answering"}, NEW b \in Bases,
           NEW state \in {run, "executing"}, b # NoRun => b.last \in Requests, Await(p, label, t, b, state)
    PROVE  ActTyped' /\ Named' /\ run' \in RunStates
<1>1. ActTyped'
  BY Numbers DEF TypeInv, RunTyped, ActTyped, Await, Labels
<1>2. Named'
  BY DEF TypeInv, ActTyped, Named, Await
<1>3. run' \in RunStates
  BY DEF TypeInv, RunTyped, Await, RunStates
<1>. QED BY <1>1, <1>2, <1>3

\* What renders a turn is typed.
LEMMA RenderedTypes ==
    ASSUME AgentRunAssumption, TypeInv, NEW p \in Activations, NEW b, NEW t, NEW rw,
           Rendered(p, b, t, rw)
    PROVE  /\ ActTyped' /\ Named' /\ run' \in RunStates
           /\ reason' \in {"none", "final_answer", "approval_denied", "turn_error", "cancelled"}
           /\ written' \in [Requests -> BOOLEAN] /\ turns' \in Nat
<1>1. Return(p)
  BY DEF Rendered
<1>2. written' \in [Requests -> BOOLEAN] /\ turns' \in Nat
  <2>1. Transcribe(t) \/ UNCHANGED <<written, turns>>
    BY DEF Rendered
  <2>. QED BY <2>1, TranscribeTypes DEF TypeInv, RunTyped, LedgerTyped
<1>3. /\ run' \in RunStates
      /\ reason' \in {"none", "final_answer", "approval_denied", "turn_error", "cancelled"}
  BY DEF Rendered, Finish, TypeInv, RunTyped, RunStates, Terminal
<1>. QED BY <1>1, <1>2, <1>3, ReturnTypes

\* The single-shot path of a resume is typed; its target is a request.
LEMMA LegacyTypes ==
    ASSUME AgentRunAssumption, TypeInv, NEW p \in Activations, NEW q \in Requests,
           NEW b \in Bases, b # NoRun => b.last \in Requests,
           NEW before \in [Requests -> Rows], NEW state \in {run, "executing"},
           Legacy(p, b, q, before, state)
    PROVE  /\ ActTyped' /\ Named' /\ run' \in RunStates
           /\ reason' \in {"none", "final_answer", "approval_denied", "turn_error", "cancelled"}
           /\ written' \in [Requests -> BOOLEAN] /\ turns' \in Nat
           /\ row' \in [Requests -> Rows]
<1>. DEFINE t == Target(b, q)
            rows == Mirror(before, t)
<1>1. t \in Requests
  <2>1. NoRun.state \notin Terminal
    BY DEF NoRun, Terminal
  <2>. QED BY <2>1 DEF Target
<1>2. rows \in [Requests -> Rows]
  BY MirrorTypes
<1>3. \/ /\ row' = [before EXCEPT ![t] = "executing"]
         /\ Await(p, "settling", t, b, state)
      \/ /\ row' = [rows EXCEPT ![t] = "answering"]
         /\ Await(p, "answering", t, b, state)
      \/ /\ row' = rows
         /\ Rendered(p, b, t, rows[t])
  BY DEF Legacy
<1>. HIDE DEF t, rows
<1>4. row' \in [Requests -> Rows]
  BY <1>1, <1>2, <1>3 DEF Rows
<1>5. ASSUME NEW label \in {"settling", "answering"}, Await(p, label, t, b, state)
      PROVE  /\ ActTyped' /\ Named' /\ run' \in RunStates /\ UNCHANGED <<reason, written, turns>>
  <2>1. UNCHANGED <<reason, written, turns>>
    BY <1>5 DEF Await
  <2>. QED BY <1>1, <1>5, <2>1, AwaitTypes
<1>6. CASE \E label \in {"settling", "answering"} : Await(p, label, t, b, state)
  BY <1>4, <1>5, <1>6 DEF TypeInv, RunTyped, LedgerTyped
<1>7. CASE Rendered(p, b, t, rows[t])
  BY <1>4, <1>7, RenderedTypes
<1>. QED BY <1>3, <1>6, <1>7

\* What a resume writes at entry is typed.
LEMMA ResumeTypes ==
    ASSUME AgentRunAssumption, TypeInv, NEW p \in Activations, NEW q \in Requests,
           ResumeExecutes(p, q) \/ ResumeContinues(p, q) \/ ResumeSettles(p, q)
    PROVE  TypeInv'
<1>. USE DEF TypeInv
<1>1. /\ Stored(q) \in Bases
      /\ Stored(q) # NoRun => Stored(q).last \in Requests
  BY StoredTypes
<1>2. Mirror(row, q) \in [Requests -> Rows]
  BY MirrorTypes DEF LedgerTyped
<1>3. CASE ResumeExecutes(p, q)
  <2>1. /\ row' = [row EXCEPT ![q] = "executing"] /\ Await(p, "resuming", q, Stored(q), Marked(Stored(q)))
        /\ UNCHANGED <<ids, iter, calls, decision, stream, issued, executed,
                       continued, forced, failure, crashes>>
    BY <1>3 DEF ResumeExecutes
  <2>2. UNCHANGED <<reason, written, turns>>
    BY <2>1 DEF Await
  <2>3. ActTyped' /\ Named' /\ run' \in RunStates
    BY <1>1, <2>1, AwaitTypes, MarkedIs
  <2>4. LedgerTyped'
    BY <2>1, <2>2 DEF LedgerTyped, Rows
  <2>5. RunTyped'
    BY <2>1, <2>2, <2>3 DEF RunTyped
  <2>. QED BY <2>3, <2>4, <2>5
<1>4. CASE ResumeContinues(p, q)
  <2>1. /\ row' = Mirror(row, q) /\ base' = [base EXCEPT ![p] = Stored(q)]
        /\ continued' = [continued EXCEPT ![q] = @ + 1] /\ Propose(p, q, iter, calls)
        /\ UNCHANGED <<reason, ids, iter, calls, decision, written, stream, issued,
                       executed, turns, forced, failure, crashes>>
    BY <1>4 DEF ResumeContinues
  <2>2. /\ base' \in [Activations -> Bases]
        /\ \A o \in Activations : base'[o] # NoRun => base'[o].last \in Requests
    BY <1>1, <2>1 DEF ActTyped, Named
  <2>3. ActTyped' /\ Named' /\ run' \in RunStates
    BY <2>1, <2>2, Numbers, ProposeTypes DEF RunTyped
  <2>4. LedgerTyped'
    BY <1>2, <2>1 DEF LedgerTyped
  <2>5. RunTyped'
    BY <2>1, <2>3 DEF RunTyped
  <2>. QED BY <2>3, <2>4, <2>5
<1>5. CASE ResumeSettles(p, q)
  <2>1. /\ Legacy(p, Stored(q), q, Mirror(row, q), Marked(Stored(q)))
        /\ UNCHANGED <<ids, iter, calls, decision, stream, issued, executed,
                       continued, forced, failure, crashes>>
    BY <1>5 DEF ResumeSettles
  <2>2. /\ ActTyped' /\ Named' /\ run' \in RunStates
        /\ reason' \in {"none", "final_answer", "approval_denied", "turn_error", "cancelled"}
        /\ written' \in [Requests -> BOOLEAN] /\ turns' \in Nat
        /\ row' \in [Requests -> Rows]
    BY <1>1, <1>2, <2>1, LegacyTypes, MarkedIs
  <2>. QED BY <2>1, <2>2 DEF TypeInv, RunTyped, LedgerTyped
<1>. QED BY <1>3, <1>4, <1>5

\* What the end of a resume's call writes is typed.
LEMMA SettlingTypes ==
    ASSUME AgentRunAssumption, TypeInv, NEW p \in Activations,
           ResumeReturns(p) \/ SettleReturns(p) \/ AnswerReturns(p)
    PROVE  TypeInv'
<1>. USE DEF TypeInv
<1>1. /\ cur[p] \in Requests /\ step[p] \in Nat /\ used[p] \in Nat
      /\ base[p] \in Bases
      /\ base[p] # NoRun => base[p].last \in Requests
  BY DEF ActTyped, Named, ResumeReturns, SettleReturns, AnswerReturns
<1>2. CASE ResumeReturns(p)
  <2>. DEFINE rows == [row EXCEPT ![cur[p]] = "succeeded"]
  <2>1. rows \in [Requests -> Rows]
    BY DEF LedgerTyped, Rows
  <2>2. /\ executed' = executed + 1
        /\ UNCHANGED <<ids, iter, calls, decision, stream, issued, forced, failure, crashes>>
    BY <1>2 DEF ResumeReturns
  <2>3. ASSUME row' = rows, continued' = [continued EXCEPT ![cur[p]] = @ + 1],
               Propose(p, cur[p], step[p], used[p]), UNCHANGED <<reason, base, written, turns>>
        PROVE  TypeInv'
    <3>1. ActTyped' /\ Named' /\ run' \in RunStates
      BY <1>1, <2>3, Numbers, ProposeTypes DEF ActTyped, Named
    <3>2. LedgerTyped'
      BY <2>1, <2>2, <2>3 DEF LedgerTyped
    <3>3. RunTyped'
      BY <2>2, <2>3, <3>1 DEF RunTyped
    <3>. QED BY <3>1, <3>2, <3>3
  <2>4. ASSUME Legacy(p, base[p], cur[p], rows, run), UNCHANGED continued PROVE TypeInv'
    <3>. HIDE DEF rows, TypeInv
    <3>1. /\ ActTyped' /\ Named' /\ run' \in RunStates
          /\ reason' \in {"none", "final_answer", "approval_denied", "turn_error", "cancelled"}
          /\ written' \in [Requests -> BOOLEAN] /\ turns' \in Nat
          /\ row' \in [Requests -> Rows]
      BY <1>1, <2>1, <2>4, LegacyTypes
    <3>2. RunTyped' /\ LedgerTyped'
      BY <2>2, <2>4, <3>1 DEF TypeInv, RunTyped, LedgerTyped
    <3>. QED BY <3>1, <3>2 DEF TypeInv
  <2>. QED BY <1>2, <2>3, <2>4 DEF ResumeReturns
<1>3. CASE SettleReturns(p)
  <2>1. /\ row' = [row EXCEPT ![cur[p]] = "answering"] /\ executed' = executed + 1
        /\ pc' = [pc EXCEPT ![p] = "answering"]
        /\ UNCHANGED <<runVars, decision, written, loopVars, cur, base, stream,
                       issued, turns, continued, forced, failure, crashes>>
    BY <1>3 DEF SettleReturns
  <2>2. LedgerTyped'
    BY <2>1 DEF LedgerTyped, Rows
  <2>3. RunTyped'
    BY <2>1 DEF RunTyped, runVars
  <2>4. ActTyped' /\ Named'
    BY <1>1, <2>1 DEF ActTyped, Named, Labels, loopVars
  <2>. QED BY <2>2, <2>3, <2>4
<1>4. CASE AnswerReturns(p)
  <2>1. /\ row' = [row EXCEPT ![cur[p]] = "answered"]
        /\ Rendered(p, base[p], cur[p], "answered")
        /\ UNCHANGED <<ids, iter, calls, decision, stream, issued, executed,
                       continued, forced, failure, crashes>>
    BY <1>4 DEF AnswerReturns
  <2>2. row' \in [Requests -> Rows]
    BY <2>1 DEF LedgerTyped, Rows
  <2>. QED BY <2>1, <2>2, RenderedTypes DEF RunTyped, LedgerTyped
<1>. QED BY <1>2, <1>3, <1>4

\* So is what the user, the process and the start of a turn write.
LEMMA OtherTypes ==
    ASSUME AgentRunAssumption, TypeInv,
           \/ \E q \in Requests : BackgroundReturns(q) \/ \E d \in {"approved", "denied"} : Decide(q, d)
           \/ CancelRun \/ Crash \/ StartTurn \/ UNCHANGED vars
    PROVE  TypeInv'
<1>. USE DEF TypeInv
<1>1. CASE \E q \in Requests : BackgroundReturns(q) \/ \E d \in {"approved", "denied"} : Decide(q, d)
  <2>1. RunTyped' /\ ActTyped' /\ Named'
    BY <1>1 DEF BackgroundReturns, Decide, RunTyped, ActTyped, Named,
                runVars, loopVars, actVars, historyVars
  <2>2. PICK q \in Requests : BackgroundReturns(q) \/ \E d \in {"approved", "denied"} : Decide(q, d)
    BY <1>1
  <2>3. CASE BackgroundReturns(q)
    <3>1. LedgerTyped'
      BY <2>3 DEF BackgroundReturns, LedgerTyped, Rows
    <3>. QED BY <2>1, <3>1
  <2>4. CASE \E d \in {"approved", "denied"} : Decide(q, d)
    <3>1. PICK d \in {"approved", "denied"} : Decide(q, d)
      BY <2>4
    <3>2. LedgerTyped'
      BY <3>1 DEF Decide, LedgerTyped, historyVars
    <3>. QED BY <2>1, <3>2
  <2>. QED BY <2>2, <2>3, <2>4
<1>2. CASE CancelRun
  BY <1>2 DEF CancelRun, Finish, RunTyped, LedgerTyped, ActTyped, Named, RunStates, Terminal,
              ledgerVars, loopVars, actVars, historyVars
<1>3. CASE Crash
  <2>1. ActTyped' /\ Named'
    <3>1. NoRun \in Bases
      BY Numbers DEF NoRun, Bases, RunStates, Terminal
    <3>. QED BY <1>3, <3>1, Numbers DEF Crash, ActTyped, Named, Labels
  <2>2. LedgerTyped'
    BY <1>3 DEF Crash, LedgerTyped, Rows, historyVars
  <2>3. RunTyped'
    BY <1>3, AgentRunAssumption DEF Crash, RunTyped, historyVars, runVars, AgentRunAssumption
  <2>. QED BY <2>1, <2>2, <2>3
<1>4. CASE StartTurn
  <2>1. issued' \in 0..MaxRequests /\ Driver \in Activations
    BY <1>4 DEF StartTurn, AgentRunAssumption, Activations
  <2>2. ActTyped' /\ Named' /\ run' \in RunStates
    BY <1>4, <2>1, ProposeTypes DEF StartTurn, ActTyped, Named
  <2>. QED BY <1>4, <2>1, <2>2 DEF StartTurn, RunTyped, LedgerTyped, ledgerVars, historyVars
<1>5. CASE UNCHANGED vars
  BY <1>5 DEF vars, RunTyped, LedgerTyped, ActTyped, Named, runVars, ledgerVars, loopVars,
              actVars, historyVars
<1>. QED BY <1>1, <1>2, <1>3, <1>4, <1>5

LEMMA TypeStep == ASSUME AgentRunAssumption, TypeInv, [Next]_vars PROVE TypeInv'
<1>1. ASSUME NEW p \in Activations, Proceed(p) PROVE TypeInv'
  BY <1>1, ReplyTypes, CallTypes, SettlingTypes DEF Proceed
<1>2. ASSUME NEW p \in Resumers, NEW q \in Requests,
             ResumeExecutes(p, q) \/ ResumeContinues(p, q) \/ ResumeSettles(p, q)
      PROVE  TypeInv'
  BY <1>2, ResumeTypes DEF Activations
<1>. QED BY <1>1, <1>2, OtherTypes DEF Next

\* Columns and labels have their types, and the iteration count is the number of
\* recorded requests.
THEOREM TypeCorrect == Spec => []TypeOK
<1>1. Init => TypeInv
  BY TypeInit, AgentRunAssumption
<1>2. TypeInv /\ [Next]_vars => TypeInv'
  BY TypeStep, AgentRunAssumption
<1>3. TypeInv => TypeOK
  BY DEF TypeInv, RunTyped, LedgerTyped, ActTyped, TypeOK, Bases
<1>. QED BY <1>1, <1>2, <1>3, PTL DEF Spec

-----------------------------------------------------------------------------
(* what a run has spent: the tools it ran, and those it may still run *)

Pends(state) == state \in {"parked", "executing", "background"}
Open(rw) == Cardinality({q \in Requests : Pends(rw[q])})
Spent == executed + Open(row)

\* There are finitely many requests.
LEMMA FewRequests == ASSUME AgentRunAssumption PROVE IsFiniteSet(Requests)
<1>1. 1 \in Int /\ MaxRequests \in Int
  BY DEF AgentRunAssumption
<1>. QED BY <1>1, FS_Interval DEF Requests

\* The open requests are counted; fewer of them count less, one more counts one.
LEMMA OpenIsNat == ASSUME AgentRunAssumption, NEW rw PROVE Open(rw) \in Nat
<1>1. IsFiniteSet(Requests)
  BY FewRequests
<1>2. IsFiniteSet({q \in Requests : Pends(rw[q])})
  BY <1>1, FS_Subset
<1>. QED BY <1>2, FS_CardinalityType DEF Open

LEMMA OpenShrinks ==
    ASSUME AgentRunAssumption, NEW rw, NEW later,
           \A q \in Requests : Pends(later[q]) => Pends(rw[q])
    PROVE  Open(later) <= Open(rw)
<1>. DEFINE A == {q \in Requests : Pends(rw[q])}
            B == {q \in Requests : Pends(later[q])}
<1>1. IsFiniteSet(Requests)
  BY FewRequests
<1>2. IsFiniteSet(A) /\ B \subseteq A
  BY <1>1, FS_Subset
<1>. QED BY <1>2, FS_Subset DEF Open

LEMMA OpenTakes ==
    ASSUME AgentRunAssumption, NEW rw, NEW later, NEW q \in Requests,
           ~Pends(rw[q]), Pends(later[q]), \A o \in Requests \ {q} : later[o] = rw[o]
    PROVE  Open(later) = Open(rw) + 1
<1>. DEFINE A == {o \in Requests : Pends(rw[o])}
            B == {o \in Requests : Pends(later[o])}
<1>1. IsFiniteSet(Requests)
  BY FewRequests
<1>2. IsFiniteSet(A) /\ q \notin A
  BY <1>1, FS_Subset
<1>3. B = A \cup {q}
  OBVIOUS
<1>. QED BY <1>2, <1>3, FS_AddElement DEF Open

-----------------------------------------------------------------------------
(* a call under way owns its row *)

Busy(p) == pc[p] \in {"acting", "resuming", "settling"}

Told == {"answering", "answered"}

\* A call under way holds an executing row, which is no other's; one that
\* answers has stored that it does.
OwnCalls ==
    /\ \A p \in Activations : Busy(p) => cur[p] \in Requests /\ row[cur[p]] = "executing"
    /\ \A p \in Activations : pc[p] = "answering" => row[cur[p]] \in Told
    /\ \A p, o \in Activations : Busy(p) /\ Busy(o) /\ cur[p] = cur[o] => p = o

\* Executing rows stay so, but for mine, and an answer is not taken back.
Keeps(rw, later, mine) ==
    \A r \in Requests :
      /\ rw[r] = "executing" => later[r] = "executing" \/ r \in mine
      /\ rw[r] \in Told => later[r] \in Told

\* A step of p takes no row from a call but p's own, and p enters a call only on
\* a row that nobody holds.
Polite(p) ==
    /\ \A o \in Activations \ {p} : pc'[o] = pc[o] /\ cur'[o] = cur[o]
    /\ Keeps(row, row', {}) \/ (Busy(p) /\ Keeps(row, row', {cur[p]}))
    /\ Busy(p)' =>
         /\ cur'[p] \in Requests /\ row'[cur'[p]] = "executing"
         /\ row[cur'[p]] # "executing" \/ (Busy(p) /\ cur'[p] = cur[p])
    /\ pc'[p] = "answering" => row'[cur'[p]] \in Told

LEMMA PoliteOwns ==
    ASSUME TypeInv, OwnCalls, NEW p \in Activations, Polite(p)
    PROVE  OwnCalls'
<1>1. ASSUME NEW o \in Activations, Busy(o)', o # p
      PROVE  Busy(o) /\ cur'[o] = cur[o] /\ row'[cur[o]] = "executing"
  <2>1. Busy(o) /\ cur'[o] = cur[o]
    BY <1>1 DEF Polite, Busy
  <2>. QED BY <1>1, <2>1 DEF Polite, OwnCalls, Keeps
<1>2. ASSUME NEW o \in Activations, Busy(o)', o # p, Busy(p)'
      PROVE  cur'[o] # cur'[p]
  BY <1>1, <1>2 DEF Polite, OwnCalls
<1>3. ASSUME NEW a \in Activations, NEW o \in Activations, Busy(a)', Busy(o)', cur'[a] = cur'[o]
      PROVE  a = o
  BY <1>1, <1>2, <1>3 DEF OwnCalls
<1>4. \A o \in Activations : Busy(o)' => cur'[o] \in Requests /\ row'[cur'[o]] = "executing"
  BY <1>1 DEF Polite, OwnCalls
<1>5. ASSUME NEW o \in Activations, pc'[o] = "answering", o # p PROVE row'[cur'[o]] \in Told
  <2>1. pc[o] = "answering" /\ cur'[o] = cur[o] /\ cur[o] \in Requests
    BY <1>5 DEF Polite, TypeInv, Named
  <2>. QED BY <2>1 DEF Polite, OwnCalls, Keeps
<1>6. \A o \in Activations : pc'[o] = "answering" => row'[cur'[o]] \in Told
  BY <1>5 DEF Polite
<1>. QED BY <1>3, <1>4, <1>6 DEF OwnCalls

-----------------------------------------------------------------------------
(* the invariant of the budget *)

\* The rounds a run records, and the planner's loop counter.
Rounds ==
    /\ iter <= MaxIterations + 1
    /\ run = "awaiting_approval" => iter <= MaxIterations
    /\ run = "none" => iter = 0
    /\ \A p \in Activations : Planning(p) =>
         /\ step[p] = iter /\ iter <= MaxIterations
         /\ pc[p] = "acting" \/ (pc[p] = "thinking" /\ ~final[p]) => iter < MaxIterations

\* A parked run has counted what it spent, and a planner knows it; a call in
\* flight is counted when it returns.
ToolUse ==
    /\ Spent <= MaxToolSteps
    /\ run = "awaiting_approval" => Spent <= calls
    /\ run = "none" => calls = 0 /\ Spent = 0
    /\ \A p \in Activations : Planning(p) =>
         /\ used[p] <= calls
         /\ pc[p] = "acting" => Spent <= used[p] + 1
         /\ pc[p] # "acting" => Spent <= used[p]
         /\ pc[p] = "thinking" /\ ~final[p] => used[p] < MaxToolSteps

Budget == Rounds /\ ToolUse

\* The columns of every activation but p are as they were.
Others(p) ==
    \A o \in Activations \ {p} :
      pc'[o] = pc[o] /\ base'[o] = base[o] /\ step'[o] = step[o] /\ used'[o] = used[o]
      /\ final'[o] = final[o] /\ cur'[o] = cur[o]

\* What is counted is a natural number, before and after a step.
LEMMA Amounts ==
    ASSUME AgentRunAssumption, TypeInv, TypeInv'
    PROVE  /\ Open(row) \in Nat /\ Open(row') \in Nat /\ executed \in Nat /\ executed' \in Nat
           /\ Spent \in Nat /\ Spent' \in Nat
           /\ iter \in Nat /\ iter' \in Nat /\ calls \in Nat /\ calls' \in Nat
           /\ MaxIterations \in Nat /\ MaxToolSteps \in Nat
           /\ \A p \in Activations : step[p] \in Nat /\ used[p] \in Nat
<1>1. Open(row) \in Nat /\ Open(row') \in Nat
  BY OpenIsNat
<1>2. executed \in Nat /\ executed' \in Nat
  BY DEF TypeInv, RunTyped
<1>3. Spent \in Nat /\ Spent' \in Nat
  BY <1>1, <1>2 DEF Spent
<1>4. /\ iter \in Nat /\ iter' \in Nat /\ calls \in Nat /\ calls' \in Nat
      /\ MaxIterations \in Nat /\ MaxToolSteps \in Nat
  BY DEF TypeInv, RunTyped, AgentRunAssumption
<1>5. \A p \in Activations : step[p] \in Nat /\ used[p] \in Nat
  BY DEF TypeInv, ActTyped
<1>. QED BY <1>1, <1>2, <1>3, <1>4, <1>5

\* A step by which nobody spends or counts anything.
LEMMA NobodySpends ==
    ASSUME AgentRunAssumption, TypeInv, TypeInv', Budget, NEW p \in Activations, Others(p),
           run # "none", run' # "none", run' = "awaiting_approval" => run = "awaiting_approval",
           Spent' <= Spent, UNCHANGED <<iter, calls>>, ~Planning(p)'
    PROVE  Budget'
<1>1. Spent \in Nat /\ Spent' \in Nat
  BY Amounts
<1>2. \A o \in Activations : Planning(o)' =>
         Planning(o) /\ pc'[o] = pc[o] /\ step'[o] = step[o] /\ used'[o] = used[o] /\ final'[o] = final[o]
  BY DEF Others, Planning
<1>3. Rounds'
  <2>1. ASSUME NEW o \in Activations, Planning(o)'
        PROVE  /\ step'[o] = iter' /\ iter' <= MaxIterations
               /\ pc'[o] = "acting" \/ (pc'[o] = "thinking" /\ ~final'[o]) => iter' < MaxIterations
    BY <1>2, <2>1 DEF Budget, Rounds
  <2>. QED BY <2>1 DEF Budget, Rounds
<1>4. ToolUse'
  <2>1. ASSUME NEW o \in Activations, Planning(o)'
        PROVE  /\ used'[o] <= calls'
               /\ pc'[o] = "acting" => Spent' <= used'[o] + 1
               /\ pc'[o] # "acting" => Spent' <= used'[o]
               /\ pc'[o] = "thinking" /\ ~final'[o] => used'[o] < MaxToolSteps
    <3>1. used[o] \in Nat
      BY DEF TypeInv, ActTyped
    <3>. HIDE DEF Spent
    <3>. QED BY <1>1, <1>2, <2>1, <3>1 DEF Budget, ToolUse
  <2>2. Spent' <= MaxToolSteps /\ (run' = "awaiting_approval" => Spent' <= calls')
    BY <1>1 DEF Budget, ToolUse, TypeInv, RunTyped, AgentRunAssumption
  <2>. QED BY <2>1, <2>2 DEF ToolUse
<1>. QED BY <1>3, <1>4 DEF Budget

\* The planner goes on.
LEMMA PlannerGoesOn ==
    ASSUME NEW p \in Activations, OnePlanner', Planning(p)', run' # "none",
           step'[p] = iter', iter' <= MaxIterations, iter' \in Nat,
           pc'[p] = "acting" \/ (pc'[p] = "thinking" /\ ~final'[p]) => iter' < MaxIterations,
           Spent' <= MaxToolSteps, used'[p] <= calls',
           pc'[p] = "acting" => Spent' <= used'[p] + 1,
           pc'[p] # "acting" => Spent' <= used'[p],
           pc'[p] = "thinking" /\ ~final'[p] => used'[p] < MaxToolSteps,
           AgentRunAssumption
    PROVE  Budget'
<1>1. run' # "awaiting_approval" /\ \A o \in Activations : Planning(o)' => o = p
  BY DEF OnePlanner
<1>2. Rounds'
  BY <1>1 DEF Rounds, AgentRunAssumption
<1>3. ToolUse'
  BY <1>1 DEF ToolUse
<1>. QED BY <1>2, <1>3 DEF Budget

\* The planner parks the run or ends it.
LEMMA PlannerStops ==
    ASSUME AgentRunAssumption, NEW p \in Activations, OnePlanner, Planning(p), Others(p),
           ~Planning(p)', run' # "none", iter' \in Nat,
           iter' <= MaxIterations + 1, Spent' <= MaxToolSteps,
           run' = "awaiting_approval" => iter' <= MaxIterations /\ Spent' <= calls'
    PROVE  Budget'
<1>1. \A o \in Activations : ~Planning(o)'
  BY DEF OnePlanner, Others, Planning
<1>. QED BY <1>1 DEF Budget, Rounds, ToolUse

-----------------------------------------------------------------------------
(* what each way to end a segment does to its activation *)

LEMMA ReturnDoes ==
    ASSUME TypeInv, NEW p \in Activations, Return(p)
    PROVE  Others(p) /\ pc'[p] = "idle" /\ ~Planning(p)' /\ ~Busy(p)'
BY DEF TypeInv, ActTyped, Return, Others, Planning, Busy

LEMMA ProposeDoes ==
    ASSUME AgentRunAssumption, TypeInv, NEW p \in Activations, NEW q, NEW n \in Nat, NEW u \in Nat,
           Propose(p, q, n, u), \A o \in Activations \ {p} : base'[o] = base[o]
    PROVE  /\ Others(p) /\ pc'[p] = "thinking" /\ Planning(p)' /\ ~Busy(p)' /\ run' = "reasoning"
           /\ step'[p] = n /\ used'[p] = u
           /\ ~final'[p] => n < MaxIterations /\ u < MaxToolSteps
<1>1. /\ Others(p) /\ pc'[p] = "thinking" /\ run' = "reasoning"
      /\ step'[p] = n /\ used'[p] = u
  BY DEF TypeInv, ActTyped, Propose, Others
<1>2. ASSUME ~final'[p] PROVE n < MaxIterations /\ u < MaxToolSteps
  <2>1. PICK late \in BOOLEAN : final' = [final EXCEPT ![p] = BoundReached(n, u) \/ late]
    BY DEF Propose
  <2>2. ~BoundReached(n, u)
    BY <1>2, <2>1 DEF TypeInv, ActTyped
  <2>. QED BY <2>2 DEF BoundReached, AgentRunAssumption
<1>. QED BY <1>1, <1>2 DEF Planning, Busy

LEMMA AwaitDoes ==
    ASSUME TypeInv, NEW p \in Activations, NEW label, NEW t, NEW b, NEW state,
           Await(p, label, t, b, state)
    PROVE  /\ Others(p) /\ pc'[p] = label /\ cur'[p] = t /\ base'[p] = b
           /\ step'[p] = iter /\ used'[p] = calls
BY DEF TypeInv, ActTyped, Await, Others

\* A mirrored denial takes no executing row, and opens none.
LEMMA MirrorDoes ==
    ASSUME AgentRunAssumption, NEW rw \in [Requests -> Rows], NEW q
    PROVE  /\ Open(Mirror(rw, q)) <= Open(rw)
           /\ Keeps(rw, Mirror(rw, q), {})
<1>1. ASSUME NEW r \in Requests
      PROVE  /\ Mirror(rw, q)[r] = rw[r] \/ (rw[r] = "parked" /\ Mirror(rw, q)[r] = "denied")
  BY DEF Mirror
<1>2. \A r \in Requests : Pends(Mirror(rw, q)[r]) => Pends(rw[r])
  BY <1>1 DEF Pends
<1>3. Keeps(rw, Mirror(rw, q), {})
  BY <1>1 DEF Keeps, Told
<1>. QED BY <1>2, <1>3, OpenShrinks

\* The single-shot path may run a parked request, and opens none.
LEMMA LegacyDoes ==
    ASSUME AgentRunAssumption, TypeInv, NEW p \in Activations, NEW q \in Requests,
           NEW b \in Bases, b # NoRun => b.last \in Requests,
           NEW before \in [Requests -> Rows], NEW state \in {run, "executing"},
           Legacy(p, b, q, before, state)
    PROVE  /\ Others(p) /\ ~Planning(p)'
           /\ Keeps(before, row', {})
           /\ Open(row') <= Open(before)
           /\ Busy(p)' => /\ cur'[p] \in Requests /\ row'[cur'[p]] = "executing"
                          /\ before[cur'[p]] # "executing"
           /\ pc'[p] = "answering" => row'[cur'[p]] \in Told
           /\ run' \in {run, "executing", "failed", "completed"}
<1>. DEFINE t == Target(b, q)
            rows == Mirror(before, t)
<1>1. t \in Requests
  <2>1. NoRun.state \notin Terminal
    BY DEF NoRun, Terminal
  <2>. QED BY <2>1 DEF Target
<1>2. rows \in [Requests -> Rows]
  BY MirrorTypes
<1>3. /\ Open(rows) <= Open(before)
      /\ Keeps(before, rows, {})
  BY MirrorDoes
<1>4. Open(rows) \in Nat /\ Open(before) \in Nat /\ Open(row') \in Nat
  BY OpenIsNat
<1>5. CASE /\ before[t] = "parked"
           /\ row' = [before EXCEPT ![t] = "executing"] /\ Await(p, "settling", t, b, state)
  <2>1. \A r \in Requests : Pends(row'[r]) => Pends(before[r])
    BY <1>5 DEF Pends
  <2>2. Open(row') <= Open(before)
    BY <2>1, OpenShrinks
  <2>3. Others(p) /\ pc'[p] = "settling" /\ cur'[p] = t
    BY <1>5, AwaitDoes
  <2>4. run' \in {run, "executing"}
    BY <1>5 DEF Await
  <2>. HIDE DEF t, rows
  <2>5. ~Planning(p)'
    BY <2>3 DEF Planning
  <2>6. Keeps(before, row', {})
    BY <1>5 DEF Keeps, Told
  <2>. QED BY <1>1, <1>5, <2>2, <2>3, <2>4, <2>5, <2>6
<1>6. CASE /\ rows[t] = "succeeded"
           /\ row' = [rows EXCEPT ![t] = "answering"] /\ Await(p, "answering", t, b, state)
  <2>. HIDE DEF t, rows
  <2>1. \A r \in Requests : Pends(row'[r]) => Pends(rows[r])
    BY <1>2, <1>6 DEF Pends
  <2>2. Open(row') <= Open(before)
    BY <1>3, <1>4, <2>1, OpenShrinks
  <2>3. Others(p) /\ pc'[p] = "answering" /\ cur'[p] = t /\ run' \in {run, "executing"}
    BY <1>6, AwaitDoes DEF Await
  <2>4. ~Planning(p)' /\ ~Busy(p)'
    BY <2>3 DEF Planning, Busy
  <2>5. Keeps(before, row', {})
    BY <1>2, <1>3, <1>6 DEF Keeps, Told
  <2>6. row'[t] \in Told
    BY <1>1, <1>2, <1>6 DEF Told
  <2>. QED BY <2>2, <2>3, <2>4, <2>5, <2>6
<1>7. CASE row' = rows /\ Rendered(p, b, t, rows[t])
  <2>1. Return(p) /\ run' \in {run, "failed", "completed"}
    BY <1>7 DEF Rendered, Finish
  <2>. QED BY <1>3, <1>7, <2>1, ReturnDoes
<1>. QED BY <1>5, <1>6, <1>7 DEF Legacy, Executes

-----------------------------------------------------------------------------
\* The ledger of a run and its budget, with what they rest on.
BudgetInv == TypeInv /\ PlannerInv /\ OwnCalls /\ Budget

\* What a row becomes that was absent: spent only if it may run.
LEMMA Registers ==
    ASSUME AgentRunAssumption, TypeInv, NEW q \in Requests, row[q] = "absent", NEW s,
           row' = [row EXCEPT ![q] = s], UNCHANGED executed
    PROVE  /\ Keeps(row, row', {})
           /\ ~Pends(s) => Spent' <= Spent
           /\ Pends(s) => Spent' = Spent + 1
<1>1. /\ row'[q] = s /\ \A o \in Requests \ {q} : row'[o] = row[o]
      /\ ~Pends(row[q])
  BY DEF TypeInv, LedgerTyped, Pends
<1>2. Open(row) \in Nat /\ Open(row') \in Nat /\ executed \in Nat
  BY OpenIsNat DEF TypeInv, RunTyped
<1>3. ~Pends(s) => Open(row') <= Open(row)
  BY <1>1, OpenShrinks
<1>4. Pends(s) => Open(row') = Open(row) + 1
  BY <1>1, OpenTakes
<1>5. Keeps(row, row', {})
  BY <1>1 DEF Keeps, Told
<1>. QED BY <1>2, <1>3, <1>4, <1>5 DEF Spent

\* A reply of the model spends within what the head of the loop allowed.
LEMMA ReplySpends ==
    ASSUME AgentRunAssumption, BudgetInv, TypeInv', OnePlanner', NEW p \in Activations, ModelReplies(p)
    PROVE  OwnCalls' /\ Budget'
<1>1. pc[p] = "thinking" /\ Planning(p) /\ ~Busy(p) /\ run # "none"
  BY DEF ModelReplies, ModelFails, ConsumeConflicts, ModelAnswers, ModelRepeats,
         ModelProposesGated, ModelProposesFree, ModelProposesBadly, Consumable,
         BudgetInv, PlannerInv, Untouched, Planning, Busy
<1>2. /\ iter \in Nat /\ calls \in Nat /\ step[p] \in Nat /\ used[p] \in Nat /\ Spent \in Nat
      /\ iter' \in Nat /\ calls' \in Nat
      /\ MaxIterations \in Nat /\ MaxToolSteps \in Nat
  BY Amounts DEF BudgetInv
<1>3. /\ step[p] = iter /\ iter <= MaxIterations /\ (~final[p] => iter < MaxIterations)
      /\ used[p] <= calls /\ Spent <= used[p] /\ (~final[p] => used[p] < MaxToolSteps)
      /\ Spent <= MaxToolSteps
  BY <1>1 DEF BudgetInv, Budget, Rounds, ToolUse
<1>. HIDE DEF Spent
<1>4. ASSUME Others(p), ~Busy(p)', pc'[p] # "answering", Keeps(row, row', {})
      PROVE  OwnCalls'
  BY <1>4, PoliteOwns DEF BudgetInv, Polite, Others
<1>5. ASSUME Return(p), run' # "none", iter' <= MaxIterations + 1, Spent' <= MaxToolSteps,
             run' = "awaiting_approval" => iter' <= MaxIterations /\ Spent' <= calls'
      PROVE  Budget'
  BY <1>1, <1>2, <1>5, ReturnDoes, PlannerStops DEF BudgetInv, PlannerInv
<1>6. CASE ModelFails(p) \/ ConsumeConflicts(p)
  <2>1. /\ Return(p) /\ UNCHANGED <<iter, calls, row, executed>>
        /\ run' \in {"failed", "cancelled"}
    BY <1>6 DEF ModelFails, ConsumeConflicts, Finish, ledgerVars
  <2>2. Spent' = Spent /\ Keeps(row, row', {})
    BY <2>1 DEF Spent, Keeps
  <2>3. OwnCalls'
    BY <1>4, <2>1, <2>2, ReturnDoes DEF BudgetInv
  <2>. QED BY <1>2, <1>3, <1>5, <2>1, <2>2, <2>3
<1>7. CASE ModelAnswers(p)
  <2>. DEFINE q == Drawn(p)
  <2>1. /\ Return(p) /\ UNCHANGED <<calls, executed>> /\ iter' = iter + 1
        /\ run' = "completed"
        /\ q \in Requests /\ row[q] = "absent" /\ row' = [row EXCEPT ![q] = "closed"]
    BY <1>2, <1>7 DEF ModelAnswers, Finish, RecordStep, Consumable
  <2>. HIDE DEF q
  <2>2. Spent' <= Spent /\ Keeps(row, row', {})
    <3>1. ~Pends("closed")
      BY DEF Pends
    <3>. QED BY <2>1, <3>1, Registers DEF BudgetInv
  <2>3. Spent' \in Nat
    BY Amounts DEF BudgetInv
  <2>4. OwnCalls'
    BY <1>4, <2>1, <2>2, ReturnDoes DEF BudgetInv
  <2>. QED BY <1>2, <1>3, <1>5, <2>1, <2>2, <2>3, <2>4
<1>8. CASE ModelProposesGated(p)
  <2>. DEFINE q == Drawn(p)
  <2>1. /\ Return(p) /\ UNCHANGED executed /\ iter' = iter + 1 /\ calls' = calls + 1
        /\ run' = "awaiting_approval" /\ ~final[p]
        /\ q \in Requests /\ row[q] = "absent" /\ row' = [row EXCEPT ![q] = "parked"]
    BY <1>8 DEF ModelProposesGated, RecordStep, Consumable, historyVars
  <2>. HIDE DEF q
  <2>2. Spent' = Spent + 1 /\ Keeps(row, row', {})
    BY <2>1, Registers DEF BudgetInv, Pends
  <2>3. OwnCalls'
    BY <1>4, <2>1, <2>2, ReturnDoes DEF BudgetInv
  <2>. QED BY <1>2, <1>3, <1>5, <2>1, <2>2, <2>3
<1>9. ASSUME NEW q, ~final[p], Propose(p, q, step[p] + 1, used[p]), UNCHANGED base,
             iter' = iter + 1, calls <= calls', Spent' <= Spent,
             Keeps(row, row', {})
      PROVE  OwnCalls' /\ Budget'
  <2>1. /\ Others(p) /\ pc'[p] = "thinking" /\ Planning(p)' /\ ~Busy(p)' /\ run' = "reasoning"
        /\ step'[p] = step[p] + 1 /\ used'[p] = used[p]
        /\ ~final'[p] => step[p] + 1 < MaxIterations /\ used[p] < MaxToolSteps
    BY <1>2, <1>9, ProposeDoes DEF BudgetInv
  <2>2. Spent' \in Nat
    BY Amounts DEF BudgetInv
  <2>3. Budget'
    BY <1>2, <1>3, <1>9, <2>1, <2>2, PlannerGoesOn
  <2>. QED BY <1>4, <1>9, <2>1, <2>3
<1>10. CASE ModelRepeats(p)
  <2>1. /\ ~final[p] /\ iter' = iter + 1 /\ calls' = calls + 0 /\ UNCHANGED <<row, executed, base>>
        /\ \E q : Propose(p, q, step[p] + 1, used[p])
    BY <1>10 DEF ModelRepeats, RecordStep, ledgerVars, historyVars
  <2>2. Spent' = Spent /\ Keeps(row, row', {})
    BY <2>1 DEF Spent, Keeps
  <2>. QED BY <1>2, <1>9, <2>1, <2>2
<1>11. ASSUME NEW n \in 1..2, ModelProposesBadly(p, n) PROVE OwnCalls' /\ Budget'
  <2>. DEFINE q == Drawn(p)
  <2>1. /\ ~final[p] /\ iter' = iter + 1 /\ calls' = calls + n /\ UNCHANGED <<executed, base>>
        /\ Propose(p, cur[p], step[p] + 1, used[p])
        /\ q \in Requests /\ row[q] = "absent" /\ row' = [row EXCEPT ![q] = "invalid"]
    BY <1>11 DEF ModelProposesBadly, RecordStep, historyVars, Consumable
  <2>. HIDE DEF q
  <2>2. Spent' <= Spent /\ Keeps(row, row', {})
    <3>1. ~Pends("invalid")
      BY DEF Pends
    <3>. QED BY <2>1, <3>1, Registers DEF BudgetInv
  <2>. QED BY <1>2, <1>9, <2>1, <2>2
<1>12. CASE ModelProposesFree(p)
  <2>. DEFINE q == Drawn(p)
  <2>1. /\ ~final[p] /\ UNCHANGED <<iter, calls, executed, base, step, used, final>>
        /\ pc' = [pc EXCEPT ![p] = "acting"] /\ cur' = [cur EXCEPT ![p] = q] /\ run' = "executing"
        /\ q \in Requests /\ row[q] = "absent" /\ row' = [row EXCEPT ![q] = "executing"]
    BY <1>12 DEF ModelProposesFree, loopVars, historyVars, Consumable
  <2>. HIDE DEF q
  <2>2. Spent' = Spent + 1 /\ Keeps(row, row', {})
    BY <2>1, Registers DEF BudgetInv, Pends
  <2>3. Others(p) /\ pc'[p] = "acting" /\ cur'[p] = q /\ row'[q] = "executing" /\ Planning(p)'
    BY <2>1 DEF BudgetInv, TypeInv, ActTyped, LedgerTyped, Others, Planning
  <2>4. OwnCalls'
    BY <2>1, <2>2, <2>3, PoliteOwns DEF BudgetInv, Polite, Others
  <2>5. Budget'
    BY <1>2, <1>3, <2>1, <2>2, <2>3, PlannerGoesOn
  <2>. QED BY <2>4, <2>5
<1>. QED BY <1>6, <1>7, <1>8, <1>10, <1>11, <1>12 DEF ModelReplies

\* A call that ends: its row stops executing and the tool is counted, in any
\* order of the rows that follow.
LEMMA Settles ==
    ASSUME AgentRunAssumption, TypeInv, OwnCalls, NEW p \in Activations, Busy(p), NEW s, ~Pends(s)
    PROVE  LET rows == [row EXCEPT ![cur[p]] = s]
           IN  /\ Open(rows) + 1 = Open(row) /\ Open(rows) \in Nat /\ Open(row) \in Nat
               /\ Keeps(row, rows, {cur[p]})
<1>. DEFINE rows == [row EXCEPT ![cur[p]] = s]
<1>1. cur[p] \in Requests /\ row[cur[p]] = "executing"
  BY DEF OwnCalls
<1>2. /\ rows[cur[p]] = s /\ \A o \in Requests \ {cur[p]} : row[o] = rows[o]
      /\ Pends(row[cur[p]])
  BY <1>1 DEF TypeInv, LedgerTyped, Pends
<1>. HIDE DEF rows
<1>3. Open(row) = Open(rows) + 1
  BY <1>1, <1>2, OpenTakes
<1>4. Open(rows) \in Nat /\ Open(row) \in Nat
  BY OpenIsNat
<1>5. Keeps(row, rows, {cur[p]})
  BY <1>1, <1>2 DEF Keeps, Told
<1>. QED BY <1>3, <1>4, <1>5 DEF rows

\* A planner's call returns within what was allowed, outlasts its timeout or throws.
LEMMA CallSpends ==
    ASSUME AgentRunAssumption, BudgetInv, TypeInv', OnePlanner', NEW p \in Activations,
           CallReturns(p) \/ CallOutlastsTimeout(p) \/ CallThrows(p)
    PROVE  OwnCalls' /\ Budget'
<1>1. Busy(p) /\ run # "none" /\ cur[p] \in Requests /\ row[cur[p]] = "executing"
  BY DEF CallReturns, CallOutlastsTimeout, CallThrows, BudgetInv, PlannerInv, Untouched, Busy, OwnCalls
<1>2. /\ iter \in Nat /\ calls \in Nat /\ step[p] \in Nat /\ used[p] \in Nat /\ Spent \in Nat
      /\ iter' \in Nat /\ calls' \in Nat /\ executed \in Nat
      /\ MaxIterations \in Nat /\ MaxToolSteps \in Nat
  BY Amounts DEF BudgetInv
<1>3. pc[p] = "acting" =>
        /\ Planning(p) /\ step[p] = iter /\ iter < MaxIterations
        /\ used[p] <= calls /\ Spent <= used[p] + 1 /\ Spent <= MaxToolSteps
  BY DEF BudgetInv, Budget, Rounds, ToolUse, Planning
<1>4. CASE CallReturns(p)
  <2>. DEFINE rows == [row EXCEPT ![cur[p]] = "succeeded"]
  <2>1. /\ pc[p] = "acting" /\ row' = rows /\ executed' = executed + 1
        /\ iter' = iter + 1 /\ calls' = calls + 1 /\ UNCHANGED base
        /\ \E q : Propose(p, q, step[p] + 1, used[p] + 1)
    BY <1>4 DEF CallReturns, RecordStep
  <2>2. ~Pends("succeeded")
    BY DEF Pends
  <2>3. /\ Open(rows) + 1 = Open(row) /\ Open(rows) \in Nat /\ Open(row) \in Nat
        /\ Keeps(row, rows, {cur[p]})
    BY <1>1, <2>2, Settles DEF BudgetInv
  <2>. HIDE DEF rows
  <2>4. Spent' = Spent
    BY <1>2, <2>1, <2>3 DEF Spent
  <2>5. /\ Others(p) /\ pc'[p] = "thinking" /\ Planning(p)' /\ ~Busy(p)' /\ run' = "reasoning"
        /\ step'[p] = step[p] + 1 /\ used'[p] = used[p] + 1
        /\ ~final'[p] => step[p] + 1 < MaxIterations /\ used[p] + 1 < MaxToolSteps
    BY <1>2, <2>1, ProposeDoes DEF BudgetInv
  <2>6. OwnCalls'
    BY <1>1, <2>1, <2>3, <2>5, PoliteOwns DEF BudgetInv, Polite, Others
  <2>. HIDE DEF Spent
  <2>7. Budget'
    BY <1>2, <1>3, <2>1, <2>4, <2>5, PlannerGoesOn
  <2>. QED BY <2>6, <2>7
<1>5. CASE CallOutlastsTimeout(p)
  <2>1. /\ pc[p] = "acting" /\ Return(p) /\ row' = [row EXCEPT ![cur[p]] = "background"]
        /\ iter' = iter + 1 /\ UNCHANGED executed /\ run' = "completed"
    BY <1>5 DEF CallOutlastsTimeout, RecordStep, Finish, historyVars
  <2>2. \A r \in Requests : Pends(row'[r]) => Pends(row[r])
    BY <1>1, <2>1 DEF Pends, BudgetInv, TypeInv, LedgerTyped
  <2>3. Open(row') <= Open(row) /\ Open(row') \in Nat /\ Open(row) \in Nat
    BY <2>2, OpenShrinks, OpenIsNat
  <2>4. Spent' <= Spent /\ Spent' \in Nat
    BY <1>2, <2>1, <2>3 DEF Spent
  <2>5. Others(p) /\ ~Planning(p)' /\ ~Busy(p)'
    BY <2>1, ReturnDoes DEF BudgetInv
  <2>6. Keeps(row, row', {cur[p]}) /\ pc'[p] = "idle"
    BY <1>1, <2>1, ReturnDoes DEF Keeps, Told, BudgetInv, TypeInv, LedgerTyped
  <2>7. OwnCalls'
    BY <1>1, <2>5, <2>6, PoliteOwns DEF BudgetInv, Polite, Others
  <2>. HIDE DEF Spent
  <2>8. Budget'
    BY <1>2, <1>3, <2>1, <2>4, <2>5, PlannerStops DEF BudgetInv, PlannerInv
  <2>. QED BY <2>7, <2>8
<1>6. CASE CallThrows(p)
  <2>1. /\ Return(p) /\ UNCHANGED <<row, executed, iter, calls>> /\ run' \in {run, "failed"}
    BY <1>6 DEF CallThrows, Finish, ledgerVars
  <2>2. Others(p) /\ ~Planning(p)' /\ ~Busy(p)'
    BY <2>1, ReturnDoes DEF BudgetInv
  <2>3. Spent' = Spent /\ Keeps(row, row', {}) /\ pc'[p] = "idle"
    BY <2>1, ReturnDoes DEF Spent, Keeps, BudgetInv
  <2>4. OwnCalls'
    BY <2>2, <2>3, PoliteOwns DEF BudgetInv, Polite, Others
  <2>. HIDE DEF Spent
  <2>5. Spent' <= Spent
    BY <1>2, <2>3
  <2>6. Budget'
    BY <1>1, <2>1, <2>2, <2>5, NobodySpends DEF BudgetInv
  <2>. QED BY <2>4, <2>6
<1>. QED BY <1>4, <1>5, <1>6

\* A resume is entered with the counters of the run it found, and settles or
\* continues without spending more than a parked run has counted.
LEMMA ResumeSpends ==
    ASSUME AgentRunAssumption, BudgetInv, TypeInv', OnePlanner', NEW p \in Activations,
           NEW q \in Requests,
           ResumeExecutes(p, q) \/ ResumeContinues(p, q) \/ ResumeSettles(p, q)
    PROVE  OwnCalls' /\ Budget'
<1>1. pc[p] = "idle" /\ ~Planning(p) /\ ~Busy(p) /\ row[q] # "absent"
  BY DEF ResumeExecutes, ResumeContinues, ResumeSettles, Executes, Planning, Busy
<1>2. run # "none"
  BY <1>1 DEF BudgetInv, PlannerInv, Untouched
<1>3. /\ iter \in Nat /\ calls \in Nat /\ Spent \in Nat /\ Spent' \in Nat /\ executed \in Nat
      /\ MaxIterations \in Nat /\ MaxToolSteps \in Nat
      /\ Open(row) \in Nat /\ Open(row') \in Nat
  BY Amounts DEF BudgetInv
<1>4. /\ Stored(q) \in Bases
      /\ Stored(q) # NoRun => Stored(q).last \in Requests /\ Stored(q).state = run
  BY StoredTypes DEF BudgetInv
<1>5. run = "awaiting_approval" => iter <= MaxIterations /\ Spent <= calls
  BY DEF BudgetInv, Budget, Rounds, ToolUse
<1>6. Spent <= MaxToolSteps
  BY DEF BudgetInv, Budget, ToolUse
<1>7. /\ Mirror(row, q) \in [Requests -> Rows]
      /\ Open(Mirror(row, q)) <= Open(row) /\ Open(Mirror(row, q)) \in Nat
      /\ Keeps(row, Mirror(row, q), {})
  BY MirrorTypes, MirrorDoes, OpenIsNat DEF BudgetInv, TypeInv, LedgerTyped
<1>8. CASE ResumeExecutes(p, q)
  <2>1. /\ row[q] = "parked" /\ row' = [row EXCEPT ![q] = "executing"]
        /\ Await(p, "resuming", q, Stored(q), Marked(Stored(q))) /\ UNCHANGED <<iter, calls, executed>>
    BY <1>8 DEF ResumeExecutes, Executes
  <2>2. /\ Others(p) /\ pc'[p] = "resuming" /\ cur'[p] = q /\ base'[p] = Stored(q)
        /\ step'[p] = iter /\ used'[p] = calls
    BY <2>1, AwaitDoes DEF BudgetInv
  <2>3. /\ Keeps(row, row', {})
        /\ \A r \in Requests : Pends(row'[r]) => Pends(row[r])
        /\ row'[q] = "executing"
    BY <2>1 DEF BudgetInv, TypeInv, LedgerTyped, Pends, Keeps, Told
  <2>4. Open(row') <= Open(row)
    BY <2>3, OpenShrinks
  <2>5. Spent' <= Spent
    BY <1>3, <2>1, <2>4 DEF Spent
  <2>6. OwnCalls'
    BY <2>1, <2>2, <2>3, PoliteOwns DEF BudgetInv, Polite, Others
  <2>. HIDE DEF Spent
  <2>7. run' = (IF Stored(q) = NoRun THEN run ELSE "executing")
    BY <2>1 DEF Await, Marked
  <2>8. CASE Planning(p)'
    <3>1. Stored(q).state = "awaiting_approval"
      BY <2>2, <2>8 DEF Planning
    <3>2. run = "awaiting_approval" /\ run' = "executing"
      BY <1>4, <2>7, <3>1 DEF NoRun
    <3>3. Budget'
      BY <1>3, <1>5, <1>6, <2>1, <2>2, <2>5, <2>8, <3>2, PlannerGoesOn
    <3>. QED BY <2>6, <3>3
  <2>9. CASE ~Planning(p)'
    <3>1. Budget'
      BY <1>2, <2>1, <2>2, <2>5, <2>7, <2>9, NobodySpends DEF BudgetInv
    <3>. QED BY <2>6, <3>1
  <2>. QED BY <2>8, <2>9
<1>9. CASE ResumeContinues(p, q)
  <2>1. /\ row' = Mirror(row, q) /\ base' = [base EXCEPT ![p] = Stored(q)]
        /\ Propose(p, q, iter, calls) /\ UNCHANGED <<iter, calls, executed>>
        /\ Stored(q).state = "awaiting_approval"
    BY <1>9 DEF ResumeContinues, Continues
  <2>2. run = "awaiting_approval"
    BY <1>4, <2>1 DEF NoRun
  <2>3. \A o \in Activations \ {p} : base'[o] = base[o]
    BY <2>1 DEF BudgetInv, TypeInv, ActTyped
  <2>4. /\ Others(p) /\ pc'[p] = "thinking" /\ Planning(p)' /\ ~Busy(p)' /\ run' = "reasoning"
        /\ step'[p] = iter /\ used'[p] = calls
        /\ ~final'[p] => iter < MaxIterations /\ calls < MaxToolSteps
    BY <1>3, <2>1, <2>3, ProposeDoes DEF BudgetInv
  <2>5. Spent' <= Spent
    BY <1>3, <1>7, <2>1 DEF Spent
  <2>6. OwnCalls'
    BY <1>7, <2>1, <2>4, PoliteOwns DEF BudgetInv, Polite, Others
  <2>. HIDE DEF Spent
  <2>7. Budget'
    BY <1>3, <1>5, <1>6, <2>1, <2>2, <2>4, <2>5, PlannerGoesOn
  <2>. QED BY <2>6, <2>7
<1>10. CASE ResumeSettles(p, q)
  <2>. DEFINE before == Mirror(row, q)
  <2>1. Legacy(p, Stored(q), q, before, Marked(Stored(q))) /\ UNCHANGED <<iter, calls, executed>>
    BY <1>10 DEF ResumeSettles
  <2>. HIDE DEF before
  <2>2. before \in [Requests -> Rows]
    BY <1>7 DEF before
  <2>3. /\ Others(p) /\ ~Planning(p)'
        /\ Keeps(before, row', {})
        /\ Open(row') <= Open(before)
        /\ Busy(p)' => /\ cur'[p] \in Requests /\ row'[cur'[p]] = "executing"
                       /\ before[cur'[p]] # "executing"
        /\ pc'[p] = "answering" => row'[cur'[p]] \in Told
        /\ run' \in {run, "executing", "failed", "completed"}
    BY <1>4, <2>1, <2>2, LegacyDoes, MarkedIs DEF BudgetInv
  <2>4. Spent' <= Spent
    BY <1>3, <1>7, <2>1, <2>3 DEF Spent, before
  <2>5. OwnCalls'
    <3>1. Keeps(row, row', {})
      BY <1>7, <2>3 DEF Keeps, before
    <3>2. Busy(p)' => row[cur'[p]] # "executing"
      BY <1>7, <2>3 DEF Keeps, before
    <3>. QED BY <2>3, <3>1, <3>2, PoliteOwns DEF BudgetInv, Polite, Others
  <2>. HIDE DEF Spent
  <2>6. Budget'
    BY <1>2, <2>1, <2>3, <2>4, NobodySpends DEF BudgetInv
  <2>. QED BY <2>5, <2>6
<1>. QED BY <1>8, <1>9, <1>10

\* The call a resume waited for ends: one tool more ran, one row fewer is open.
LEMMA SettlingSpends ==
    ASSUME AgentRunAssumption, BudgetInv, TypeInv', OnePlanner', NEW p \in Activations,
           ResumeReturns(p) \/ SettleReturns(p) \/ AnswerReturns(p)
    PROVE  OwnCalls' /\ Budget'
<1>1. run # "none" /\ ~(pc[p] \in {"acting", "thinking"})
  BY DEF ResumeReturns, SettleReturns, AnswerReturns, BudgetInv, PlannerInv, Untouched
<1>2. /\ iter \in Nat /\ calls \in Nat /\ step[p] \in Nat /\ used[p] \in Nat
      /\ Spent \in Nat /\ Spent' \in Nat /\ executed \in Nat
      /\ MaxIterations \in Nat /\ MaxToolSteps \in Nat
      /\ Open(row) \in Nat /\ Open(row') \in Nat
  BY Amounts DEF BudgetInv
<1>3. /\ cur[p] \in Requests /\ base[p] \in Bases
      /\ base[p] # NoRun => base[p].last \in Requests
  BY DEF BudgetInv, TypeInv, ActTyped, Named, ResumeReturns, SettleReturns, AnswerReturns
<1>4. CASE ResumeReturns(p)
  <2>. DEFINE rows == [row EXCEPT ![cur[p]] = "succeeded"]
  <2>1. /\ pc[p] = "resuming" /\ Busy(p) /\ executed' = executed + 1 /\ UNCHANGED <<iter, calls>>
    BY <1>4 DEF ResumeReturns, Busy
  <2>2. ~Pends("succeeded")
    BY DEF Pends
  <2>3. /\ Open(rows) + 1 = Open(row) /\ Open(rows) \in Nat
        /\ Keeps(row, rows, {cur[p]})
    BY <2>1, <2>2, Settles DEF BudgetInv
  <2>4. rows \in [Requests -> Rows] /\ rows[cur[p]] = "succeeded"
    BY <1>3 DEF BudgetInv, TypeInv, LedgerTyped, Rows
  <2>5. ASSUME Continues(base[p], "succeeded"), row' = rows, Propose(p, cur[p], step[p], used[p]),
               UNCHANGED base
        PROVE  OwnCalls' /\ Budget'
    <3>. HIDE DEF rows
    <3>1. Planning(p)
      BY <2>1, <2>5 DEF Continues, Planning
    <3>2. /\ step[p] = iter /\ iter <= MaxIterations /\ used[p] <= calls /\ Spent <= used[p]
          /\ Spent <= MaxToolSteps
      BY <2>1, <3>1 DEF BudgetInv, Budget, Rounds, ToolUse
    <3>3. Spent' = Spent
      BY <1>2, <2>1, <2>3, <2>5 DEF Spent
    <3>4. /\ Others(p) /\ pc'[p] = "thinking" /\ Planning(p)' /\ ~Busy(p)' /\ run' = "reasoning"
          /\ step'[p] = step[p] /\ used'[p] = used[p]
          /\ ~final'[p] => step[p] < MaxIterations /\ used[p] < MaxToolSteps
      BY <1>2, <2>5, ProposeDoes DEF BudgetInv
    <3>5. OwnCalls'
      BY <2>1, <2>3, <2>5, <3>4, PoliteOwns DEF BudgetInv, Polite, Others
    <3>. HIDE DEF Spent
    <3>6. Budget'
      BY <1>2, <2>1, <3>2, <3>3, <3>4, PlannerGoesOn
    <3>. QED BY <3>5, <3>6
  <2>6. ASSUME Legacy(p, base[p], cur[p], rows, run)
        PROVE  OwnCalls' /\ Budget'
    <3>. HIDE DEF rows
    <3>1. /\ Others(p) /\ ~Planning(p)'
          /\ Keeps(rows, row', {})
          /\ Open(row') <= Open(rows)
          /\ Busy(p)' => /\ cur'[p] \in Requests /\ row'[cur'[p]] = "executing"
                         /\ rows[cur'[p]] # "executing"
          /\ pc'[p] = "answering" => row'[cur'[p]] \in Told
          /\ run' \in {run, "executing", "failed", "completed"}
      BY <1>3, <2>4, <2>6, LegacyDoes DEF BudgetInv
    <3>2. Spent' <= Spent
      BY <1>2, <2>1, <2>3, <3>1 DEF Spent
    <3>3. OwnCalls'
      <4>1. Keeps(row, row', {cur[p]})
        BY <2>3, <3>1 DEF Keeps
      <4>2. Busy(p)' => row[cur'[p]] # "executing" \/ cur'[p] = cur[p]
        BY <2>3, <3>1 DEF Keeps
      <4>. QED BY <2>1, <3>1, <4>1, <4>2, PoliteOwns DEF BudgetInv, Polite, Others
    <3>. HIDE DEF Spent
    <3>4. Budget'
      BY <1>1, <2>1, <3>1, <3>2, NobodySpends DEF BudgetInv
    <3>. QED BY <3>3, <3>4
  <2>. QED BY <1>4, <2>5, <2>6 DEF ResumeReturns
<1>5. CASE SettleReturns(p)
  <2>. DEFINE rows == [row EXCEPT ![cur[p]] = "answering"]
  <2>1. /\ pc[p] = "settling" /\ Busy(p) /\ executed' = executed + 1 /\ row' = rows
        /\ pc' = [pc EXCEPT ![p] = "answering"]
        /\ UNCHANGED <<run, iter, calls, base, step, used, final, cur>>
    BY <1>5 DEF SettleReturns, Busy, runVars, loopVars
  <2>2. ~Pends("answering")
    BY DEF Pends
  <2>3. /\ Open(rows) + 1 = Open(row) /\ Open(rows) \in Nat
        /\ Keeps(row, rows, {cur[p]})
    BY <2>1, <2>2, Settles DEF BudgetInv
  <2>. HIDE DEF rows
  <2>4. Spent' <= Spent
    BY <1>2, <2>1, <2>3 DEF Spent
  <2>5. Others(p) /\ ~Planning(p)' /\ ~Busy(p)'
    BY <2>1 DEF BudgetInv, TypeInv, ActTyped, Others, Planning, Busy
  <2>6. OwnCalls'
    <3>1. cur'[p] = cur[p] /\ row'[cur[p]] \in Told
      BY <1>3, <2>1 DEF rows, Told, BudgetInv, TypeInv, LedgerTyped
    <3>. QED BY <2>1, <2>3, <2>5, <3>1, PoliteOwns DEF BudgetInv, Polite, Others
  <2>. HIDE DEF Spent
  <2>7. Budget'
    BY <1>1, <2>1, <2>4, <2>5, NobodySpends DEF BudgetInv
  <2>. QED BY <2>6, <2>7
<1>6. CASE AnswerReturns(p)
  <2>1. /\ pc[p] = "answering" /\ Return(p) /\ row' = [row EXCEPT ![cur[p]] = "answered"]
        /\ run' \in {run, "failed", "completed"} /\ UNCHANGED <<iter, calls, executed>>
    BY <1>6 DEF AnswerReturns, Rendered, Finish
  <2>2. Others(p) /\ ~Planning(p)' /\ ~Busy(p)'
    BY <2>1, ReturnDoes DEF BudgetInv
  <2>3. \A r \in Requests : Pends(row'[r]) => Pends(row[r])
    BY <2>1 DEF Pends, BudgetInv, TypeInv, LedgerTyped
  <2>4. Spent' <= Spent
    <3>1. Open(row') <= Open(row)
      BY <2>3, OpenShrinks
    <3>. QED BY <1>2, <2>1, <3>1 DEF Spent
  <2>5. Keeps(row, row', {}) /\ pc'[p] # "answering"
    <3>1. row[cur[p]] \in Told
      BY <2>1 DEF BudgetInv, OwnCalls
    <3>2. pc'[p] = "idle"
      BY <2>1, ReturnDoes DEF BudgetInv
    <3>. QED BY <2>1, <3>1, <3>2 DEF Keeps, Told, BudgetInv, TypeInv, LedgerTyped
  <2>6. OwnCalls'
    BY <2>2, <2>5, PoliteOwns DEF BudgetInv, Polite, Others
  <2>. HIDE DEF Spent
  <2>7. Budget'
    BY <1>1, <2>1, <2>2, <2>4, NobodySpends DEF BudgetInv
  <2>. QED BY <2>6, <2>7
<1>. QED BY <1>4, <1>5, <1>6

\* A background search that ends was counted when it was left; decisions and
\* cancels spend nothing, and a crash leaves what was running unfinished.
LEMMA OtherSpends ==
    ASSUME AgentRunAssumption, BudgetInv, TypeInv',
           \/ \E q \in Requests : BackgroundReturns(q) \/ \E d \in {"approved", "denied"} : Decide(q, d)
           \/ CancelRun \/ Crash \/ UNCHANGED vars
    PROVE  OwnCalls' /\ Budget'
<1>1. /\ Open(row) \in Nat /\ Open(row') \in Nat /\ executed \in Nat /\ executed' \in Nat
  BY Amounts DEF BudgetInv
<1>2. ASSUME UNCHANGED <<pc, cur, base, step, used, final, iter, calls>>, Spent' <= Spent,
             Keeps(row, row', {}), run # "none", run' # "none",
             run' = "awaiting_approval" => run = "awaiting_approval"
      PROVE  OwnCalls' /\ Budget'
  <2>1. OwnCalls'
    BY <1>2 DEF BudgetInv, OwnCalls, Keeps, Busy, TypeInv, Named
  <2>2. \A o \in Activations : Planning(o)' <=> Planning(o)
    BY <1>2 DEF Planning
  <2>3. Rounds'
    BY <1>2, <2>2 DEF BudgetInv, Budget, Rounds
  <2>4. Spent \in Nat /\ Spent' \in Nat
    BY <1>1 DEF Spent
  <2>. HIDE DEF Spent
  <2>5. ASSUME NEW o \in Activations, Planning(o)'
        PROVE  /\ used'[o] <= calls'
               /\ pc'[o] = "acting" => Spent' <= used'[o] + 1
               /\ pc'[o] # "acting" => Spent' <= used'[o]
               /\ pc'[o] = "thinking" /\ ~final'[o] => used'[o] < MaxToolSteps
    <3>1. used[o] \in Nat
      BY DEF BudgetInv, TypeInv, ActTyped
    <3>. QED BY <1>2, <2>2, <2>4, <2>5, <3>1 DEF BudgetInv, Budget, ToolUse
  <2>6. Spent' <= MaxToolSteps /\ (run' = "awaiting_approval" => Spent' <= calls')
    BY <1>2, <2>4, SMTT(30) DEF BudgetInv, Budget, ToolUse, TypeInv, RunTyped, AgentRunAssumption
  <2>7. ToolUse'
    BY <1>2, <2>5, <2>6 DEF ToolUse
  <2>. QED BY <2>1, <2>3, <2>7 DEF Budget
<1>3. ASSUME NEW q \in Requests, BackgroundReturns(q) PROVE OwnCalls' /\ Budget'
  <2>1. /\ row[q] = "background" /\ row' = [row EXCEPT ![q] = "succeeded"] /\ executed' = executed + 1
        /\ UNCHANGED <<pc, cur, base, step, used, final, iter, calls, run>>
    BY <1>3 DEF BackgroundReturns, runVars, loopVars, actVars
  <2>2. /\ Pends(row[q]) /\ ~Pends(row'[q]) /\ \A o \in Requests \ {q} : row[o] = row'[o]
    BY <2>1 DEF Pends, BudgetInv, TypeInv, LedgerTyped
  <2>3. Open(row) = Open(row') + 1
    BY <2>2, OpenTakes
  <2>4. Spent' <= Spent
    BY <1>1, <2>1, <2>3 DEF Spent
  <2>5. Keeps(row, row', {})
    BY <2>1 DEF Keeps, Told, BudgetInv, TypeInv, LedgerTyped
  <2>6. run # "none"
    BY <2>1 DEF BudgetInv, PlannerInv, Untouched
  <2>. QED BY <1>2, <2>1, <2>4, <2>5, <2>6
<1>4. ASSUME UNCHANGED <<row, executed>> PROVE Spent' <= Spent /\ Keeps(row, row', {})
  <2>1. Spent' = Spent
    BY <1>4 DEF Spent
  <2>2. Spent \in Int
    BY <1>1 DEF Spent
  <2>. QED BY <1>4, <2>1, <2>2 DEF Keeps
<1>5. ASSUME NEW q \in Requests, NEW d \in {"approved", "denied"}, Decide(q, d)
      PROVE  OwnCalls' /\ Budget'
  <2>1. UNCHANGED <<pc, cur, base, step, used, final, iter, calls, run, row, executed>>
    BY <1>5 DEF Decide, runVars, loopVars, actVars, historyVars
  <2>2. run # "none"
    BY <1>5 DEF Decide, BudgetInv, PlannerInv, Untouched
  <2>. QED BY <1>2, <1>4, <2>1, <2>2
<1>6. CASE CancelRun
  <2>1. /\ UNCHANGED <<pc, cur, base, step, used, final, iter, calls, row, executed>>
        /\ run # "none" /\ run' = "cancelled"
    BY <1>6 DEF CancelRun, Finish, loopVars, actVars, ledgerVars, historyVars
  <2>. QED BY <1>2, <1>4, <2>1
<1>7. CASE Crash
  <2>1. /\ pc' = [p \in Activations |-> "idle"] /\ UNCHANGED <<run, iter, calls, executed>>
        /\ row' = [q \in Requests |-> IF row[q] = "background" THEN "executing" ELSE row[q]]
        /\ run # "none"
    BY <1>7 DEF Crash, runVars, historyVars
  <2>2. \A q \in Requests : Pends(row'[q]) => Pends(row[q])
    BY <2>1 DEF Pends
  <2>3. Spent \in Nat /\ Spent' \in Nat /\ Spent' <= Spent
    BY <1>1, <2>1, <2>2, OpenShrinks DEF Spent
  <2>4. OwnCalls'
    BY <2>1 DEF OwnCalls, Busy
  <2>5. \A o \in Activations : ~Planning(o)'
    BY <2>1 DEF Planning
  <2>. HIDE DEF Spent
  <2>6. Rounds'
    BY <2>1, <2>5 DEF BudgetInv, Budget, Rounds
  <2>7. ToolUse'
    BY <2>1, <2>3, <2>5 DEF BudgetInv, Budget, ToolUse, TypeInv, RunTyped, AgentRunAssumption
  <2>. QED BY <2>4, <2>6, <2>7 DEF Budget
<1>8. CASE UNCHANGED vars
  <2>1. UNCHANGED <<pc, cur, base, step, used, final, iter, calls, row, executed, run>>
    BY <1>8 DEF vars, runVars, loopVars, actVars, ledgerVars, historyVars
  <2>2. OwnCalls'
    BY <2>1 DEF BudgetInv, OwnCalls, Busy
  <2>3. Spent' = Spent
    BY <2>1 DEF Spent
  <2>. HIDE DEF Spent
  <2>4. Budget'
    BY <2>1, <2>3 DEF BudgetInv, Budget, Rounds, ToolUse, Planning
  <2>. QED BY <2>2, <2>4
<1>. QED BY <1>3, <1>5, <1>6, <1>7, <1>8

\* A turn starts with nothing spent.
LEMMA StartSpends ==
    ASSUME AgentRunAssumption, BudgetInv, TypeInv', OnePlanner', StartTurn
    PROVE  OwnCalls' /\ Budget'
<1>1. /\ run = "none" /\ UNCHANGED <<base, row, iter, calls, executed>>
      /\ Propose(Driver, issued', 0, 0) /\ Driver \in Activations
  BY DEF StartTurn, ledgerVars, historyVars, Activations
<1>2. /\ Others(Driver) /\ pc'[Driver] = "thinking" /\ Planning(Driver)' /\ ~Busy(Driver)'
      /\ run' = "reasoning" /\ step'[Driver] = 0 /\ used'[Driver] = 0
      /\ ~final'[Driver] => 0 < MaxIterations /\ 0 < MaxToolSteps
  BY <1>1, ProposeDoes DEF BudgetInv
<1>3. iter' = 0 /\ calls' = 0 /\ Spent' = 0
  <2>1. Spent' = Spent
    BY <1>1 DEF Spent
  <2>. HIDE DEF Spent
  <2>. QED BY <1>1, <2>1 DEF BudgetInv, Budget, Rounds, ToolUse
<1>4. OwnCalls'
  <2>1. Keeps(row, row', {})
    BY <1>1 DEF Keeps
  <2>. QED BY <1>1, <1>2, <2>1, PoliteOwns DEF BudgetInv, Polite, Others
<1>. HIDE DEF Spent
<1>5. Budget'
  BY <1>1, <1>2, <1>3, PlannerGoesOn DEF AgentRunAssumption
<1>. QED BY <1>4, <1>5

-----------------------------------------------------------------------------
LEMMA BudgetInit == ASSUME AgentRunAssumption, Init PROVE BudgetInv
<1>1. OwnCalls
  BY DEF Init, OwnCalls, Busy
<1>2. \A p \in Activations : ~Planning(p)
  BY DEF Init, Planning
<1>3. Spent = 0
  <2>1. {q \in Requests : Pends(row[q])} = {}
    BY DEF Init, Pends
  <2>2. Open(row) = 0
    BY <2>1, FS_EmptySet DEF Open
  <2>3. executed = 0
    BY DEF Init
  <2>. QED BY <2>2, <2>3 DEF Spent
<1>. HIDE DEF Spent
<1>4. Budget
  BY <1>2, <1>3 DEF Init, Budget, Rounds, ToolUse, AgentRunAssumption
<1>. QED BY <1>1, <1>4, TypeInit, InitPlanner DEF BudgetInv

LEMMA BudgetStep == ASSUME AgentRunAssumption, BudgetInv, [Next]_vars PROVE BudgetInv'
<1>1. TypeInv' /\ PlannerInv' /\ OnePlanner'
  BY TypeStep, PlannerStep DEF BudgetInv, PlannerInv
<1>2. ASSUME NEW p \in Activations, Proceed(p) PROVE OwnCalls' /\ Budget'
  BY <1>1, <1>2, ReplySpends, CallSpends, SettlingSpends DEF Proceed
<1>3. ASSUME NEW p \in Resumers, NEW q \in Requests,
             ResumeExecutes(p, q) \/ ResumeContinues(p, q) \/ ResumeSettles(p, q)
      PROVE  OwnCalls' /\ Budget'
  BY <1>1, <1>3, ResumeSpends DEF Activations
<1>4. OwnCalls' /\ Budget'
  BY <1>1, <1>2, <1>3, OtherSpends, StartSpends DEF Next
<1>. QED BY <1>1, <1>4 DEF BudgetInv

\* The budget holds across parks, resumes, cancels and crashes, for any bounds and
\* any number of concurrent resumes.
THEOREM BudgetHolds == Spec => []WithinBudget
<1>1. Init => BudgetInv
  BY BudgetInit, AgentRunAssumption
<1>2. BudgetInv /\ [Next]_vars => BudgetInv'
  BY BudgetStep, AgentRunAssumption
<1>3. ASSUME BudgetInv PROVE WithinBudget
  <2>1. Spent <= MaxToolSteps /\ iter <= MaxIterations + 1
    BY <1>3 DEF BudgetInv, Budget, Rounds, ToolUse
  <2>2. Open(row) \in Nat /\ executed \in Nat
    BY <1>3, OpenIsNat, AgentRunAssumption DEF BudgetInv, TypeInv, RunTyped
  <2>3. executed <= Spent /\ Spent \in Nat
    BY <2>2 DEF Spent
  <2>. HIDE DEF Spent
  <2>. QED BY <2>1, <2>2, <2>3, AgentRunAssumption DEF WithinBudget, AgentRunAssumption
<1>. QED BY <1>1, <1>2, <1>3, PTL DEF Spec

-----------------------------------------------------------------------------
(* the ids of a run on the JSON path *)

\* Every step is recorded under an id drawn for it, and a call in flight has one
\* that is not recorded yet.
OwnIds ==
    ~stream =>
      /\ failure # "conflict"
      /\ \A i \in DOMAIN ids : ids[i] <= issued
      /\ \A i, j \in DOMAIN ids : ids[i] = ids[j] => i = j
      /\ \A p \in Activations : pc[p] = "acting" =>
           cur[p] <= issued /\ \A i \in DOMAIN ids : ids[i] # cur[p]

\* A step that records nothing.
LEMMA NothingRecorded ==
    ASSUME AgentRunAssumption, OwnIds, UNCHANGED <<stream, ids>>, ~stream => failure' # "conflict",
           issued \in Nat, issued' \in Nat, issued <= issued', TypeInv,
           \A p \in Activations : pc'[p] = "acting" => pc[p] = "acting" /\ cur'[p] = cur[p]
    PROVE  OwnIds'
<1>1. \A i \in DOMAIN ids : ids[i] \in Nat
  BY Numbers DEF TypeInv, RunTyped
<1>2. \A p \in Activations : cur[p] \in Nat
  BY DEF TypeInv, ActTyped
<1>. QED BY <1>1, <1>2 DEF OwnIds

\* A step recorded under an id no other has, by the only planner.
LEMMA OneRecorded ==
    ASSUME AgentRunAssumption, OwnIds, UNCHANGED stream, ~stream => failure' # "conflict",
           issued \in Nat, issued' \in Nat, issued <= issued', TypeInv,
           \A p \in Activations : pc'[p] # "acting",
           NEW q \in Requests, ids' = Append(ids, q),
           ~stream => q <= issued' /\ \A i \in DOMAIN ids : ids[i] # q
    PROVE  OwnIds'
<1>1. ids \in Seq(Requests) /\ \A i \in DOMAIN ids : ids[i] \in Nat
  BY Numbers DEF TypeInv, RunTyped
<1>2. /\ DOMAIN ids' = DOMAIN ids \cup {Len(ids) + 1} /\ ids'[Len(ids) + 1] = q
      /\ \A i \in DOMAIN ids : ids'[i] = ids[i]
  BY <1>1
<1>3. ASSUME ~stream PROVE \A i \in DOMAIN ids' : ids'[i] <= issued'
  BY <1>1, <1>2, <1>3 DEF OwnIds
<1>4. ASSUME ~stream, NEW i \in DOMAIN ids', NEW j \in DOMAIN ids', ids'[i] = ids'[j] PROVE i = j
  BY <1>2, <1>4 DEF OwnIds
<1>. QED BY <1>3, <1>4 DEF OwnIds

LEMMA OwnIdsStep ==
    ASSUME AgentRunAssumption, BudgetInv, OwnIds, TypeInv', [Next]_vars
    PROVE  OwnIds'
<1>1. issued \in Nat /\ issued' \in Nat /\ \A i \in DOMAIN ids : ids[i] \in Nat
  BY SMTT(30) DEF BudgetInv, TypeInv, RunTyped, Requests
<1>2. \A p \in Activations : pc[p] \in {"thinking", "acting"} =>
        \A o \in Activations \ {p} : pc[o] # "acting"
  BY DEF BudgetInv, PlannerInv, OnePlanner, Planning
<1>3. ASSUME UNCHANGED <<stream, ids, issued>>, failure' # "conflict" \/ failure' = failure,
             \A p \in Activations : pc'[p] = "acting" => pc[p] = "acting" /\ cur'[p] = cur[p]
      PROVE  OwnIds'
  BY <1>1, <1>3, NothingRecorded DEF OwnIds, BudgetInv
<1>4. ASSUME NEW p \in Activations, ModelReplies(p) PROVE OwnIds'
  <2>1. /\ pc[p] = "thinking" /\ UNCHANGED stream
        /\ failure' # "conflict" \/ failure' = failure \/ KeepsId(p)
    BY <1>4 DEF ModelReplies, ModelFails, ConsumeConflicts, ModelAnswers, ModelRepeats,
         ModelProposesGated, ModelProposesFree, ModelProposesBadly, Consumable, historyVars
  <2>2. ~stream => failure' # "conflict"
    BY <2>1 DEF KeepsId, OwnIds
  <2>3. ASSUME ~KeepsId(p), Draw(p) PROVE Drawn(p) = issued + 1 /\ issued' = issued + 1
    BY <2>3 DEF Draw, Drawn
  <2>4. ~stream => ~KeepsId(p)
    BY DEF KeepsId
  <2>5. Draw(p) => issued <= issued'
    BY <1>1 DEF Draw
  <2>6. ASSUME Return(p) \/ \E q, n, u : Propose(p, q, n, u)
        PROVE  \A o \in Activations : pc'[o] # "acting"
    BY <1>2, <2>1, <2>6 DEF Return, Propose, BudgetInv, TypeInv, ActTyped
  <2>7. CASE ModelFails(p) \/ ConsumeConflicts(p)
    <3>1. Return(p) /\ UNCHANGED <<ids, issued>>
      BY <2>7 DEF ModelFails, ConsumeConflicts
    <3>. QED BY <1>1, <2>1, <2>2, <2>6, <3>1, NothingRecorded DEF BudgetInv
  <2>8. ASSUME NEW q \in Requests, ids' = Append(ids, q), issued <= issued',
               ~stream => q = issued + 1 /\ issued' = issued + 1,
               Return(p) \/ \E r, n, u : Propose(p, r, n, u)
        PROVE  OwnIds'
    <3>1. ~stream => q <= issued' /\ \A i \in DOMAIN ids : ids[i] # q
      BY <1>1, <2>8 DEF OwnIds
    <3>. QED BY <1>1, <2>1, <2>2, <2>6, <2>8, <3>1, OneRecorded DEF BudgetInv
  <2>9. ASSUME ModelAnswers(p) \/ ModelProposesGated(p) \/ \E n \in 1..2 : ModelProposesBadly(p, n)
        PROVE  OwnIds'
    <3>1. Drawn(p) \in Requests /\ ids' = Append(ids, Drawn(p)) /\ Draw(p)
      BY <2>9 DEF ModelAnswers, ModelProposesGated, ModelProposesBadly, Consumable, RecordStep
    <3>2. Return(p) \/ \E r, n, u : Propose(p, r, n, u)
      BY <2>9 DEF ModelAnswers, ModelProposesGated, ModelProposesBadly
    <3>. QED BY <2>3, <2>4, <2>5, <2>8, <3>1, <3>2
  <2>10. CASE ModelRepeats(p)
    <3>1. issued' = issued + 1 /\ issued' \in Requests /\ ids' = Append(ids, issued')
      BY <1>1, <2>10, Numbers DEF ModelRepeats, RecordStep, Requests, AgentRunAssumption
    <3>2. \E r, n, u : Propose(p, r, n, u)
      BY <2>10 DEF ModelRepeats
    <3>. QED BY <1>1, <2>8, <3>1, <3>2
  <2>11. CASE ModelProposesFree(p)
    <3>1. /\ pc' = [pc EXCEPT ![p] = "acting"] /\ cur' = [cur EXCEPT ![p] = Drawn(p)] /\ Draw(p)
          /\ UNCHANGED ids
      BY <2>11 DEF ModelProposesFree
    <3>2. \A o \in Activations : pc'[o] = "acting" => o = p
      BY <1>2, <2>1, <3>1 DEF BudgetInv, TypeInv, ActTyped
    <3>3. cur'[p] = Drawn(p)
      BY <3>1 DEF BudgetInv, TypeInv, ActTyped
    <3>4. ~stream => cur'[p] = issued + 1 /\ issued' = issued + 1
      BY <2>3, <2>4, <3>1, <3>3
    <3>. QED BY <1>1, <2>1, <2>2, <3>1, <3>2, <3>4 DEF OwnIds
  <2>. QED BY <1>4, <2>7, <2>9, <2>10, <2>11 DEF ModelReplies
<1>5. ASSUME NEW p \in Activations, CallReturns(p) \/ CallOutlastsTimeout(p) PROVE OwnIds'
  <2>1. /\ pc[p] = "acting" /\ ids' = Append(ids, cur[p]) /\ UNCHANGED <<stream, failure>>
        /\ cur[p] \in Requests /\ issued <= issued'
    BY <1>1, <1>5 DEF CallReturns, CallOutlastsTimeout, RecordStep, historyVars, BudgetInv, TypeInv, Named
  <2>2. Return(p) \/ \E r, n, u : Propose(p, r, n, u)
    BY <1>5 DEF CallReturns, CallOutlastsTimeout
  <2>3. \A o \in Activations : pc'[o] # "acting"
    BY <1>2, <2>1, <2>2 DEF Return, Propose, BudgetInv, TypeInv, ActTyped
  <2>4. ~stream => failure' # "conflict"
    BY <2>1 DEF OwnIds
  <2>5. ~stream => cur[p] <= issued' /\ \A i \in DOMAIN ids : ids[i] # cur[p]
    BY <1>1, <2>1, Numbers DEF OwnIds, Requests
  <2>. QED BY <1>1, <2>1, <2>3, <2>4, <2>5, OneRecorded DEF BudgetInv
<1>6. ASSUME NEW p \in Activations,
             CallThrows(p) \/ ResumeReturns(p) \/ SettleReturns(p) \/ AnswerReturns(p)
      PROVE  OwnIds'
  <2>1. UNCHANGED <<stream, ids, issued>> /\ (failure' # "conflict" \/ failure' = failure)
    BY <1>6 DEF CallThrows, ResumeReturns, SettleReturns, AnswerReturns, runVars
  <2>2. Others(p) /\ pc'[p] # "acting"
    <3>1. CASE CallThrows(p) \/ AnswerReturns(p)
      <4>1. Return(p)
        BY <3>1 DEF CallThrows, AnswerReturns, Rendered
      <4>. QED BY <4>1, ReturnDoes DEF BudgetInv
    <3>2. CASE SettleReturns(p)
      BY <3>2 DEF SettleReturns, loopVars, Others, BudgetInv, TypeInv, ActTyped
    <3>3. CASE ResumeReturns(p)
      <4>. DEFINE rows == [row EXCEPT ![cur[p]] = "succeeded"]
      <4>1. /\ cur[p] \in Requests /\ base[p] \in Bases /\ step[p] \in Nat /\ used[p] \in Nat
            /\ rows \in [Requests -> Rows]
        BY <3>3 DEF ResumeReturns, BudgetInv, TypeInv, ActTyped, LedgerTyped, Named, Rows
      <4>2. base[p] # NoRun => base[p].last \in Requests
        BY DEF BudgetInv, TypeInv, Named
      <4>3. ASSUME Legacy(p, base[p], cur[p], rows, run) PROVE Others(p) /\ pc'[p] # "acting"
        <5>. HIDE DEF rows
        <5>1. Others(p) /\ ~Planning(p)'
          BY <4>1, <4>2, <4>3, LegacyDoes DEF BudgetInv
        <5>. QED BY <5>1 DEF Planning
      <4>4. ASSUME Propose(p, cur[p], step[p], used[p]), UNCHANGED base
            PROVE  Others(p) /\ pc'[p] # "acting"
        BY <4>1, <4>4, ProposeDoes DEF BudgetInv
      <4>. QED BY <3>3, <4>3, <4>4 DEF ResumeReturns
    <3>. QED BY <1>6, <3>1, <3>2, <3>3
  <2>. QED BY <1>3, <2>1, <2>2 DEF Others
<1>7. ASSUME NEW p \in Activations, NEW q \in Requests,
             ResumeExecutes(p, q) \/ ResumeContinues(p, q) \/ ResumeSettles(p, q)
      PROVE  OwnIds'
  <2>1. UNCHANGED <<stream, ids, issued, failure>>
    BY <1>7 DEF ResumeExecutes, ResumeContinues, ResumeSettles
  <2>2. Others(p) /\ pc'[p] # "acting"
    <3>1. CASE ResumeExecutes(p, q)
      <4>1. Await(p, "resuming", q, Stored(q), Marked(Stored(q)))
        BY <3>1 DEF ResumeExecutes
      <4>. QED BY <4>1, AwaitDoes DEF BudgetInv
    <3>2. CASE ResumeContinues(p, q)
      <4>1. /\ Propose(p, q, iter, calls) /\ iter \in Nat /\ calls \in Nat
            /\ \A o \in Activations \ {p} : base'[o] = base[o]
        BY <3>2 DEF ResumeContinues, BudgetInv, TypeInv, RunTyped, ActTyped
      <4>. QED BY <4>1, ProposeDoes DEF BudgetInv
    <3>3. CASE ResumeSettles(p, q)
      <4>1. Legacy(p, Stored(q), q, Mirror(row, q), Marked(Stored(q))) /\ Mirror(row, q) \in [Requests -> Rows]
        BY <3>3, MirrorTypes DEF ResumeSettles, BudgetInv, TypeInv, LedgerTyped
      <4>2. /\ Stored(q) \in Bases
            /\ Stored(q) # NoRun => Stored(q).last \in Requests
        BY StoredTypes DEF BudgetInv
      <4>3. Others(p) /\ ~Planning(p)'
        BY <4>1, <4>2, LegacyDoes, MarkedIs DEF BudgetInv
      <4>. QED BY <4>3 DEF Planning
    <3>. QED BY <1>7, <3>1, <3>2, <3>3
  <2>. QED BY <1>3, <2>1, <2>2 DEF Others
<1>8. CASE \/ \E q \in Requests : BackgroundReturns(q) \/ \E d \in {"approved", "denied"} : Decide(q, d)
           \/ CancelRun \/ Crash \/ UNCHANGED vars
  <2>1. UNCHANGED <<stream, ids, issued, failure>>
    BY <1>8 DEF BackgroundReturns, Decide, CancelRun, Crash, vars, runVars, historyVars
  <2>2. \A p \in Activations : pc'[p] = "acting" => pc[p] = "acting" /\ cur'[p] = cur[p]
    BY <1>8 DEF BackgroundReturns, Decide, CancelRun, Crash, vars, actVars
  <2>. QED BY <1>3, <2>1, <2>2
<1>9. CASE StartTurn
  <2>1. /\ UNCHANGED <<stream, ids, failure>> /\ run = "none"
        /\ pc' = [pc EXCEPT ![Driver] = "thinking"] /\ (~stream => issued' = 0)
    BY <1>9 DEF StartTurn, Propose, historyVars
  <2>2. \A p \in Activations : pc'[p] # "acting"
    BY <2>1 DEF BudgetInv, PlannerInv, Untouched, TypeInv, ActTyped
  <2>3. DOMAIN ids = {}
    <3>1. iter = 0
      BY <2>1 DEF BudgetInv, Budget, Rounds
    <3>2. ids \in Seq(Requests) /\ Len(ids) = 0
      BY <3>1 DEF BudgetInv, TypeInv, RunTyped
    <3>. QED BY <3>2
  <2>. QED BY <2>1, <2>2, <2>3 DEF OwnIds
<1>10. ASSUME NEW p \in Activations, Proceed(p) PROVE OwnIds'
  BY <1>4, <1>5, <1>6, <1>10 DEF Proceed
<1>. QED BY <1>7, <1>8, <1>9, <1>10 DEF Next, Activations

\* On the JSON path no two steps share an id, so no corrected proposal conflicts
\* with the rejected one, and an executed action is observed once.
THEOREM StepsDrawTheirIds == Spec => []StepsHaveOwnIds
<1>1. Init => BudgetInv /\ OwnIds
  <2>1. Init => OwnIds
    BY DEF Init, OwnIds
  <2>. QED BY <2>1, BudgetInit, AgentRunAssumption
<1>2. BudgetInv /\ OwnIds /\ [Next]_vars => (BudgetInv /\ OwnIds)'
  BY BudgetStep, OwnIdsStep, AgentRunAssumption DEF BudgetInv
<1>3. BudgetInv /\ OwnIds => StepsHaveOwnIds
  BY DEF OwnIds, StepsHaveOwnIds
<1>. QED BY <1>1, <1>2, <1>3, PTL DEF Spec

-----------------------------------------------------------------------------
(* Completion: the answer of a request                                       *)

\* A parser that threw nothing has read what it was given.
IsParser(p) ==
    /\ p = [content |-> p.content, calls |-> p.calls, finish |-> p.finish, ok |-> p.ok]
    /\ p.calls = [i \in Indices |-> p.calls[i]] /\ p.ok \in BOOLEAN

\* Some step is the first.
LEMMA Earliest ==
    ASSUME NEW n \in Nat, NEW S, S \subseteq 0..n, S # {}
    PROVE  \E x \in S : \A y \in S : x <= y
<1>. DEFINE Below(x) == {y \in S : y < x}
            T == {Below(x) : x \in S}
<1>1. IsFiniteSet(S)
  <2>1. IsFiniteSet(0..n)
    BY FS_Interval
  <2>. QED BY <2>1, FS_Subset
<1>2. IsWellFoundedOn(StrictSubsetOrdering(S), SUBSET S)
  BY <1>1, FS_StrictSubsetOrderingWellFounded, FS_FiniteSubsetsOfFinite
<1>3. T \subseteq SUBSET S /\ T # {}
  OBVIOUS
<1>4. \E U \in T : \A V \in T : <<V, U>> \notin StrictSubsetOrdering(S)
  <2>. HIDE DEF T
  <2>. QED BY <1>2, <1>3, WFMin
<1>5. PICK x \in S : \A y \in S : <<Below(y), Below(x)>> \notin StrictSubsetOrdering(S)
  BY <1>4
<1>6. ASSUME NEW y \in S, ~(x <= y) PROVE FALSE
  <2>0. x \in Nat /\ y \in Nat /\ (\A z \in S : z \in Nat) /\ y < x
    BY <1>6
  <2>1. y \in Below(x) /\ y \notin Below(y)
    BY <2>0
  <2>2. Below(y) \subseteq Below(x)
    <3>1. ASSUME NEW z \in S, z < y PROVE z < x
      BY <2>0, <3>1
    <3>. QED BY <3>1
  <2>3. <<Below(y), Below(x)>> \in StrictSubsetOrdering(S)
    BY <2>1, <2>2 DEF StrictSubsetOrdering
  <2>. QED BY <1>5, <2>3
<1>. QED BY <1>5, <1>6

\* The deltas of a message are read one after the other.
IsReading(p, deltas, n, read) ==
    read = [i \in 0 .. n |-> IF i = 0 THEN p ELSE AddCall(read[i - 1], deltas[i])]

LEMMA ReadingGoesOn ==
    ASSUME NEW p, NEW deltas, NEW n \in Nat, NEW read, IsReading(p, deltas, n, read)
    PROVE  \E longer : IsReading(p, deltas, n + 1, longer)
<1>. DEFINE longer == [i \in 0 .. n + 1 |->
                          IF i <= n THEN read[i] ELSE AddCall(read[n], deltas[n + 1])]
<1>1. ASSUME NEW i \in 0 .. n + 1
      PROVE  longer[i] = IF i = 0 THEN p ELSE AddCall(longer[i - 1], deltas[i])
  <2>1. CASE i <= n /\ i # 0
    <3>1. longer[i] = read[i] /\ longer[i - 1] = read[i - 1] /\ i \in 0 .. n
      BY <2>1
    <3>2. read[i] = AddCall(read[i - 1], deltas[i])
      BY <2>1, <3>1 DEF IsReading
    <3>. QED BY <2>1, <3>1, <3>2
  <2>2. CASE i = 0
    BY <2>2 DEF IsReading
  <2>3. CASE i = n + 1
    <3>1. longer[i] = AddCall(read[n], deltas[i]) /\ longer[i - 1] = read[n] /\ i # 0
      BY <2>3
    <3>. QED BY <3>1
  <2>. QED BY <2>1, <2>2, <2>3
<1>2. longer = [i \in 0 .. n + 1 |-> longer[i]]
  OBVIOUS
<1>. HIDE DEF longer
<1>3. longer = [i \in 0 .. n + 1 |-> IF i = 0 THEN p ELSE AddCall(longer[i - 1], deltas[i])]
  BY <1>1, <1>2
<1>. QED BY <1>3 DEF IsReading

LEMMA ReadingEnds ==
    ASSUME NEW p, NEW deltas, Len(deltas) \in Nat
    PROVE  \E read : IsReading(p, deltas, Len(deltas), read)
<1>. DEFINE S == {n \in 0 .. Len(deltas) : \A read : ~IsReading(p, deltas, n, read)}
<1>1. ASSUME S # {} PROVE FALSE
  <2>1. PICK n \in S : \A m \in S : n <= m
    <3>. HIDE DEF S
    <3>1. S \subseteq 0 .. Len(deltas)
      BY DEF S
    <3>. QED BY <1>1, <3>1, Earliest
  <2>2. IsReading(p, deltas, 0, [i \in 0 .. 0 |-> p])
    BY DEF IsReading
  <2>3. n # 0
    BY <2>2
  <2>4. n - 1 \in 0 .. Len(deltas) /\ n - 1 \in Nat /\ n - 1 \notin S /\ n - 1 + 1 = n
    BY <2>1, <2>3
  <2>. QED BY <2>4, ReadingGoesOn
<1>. QED BY <1>1

Reads(p, deltas, read) ==
    /\ read[0] = p /\ AddCalls(p, deltas) = read[Len(deltas)]
    /\ \A n \in 1 .. Len(deltas) : read[n] = AddCall(read[n - 1], deltas[n])

LEMMA ReadInOrder ==
    ASSUME NEW p, NEW deltas, Len(deltas) \in Nat
    PROVE  \E read : Reads(p, deltas, read)
<1>. DEFINE read == CHOOSE r : r = [n \in 0 .. Len(deltas) |->
                                        IF n = 0 THEN p ELSE AddCall(r[n - 1], deltas[n])]
<1>1. AddCalls(p, deltas) = read[Len(deltas)]
  BY DEF AddCalls
<1>2. \E r : r = [n \in 0 .. Len(deltas) |-> IF n = 0 THEN p ELSE AddCall(r[n - 1], deltas[n])]
  <2>1. PICK r : IsReading(p, deltas, Len(deltas), r)
    BY ReadingEnds
  <2>2. r = [n \in 0 .. Len(deltas) |-> IF n = 0 THEN p ELSE AddCall(r[n - 1], deltas[n])]
    BY <2>1, Zenon DEF IsReading
  <2>. QED BY <2>2, Zenon
<1>3. read = [n \in 0 .. Len(deltas) |-> IF n = 0 THEN p ELSE AddCall(read[n - 1], deltas[n])]
  BY <1>2
<1>. HIDE DEF read
<1>4. read[0] = p
  BY <1>3
<1>5. ASSUME NEW n \in 1 .. Len(deltas) PROVE read[n] = AddCall(read[n - 1], deltas[n])
  BY <1>3
<1>. QED BY <1>1, <1>4, <1>5 DEF Reads

\* A delta adds to one call, or breaks the parser.
LEMMA FreshIsParser == IsParser(Fresh) /\ Fresh.ok
<1>. DEFINE slots == [i \in Indices |-> Call]
<1>1. slots = [i \in Indices |-> slots[i]]
  OBVIOUS
<1>. HIDE DEF slots
<1>. QED BY <1>1 DEF IsParser, Fresh

LEMMA BrokenIsParser == IsParser(Broken) /\ ~Broken.ok
<1>1. Broken = [Fresh EXCEPT !.ok = FALSE]
  BY DEF Broken
<1>. QED BY <1>1, FreshIsParser DEF IsParser

LEMMA AddCallKeeps ==
    ASSUME NEW p, NEW d, IsParser(p)
    PROVE  /\ IsParser(AddCall(p, d))
           /\ AddCall(p, d).ok \/ AddCall(p, d) = Broken
           /\ AddCall(p, d).ok => /\ p.ok /\ AddCall(p, d).content = p.content
                                  /\ AddCall(p, d).finish = p.finish
<1>. DEFINE c == p.calls[d.index]
            slots == [p.calls EXCEPT ![d.index] =
                         [begun |-> TRUE,
                          id |-> IF d.id = NoId THEN c.id ELSE d.id,
                          typed |-> c.typed \/ d.typed,
                          name |-> IF d.name = NoName THEN c.name ELSE d.name,
                          args |-> c.args \o d.args]]
<1>0. AddCall(p, d) = Broken \/ (p.ok /\ AddCall(p, d) = [p EXCEPT !.calls = slots])
  BY DEF AddCall
<1>1. slots = [i \in Indices |-> slots[i]]
  BY DEF IsParser
<1>2. ASSUME NEW others, p.ok, AddCall(p, d) = [p EXCEPT !.calls = others],
             others = [i \in Indices |-> others[i]]
      PROVE  /\ IsParser(AddCall(p, d)) /\ AddCall(p, d).ok
             /\ AddCall(p, d).content = p.content /\ AddCall(p, d).finish = p.finish
  BY <1>2 DEF IsParser
<1>. HIDE DEF slots
<1>3. CASE AddCall(p, d) = Broken
  BY <1>3, BrokenIsParser
<1>4. CASE p.ok /\ AddCall(p, d) = [p EXCEPT !.calls = slots]
  BY <1>1, <1>2, <1>4
<1>. QED BY <1>0, <1>3, <1>4

LEMMA AddCallsKeeps ==
    ASSUME NEW p, NEW deltas, IsParser(p), Len(deltas) \in Nat
    PROVE  /\ IsParser(AddCalls(p, deltas))
           /\ p.ok => AddCalls(p, deltas).ok \/ AddCalls(p, deltas) = Broken
           /\ AddCalls(p, deltas).ok => /\ p.ok /\ AddCalls(p, deltas).content = p.content
                                        /\ AddCalls(p, deltas).finish = p.finish
<1>1. PICK read : /\ read[0] = p /\ AddCalls(p, deltas) = read[Len(deltas)]
                  /\ \A n \in 1 .. Len(deltas) : read[n] = AddCall(read[n - 1], deltas[n])
  <2>1. PICK read : Reads(p, deltas, read)
    BY ReadInOrder
  <2>. QED BY <2>1 DEF Reads
<1>. DEFINE Kept(n) == /\ IsParser(read[n])
                       /\ p.ok => read[n].ok \/ read[n] = Broken
                       /\ read[n].ok => /\ p.ok /\ read[n].content = p.content
                                        /\ read[n].finish = p.finish
            S == {n \in 0 .. Len(deltas) : ~Kept(n)}
<1>2. ASSUME S # {} PROVE FALSE
  <2>1. PICK n \in S : \A m \in S : n <= m
    <3>. HIDE DEF S
    <3>1. S \subseteq 0 .. Len(deltas)
      BY DEF S
    <3>. QED BY <1>2, <3>1, Earliest
  <2>2. Kept(0)
    BY <1>1
  <2>3. n # 0
    BY <2>2
  <2>4. n \in 1 .. Len(deltas) /\ n - 1 \in 0 .. Len(deltas) /\ n - 1 \notin S
    BY <2>1, <2>3
  <2>5. Kept(n - 1) /\ read[n] = AddCall(read[n - 1], deltas[n])
    BY <1>1, <2>4
  <2>6. Kept(n)
    BY <2>5, AddCallKeeps
  <2>. QED BY <2>6
<1>3. Len(deltas) \notin S
  BY <1>2
<1>. QED BY <1>1, <1>3

\* The pieces of text there are.
Symbols == UNION {Range(m.content) : m \in Messages \cup Strays}

LEMMA WiderSeq ==
    ASSUME NEW S, NEW T, S \subseteq T, NEW s \in Seq(S)
    PROVE  s \in Seq(T)
  OBVIOUS

LEMMA MessageShapes ==
    /\ \A m \in Messages :
          /\ m.content \in Seq(Symbols) /\ Len(m.content) \in Nat
          /\ m.calls \in Seq(Range(m.calls)) /\ Len(m.calls) \in Nat
          /\ \A i \in 1 .. Len(m.calls) : m.calls[i] \in Range(m.calls)
    /\ \A k \in Strays : k.content \in Seq(Symbols) /\ Len(k.deltas) \in Nat
<1>1. ASSUME NEW m \in Messages
      PROVE  /\ m.content \in Seq(Symbols) /\ Len(m.content) \in Nat
             /\ m.calls \in Seq(Range(m.calls)) /\ Len(m.calls) \in Nat
             /\ \A i \in 1 .. Len(m.calls) : m.calls[i] \in Range(m.calls)
  <2>1. m.content \in Seq(Range(m.content)) /\ m.calls \in Seq(Range(m.calls))
    BY CompletionAssumption
  <2>2. Range(m.content) \subseteq Symbols
    BY DEF Symbols
  <2>. HIDE DEF Symbols
  <2>. QED BY <2>1, <2>2, WiderSeq
<1>2. ASSUME NEW k \in Strays PROVE k.content \in Seq(Symbols) /\ Len(k.deltas) \in Nat
  <2>1. k.content \in Seq(Range(k.content)) /\ k.deltas \in Seq(Range(k.deltas))
    BY CompletionAssumption
  <2>2. Range(k.content) \subseteq Symbols
    BY DEF Symbols
  <2>. HIDE DEF Symbols
  <2>. QED BY <2>1, <2>2, WiderSeq
<1>. QED BY <1>1, <1>2

LEMMA TextAdded ==
    ASSUME NEW p, NEW text, IsParser(p)
    PROVE  /\ IsParser([p EXCEPT !.content = text])
           /\ [p EXCEPT !.content = text].content = text
           /\ [p EXCEPT !.content = text].finish = p.finish
           /\ [p EXCEPT !.content = text].ok = p.ok
           /\ [p EXCEPT !.content = text].calls = p.calls
  BY DEF IsParser

\* A chunk that is read adds its text, and ends the answer if it says so.
LEMMA ChunkKeeps ==
    ASSUME NEW p, NEW k, IsParser(p), p.ok, p.content \in Seq(Symbols), k.content \in Seq(Symbols),
           Len(k.deltas) \in Nat
    PROVE  /\ IsParser(Chunk(p, k))
           /\ Chunk(p, k).ok => /\ Chunk(p, k).content = p.content \o k.content
                                /\ p.finish = "none" => Chunk(p, k).finish = k.finish
                                /\ p.finish # "none" => Chunk(p, k) = p
<1>1. CASE p.finish # "none"
  <2>1. (Chunk(p, k) = p /\ k.content = <<>>) \/ Chunk(p, k) = Broken
    BY <1>1 DEF Chunk, Echoes
  <2>2. p.content \o <<>> = p.content
    OBVIOUS
  <2>. QED BY <1>1, <2>1, <2>2, BrokenIsParser
<1>2. CASE p.finish = "none"
  <2>. DEFINE text == p.content \o k.content
              q == [p EXCEPT !.content = text]
              m == Message(p, k)
  <2>. HIDE DEF text
  <2>1. IsParser(q) /\ q.ok /\ q.content = text /\ q.finish = "none"
    BY <1>2, TextAdded
  <2>. HIDE DEF q
  <2>2. m = AddCalls(q, k.deltas) \/ m = Broken
    BY DEF Message, q, text
  <2>. HIDE DEF m
  <2>3. IsParser(m) /\ (m.ok => m.content = p.content \o k.content /\ m.finish = "none")
    <3>1. IsParser(AddCalls(q, k.deltas))
      BY <2>1, AddCallsKeeps
    <3>2. AddCalls(q, k.deltas).ok => AddCalls(q, k.deltas).content = q.content /\ AddCalls(q, k.deltas).finish = q.finish
      BY <2>1, AddCallsKeeps
    <3>. QED BY <2>1, <2>2, <3>1, <3>2, BrokenIsParser DEF text
  <2>4. Chunk(p, k) = Finishes(m, k.finish)
    BY <1>2 DEF Chunk, m
  <2>5. CASE ~m.ok
    <3>1. Chunk(p, k) = m
      BY <2>4, <2>5 DEF Finishes
    <3>. QED BY <1>2, <2>3, <2>5, <3>1
  <2>6. CASE m.ok /\ k.finish = "none"
    <3>1. Chunk(p, k) = m
      BY <2>4, <2>6 DEF Finishes
    <3>. QED BY <1>2, <2>3, <2>6, <3>1
  <2>7. CASE m.ok /\ k.finish # "none"
    <3>1. Chunk(p, k) = [m EXCEPT !.finish = k.finish] \/ Chunk(p, k) = Broken
      BY <2>4, <2>7 DEF Finishes
    <3>2. LET r == [m EXCEPT !.finish = k.finish] IN
            IsParser(r) /\ r.content = m.content /\ r.finish = k.finish
      BY <2>3 DEF IsParser
    <3>. QED BY <1>2, <2>3, <2>7, <3>1, <3>2, BrokenIsParser
  <2>. QED BY <2>5, <2>6, <2>7
<1>. QED BY <1>1, <1>2

\* What is shown is what was parsed; a request that met no fault has parsed the
\* text up to where the endpoint is, and was ended only where it ends.
TextInv ==
    /\ phase \in {"fetching", "reading"} =>
          /\ out = Nothing
          /\ IsParser(parser) /\ parser.ok
          /\ shown = parser.content /\ shown \in Seq(Symbols)
          /\ ~streamed \/ phase = "fetching" => parser = Fresh
          /\ meant \in Messages
          /\ sent = [content |-> sent.content, calls |-> sent.calls]
          /\ sent.content \in 0 .. Len(meant.content)
          /\ phase = "fetching" => sent.content = 0
          /\ faults = 0 =>
                /\ streamed => parser.content = SubSeq(meant.content, 1, sent.content)
                /\ parser.finish = "stop" => parser.content = meant.content /\ meant.calls = <<>>
    /\ last.content \in Seq(Symbols) /\ Len(last.deltas) \in Nat
    /\ faults \in Nat
    /\ TextIsWhole

LEMMA TextHoldsFirst == RequestInit => TextInv
  BY DEF RequestInit, TextInv, TextIsWhole, NoChunk, Nothing

\* One line of the stream.
LEMMA LineShows ==
    ASSUME TextInv, phase = "reading", NEW k, k.content \in Seq(Symbols), Len(k.deltas) \in Nat,
           Line(k)
    PROVE  /\ IsParser(parser')
           /\ phase' # "reading" => phase' = "closing" /\ out' = Failure("protocol")
           /\ phase' = "reading" =>
                 /\ out' = out /\ parser'.ok /\ shown' = parser'.content /\ shown' \in Seq(Symbols)
                 /\ shown' = shown \o k.content
                 /\ parser.finish = "none" => parser'.finish = k.finish
                 /\ parser.finish # "none" => parser' = parser
<1>1. /\ IsParser(parser) /\ parser.ok /\ shown = parser.content /\ shown \in Seq(Symbols)
  BY DEF TextInv
<1>2. /\ IsParser(Chunk(parser, k))
      /\ Chunk(parser, k).ok => /\ Chunk(parser, k).content = parser.content \o k.content
                                /\ parser.finish = "none" => Chunk(parser, k).finish = k.finish
                                /\ parser.finish # "none" => Chunk(parser, k) = parser
  BY <1>1, ChunkKeeps
<1>3. shown \o k.content \in Seq(Symbols)
  BY <1>1
<1>4. /\ parser' = Chunk(parser, k)
      /\ parser'.ok => shown' = shown \o k.content /\ phase' = phase /\ out' = out
      /\ ~parser'.ok => phase' = "closing" /\ out' = Failure("protocol")
  BY DEF Line, Close
<1>. QED BY <1>1, <1>2, <1>3, <1>4

\* A request begins with nothing parsed and nothing shown.
LEMMA AskShows ==
    ASSUME TextInv, NEW choice, NEW streaming, NEW pairs, Ask(choice, streaming, pairs)
    PROVE  TextInv'
<1>1. TextIsWhole'
  BY DEF Ask, TextIsWhole, Nothing, Failure
<1>2. last' = NoChunk /\ faults' = faults
  BY DEF Ask
<1>3. NoChunk.content \in Seq(Symbols) /\ Len(NoChunk.deltas) \in Nat
  BY DEF NoChunk
<1>4. ASSUME phase' \in {"fetching", "reading"}
      PROVE  /\ out' = Nothing /\ parser' = Fresh /\ shown' = <<>> /\ meant' \in Messages
             /\ sent' = [content |-> 0, calls |-> [i \in DOMAIN meant'.calls |-> 0]]
             /\ phase' = "fetching"
  BY <1>4 DEF Ask
<1>5. ASSUME phase' \in {"fetching", "reading"}
      PROVE  /\ Len(meant'.content) \in Nat /\ SubSeq(meant'.content, 1, 0) = <<>>
             /\ sent'.content = 0 /\ sent' = [content |-> sent'.content, calls |-> sent'.calls]
    BY <1>4, <1>5, MessageShapes
<1>6. Fresh.content = <<>> /\ Fresh.finish = "none" /\ <<>> \in Seq(Symbols)
  BY DEF Fresh
<1>7. ASSUME phase' \in {"fetching", "reading"}
      PROVE  /\ IsParser(parser') /\ parser'.ok /\ parser'.finish = "none"
             /\ shown' = parser'.content /\ shown' \in Seq(Symbols)
             /\ sent'.content \in 0 .. Len(meant'.content)
             /\ parser'.content = SubSeq(meant'.content, 1, sent'.content)
  <2>. HIDE DEF Fresh
  <2>1. parser' = Fresh /\ shown' = <<>> /\ sent'.content = 0 /\ Len(meant'.content) \in Nat
    BY <1>4, <1>5, <1>7
  <2>2. IsParser(parser') /\ parser'.ok
    BY <2>1, FreshIsParser
  <2>3. parser'.finish = "none" /\ parser'.content = <<>>
    BY <2>1, <1>6
  <2>4. sent'.content \in 0 .. Len(meant'.content)
    BY <2>1
  <2>5. SubSeq(meant'.content, 1, sent'.content) = <<>>
    BY <2>1, <1>5, <1>7
  <2>. QED BY <1>6, <2>1, <2>2, <2>3, <2>4, <2>5
<1>. HIDE DEF Fresh, NoChunk, TextIsWhole
<1>8. faults' \in Nat
  BY <1>2 DEF TextInv
<1>. QED BY <1>1, <1>2, <1>3, <1>4, <1>5, <1>7, <1>8 DEF TextInv

\* What the endpoint says next is a token, or a delta of one call.
LEMMA DueSays ==
    ASSUME meant \in Messages, sent = [content |-> sent.content, calls |-> sent.calls], NEW d \in Due
    PROVE  /\ d[1].finish = "none" /\ d[1].content \in Seq(Symbols) /\ Len(d[1].deltas) \in Nat
           /\ d[2] = [content |-> d[2].content, calls |-> d[2].calls]
           /\ \/ /\ sent.content + 1 \in 1 .. Len(meant.content) /\ d[2].content = sent.content + 1
                 /\ d[1].content = <<meant.content[sent.content + 1]>>
                 /\ d[1].deltas = <<>> /\ d[2].calls = sent.calls
              \/ /\ d[2].content = sent.content /\ d[1].content = <<>>
                 /\ \E i \in DOMAIN meant.calls :
                       sent.calls[i] <= Len(meant.calls[i].args) /\ d \in DueOf(i)
<1>1. /\ meant.content \in Seq(Symbols) /\ Len(meant.content) \in Nat
      /\ DOMAIN meant.content = 1 .. Len(meant.content)
      /\ \A n \in 1 .. Len(meant.content) : meant.content[n] \in Symbols
  BY MessageShapes
<1>2. CASE \E n \in {sent.content + 1} \cap DOMAIN meant.content :
              d = <<Saying(<<meant.content[n]>>, <<>>), [sent EXCEPT !.content = n]>>
  <2>1. PICK n \in {sent.content + 1} \cap DOMAIN meant.content :
              d = <<Saying(<<meant.content[n]>>, <<>>), [sent EXCEPT !.content = n]>>
    BY <1>2
  <2>2. n = sent.content + 1 /\ n \in 1 .. Len(meant.content)
    BY <1>1, <2>1
  <2>. DEFINE token == <<meant.content[n]>>
  <2>3. token \in Seq(Symbols)
    BY <1>1, <2>2
  <2>4. /\ d[1] = [content |-> token, deltas |-> <<>>, finish |-> "none"]
        /\ d[2] = [content |-> n, calls |-> sent.calls]
    BY <2>1 DEF Saying
  <2>5. token = <<meant.content[sent.content + 1]>>
    BY <2>2
  <2>. HIDE DEF token, Symbols
  <2>6. /\ d[1].content = token /\ d[1].deltas = <<>> /\ d[1].finish = "none"
        /\ d[2].content = n /\ d[2].calls = sent.calls
        /\ d[2] = [content |-> d[2].content, calls |-> d[2].calls]
    BY <2>4
  <2>7. Len(<<>>) \in Nat
    OBVIOUS
  <2>. QED BY <2>2, <2>3, <2>5, <2>6, <2>7
<1>3. CASE \E i \in DOMAIN meant.calls :
              sent.calls[i] <= Len(meant.calls[i].args) /\ d \in DueOf(i)
  <2>1. PICK i \in DOMAIN meant.calls :
              sent.calls[i] <= Len(meant.calls[i].args) /\ d \in DueOf(i)
    BY <1>3
  <2>2. PICK x, n : d = <<Saying(<<>>, <<x>>), [sent EXCEPT !.calls[i] = n]>>
    BY <2>1, Zenon DEF DueOf
  <2>. DEFINE one == <<x>>
              moved == [sent.calls EXCEPT ![i] = n]
  <2>3. /\ d[1] = [content |-> <<>>, deltas |-> one, finish |-> "none"]
        /\ d[2] = [content |-> sent.content, calls |-> moved]
    BY <2>2 DEF Saying
  <2>4. <<>> \in Seq(Symbols) /\ Len(one) \in Nat
    OBVIOUS
  <2>. HIDE DEF Symbols, one, moved
  <2>5. /\ d[1].finish = "none" /\ d[1].content = <<>> /\ d[1].deltas = one
        /\ d[2] = [content |-> d[2].content, calls |-> d[2].calls] /\ d[2].content = sent.content
    BY <2>3
  <2>. QED BY <2>1, <2>4, <2>5
<1>4. \/ \E n \in {sent.content + 1} \cap DOMAIN meant.content :
              d = <<Saying(<<meant.content[n]>>, <<>>), [sent EXCEPT !.content = n]>>
      \/ \E i \in DOMAIN meant.calls :
              sent.calls[i] <= Len(meant.calls[i].args) /\ d \in DueOf(i)
  BY Zenon DEF Due
<1>. QED BY <1>2, <1>3, <1>4

LEMMA NextPiece ==
    ASSUME NEW S, NEW s \in Seq(S), NEW n \in Nat, n + 1 \in 1 .. Len(s)
    PROVE  SubSeq(s, 1, n) \o <<s[n + 1]>> = SubSeq(s, 1, n + 1)
  OBVIOUS

LEMMA AllPieces ==
    ASSUME NEW S, NEW s \in Seq(S)
    PROVE  SubSeq(s, 1, Len(s)) = s
  OBVIOUS

\* A chunk that only ends the answer.
LEMMA EndChunk ==
    ASSUME NEW ended
    PROVE  LET k == [NoChunk EXCEPT !.finish = ended] IN
           /\ k.content = <<>> /\ k.content \in Seq(Symbols) /\ Len(k.deltas) \in Nat
           /\ k.finish = ended /\ k.deltas = <<>>
<1>. DEFINE k == [NoChunk EXCEPT !.finish = ended]
<1>1. k = [content |-> <<>>, deltas |-> <<>>, finish |-> ended]
  BY DEF NoChunk
<1>2. <<>> \in Seq(Symbols) /\ Len(<<>>) \in Nat
  OBVIOUS
<1>. HIDE DEF k
<1>3. k.content = <<>> /\ k.deltas = <<>> /\ k.finish = ended
  BY <1>1
<1>4. k.content = <<>> /\ k.content \in Seq(Symbols) /\ Len(k.deltas) \in Nat
      /\ k.finish = ended /\ k.deltas = <<>>
  BY <1>2, <1>3
<1>. QED BY <1>4 DEF k

\* Once the request is closing, only its result matters.
LEMMA ClosedText ==
    ASSUME TextInv, phase' \notin {"fetching", "reading"}, last' = last, faults' \in Nat, TextIsWhole'
    PROVE  TextInv'
  BY DEF TextInv

LEMMA NoText ==
    ASSUME out'.kind # "text"
    PROVE  TextIsWhole'
  BY DEF TextIsWhole

LEMMA FailureIsNoText == \A kind : Failure(kind).kind = kind
  BY DEF Failure, Nothing

\* What a line leaves of the invariant, once its own chunk is accounted for.
LEMMA LineKeepsText ==
    ASSUME TextInv, phase = "reading", streamed, NEW k, k.content \in Seq(Symbols),
           Len(k.deltas) \in Nat, Line(k), meant' = meant, streamed' = streamed, offer' = offer,
           sent' = [content |-> sent'.content, calls |-> sent'.calls],
           sent'.content \in 0 .. Len(meant.content),
           last'.content \in Seq(Symbols), Len(last'.deltas) \in Nat, faults' \in Nat,
           faults' = 0 /\ phase' = "reading" =>
              /\ parser'.content = SubSeq(meant.content, 1, sent'.content)
              /\ parser'.finish = "stop" => parser'.content = meant.content /\ meant.calls = <<>>
    PROVE  TextInv'
<1>1. /\ IsParser(parser')
      /\ phase' # "reading" => phase' = "closing" /\ out' = Failure("protocol")
      /\ phase' = "reading" =>
            /\ out' = out /\ parser'.ok /\ shown' = parser'.content /\ shown' \in Seq(Symbols)
  BY LineShows
<1>2. out = Nothing /\ meant \in Messages
  BY DEF TextInv
<1>3. CASE phase' = "reading"
  <2>1. out' = Nothing
    BY <1>1, <1>2, <1>3
  <2>2. Nothing.kind # "text"
    BY DEF Nothing
  <2>3. TextIsWhole'
    BY <2>1, <2>2, NoText
  <2>4. out'.kind # "text" /\ phase' # "fetching"
    BY <2>1, <2>2, <1>3
  <2>. HIDE DEF Nothing, TextIsWhole, Symbols, IsParser
  <2>. QED BY <1>1, <1>2, <1>3, <2>1, <2>3, <2>4 DEF TextInv
<1>4. CASE phase' # "reading"
  <2>1. TextIsWhole'
    BY <1>1, <1>4, FailureIsNoText, NoText
  <2>. HIDE DEF TextIsWhole
  <2>. QED BY <1>1, <1>4, <2>1 DEF TextInv
<1>. QED BY <1>3, <1>4

LEMMA StreamShows ==
    ASSUME TextInv, SendChunk \/ SendFinish \/ SendEcho \/ Fault
    PROVE  TextInv'
<1>1. /\ phase = "reading" /\ streamed /\ meant' = meant /\ streamed' = streamed /\ offer' = offer
      /\ faults' \in Nat /\ faults \in Nat
      /\ ~Fault => faults' = faults
  BY DEF SendChunk, SendFinish, SendEcho, Fault, Streaming, Reading, askVars, TextInv
<1>2. /\ parser.content = shown /\ meant \in Messages /\ out = Nothing
      /\ sent = [content |-> sent.content, calls |-> sent.calls]
      /\ sent.content \in 0 .. Len(meant.content)
      /\ faults = 0 => /\ parser.content = SubSeq(meant.content, 1, sent.content)
                       /\ parser.finish = "stop" => parser.content = meant.content /\ meant.calls = <<>>
      /\ last.content \in Seq(Symbols) /\ Len(last.deltas) \in Nat
  BY <1>1 DEF TextInv
<1>3. meant.content \in Seq(Symbols) /\ Len(meant.content) \in Nat
  BY <1>2, MessageShapes
<1>4. CASE SendChunk
  <2>1. PICK d \in Due : Line(d[1]) /\ sent' = d[2] /\ last' = d[1]
    BY <1>4 DEF SendChunk
  <2>2. /\ parser.finish = "none" /\ faults' = faults
    BY <1>4 DEF SendChunk
  <2>3. /\ d[1].finish = "none" /\ d[1].content \in Seq(Symbols) /\ Len(d[1].deltas) \in Nat
        /\ d[2] = [content |-> d[2].content, calls |-> d[2].calls]
        /\ \/ /\ sent.content + 1 \in 1 .. Len(meant.content) /\ d[2].content = sent.content + 1
              /\ d[1].content = <<meant.content[sent.content + 1]>>
           \/ d[2].content = sent.content /\ d[1].content = <<>>
    BY <1>2, DueSays
  <2>4. phase' = "reading" => /\ shown' = shown \o d[1].content /\ shown' = parser'.content
                              /\ parser'.finish = "none"
    BY <1>1, <2>1, <2>2, <2>3, LineShows
  <2>5. faults = 0 => shown \o d[1].content = SubSeq(meant.content, 1, d[2].content)
    <3>1. ASSUME sent.content + 1 \in 1 .. Len(meant.content)
          PROVE  SubSeq(meant.content, 1, sent.content) \o <<meant.content[sent.content + 1]>>
                    = SubSeq(meant.content, 1, sent.content + 1)
      BY <1>2, <1>3, <3>1, NextPiece
    <3>2. SubSeq(meant.content, 1, sent.content) \o <<>> = SubSeq(meant.content, 1, sent.content)
      BY <1>2, <1>3
    <3>. QED BY <1>2, <2>3, <3>1, <3>2
  <2>6. d[2].content \in 0 .. Len(meant.content)
    BY <1>2, <1>3, <2>3
  <2>. HIDE DEF TextInv, Line
  <2>. QED BY <1>1, <1>2, <2>1, <2>2, <2>3, <2>4, <2>5, <2>6, LineKeepsText
<1>5. CASE SendFinish
  <2>. DEFINE k == [NoChunk EXCEPT !.finish = Reason]
  <2>1. /\ Line(k) /\ last' = k /\ sent' = sent /\ parser.finish = "none" /\ faults' = faults
    BY <1>5 DEF SendFinish
  <2>2. /\ k.content = <<>> /\ k.content \in Seq(Symbols) /\ Len(k.deltas) \in Nat
        /\ k.finish = Reason
    BY EndChunk
  <2>. HIDE DEF k
  <2>3. phase' = "reading" => /\ shown' = shown \o <<>> /\ shown' = parser'.content
                              /\ parser'.finish = Reason
    BY <1>1, <2>1, <2>2, LineShows
  <2>4. faults = 0 => shown \o <<>> = SubSeq(meant.content, 1, sent.content)
    BY <1>2, <1>3
  <2>5. Reason = "stop" => sent.content = Len(meant.content) /\ meant.calls = <<>>
    BY DEF Reason, Whole
  <2>6. SubSeq(meant.content, 1, Len(meant.content)) = meant.content
    BY <1>3, AllPieces
  <2>. HIDE DEF TextInv, Line, Reason
  <2>. QED BY <1>1, <1>2, <2>1, <2>2, <2>3, <2>4, <2>5, <2>6, LineKeepsText
<1>6. CASE SendEcho
  <2>. DEFINE k == [NoChunk EXCEPT !.finish = parser.finish]
  <2>1. Line(k) /\ last' = last /\ sent' = sent /\ parser.finish # "none" /\ faults' = faults
    BY <1>6 DEF SendEcho
  <2>2. k.content \in Seq(Symbols) /\ Len(k.deltas) \in Nat
    BY EndChunk
  <2>. HIDE DEF k
  <2>3. phase' = "reading" => parser' = parser
    BY <1>1, <2>1, <2>2, LineShows
  <2>. HIDE DEF TextInv, Line
  <2>. QED BY <1>1, <1>2, <2>1, <2>2, <2>3, LineKeepsText
<1>7. CASE Fault
  <2>1. faults' # 0 /\ faults' \in Nat
    BY <1>1, <1>7 DEF Fault
  <2>2. CASE parser.finish = "none" /\ \E d \in Due : sent' = d[2] /\ UNCHANGED <<phase, parser, shown, out, last>>
    <3>1. PICK d \in Due : sent' = d[2] /\ UNCHANGED <<phase, parser, shown, out, last>>
      BY <2>2
    <3>2. /\ d[2] = [content |-> d[2].content, calls |-> d[2].calls]
          /\ d[2].content \in 0 .. Len(meant.content)
      BY <1>2, <1>3, DueSays
    <3>3. Nothing.kind # "text"
      BY DEF Nothing
    <3>4. TextIsWhole'
      BY <1>2, <3>1, <3>3, NoText
    <3>. HIDE DEF TextIsWhole, Nothing
    <3>. QED BY <1>1, <1>2, <2>1, <3>1, <3>2, <3>4 DEF TextInv
  <2>3. CASE Line(last) /\ UNCHANGED <<sent, last>>
    <3>. HIDE DEF TextInv, Line
    <3>. QED BY <1>1, <1>2, <2>1, <2>3, LineKeepsText
  <2>4. CASE \E k \in Strays : Line(k) /\ UNCHANGED <<sent, last>>
    <3>1. PICK k \in Strays : Line(k) /\ UNCHANGED <<sent, last>>
      BY <2>4
    <3>2. k.content \in Seq(Symbols) /\ Len(k.deltas) \in Nat
      BY MessageShapes
    <3>. HIDE DEF TextInv, Line
    <3>. QED BY <1>1, <1>2, <2>1, <3>1, <3>2, LineKeepsText
  <2>5. CASE Close(Failure("protocol")) /\ UNCHANGED <<parser, shown, sent, last>>
    <3>1. phase' = "closing" /\ TextIsWhole'
      BY <2>5, FailureIsNoText, NoText DEF Close
    <3>. QED BY <2>1, <2>5, <3>1, ClosedText
  <2>. QED BY <1>7, <2>2, <2>3, <2>4, <2>5 DEF Fault
<1>. QED BY <1>4, <1>5, <1>6, <1>7

LEMMA TextResult ==
    ASSUME NEW p, NEW done, ResultOf(p, done).kind = "text"
    PROVE  WholeText(p) /\ ResultOf(p, done).content = p.content
<1>. DEFINE n == Cardinality(Started(p))
<1>1. \/ ResultOf(p, done).kind = "calls"
      \/ /\ WholeText(p)
         /\ ResultOf(p, done) = [kind |-> "text", content |-> p.content, calls |-> <<>>]
      \/ ResultOf(p, done) = Failure("protocol")
  <2>1. CASE n > 0 /\ WholeCalls(p, done)
    BY <2>1 DEF ResultOf
  <2>2. CASE ~(n > 0 /\ WholeCalls(p, done)) /\ n = 0 /\ WholeText(p)
    BY <2>2 DEF ResultOf
  <2>3. CASE ~(n > 0 /\ WholeCalls(p, done)) /\ ~(n = 0 /\ WholeText(p))
    BY <2>3 DEF ResultOf
  <2>. QED BY <2>1, <2>2, <2>3
<1>. QED BY <1>1, FailureIsNoText

\* What the whole body says, at most cut short.
Said(n, all) ==
    LET cut == n < Len(meant.content) \/ ~all IN
    [content |-> SubSeq(meant.content, 1, n),
     deltas |-> IF ~all THEN <<>>
                ELSE [i \in DOMAIN meant.calls |->
                        Delta(i, meant.calls[i].id, TRUE,
                              meant.calls[i].name, meant.calls[i].args)],
     finish |-> IF cut THEN "length"
                ELSE IF meant.calls = <<>> THEN "stop" ELSE "tool_calls"]

LEMMA SaidWhole ==
    ASSUME meant \in Messages, NEW n \in 0 .. Len(meant.content), NEW all \in BOOLEAN
    PROVE  /\ Said(n, all).content = SubSeq(meant.content, 1, n)
           /\ Said(n, all).content \in Seq(Symbols) /\ Len(Said(n, all).deltas) \in Nat
           /\ Said(n, all).finish = "stop" =>
                 meant.calls = <<>> /\ Said(n, all).content = meant.content
<1>1. /\ meant.content \in Seq(Symbols) /\ Len(meant.content) \in Nat
      /\ meant.calls \in Seq(Range(meant.calls)) /\ Len(meant.calls) \in Nat
  BY MessageShapes, CompletionAssumption
<1>. DEFINE deltas == [i \in DOMAIN meant.calls |->
                         Delta(i, meant.calls[i].id, TRUE,
                               meant.calls[i].name, meant.calls[i].args)]
<1>2. Len(deltas) \in Nat /\ Len(<<>>) \in Nat
  <2>1. DOMAIN deltas = 1 .. Len(meant.calls)
    BY <1>1
  <2>. HIDE DEF deltas
  <2>2. Len(deltas) = Len(meant.calls)
    BY <1>1, <2>1
  <2>. QED BY <1>1, <2>2
<1>. DEFINE text == SubSeq(meant.content, 1, n)
<1>3. text \in Seq(Symbols) /\ (n = Len(meant.content) => text = meant.content)
  BY <1>1
<1>. HIDE DEF deltas, text, Symbols
<1>4. /\ Said(n, all).content = text
      /\ Said(n, all).deltas = IF ~all THEN <<>> ELSE deltas
      /\ Said(n, all).finish = IF n < Len(meant.content) \/ ~all THEN "length"
                               ELSE IF meant.calls = <<>> THEN "stop" ELSE "tool_calls"
  BY DEF Said, deltas, text
<1>5. Len(Said(n, all).deltas) \in Nat
  BY <1>2, <1>4
<1>6. Said(n, all).finish = "stop" => n = Len(meant.content) /\ meant.calls = <<>>
  BY <1>1, <1>4
<1>. QED BY <1>3, <1>4, <1>5, <1>6 DEF text

LEMMA WholeShows ==
    ASSUME TextInv, SendWhole \/ SendDone
    PROVE  TextInv'
<1>1. /\ phase = "reading" /\ phase' = "closing" /\ meant' = meant /\ streamed' = streamed
      /\ offer' = offer /\ shown' = shown /\ last' = last /\ faults' = faults
  BY DEF SendWhole, SendDone, Streaming, Reading, askVars, Close
<1>2. /\ IsParser(parser) /\ parser.ok /\ parser.content = shown /\ meant \in Messages
      /\ shown \in Seq(Symbols)
      /\ ~streamed => parser = Fresh
  BY <1>1 DEF TextInv
<1>3. faults = 0 /\ parser.finish = "stop" => parser.content = meant.content /\ meant.calls = <<>>
  BY <1>1 DEF TextInv
<1>4. faults' \in Nat
  BY <1>1 DEF TextInv
<1>5. CASE SendDone
  <2>1. PICK done \in BOOLEAN : out' = ResultOf(parser, done)
    BY <1>5 DEF SendDone, Close
  <2>2. out'.kind = "text" => WholeText(parser) /\ out'.content = parser.content
    BY <2>1, TextResult
  <2>3. WholeText(parser) /\ offer # "absent" => parser.finish = "stop"
    BY DEF WholeText
  <2>4. TextIsWhole'
    BY <1>1, <1>2, <1>3, <2>2, <2>3 DEF TextIsWhole
  <2>. QED BY <1>1, <1>4, <2>4, ClosedText
<1>6. CASE SendWhole
  <2>1. PICK n \in 0 .. Len(meant.content), all \in BOOLEAN :
           out' = ResultOf(Chunk(parser, Said(n, all)), TRUE)
    BY <1>6, Zenon DEF SendWhole, Close, Said
  <2>2. ~streamed /\ parser = Fresh
    BY <1>2, <1>6 DEF SendWhole
  <2>3. Fresh.finish = "none" /\ Fresh.content = <<>>
    BY DEF Fresh
  <2>. DEFINE p == Chunk(parser, Said(n, all))
  <2>4. /\ Said(n, all).content \in Seq(Symbols) /\ Len(Said(n, all).deltas) \in Nat
        /\ Said(n, all).finish = "stop" =>
              meant.calls = <<>> /\ Said(n, all).content = meant.content
    BY <1>2, SaidWhole
  <2>5. p.ok => p.content = parser.content \o Said(n, all).content /\ p.finish = Said(n, all).finish
    <3>1. parser.finish = "none" /\ parser.content \in Seq(Symbols)
      BY <1>2, <2>2, <2>3
    <3>. DEFINE k == Said(n, all)
    <3>2. k.content \in Seq(Symbols) /\ Len(k.deltas) \in Nat
      BY <2>4
    <3>. HIDE DEF k
    <3>3. p.ok => p.content = parser.content \o k.content /\ p.finish = k.finish
      BY <1>2, <3>1, <3>2, ChunkKeeps DEF k
    <3>. QED BY <3>3 DEF k
  <2>6. parser.content \o Said(n, all).content = Said(n, all).content
    BY <2>2, <2>3, <2>4
  <2>. HIDE DEF p
  <2>7. out'.kind = "text" => WholeText(p) /\ out'.content = p.content
    BY <2>1, TextResult DEF p
  <2>8. WholeText(p) => p.ok /\ (offer # "absent" => p.finish = "stop")
    BY DEF WholeText
  <2>9. TextIsWhole'
    BY <1>1, <2>2, <2>4, <2>5, <2>6, <2>7, <2>8 DEF TextIsWhole
  <2>. QED BY <1>1, <1>4, <2>9, ClosedText
<1>. QED BY <1>5, <1>6

LEMMA RestShows ==
    ASSUME TextInv, \/ HeadersArrive \/ FetchFails \/ TimerFires \/ ClientAborts \/ Rejects
                    \/ Returns \/ UNCHANGED requestVars
    PROVE  TextInv'
<1>1. faults' = faults /\ last' = last /\ faults \in Nat
  BY DEF TextInv, HeadersArrive, FetchFails, TimerFires, ClientAborts, Rejects, Returns, requestVars
<1>2. CASE HeadersArrive
  <2>1. /\ phase = "fetching" /\ phase' = "reading"
        /\ UNCHANGED <<parser, shown, out, meant, sent, streamed, offer>>
    BY <1>2 DEF HeadersArrive, askVars
  <2>2. parser.finish = "none" /\ parser.content = <<>> /\ sent.content = 0
        /\ meant.content \in Seq(Symbols) /\ TextIsWhole
    BY <2>1, MessageShapes DEF TextInv, Fresh
  <2>3. SubSeq(meant.content, 1, 0) = <<>>
    BY <2>2
  <2>4. TextIsWhole'
    BY <1>1, <2>1, <2>2 DEF TextIsWhole
  <2>. HIDE DEF TextIsWhole, IsParser
  <2>. QED BY <1>1, <2>1, <2>2, <2>3, <2>4 DEF TextInv
<1>3. CASE FetchFails \/ Rejects
  <2>1. phase' \notin {"fetching", "reading"} /\ \E kind \in {"status", "unreachable", "aborted"} : out' = Failure(kind)
    BY <1>3 DEF FetchFails, Rejects, Close
  <2>2. TextIsWhole'
    BY <2>1, FailureIsNoText, NoText
  <2>. QED BY <1>1, <2>1, <2>2, ClosedText
<1>4. CASE Returns
  <2>1. phase' \notin {"fetching", "reading"}
    BY <1>4 DEF Returns
  <2>2. TextIsWhole'
    <3>1. CASE out' = out
      <4>1. UNCHANGED <<offer, meant, streamed, shown, faults, out>>
        BY <1>4, <3>1 DEF Returns, askVars
      <4>2. TextIsWhole
        BY DEF TextInv
      <4>. QED BY <4>1, <4>2 DEF TextIsWhole
    <3>2. CASE out' = Failure("timeout") \/ out' = Failure("aborted")
      BY <3>2, FailureIsNoText, NoText
    <3>. QED BY <1>4, <3>1, <3>2 DEF Returns
  <2>. QED BY <1>1, <2>1, <2>2, ClosedText
<1>5. CASE TimerFires \/ ClientAborts \/ UNCHANGED requestVars
  <2>1. UNCHANGED <<phase, parser, shown, out, meant, sent, last, faults, streamed, offer>>
    BY <1>5 DEF TimerFires, ClientAborts, requestVars, askVars
  <2>. QED BY <2>1 DEF TextInv, TextIsWhole
<1>. QED BY <1>2, <1>3, <1>4, <1>5

LEMMA TextStep == TextInv /\ [RequestNext]_requestVars => TextInv'
<1>1. ASSUME TextInv, Continue \/ NewTurn \/ PlainChat PROVE TextInv'
  BY <1>1, AskShows DEF Continue, NewTurn, PlainChat
<1>. QED BY <1>1, StreamShows, WholeShows, RestShows DEF RequestNext, Endpoint

\* What the user saw stream by is what is stored, whatever the gateway did to
\* the lines; and without a fault an answer of the loop is the whole message.
THEOREM AnswersAreWhole == RequestSpec => []TextIsWhole
<1>1. TextInv => TextIsWhole
  BY DEF TextInv
<1>. QED BY <1>1, TextHoldsFirst, TextStep, PTL DEF RequestSpec

\* The signal replaces whatever was read.
THEOREM AbortsAreKept == RequestSpec => []AbortedHasNoAnswer
<1>1. RequestInit => AbortedHasNoAnswer
  BY DEF RequestInit, AbortedHasNoAnswer
<1>2. AbortedHasNoAnswer /\ [RequestNext]_requestVars => AbortedHasNoAnswer'
  <2>. SUFFICES ASSUME AbortedHasNoAnswer, [RequestNext]_requestVars PROVE AbortedHasNoAnswer'
    OBVIOUS
  <2>1. CASE Continue \/ NewTurn \/ PlainChat
    BY <2>1 DEF Continue, NewTurn, PlainChat, Ask, AbortedHasNoAnswer
  <2>2. CASE HeadersArrive \/ FetchFails \/ TimerFires \/ ClientAborts \/ Rejects
    BY <2>2 DEF HeadersArrive, FetchFails, TimerFires, ClientAborts, Rejects, Close, signal,
                AbortedHasNoAnswer
  <2>3. CASE SendChunk \/ SendFinish \/ SendEcho \/ SendDone \/ SendWhole \/ Fault
    <3>1. phase' \in {"reading", "closing"}
      BY <2>3 DEF SendChunk, SendFinish, SendEcho, SendDone, SendWhole, Fault, Streaming, Reading,
                  Line, Close
    <3>. QED BY <3>1 DEF AbortedHasNoAnswer
  <2>4. CASE Returns
    <3>1. Failure("timeout").kind = "timeout" /\ Failure("aborted").kind = "aborted"
      BY FailureIsNoText
    <3>2. aborted' => out' = Failure("timeout") \/ out' = Failure("aborted")
      BY <2>4 DEF Returns, signal
    <3>. QED BY <3>1, <3>2 DEF AbortedHasNoAnswer
  <2>5. CASE UNCHANGED requestVars
    BY <2>5 DEF requestVars, signal, AbortedHasNoAnswer
  <2>. QED BY <2>1, <2>2, <2>3, <2>4, <2>5 DEF RequestNext, Endpoint
<1>. QED BY <1>1, <1>2, PTL DEF RequestSpec

-----------------------------------------------------------------------------
(* Completion: the calls of a request                                        *)

\* A delta that the parser accepts.
Merged(c, d) ==
    [begun |-> TRUE,
     id |-> IF d.id = NoId THEN c.id ELSE d.id,
     typed |-> c.typed \/ d.typed,
     name |-> IF d.name = NoName THEN c.name ELSE d.name,
     args |-> c.args \o d.args]

LEMMA Accepted ==
    ASSUME NEW p, NEW d, IsParser(p), AddCall(p, d).ok
    PROVE  /\ p.ok /\ d.index \in Indices /\ Settable(p.calls[d.index], d)
           /\ AddCall(p, d).calls[d.index] = Merged(p.calls[d.index], d)
           /\ \A i \in Indices : i # d.index => AddCall(p, d).calls[i] = p.calls[i]
<1>. DEFINE slots == [p.calls EXCEPT ![d.index] = Merged(p.calls[d.index], d)]
<1>1. \/ AddCall(p, d) = Broken
      \/ /\ p.ok /\ d.index \in Indices /\ Settable(p.calls[d.index], d)
         /\ AddCall(p, d) = [p EXCEPT !.calls = slots]
  BY DEF AddCall, Merged
<1>2. AddCall(p, d) # Broken
  BY BrokenIsParser
<1>3. /\ d.index \in Indices => slots[d.index] = Merged(p.calls[d.index], d)
      /\ \A i \in Indices : i # d.index => slots[i] = p.calls[i]
  BY DEF IsParser
<1>. HIDE DEF slots
<1>4. [p EXCEPT !.calls = slots].calls = slots
  BY DEF IsParser
<1>5. /\ p.ok /\ d.index \in Indices /\ Settable(p.calls[d.index], d)
      /\ AddCall(p, d).calls = slots
  BY <1>1, <1>2, <1>4
<1>. QED BY <1>3, <1>5

LEMMA OneDelta ==
    ASSUME NEW p, NEW deltas, Len(deltas) = 1
    PROVE  AddCalls(p, deltas) = AddCall(p, deltas[1])
<1>1. PICK read : /\ read[0] = p /\ AddCalls(p, deltas) = read[Len(deltas)]
                  /\ \A n \in 1 .. Len(deltas) : read[n] = AddCall(read[n - 1], deltas[n])
  <2>1. PICK read : Reads(p, deltas, read)
    BY ReadInOrder
  <2>. QED BY <2>1 DEF Reads
<1>2. read[1] = AddCall(read[0], deltas[1])
  BY <1>1
<1>. QED BY <1>1, <1>2

LEMMA NoDelta ==
    ASSUME NEW p
    PROVE  AddCalls(p, <<>>) = p
<1>1. Len(<<>>) = 0 /\ Len(<<>>) \in Nat
  OBVIOUS
<1>2. PICK read : read[0] = p /\ AddCalls(p, <<>>) = read[Len(<<>>)]
  BY <1>1, ReadInOrder DEF Reads
<1>. QED BY <1>1, <1>2

\* The calls of a chunk are those of its deltas.
LEMMA ChunkReads ==
    ASSUME NEW p, NEW k, IsParser(p), p.ok, Len(k.deltas) \in Nat, Chunk(p, k).ok
    PROVE  \/ p.finish # "none" /\ Chunk(p, k) = p
           \/ /\ AddCalls([p EXCEPT !.content = p.content \o k.content], k.deltas).ok
              /\ Chunk(p, k).calls
                    = AddCalls([p EXCEPT !.content = p.content \o k.content], k.deltas).calls
<1>. DEFINE q == [p EXCEPT !.content = p.content \o k.content]
            m == Message(p, k)
<1>1. Chunk(p, k) # Broken
  BY BrokenIsParser
<1>2. CASE p.finish # "none"
  BY <1>1, <1>2 DEF Chunk
<1>3. CASE p.finish = "none"
  <2>1. Chunk(p, k) = Finishes(m, k.finish)
    BY <1>3 DEF Chunk
  <2>2. m = AddCalls(q, k.deltas) \/ m = Broken
    BY DEF Message
  <2>3. IsParser(q)
    BY TextAdded
  <2>. HIDE DEF q, m
  <2>4. IsParser(m)
    BY <2>2, <2>3, AddCallsKeeps, BrokenIsParser
  <2>5. \/ Finishes(m, k.finish) = m
        \/ m.ok /\ Finishes(m, k.finish) = [m EXCEPT !.finish = k.finish]
        \/ Finishes(m, k.finish) = Broken
    <3>1. CASE ~m.ok
      BY <3>1 DEF Finishes
    <3>2. CASE m.ok /\ k.finish = "none"
      BY <3>2 DEF Finishes
    <3>3. CASE m.ok /\ k.finish # "none"
      BY <3>3 DEF Finishes
    <3>. QED BY <3>1, <3>2, <3>3
  <2>6. [m EXCEPT !.finish = k.finish].calls = m.calls
    BY <2>4 DEF IsParser
  <2>7. m.ok /\ Chunk(p, k).calls = m.calls
    BY <1>1, <2>1, <2>5, <2>6
  <2>8. m = AddCalls(q, k.deltas)
    BY <2>2, <2>7, BrokenIsParser
  <2>9. AddCalls(q, k.deltas).ok /\ Chunk(p, k).calls = AddCalls(q, k.deltas).calls
    BY <2>7, <2>8
  <2>. QED BY <2>9 DEF q
<1>. QED BY <1>2, <1>3

\* The head of a call is the one meant at its index, or made up of what a
\* gateway invents for it.
MeantHead(c, i) ==
    /\ i + 1 \in DOMAIN meant.calls /\ c.typed
    /\ c.id = meant.calls[i + 1].id /\ c.name = meant.calls[i + 1].name
InventedHead(c, i) ==
    /\ c.id = NoId \/ \E d \in Noise(i) : c.id = d.id
    /\ c.name = NoName \/ \E d \in Noise(i) : c.name = d.name
TameSlot(c, i) == (c = Call \/ c.begun) /\ (MeantHead(c, i) \/ InventedHead(c, i))
TameParser(p) == \A i \in Indices : TameSlot(p.calls[i], i)
TameDelta(d) ==
    d.index \in Indices =>
       \/ MeantHead(d, d.index)
       \/ d.id = NoId /\ ~d.typed /\ d.name = NoName
       \/ d \in Noise(d.index)
TameChunk(k) == Len(k.deltas) \in Nat /\ \A n \in 1 .. Len(k.deltas) : TameDelta(k.deltas[n])

LEMMA TameStep ==
    ASSUME meant \in Messages, NEW p, NEW d, IsParser(p), TameParser(p), TameDelta(d),
           AddCall(p, d).ok
    PROVE  TameParser(AddCall(p, d))
<1>. DEFINE i == d.index
            c == p.calls[i]
            x == Merged(c, d)
<1>1. /\ i \in Indices /\ Settable(c, d) /\ AddCall(p, d).calls[i] = x
      /\ \A j \in Indices : j # i => AddCall(p, d).calls[j] = p.calls[j]
  BY Accepted
<1>2. /\ TameSlot(c, i)
      /\ MeantHead(d, i) \/ (d.id = NoId /\ ~d.typed /\ d.name = NoName) \/ d \in Noise(i)
  BY <1>1 DEF TameParser, TameDelta
<1>3. i + 1 \in DOMAIN meant.calls => meant.calls[i + 1].id # NoId /\ meant.calls[i + 1].name # NoName
  <2>1. i + 1 \in DOMAIN meant.calls => meant.calls[i + 1] \in Range(meant.calls)
    BY DEF Range
  <2>. QED BY <2>1, CompletionAssumption
<1>4. /\ d.id # NoId => c.id = NoId
      /\ d.typed => ~c.typed
      /\ d.name # NoName => c.name = NoName
  BY <1>1 DEF Settable
<1>5. /\ x.begun
      /\ x.id = IF d.id = NoId THEN c.id ELSE d.id
      /\ c.typed \/ d.typed => x.typed
      /\ x.name = IF d.name = NoName THEN c.name ELSE d.name
  BY DEF Merged
<1>. HIDE DEF i, c, x
<1>6. ASSUME MeantHead(d, i) PROVE TameSlot(x, i)
  <2>1. /\ i + 1 \in DOMAIN meant.calls /\ d.typed
        /\ d.id = meant.calls[i + 1].id /\ d.name = meant.calls[i + 1].name
    BY <1>6 DEF MeantHead
  <2>2. x.typed /\ x.id = d.id /\ x.name = d.name
    BY <1>3, <1>5, <2>1
  <2>. QED BY <1>5, <2>1, <2>2 DEF MeantHead, TameSlot
<1>7. ASSUME MeantHead(c, i) PROVE TameSlot(x, i)
  <2>1. /\ i + 1 \in DOMAIN meant.calls /\ c.typed
        /\ c.id = meant.calls[i + 1].id /\ c.name = meant.calls[i + 1].name
    BY <1>7 DEF MeantHead
  <2>2. d.id = NoId /\ d.name = NoName
    BY <1>3, <1>4, <2>1
  <2>3. x.typed /\ x.id = c.id /\ x.name = c.name
    BY <1>5, <2>1, <2>2
  <2>. QED BY <1>5, <2>1, <2>3 DEF MeantHead, TameSlot
<1>8. ASSUME ~MeantHead(d, i), InventedHead(c, i) PROVE TameSlot(x, i)
  <2>1. x.id = NoId \/ \E e \in Noise(i) : x.id = e.id
    BY <1>2, <1>5, <1>8 DEF InventedHead
  <2>2. x.name = NoName \/ \E e \in Noise(i) : x.name = e.name
    BY <1>2, <1>5, <1>8 DEF InventedHead
  <2>. QED BY <1>5, <2>1, <2>2 DEF InventedHead, TameSlot
<1>9. TameSlot(x, i)
  <2>1. MeantHead(c, i) \/ InventedHead(c, i)
    BY <1>2 DEF TameSlot
  <2>. QED BY <1>6, <1>7, <1>8, <2>1
<1>. QED BY <1>1, <1>9 DEF TameParser, i, c, x

LEMMA TameReads ==
    ASSUME meant \in Messages, NEW p, NEW deltas, Len(deltas) \in Nat, IsParser(p),
           TameParser(p), \A n \in 1 .. Len(deltas) : TameDelta(deltas[n]), AddCalls(p, deltas).ok
    PROVE  TameParser(AddCalls(p, deltas))
<1>1. PICK read : /\ read[0] = p /\ AddCalls(p, deltas) = read[Len(deltas)]
                  /\ \A n \in 1 .. Len(deltas) : read[n] = AddCall(read[n - 1], deltas[n])
  <2>1. PICK read : Reads(p, deltas, read)
    BY ReadInOrder
  <2>. QED BY <2>1 DEF Reads
<1>. DEFINE Tame(n) == IsParser(read[n]) /\ (read[n].ok => TameParser(read[n]))
            S == {n \in 0 .. Len(deltas) : ~Tame(n)}
<1>2. ASSUME S # {} PROVE FALSE
  <2>1. PICK n \in S : \A m \in S : n <= m
    <3>. HIDE DEF S
    <3>1. S \subseteq 0 .. Len(deltas)
      BY DEF S
    <3>. QED BY <1>2, <3>1, Earliest
  <2>2. Tame(0)
    BY <1>1
  <2>3. n # 0
    BY <2>2
  <2>4. n \in 1 .. Len(deltas) /\ n - 1 \in 0 .. Len(deltas) /\ n - 1 \notin S
    BY <2>1, <2>3
  <2>5. Tame(n - 1) /\ read[n] = AddCall(read[n - 1], deltas[n]) /\ TameDelta(deltas[n])
    BY <1>1, <2>4
  <2>6. IsParser(read[n]) /\ (read[n].ok => read[n - 1].ok)
    BY <2>5, AddCallKeeps
  <2>7. Tame(n)
    <3>1. read[n].ok => AddCall(read[n - 1], deltas[n]).ok /\ TameParser(read[n - 1])
      BY <2>5, <2>6
    <3>2. read[n].ok => TameParser(AddCall(read[n - 1], deltas[n]))
      BY <2>5, <3>1, TameStep
    <3>. QED BY <2>5, <2>6, <3>2
  <2>. QED BY <2>7
<1>3. Len(deltas) \notin S
  BY <1>2
<1>4. Tame(Len(deltas))
  BY <1>3
<1>. QED BY <1>1, <1>4

LEMMA ChunkTame ==
    ASSUME meant \in Messages, NEW p, NEW k, IsParser(p), p.ok, TameParser(p), TameChunk(k),
           Chunk(p, k).ok
    PROVE  TameParser(Chunk(p, k))
<1>. DEFINE q == [p EXCEPT !.content = p.content \o k.content]
<1>1. Len(k.deltas) \in Nat /\ \A n \in 1 .. Len(k.deltas) : TameDelta(k.deltas[n])
  BY DEF TameChunk
<1>2. IsParser(q) /\ q.calls = p.calls
  BY TextAdded
<1>. HIDE DEF q
<1>3. TameParser(q)
  BY <1>2 DEF TameParser
<1>4. \/ Chunk(p, k) = p
      \/ AddCalls(q, k.deltas).ok /\ Chunk(p, k).calls = AddCalls(q, k.deltas).calls
  BY <1>1, ChunkReads DEF q
<1>5. AddCalls(q, k.deltas).ok => TameParser(AddCalls(q, k.deltas))
  BY <1>1, <1>2, <1>3, TameReads
<1>. QED BY <1>4, <1>5 DEF TameParser

\* A delta changes no call but its own.
Touched(deltas) == {deltas[n].index : n \in 1 .. Len(deltas)}

LEMMA ReadsElsewhere ==
    ASSUME NEW p, NEW deltas, Len(deltas) \in Nat, IsParser(p),
           AddCalls(p, deltas).ok, NEW i \in Indices, i \notin Touched(deltas)
    PROVE  AddCalls(p, deltas).calls[i] = p.calls[i]
<1>1. PICK read : /\ read[0] = p /\ AddCalls(p, deltas) = read[Len(deltas)]
                  /\ \A n \in 1 .. Len(deltas) : read[n] = AddCall(read[n - 1], deltas[n])
  <2>1. PICK read : Reads(p, deltas, read)
    BY ReadInOrder
  <2>. QED BY <2>1 DEF Reads
<1>0. \A n \in 1 .. Len(deltas) : deltas[n].index # i
  BY DEF Touched
<1>. DEFINE Same(n) == IsParser(read[n]) /\ (read[n].ok => read[n].calls[i] = p.calls[i])
            S == {n \in 0 .. Len(deltas) : ~Same(n)}
<1>2. ASSUME S # {} PROVE FALSE
  <2>1. PICK n \in S : \A m \in S : n <= m
    <3>. HIDE DEF S
    <3>1. S \subseteq 0 .. Len(deltas)
      BY DEF S
    <3>. QED BY <1>2, <3>1, Earliest
  <2>2. Same(0)
    BY <1>1
  <2>3. n # 0
    BY <2>2
  <2>4. n \in 1 .. Len(deltas) /\ n - 1 \in 0 .. Len(deltas) /\ n - 1 \notin S
    BY <2>1, <2>3
  <2>5. Same(n - 1) /\ read[n] = AddCall(read[n - 1], deltas[n]) /\ deltas[n].index # i
    BY <1>0, <1>1, <2>4
  <2>6. IsParser(read[n]) /\ (read[n].ok => read[n - 1].ok)
    BY <2>5, AddCallKeeps
  <2>7. read[n].ok => read[n].calls[i] = read[n - 1].calls[i]
    BY <2>5, Accepted
  <2>. QED BY <2>5, <2>6, <2>7
<1>3. Len(deltas) \notin S
  BY <1>2
<1>4. Same(Len(deltas))
  BY <1>3
<1>. QED BY <1>1, <1>4

LEMMA FreshTame ==
    /\ \A i \in Indices : Fresh.calls[i] = Call
    /\ Call.id = NoId /\ Call.name = NoName
<1>1. \A i \in Indices : Fresh.calls[i] = Call
  BY DEF Fresh
<1>2. Call.id = NoId /\ Call.name = NoName
  BY DEF Call
<1>. QED BY <1>1, <1>2

LEMMA MeantCalls ==
    ASSUME meant \in Messages, NEW i \in DOMAIN meant.calls
    PROVE  /\ i \in Nat /\ i - 1 \in Nat /\ i - 1 + 1 = i
           /\ meant.calls[i] \in Range(meant.calls)
           /\ meant.calls[i] = [id |-> meant.calls[i].id, name |-> meant.calls[i].name,
                                args |-> meant.calls[i].args]
           /\ meant.calls[i].args \in Seq(Range(meant.calls[i].args))
           /\ Len(meant.calls[i].args) \in Nat
<1>1. meant.calls \in Seq(Range(meant.calls)) /\ Len(meant.calls) \in Nat
  BY MessageShapes
<1>2. i \in 1 .. Len(meant.calls)
  BY <1>1
<1>3. meant.calls[i] \in Range(meant.calls)
  BY DEF Range
<1>4. /\ meant.calls[i] = [id |-> meant.calls[i].id, name |-> meant.calls[i].name,
                           args |-> meant.calls[i].args]
      /\ meant.calls[i].args \in Seq(Range(meant.calls[i].args))
  BY <1>3, CompletionAssumption
<1>5. i \in Nat /\ i - 1 \in Nat /\ i - 1 + 1 = i
  BY <1>1, <1>2
<1>. QED BY <1>3, <1>4, <1>5

\* What is said of a call is tame.
LEMMA DeltasAreTame ==
    ASSUME meant \in Messages, NEW i \in DOMAIN meant.calls, NEW args
    PROVE  /\ TameDelta(Delta(i, meant.calls[i].id, TRUE, meant.calls[i].name, args))
           /\ TameDelta(Delta(i, NoId, FALSE, NoName, args))
<1>. DEFINE c == meant.calls[i]
            head == Delta(i, c.id, TRUE, c.name, args)
            piece == Delta(i, NoId, FALSE, NoName, args)
<1>1. i - 1 + 1 = i
  BY MeantCalls
<1>2. head.index = i - 1 /\ head.typed /\ head.id = c.id /\ head.name = c.name
  BY DEF Delta
<1>3. piece.index = i - 1 /\ ~piece.typed /\ piece.id = NoId /\ piece.name = NoName
  BY DEF Delta
<1>. HIDE DEF head, piece
<1>4. TameDelta(head)
  BY <1>1, <1>2 DEF TameDelta, MeantHead
<1>5. TameDelta(piece)
  BY <1>3 DEF TameDelta
<1>. QED BY <1>4, <1>5 DEF head, piece

LEMMA StraysAreTame ==
    ASSUME NEW k \in Strays
    PROVE  TameChunk(k)
<1>1. k.deltas \in Seq(Range(k.deltas)) /\ Len(k.deltas) \in Nat
  BY CompletionAssumption
<1>2. ASSUME NEW n \in 1 .. Len(k.deltas) PROVE TameDelta(k.deltas[n])
  <2>. DEFINE d == k.deltas[n]
  <2>1. d \in Range(k.deltas)
    BY <1>1
  <2>. HIDE DEF d
  <2>2. d \in Noise(d.index)
    BY <2>1 DEF Noise
  <2>3. TameDelta(d)
    BY <2>2 DEF TameDelta
  <2>. QED BY <2>3 DEF d
<1>. QED BY <1>1, <1>2 DEF TameChunk

\* A call of which the first pieces were said.
Full(c, args) == [begun |-> TRUE, id |-> c.id, typed |-> TRUE, name |-> c.name, args |-> args]
Part(c, k) == IF k = 0 THEN Call ELSE Full(c, SubSeq(c.args, 1, k - 1))

LEMMA HeadMerges ==
    ASSUME NEW i, NEW c, NEW S, NEW args \in Seq(S)
    PROVE  Merged(Call, Delta(i, c.id, TRUE, c.name, args)) = Full(c, args)
<1>. DEFINE d == Delta(i, c.id, TRUE, c.name, args)
<1>1. d.id = c.id /\ d.typed = TRUE /\ d.name = c.name /\ d.args = args
  BY DEF Delta
<1>2. Call.id = NoId /\ Call.typed = FALSE /\ Call.name = NoName /\ Call.args = <<>>
  BY DEF Call
<1>3. <<>> \o args = args
  OBVIOUS
<1>. HIDE DEF d, Call
<1>4. Merged(Call, d) = Full(c, args)
  BY <1>1, <1>2, <1>3 DEF Merged, Full
<1>. QED BY <1>4 DEF d

LEMMA PieceMerges ==
    ASSUME NEW c, NEW args, NEW d, d.id = NoId, ~d.typed, d.name = NoName
    PROVE  Merged(Full(c, args), d) = Full(c, args \o d.args)
<1>. DEFINE f == Full(c, args)
            whole == args \o d.args
<1>2. f.id = c.id /\ f.typed = TRUE /\ f.name = c.name /\ f.args = args
  BY DEF Full
<1>3. f.args \o d.args = whole
  BY <1>2
<1>. HIDE DEF f, whole
<1>4. Merged(f, d) = Full(c, whole)
  BY <1>2, <1>3 DEF Merged, Full
<1>. QED BY <1>4 DEF f, whole

\* The next delta of a call says its next part.
SaysPart(d, i, x, n) ==
    /\ d[1].deltas = <<x>> /\ x.index = i - 1 /\ TameDelta(x)
    /\ d[2].calls = [sent.calls EXCEPT ![i] = n]
    /\ n \in 0 .. 1 + Len(meant.calls[i].args)
    /\ Merged(Part(meant.calls[i], sent.calls[i]), x) = Part(meant.calls[i], n)

LEMMA DueDelta ==
    ASSUME meant \in Messages, sent = [content |-> sent.content, calls |-> sent.calls],
           NEW i \in DOMAIN meant.calls, sent.calls[i] \in 0 .. Len(meant.calls[i].args),
           NEW d \in DueOf(i)
    PROVE  \E x, n : SaysPart(d, i, x, n)
<1>. DEFINE c == meant.calls[i]
            k == sent.calls[i]
            Says(x, n) == d = <<Saying(<<>>, <<x>>), [sent EXCEPT !.calls[i] = n]>>
<1>1. c.args \in Seq(Range(c.args)) /\ Len(c.args) \in Nat /\ k \in 0 .. Len(c.args)
  BY MeantCalls
<1>2. ASSUME NEW x, NEW n, Says(x, n)
      PROVE  d[1].deltas = <<x>> /\ d[2].calls = [sent.calls EXCEPT ![i] = n]
  <2>. DEFINE one == <<x>>
              moved == [sent.calls EXCEPT ![i] = n]
  <2>1. /\ d[1] = [content |-> <<>>, deltas |-> one, finish |-> "none"]
        /\ d[2] = [content |-> sent.content, calls |-> moved]
    BY <1>2 DEF Saying
  <2>. HIDE DEF one, moved
  <2>2. d[1].deltas = one /\ d[2].calls = moved
    BY <2>1
  <2>. QED BY <2>2 DEF one, moved
<1>3. \/ k = 0 /\ \E args \in {<<>>, c.args} :
                     Says(Delta(i, c.id, TRUE, c.name, args), IF args = <<>> THEN 1 ELSE 1 + Len(c.args))
      \/ k # 0 /\ Says(Delta(i, NoId, FALSE, NoName, <<c.args[k]>>), k + 1)
  <2>1. CASE k = 0 /\ Says(Delta(i, c.id, TRUE, c.name, <<>>), 1)
    BY <2>1
  <2>2. CASE k = 0 /\ Says(Delta(i, c.id, TRUE, c.name, c.args), 1 + Len(c.args))
    <3>1. c.args = <<>> => 1 + Len(c.args) = 1
      OBVIOUS
    <3>. QED BY <2>2, <3>1
  <2>3. CASE k # 0 /\ Says(Delta(i, NoId, FALSE, NoName, <<c.args[k]>>), k + 1)
    BY <2>3
  <2>. QED BY <2>1, <2>2, <2>3, Zenon DEF DueOf
<1>4. CASE k = 0
  <2>1. PICK args \in {<<>>, c.args} :
               Says(Delta(i, c.id, TRUE, c.name, args), IF args = <<>> THEN 1 ELSE 1 + Len(c.args))
    BY <1>3, <1>4
  <2>. DEFINE x == Delta(i, c.id, TRUE, c.name, args)
              n == IF args = <<>> THEN 1 ELSE 1 + Len(c.args)
  <2>2. d[1].deltas = <<x>> /\ d[2].calls = [sent.calls EXCEPT ![i] = n]
    BY <1>2, <2>1, Zenon
  <2>3. TameDelta(x) /\ x.index = i - 1
    <3>1. x.index = i - 1
      BY DEF Delta
    <3>. QED BY <3>1, DeltasAreTame
  <2>4. n \in 0 .. 1 + Len(c.args) /\ n # 0 /\ args \in Seq(Range(c.args))
    <3>1. n \in 0 .. 1 + Len(c.args) /\ n # 0
      BY <1>1
    <3>2. args = <<>> \/ args = c.args
      OBVIOUS
    <3>3. <<>> \in Seq(Range(c.args))
      OBVIOUS
    <3>. QED BY <1>1, <3>1, <3>2, <3>3
  <2>5. SubSeq(c.args, 1, n - 1) = args
    <3>1. CASE args = <<>>
      BY <1>1, <3>1
    <3>2. CASE args # <<>>
      <4>1. args = c.args /\ n - 1 = Len(c.args)
        BY <1>1, <3>2
      <4>. QED BY <1>1, <4>1, AllPieces
    <3>. QED BY <3>1, <3>2
  <2>6. Merged(Call, x) = Full(c, args)
    BY <2>4, HeadMerges
  <2>. HIDE DEF x, n, c
  <2>7. Part(c, k) = Call /\ Part(c, n) = Full(c, args)
    BY <1>4, <2>4, <2>5 DEF Part
  <2>8. Merged(Part(c, k), x) = Part(c, n)
    BY <2>6, <2>7
  <2>. QED BY <2>2, <2>3, <2>4, <2>8 DEF c, SaysPart
<1>5. CASE k # 0
  <2>. DEFINE piece == <<c.args[k]>>
              x == Delta(i, NoId, FALSE, NoName, piece)
  <2>1. d[1].deltas = <<x>> /\ d[2].calls = [sent.calls EXCEPT ![i] = k + 1]
    BY <1>2, <1>3, <1>5, Zenon
  <2>2. TameDelta(x) /\ x.index = i - 1
    <3>1. x.index = i - 1
      BY DEF Delta
    <3>2. k \in 1 .. Len(c.args)
      BY <1>1, <1>5
    <3>. QED BY <3>1, <3>2, DeltasAreTame
  <2>3. SubSeq(c.args, 1, k - 1) \o piece = SubSeq(c.args, 1, k)
    <3>1. k - 1 \in Nat /\ k - 1 + 1 \in 1 .. Len(c.args) /\ k - 1 + 1 = k
      BY <1>1, <1>5
    <3>. QED BY <1>1, <3>1, NextPiece
  <2>4. ASSUME NEW said PROVE Merged(Full(c, said), x) = Full(c, said \o piece)
    <3>1. x.id = NoId /\ ~x.typed /\ x.name = NoName /\ x.args = piece
      BY DEF Delta
    <3>. HIDE DEF piece, c, x
    <3>2. Merged(Full(c, said), x) = Full(c, said \o x.args)
      BY <3>1, PieceMerges
    <3>. QED BY <3>1, <3>2
  <2>5. k + 1 \in 0 .. 1 + Len(c.args) /\ k + 1 # 0 /\ k + 1 - 1 = k
    BY <1>1, <1>5
  <2>. HIDE DEF x, c, piece
  <2>6. /\ Part(c, k) = Full(c, SubSeq(c.args, 1, k - 1))
        /\ Part(c, k + 1) = Full(c, SubSeq(c.args, 1, k))
    BY <1>5, <2>5 DEF Part
  <2>7. Merged(Part(c, k), x) = Part(c, k + 1)
    BY <2>3, <2>4, <2>6
  <2>. QED BY <2>1, <2>2, <2>5, <2>7 DEF c, SaysPart
<1>. QED BY <1>4, <1>5

\* What the parser holds of a call that was not spoiled is what was said of it;
\* a call beyond the limit breaks it.
SaidSlots(p, progress, lost) ==
    /\ \A i \in DOMAIN meant.calls : i - 1 \notin lost =>
          IF i - 1 \in Indices THEN p.calls[i - 1] = Part(meant.calls[i], progress[i])
          ELSE progress[i] = 0
    /\ \A i \in Indices \ lost : i + 1 \notin DOMAIN meant.calls => p.calls[i] = Call
AllSaid(progress, lost) ==
    \A i \in DOMAIN meant.calls : i - 1 \notin lost => progress[i] = Whole.calls[i]

LEMMA CallsResult ==
    ASSUME NEW p, NEW done, ResultOf(p, done).kind = "calls"
    PROVE  LET n == Cardinality(Started(p)) IN
           /\ n \in 1 .. MaxCalls /\ p.finish = "tool_calls"
           /\ \A i \in 1 .. n : Sound(p.calls[i - 1])
           /\ ResultOf(p, done).calls = [i \in 1 .. n |-> p.calls[i - 1]]
<1>. DEFINE n == Cardinality(Started(p))
            made == [i \in 1 .. n |-> p.calls[i - 1]]
<1>1. n > 0 /\ WholeCalls(p, done) /\ ResultOf(p, done).calls = made
  <2>1. Failure("protocol").kind # "calls"
    BY FailureIsNoText
  <2>2. CASE n > 0 /\ WholeCalls(p, done)
    <3>1. ResultOf(p, done) = [kind |-> "calls", content |-> p.content, calls |-> made]
      BY <2>2 DEF ResultOf
    <3>. HIDE DEF made
    <3>2. ResultOf(p, done).calls = made
      BY <3>1
    <3>. QED BY <2>2, <3>2
  <2>3. CASE ~(n > 0 /\ WholeCalls(p, done)) /\ n = 0 /\ WholeText(p)
    BY <2>3 DEF ResultOf
  <2>4. CASE ~(n > 0 /\ WholeCalls(p, done)) /\ ~(n = 0 /\ WholeText(p))
    BY <2>1, <2>4 DEF ResultOf
  <2>. QED BY <2>2, <2>3, <2>4
<1>2. n \in Nat /\ n <= MaxCalls
  <2>1. IsFiniteSet(Indices) /\ Cardinality(Indices) = MaxCalls
    <3>1. MaxCalls \in Nat \ {0}
      BY CompletionAssumption
    <3>2. 0 \in Int /\ MaxCalls - 1 \in Int /\ 0 <= MaxCalls - 1 /\ MaxCalls - 1 - 0 + 1 = MaxCalls
      BY <3>1
    <3>. QED BY <3>2, FS_Interval DEF Indices
  <2>2. Started(p) \subseteq Indices
    BY DEF Started
  <2>. QED BY <2>1, <2>2, FS_Subset, FS_CardinalityType
<1>3. n \in 1 .. MaxCalls
  <2>. HIDE DEF n
  <2>1. MaxCalls \in Nat
    BY CompletionAssumption
  <2>. QED BY <1>1, <1>2, <2>1
<1>4. p.finish = "tool_calls" /\ \A i \in 0 .. n - 1 : Sound(p.calls[i])
  BY <1>1 DEF WholeCalls
<1>5. ASSUME NEW i \in 1 .. n PROVE Sound(p.calls[i - 1])
  <2>. HIDE DEF n
  <2>1. i - 1 \in 0 .. n - 1
    BY <1>3, <1>5
  <2>. QED BY <1>4, <2>1
<1>. QED BY <1>1, <1>3, <1>4, <1>5

\* A call that is complete and sound has one head.
LEMMA TameResult ==
    ASSUME NEW c, NEW i, TameSlot(c, i), Sound(c)
    PROVE  \/ /\ i + 1 \in DOMAIN meant.calls
              /\ c.id = meant.calls[i + 1].id /\ c.name = meant.calls[i + 1].name
           \/ \E d, e \in Noise(i) : c.id = d.id /\ c.name = e.name
<1>1. c.id # NoId /\ c.name # NoName
  BY CompletionAssumption DEF Sound, Resolves
<1>2. CASE MeantHead(c, i)
  BY <1>2 DEF MeantHead
<1>3. CASE InventedHead(c, i)
  <2>1. PICK d \in Noise(i) : c.id = d.id
    BY <1>1, <1>3 DEF InventedHead
  <2>2. PICK e \in Noise(i) : c.name = e.name
    BY <1>1, <1>3 DEF InventedHead
  <2>. QED BY <2>1, <2>2
<1>. QED BY <1>2, <1>3 DEF TameSlot

LEMMA WholePart ==
    ASSUME meant \in Messages, NEW i \in DOMAIN meant.calls
    PROVE  Part(meant.calls[i], Whole.calls[i]) = Full(meant.calls[i], meant.calls[i].args)
<1>. DEFINE m == meant.calls[i]
            k == Whole.calls[i]
<1>1. Len(m.args) \in Nat /\ m.args \in Seq(Range(m.args))
  BY MeantCalls
<1>2. k = 1 + Len(m.args)
  BY DEF Whole
<1>. HIDE DEF k
<1>3. k # 0 /\ SubSeq(m.args, 1, k - 1) = m.args
  <2>1. k # 0 /\ k - 1 = Len(m.args)
    BY <1>1, <1>2
  <2>. QED BY <1>1, <2>1, AllPieces
<1>. HIDE DEF m
<1>4. Part(m, k) = Full(m, m.args)
  BY <1>3 DEF Part
<1>. QED BY <1>4 DEF k, m

\* When the calls were said, those that were not spoiled are in the result.
LEMMA ExactResult ==
    ASSUME meant \in Messages, NEW p, NEW done, NEW lost, NEW progress, TameParser(p),
           SaidSlots(p, progress, lost), AllSaid(progress, lost),
           ResultOf(p, done).kind = "calls",
           NEW i \in DOMAIN ResultOf(p, done).calls \cup DOMAIN meant.calls, i - 1 \notin lost
    PROVE  /\ i \in DOMAIN ResultOf(p, done).calls \cap DOMAIN meant.calls
           /\ ResultOf(p, done).calls[i] = Full(meant.calls[i], meant.calls[i].args)
<1>. DEFINE n == Cardinality(Started(p))
            made == ResultOf(p, done).calls
<1>1. /\ n \in 1 .. MaxCalls /\ MaxCalls \in Nat /\ \A j \in 1 .. n : Sound(p.calls[j - 1])
      /\ made = [j \in 1 .. n |-> p.calls[j - 1]]
  BY CallsResult, CompletionAssumption
<1>2. Started(p) = 0 .. n - 1
  <2>1. ASSUME NEW j \in 0 .. n - 1 PROVE j \in Started(p)
    <3>. HIDE DEF n
    <3>1. j \in Indices /\ j + 1 \in 1 .. n /\ j + 1 - 1 = j
      BY <1>1, <2>1 DEF Indices
    <3>2. p.calls[j].typed
      <4>1. Sound(p.calls[j])
        BY <1>1, <3>1
      <4>. QED BY <4>1 DEF Sound
    <3>3. p.calls[j] # Call
      BY <3>2 DEF Call
    <3>. QED BY <3>1, <3>3 DEF TameParser, TameSlot, Started
  <2>2. IsFiniteSet(Started(p))
    <3>1. IsFiniteSet(Indices)
      BY <1>1, FS_Interval DEF Indices
    <3>2. Started(p) \subseteq Indices
      BY DEF Started
    <3>. QED BY <3>1, <3>2, FS_Subset
  <2>3. Cardinality(0 .. n - 1) = n
    <3>. HIDE DEF n
    <3>1. 0 \in Int /\ n - 1 \in Int /\ 0 <= n - 1 /\ n - 1 - 0 + 1 = n
      BY <1>1
    <3>. QED BY <3>1, FS_Interval
  <2>. QED BY <2>1, <2>2, <2>3, FS_Subset
<1>. HIDE DEF n, made
<1>3. DOMAIN made = 1 .. n /\ \A j \in 1 .. n : made[j] = p.calls[j - 1]
  BY <1>1
<1>4. ASSUME i \in DOMAIN meant.calls
      PROVE  i - 1 \in Indices /\ p.calls[i - 1] = Full(meant.calls[i], meant.calls[i].args)
  <2>1. progress[i] = Whole.calls[i] /\ Whole.calls[i] # 0
    <3>1. Whole.calls[i] = 1 + Len(meant.calls[i].args) /\ Len(meant.calls[i].args) \in Nat
      BY <1>4, MeantCalls DEF Whole
    <3>2. Whole.calls[i] # 0
      BY <3>1
    <3>. QED BY <1>4, <3>2 DEF AllSaid
  <2>. HIDE DEF Whole
  <2>2. i - 1 \in Indices /\ p.calls[i - 1] = Part(meant.calls[i], Whole.calls[i])
    BY <1>4, <2>1 DEF SaidSlots
  <2>. QED BY <1>4, <2>2, WholePart
<1>5. ASSUME i \in 1 .. n PROVE i \in DOMAIN meant.calls
  <2>1. i - 1 \in Indices /\ i - 1 + 1 = i
    BY <1>1, <1>5 DEF Indices
  <2>2. p.calls[i - 1].typed
    BY <1>1, <1>5 DEF Sound
  <2>3. p.calls[i - 1] # Call
    BY <2>2 DEF Call
  <2>. QED BY <2>1, <2>3 DEF SaidSlots
<1>6. ASSUME i \in DOMAIN meant.calls PROVE i \in 1 .. n
  <2>1. Full(meant.calls[i], meant.calls[i].args).begun
    BY DEF Full
  <2>2. i - 1 \in Started(p) /\ i \in Nat
    BY <1>4, <1>6, <2>1, MeantCalls DEF Started
  <2>3. i - 1 \in 0 .. n - 1
    BY <1>2, <2>2
  <2>. QED BY <1>1, <2>2, <2>3
<1>7. i \in DOMAIN made \cap DOMAIN meant.calls
  BY <1>3, <1>5, <1>6 DEF made
<1>8. made[i] = Full(meant.calls[i], meant.calls[i].args)
  BY <1>3, <1>4, <1>7
<1>. QED BY <1>7, <1>8 DEF made

\* The parser holds what was said of each call that was not spoiled, every call
\* has one head, and what was handed to the loop was meant.
Progress(said) ==
    /\ said \in [DOMAIN meant.calls -> Nat]
    /\ \A i \in DOMAIN meant.calls : said[i] <= 1 + Len(meant.calls[i].args)
CallsInv ==
    /\ TextInv
    /\ phase \in {"fetching", "reading"} =>
          /\ Progress(sent.calls)
          /\ TameParser(parser) /\ TameChunk(last)
          /\ ~streamed \/ phase = "fetching" => spoiled = {}
          /\ SaidSlots(parser, sent.calls, spoiled)
          /\ parser.finish = "tool_calls" => AllSaid(sent.calls, spoiled)
    /\ CallsAreMeant

LEMMA NoCalls ==
    ASSUME out'.kind # "calls"
    PROVE  CallsAreMeant'
  BY DEF CallsAreMeant

LEMMA ClosedCalls ==
    ASSUME TextInv', phase' \notin {"fetching", "reading"}, CallsAreMeant'
    PROVE  CallsInv'
  BY DEF CallsInv

LEMMA FailureIsNoCalls ==
    ASSUME NEW kind, kind # "calls", out' = Failure(kind)
    PROVE  CallsAreMeant'
  BY FailureIsNoText, NoCalls

\* A request begins with nothing said.
LEMMA AskCalls ==
    ASSUME CallsInv, NEW choice, NEW streaming, NEW pairs, Ask(choice, streaming, pairs), TextInv'
    PROVE  CallsInv'
<1>1. out' = Nothing \/ out' = Failure("refused")
  BY DEF Ask
<1>2. Nothing.kind # "calls"
  BY DEF Nothing
<1>3. CallsAreMeant'
  BY <1>1, <1>2, FailureIsNoCalls, NoCalls
<1>4. CASE phase' \notin {"fetching", "reading"}
  BY <1>3, <1>4, ClosedCalls
<1>5. CASE phase' \in {"fetching", "reading"}
  <2>. DEFINE zeros == [i \in DOMAIN meant'.calls |-> 0]
  <2>1. /\ parser' = Fresh /\ meant' \in Messages /\ last' = NoChunk
        /\ sent' = [content |-> 0, calls |-> zeros]
    BY <1>5 DEF Ask
  <2>. HIDE DEF zeros
  <2>2. sent'.calls = zeros
    BY <2>1
  <2>3. Progress(sent.calls)'
    <3>1. ASSUME NEW i \in DOMAIN meant'.calls PROVE 0 <= 1 + Len(meant'.calls[i].args)
      <4>1. meant'.calls[i] \in Range(meant'.calls)
        BY DEF Range
      <4>2. meant'.calls[i].args \in Seq(Range(meant'.calls[i].args))
        BY <2>1, <4>1, CompletionAssumption
      <4>. QED BY <4>2
    <3>. QED BY <2>2, <3>1 DEF Progress, zeros
  <2>4. TameParser(parser)'
    <3>. HIDE DEF Fresh, Call
    <3>. QED BY <2>1, FreshTame DEF TameParser, TameSlot, InventedHead
  <2>5. TameChunk(last)'
    <3>1. last'.deltas = <<>> /\ Len(<<>>) = 0
      BY <2>1 DEF NoChunk
    <3>. QED BY <3>1 DEF TameChunk
  <2>6. /\ \A i \in Indices : Fresh.calls[i] = Call
        /\ Fresh.finish = "none"
    BY DEF Fresh
  <2>7. SaidSlots(parser, sent.calls, spoiled)'
    <3>1. ASSUME NEW i \in DOMAIN meant'.calls
          PROVE  IF i - 1 \in Indices THEN parser'.calls[i - 1] = Part(meant'.calls[i], sent'.calls[i])
                 ELSE sent'.calls[i] = 0
      <4>1. sent'.calls[i] = 0
        BY <2>2 DEF zeros
      <4>. QED BY <2>1, <2>6, <4>1 DEF Part
    <3>. QED BY <2>1, <2>6, <3>1 DEF SaidSlots
  <2>8. parser'.finish = "none" /\ spoiled' = {}
    BY <2>1, <2>6 DEF Ask
  <2>. QED BY <1>3, <2>3, <2>4, <2>5, <2>7, <2>8 DEF CallsInv
<1>. QED BY <1>4, <1>5

\* One line of the stream, tame if the chunk is.
LEMMA LineIsTame ==
    ASSUME CallsInv, phase = "reading", NEW k, TameChunk(k), Line(k), phase' = "reading",
           meant' = meant
    PROVE  TameParser(parser)'
<1>1. /\ IsParser(parser) /\ parser.ok /\ meant \in Messages /\ TameParser(parser)
  BY DEF CallsInv, TextInv
<1>2. parser' = Chunk(parser, k) /\ parser'.ok
  BY DEF Line, Close
<1>3. TameParser(Chunk(parser, k))
  BY <1>1, <1>2, ChunkTame
<1>. QED BY <1>2, <1>3 DEF TameParser, TameSlot, MeantHead, InventedHead

\* A line without a delta leaves the calls alone.
LEMMA LineWithoutDelta ==
    ASSUME TextInv, phase = "reading", NEW k, k.deltas = <<>>, Line(k), phase' = "reading"
    PROVE  parser'.calls = parser.calls
<1>1. IsParser(parser) /\ parser.ok
  BY DEF TextInv
<1>2. parser' = Chunk(parser, k) /\ parser'.ok
  BY DEF Line, Close
<1>. DEFINE q == [parser EXCEPT !.content = parser.content \o k.content]
<1>3. Len(k.deltas) \in Nat
  OBVIOUS
<1>4. Chunk(parser, k) = parser \/ Chunk(parser, k).calls = AddCalls(q, k.deltas).calls
  BY <1>1, <1>2, <1>3, ChunkReads
<1>5. AddCalls(q, k.deltas) = q
  BY NoDelta
<1>6. q.calls = parser.calls
  BY <1>1, TextAdded
<1>. QED BY <1>2, <1>4, <1>5, <1>6

\* A line with one delta adds it to its call.
LEMMA LineWithDelta ==
    ASSUME TextInv, phase = "reading", parser.finish = "none", NEW k, NEW x, k.deltas = <<x>>,
           Line(k), phase' = "reading"
    PROVE  /\ x.index \in Indices /\ parser'.calls[x.index] = Merged(parser.calls[x.index], x)
           /\ \A i \in Indices : i # x.index => parser'.calls[i] = parser.calls[i]
<1>1. IsParser(parser) /\ parser.ok
  BY DEF TextInv
<1>2. parser' = Chunk(parser, k) /\ parser'.ok
  BY DEF Line, Close
<1>. DEFINE q == [parser EXCEPT !.content = parser.content \o k.content]
<1>3. Len(k.deltas) = 1 /\ Len(k.deltas) \in Nat /\ k.deltas[1] = x
  OBVIOUS
<1>4. AddCalls(q, k.deltas).ok /\ parser'.calls = AddCalls(q, k.deltas).calls
  BY <1>1, <1>2, <1>3, ChunkReads
<1>5. IsParser(q) /\ q.calls = parser.calls
  BY <1>1, TextAdded
<1>. HIDE DEF q
<1>6. AddCalls(q, k.deltas) = AddCall(q, x)
  BY <1>3, OneDelta
<1>. QED BY <1>4, <1>5, <1>6, Accepted

\* A line leaves the calls it does not speak of alone.
LEMMA LineElsewhere ==
    ASSUME TextInv, phase = "reading", NEW k, Len(k.deltas) \in Nat, Line(k), phase' = "reading",
           NEW i \in Indices, i \notin Touched(k.deltas)
    PROVE  parser'.calls[i] = parser.calls[i]
<1>1. IsParser(parser) /\ parser.ok
  BY DEF TextInv
<1>2. parser' = Chunk(parser, k) /\ parser'.ok
  BY DEF Line, Close
<1>. DEFINE q == [parser EXCEPT !.content = parser.content \o k.content]
<1>3. \/ Chunk(parser, k) = parser
      \/ AddCalls(q, k.deltas).ok /\ Chunk(parser, k).calls = AddCalls(q, k.deltas).calls
  BY <1>1, <1>2, ChunkReads
<1>4. IsParser(q) /\ q.calls = parser.calls
  BY <1>1, TextAdded
<1>. HIDE DEF q
<1>5. AddCalls(q, k.deltas).ok => AddCalls(q, k.deltas).calls[i] = q.calls[i]
  BY <1>4, ReadsElsewhere
<1>. QED BY <1>2, <1>3, <1>4, <1>5

\* What a line leaves of the invariant, once its own chunk is accounted for.
LEMMA LineKeepsCalls ==
    ASSUME CallsInv, TextInv', phase = "reading", NEW k, Line(k), meant' = meant,
           phase' = "reading" =>
              /\ Progress(sent.calls)'
              /\ TameChunk(k) /\ TameChunk(last)'
              /\ ~streamed' => spoiled' = {}
              /\ SaidSlots(parser, sent.calls, spoiled)'
              /\ parser'.finish = "tool_calls" => AllSaid(sent.calls, spoiled)'
    PROVE  CallsInv'
<1>1. out = Nothing /\ Nothing.kind # "calls"
  BY DEF CallsInv, TextInv, Nothing
<1>2. CASE phase' = "reading"
  <2>1. out' = out
    BY <1>2 DEF Line, Close
  <2>2. CallsAreMeant'
    BY <1>1, <2>1, NoCalls
  <2>3. TameParser(parser)'
    BY <1>2, LineIsTame
  <2>. HIDE DEF TextInv, Line, CallsAreMeant
  <2>. QED BY <1>2, <2>2, <2>3 DEF CallsInv
<1>3. CASE phase' # "reading"
  <2>1. phase' = "closing" /\ out' = Failure("protocol")
    BY <1>3 DEF Line, Close
  <2>2. CallsAreMeant'
    BY <2>1, FailureIsNoCalls
  <2>. QED BY <2>1, <2>2, ClosedCalls
<1>. QED BY <1>2, <1>3

LEMMA StillTame ==
    ASSUME meant' = meant, NEW k, TameChunk(k), last' = k
    PROVE  TameChunk(last)'
  BY DEF TameChunk, TameDelta, MeantHead

LEMMA StillSaid ==
    ASSUME meant' = meant, sent' = sent
    PROVE  /\ Progress(sent.calls) => Progress(sent.calls)'
           /\ spoiled' = spoiled =>
                 /\ AllSaid(sent.calls, spoiled) => AllSaid(sent.calls, spoiled)'
                 /\ SaidSlots(parser, sent.calls, spoiled) /\ parser'.calls = parser.calls
                       => SaidSlots(parser, sent.calls, spoiled)'
  BY DEF Progress, Whole, SaidSlots, AllSaid

\* A line that goes wrong spoils the calls that it makes wrong.
LEMMA LineSpoils ==
    ASSUME CallsInv, phase = "reading", NEW k, Len(k.deltas) \in Nat, k.content \in Seq(Symbols),
           Line(k), phase' = "reading", meant' = meant, sent' = sent,
           spoiled' = spoiled \cup Spoils(k)
    PROVE  /\ SaidSlots(parser, sent.calls, spoiled)'
           /\ parser'.finish = "tool_calls" => AllSaid(sent.calls, spoiled)'
<1>1. /\ TextInv /\ SaidSlots(parser, sent.calls, spoiled)
      /\ parser.finish = "tool_calls" => AllSaid(sent.calls, spoiled)
  BY DEF CallsInv
<1>2. Touched(k.deltas) \subseteq spoiled' /\ spoiled \subseteq spoiled'
  BY DEF Spoils, Touched
<1>3. \A i \in Indices \ spoiled' : parser'.calls[i] = parser.calls[i]
  BY <1>1, <1>2, LineElsewhere
<1>4. SaidSlots(parser', sent'.calls, spoiled')
  BY <1>1, <1>2, <1>3 DEF SaidSlots
<1>5. SaidSlots(parser, sent.calls, spoiled)'
  BY <1>4 DEF SaidSlots
<1>6. ASSUME parser'.finish = "tool_calls" PROVE AllSaid(sent.calls, spoiled)
                                                 \/ k.finish # "none"
  BY <1>1, <1>6, LineShows
<1>7. k.finish # "none" =>
         \A i \in DOMAIN meant.calls : i - 1 \notin spoiled' => sent.calls[i] = Whole.calls[i]
  BY DEF Spoils
<1>8. Whole' = Whole
  BY DEF Whole
<1>. HIDE DEF Whole
<1>9. parser'.finish = "tool_calls" => AllSaid(sent.calls, spoiled)'
  BY <1>2, <1>6, <1>7, <1>8 DEF AllSaid
<1>. QED BY <1>5, <1>9

LEMMA MovesOn ==
    ASSUME Progress(sent.calls), meant' = meant, NEW i \in DOMAIN meant.calls,
           NEW n \in 0 .. 1 + Len(meant.calls[i].args), meant \in Messages,
           sent'.calls = [sent.calls EXCEPT ![i] = n]
    PROVE  Progress(sent.calls)'
<1>1. n \in Nat /\ n <= 1 + Len(meant.calls[i].args)
  BY MeantCalls
<1>. QED BY <1>1 DEF Progress

LEMMA ChunkKeepsCalls ==
    ASSUME CallsInv, SendChunk, TextInv'
    PROVE  CallsInv'
<1>1. /\ phase = "reading" /\ streamed /\ meant' = meant /\ spoiled' = spoiled
      /\ parser.finish = "none" /\ streamed' = streamed
  BY DEF SendChunk, Streaming, Reading, askVars
<1>2. /\ TextInv /\ meant \in Messages /\ Progress(sent.calls)
      /\ sent = [content |-> sent.content, calls |-> sent.calls]
      /\ SaidSlots(parser, sent.calls, spoiled)
  BY <1>1 DEF CallsInv, TextInv
<1>3. PICK d \in Due : Line(d[1]) /\ sent' = d[2] /\ last' = d[1]
  BY DEF SendChunk
<1>4. /\ d[1].finish = "none" /\ d[1].content \in Seq(Symbols) /\ Len(d[1].deltas) \in Nat
      /\ \/ d[1].deltas = <<>> /\ d[2].calls = sent.calls
         \/ \E i \in DOMAIN meant.calls :
               sent.calls[i] <= Len(meant.calls[i].args) /\ d \in DueOf(i)
  BY <1>2, DueSays
<1>5. phase' = "reading" => parser'.finish = "none"
  BY <1>1, <1>2, <1>3, <1>4, LineShows
<1>6. CASE d[1].deltas = <<>> /\ d[2].calls = sent.calls
  <2>1. phase' = "reading" => parser'.calls = parser.calls
    BY <1>1, <1>2, <1>3, <1>6, LineWithoutDelta
  <2>2. sent'.calls = sent.calls
    BY <1>3, <1>6
  <2>3. Progress(sent.calls)'
    BY <1>1, <1>2, <2>2 DEF Progress
  <2>4. phase' = "reading" => SaidSlots(parser, sent.calls, spoiled)'
    BY <1>1, <1>2, <2>1, <2>2 DEF SaidSlots
  <2>5. TameChunk(d[1])
    <3>1. Len(<<>>) = 0
      OBVIOUS
    <3>. QED BY <1>6, <3>1 DEF TameChunk
  <2>6. TameChunk(last)'
    BY <1>1, <1>3, <2>5, StillTame
  <2>. HIDE DEF Line, TextInv, CallsInv
  <2>. QED BY <1>1, <1>2, <1>3, <1>5, <2>3, <2>4, <2>5, <2>6, LineKeepsCalls
<1>7. ASSUME NEW i \in DOMAIN meant.calls, sent.calls[i] <= Len(meant.calls[i].args), d \in DueOf(i)
      PROVE  CallsInv'
  <2>. DEFINE c == meant.calls[i]
  <2>1. sent.calls[i] \in 0 .. Len(c.args)
    <3>1. sent.calls[i] \in Nat /\ Len(c.args) \in Nat
      BY <1>2, <1>7, MeantCalls DEF Progress
    <3>. QED BY <1>7, <3>1
  <2>2. PICK x, n : /\ d[1].deltas = <<x>> /\ x.index = i - 1 /\ TameDelta(x)
                    /\ d[2].calls = [sent.calls EXCEPT ![i] = n] /\ n \in 0 .. 1 + Len(c.args)
                    /\ Merged(Part(c, sent.calls[i]), x) = Part(c, n)
    <3>1. PICK x, n : SaysPart(d, i, x, n)
      BY <1>2, <1>7, <2>1, DueDelta
    <3>. QED BY <3>1 DEF SaysPart
  <2>3. sent'.calls = [sent.calls EXCEPT ![i] = n]
    BY <1>3, <2>2
  <2>4. Progress(sent.calls)'
    BY <1>1, <1>2, <2>2, <2>3, MovesOn
  <2>5. phase' = "reading" =>
           /\ i - 1 \in Indices
           /\ parser'.calls[i - 1] = Merged(parser.calls[i - 1], x)
           /\ \A j \in Indices : j # i - 1 => parser'.calls[j] = parser.calls[j]
    BY <1>1, <1>2, <1>3, <2>2, LineWithDelta
  <2>6. ASSUME phase' = "reading" PROVE SaidSlots(parser, sent.calls, spoiled)'
    <3>0. ASSUME NEW j \in DOMAIN meant.calls
          PROVE  /\ j \in Nat /\ i \in Nat
                 /\ j = i => sent'.calls[j] = n
                 /\ j # i => j - 1 # i - 1 /\ sent'.calls[j] = sent.calls[j]
      <4>1. j \in Nat /\ i \in Nat /\ i \in DOMAIN sent.calls /\ j \in DOMAIN sent.calls
        BY <1>2, <3>0, MeantCalls DEF Progress
      <4>. QED BY <2>3, <4>1
    <3>1. ASSUME NEW j \in DOMAIN meant.calls, j - 1 \notin spoiled
          PROVE  IF j - 1 \in Indices THEN parser'.calls[j - 1] = Part(meant.calls[j], sent'.calls[j])
                 ELSE sent'.calls[j] = 0
      <4>1. CASE j - 1 \notin Indices
        <5>1. sent.calls[j] = 0 /\ j # i
          BY <1>2, <2>5, <2>6, <3>1, <4>1 DEF SaidSlots
        <5>. QED BY <3>0, <4>1, <5>1
      <4>2. CASE j - 1 \in Indices
        <5>1. parser.calls[j - 1] = Part(meant.calls[j], sent.calls[j])
          BY <1>2, <3>1, <4>2 DEF SaidSlots
        <5>2. CASE j = i
          <6>1. parser'.calls[j - 1] = Merged(Part(c, sent.calls[i]), x)
            BY <2>5, <2>6, <5>1, <5>2
          <6>. QED BY <2>2, <3>0, <4>2, <5>2, <6>1
        <5>3. CASE j # i
          BY <2>5, <2>6, <3>0, <4>2, <5>1, <5>3
        <5>. QED BY <5>2, <5>3
      <4>. QED BY <4>1, <4>2
    <3>2. ASSUME NEW j \in Indices \ spoiled, j + 1 \notin DOMAIN meant.calls
          PROVE  parser'.calls[j] = Call
      <4>1. j # i - 1
        BY <1>2, <3>2, MeantCalls
      <4>. QED BY <1>2, <2>5, <2>6, <3>2, <4>1 DEF SaidSlots
    <3>. QED BY <1>1, <3>1, <3>2 DEF SaidSlots
  <2>7. TameChunk(d[1])
    <3>. DEFINE one == <<x>>
    <3>1. Len(one) = 1 /\ one[1] = x
      OBVIOUS
    <3>. HIDE DEF one
    <3>2. d[1].deltas = one
      BY <2>2 DEF one
    <3>. QED BY <2>2, <3>1, <3>2 DEF TameChunk
  <2>8. TameChunk(last)'
    BY <1>1, <1>3, <2>7, StillTame
  <2>. HIDE DEF Line, TextInv, CallsInv
  <2>. QED BY <1>1, <1>2, <1>3, <1>5, <2>4, <2>6, <2>7, <2>8, LineKeepsCalls
<1>. QED BY <1>4, <1>6, <1>7

LEMMA StreamKeepsCalls ==
    ASSUME CallsInv, SendFinish \/ SendEcho \/ Fault, TextInv'
    PROVE  CallsInv'
<1>1. phase = "reading" /\ streamed /\ streamed' = streamed /\ meant' = meant
  BY DEF SendFinish, SendEcho, Fault, Streaming, Reading, askVars
<1>2. /\ TextInv /\ meant \in Messages /\ Progress(sent.calls)
      /\ sent = [content |-> sent.content, calls |-> sent.calls]
      /\ TameParser(parser) /\ TameChunk(last) /\ last.content \in Seq(Symbols)
      /\ SaidSlots(parser, sent.calls, spoiled)
      /\ parser.finish = "tool_calls" => AllSaid(sent.calls, spoiled)
  BY <1>1 DEF CallsInv, TextInv
<1>3. CASE SendFinish
  <2>. DEFINE k == [NoChunk EXCEPT !.finish = Reason]
  <2>1. /\ Line(k) /\ last' = k /\ sent' = sent /\ parser.finish = "none" /\ spoiled' = spoiled
    BY <1>3 DEF SendFinish
  <2>2. k.deltas = <<>> /\ k.content \in Seq(Symbols) /\ Len(k.deltas) \in Nat /\ k.finish = Reason
    BY EndChunk
  <2>. HIDE DEF k
  <2>3. TameChunk(k)
    <3>1. Len(<<>>) = 0
      OBVIOUS
    <3>. QED BY <2>2, <3>1 DEF TameChunk
  <2>4. TameChunk(last)'
    BY <1>1, <2>1, <2>3, StillTame
  <2>5. phase' = "reading" => parser'.calls = parser.calls /\ parser'.finish = Reason
    <3>1. phase' = "reading" => parser'.calls = parser.calls
      BY <1>1, <1>2, <2>1, <2>2, LineWithoutDelta
    <3>2. phase' = "reading" => parser'.finish = Reason
      BY <1>1, <1>2, <2>1, <2>2, LineShows
    <3>. QED BY <3>1, <3>2
  <2>6. Reason = "tool_calls" => AllSaid(sent.calls, spoiled)
    BY DEF Reason, AllSaid
  <2>7. /\ Progress(sent.calls)'
        /\ AllSaid(sent.calls, spoiled) => AllSaid(sent.calls, spoiled)'
    BY <1>1, <1>2, <2>1, StillSaid
  <2>8. phase' = "reading" => SaidSlots(parser, sent.calls, spoiled)'
    BY <1>1, <1>2, <2>1, <2>5, StillSaid
  <2>. HIDE DEF Line, TextInv, CallsInv, Reason
  <2>. QED BY <1>1, <2>1, <2>3, <2>4, <2>5, <2>6, <2>7, <2>8, LineKeepsCalls
<1>4. CASE SendEcho
  <2>. DEFINE k == [NoChunk EXCEPT !.finish = parser.finish]
  <2>1. /\ Line(k) /\ last' = last /\ sent' = sent /\ parser.finish # "none"
        /\ spoiled' = spoiled
    BY <1>4 DEF SendEcho
  <2>2. k.deltas = <<>> /\ k.content \in Seq(Symbols) /\ Len(k.deltas) \in Nat
    BY EndChunk
  <2>. HIDE DEF k
  <2>3. TameChunk(k)
    <3>1. Len(<<>>) = 0
      OBVIOUS
    <3>. QED BY <2>2, <3>1 DEF TameChunk
  <2>4. TameChunk(last)'
    BY <1>1, <1>2, <2>1, StillTame
  <2>5. phase' = "reading" => parser' = parser
    BY <1>1, <1>2, <2>1, <2>2, LineShows
  <2>7. /\ Progress(sent.calls)'
        /\ AllSaid(sent.calls, spoiled) => AllSaid(sent.calls, spoiled)'
    BY <1>1, <1>2, <2>1, StillSaid
  <2>8. phase' = "reading" => SaidSlots(parser, sent.calls, spoiled)'
    BY <1>1, <1>2, <2>1, <2>5, StillSaid
  <2>. HIDE DEF Line, TextInv, CallsInv
  <2>. QED BY <1>1, <1>2, <2>1, <2>3, <2>4, <2>5, <2>7, <2>8, LineKeepsCalls
<1>5. CASE Fault
  <2>2. CASE /\ \E d \in Due : sent' = d[2] /\ spoiled' = spoiled \cup Spoils(d[1])
             /\ parser.finish = "none" /\ UNCHANGED <<phase, parser, shown, out, last>>
    <3>1. PICK d \in Due : sent' = d[2] /\ spoiled' = spoiled \cup Spoils(d[1])
      BY <2>2
    <3>2. \/ d[2].calls = sent.calls
          \/ \E i \in DOMAIN meant.calls :
               sent.calls[i] <= Len(meant.calls[i].args) /\ d \in DueOf(i)
      BY <1>2, DueSays
    <3>3. /\ Progress(sent.calls)'
          /\ \A j \in DOMAIN meant.calls : j - 1 \notin spoiled' => sent'.calls[j] = sent.calls[j]
      <4>1. CASE d[2].calls = sent.calls
        BY <1>1, <1>2, <3>1, <4>1 DEF Progress
      <4>2. ASSUME NEW i \in DOMAIN meant.calls, sent.calls[i] <= Len(meant.calls[i].args),
                   d \in DueOf(i)
            PROVE  /\ Progress(sent.calls)'
                   /\ \A j \in DOMAIN meant.calls :
                         j - 1 \notin spoiled' => sent'.calls[j] = sent.calls[j]
        <5>1. sent.calls[i] \in 0 .. Len(meant.calls[i].args)
          <6>1. sent.calls[i] \in Nat /\ Len(meant.calls[i].args) \in Nat
            BY <1>2, <4>2, MeantCalls DEF Progress
          <6>. QED BY <4>2, <6>1
        <5>2. PICK x, n : SaysPart(d, i, x, n)
          BY <1>2, <4>2, <5>1, DueDelta
        <5>3. /\ d[2].calls = [sent.calls EXCEPT ![i] = n] /\ n \in 0 .. 1 + Len(meant.calls[i].args)
              /\ d[1].deltas = <<x>> /\ x.index = i - 1
          BY <5>2 DEF SaysPart
        <5>4. sent'.calls = [sent.calls EXCEPT ![i] = n]
          BY <3>1, <5>3
        <5>5. i - 1 \in spoiled'
          <6>1. 1 \in 1 .. Len(d[1].deltas) /\ d[1].deltas[1] = x
            BY <5>3
          <6>2. i - 1 \in Spoils(d[1])
            BY <5>3, <6>1 DEF Spoils
          <6>. QED BY <3>1, <6>2
        <5>6. ASSUME NEW j \in DOMAIN meant.calls, j - 1 \notin spoiled'
              PROVE  sent'.calls[j] = sent.calls[j]
          <6>1. j # i
            BY <5>5, <5>6
          <6>. QED BY <5>4, <6>1
        <5>. QED BY <1>1, <1>2, <4>2, <5>3, <5>4, <5>6, MovesOn
      <4>. QED BY <3>2, <4>1, <4>2
    <3>4. TameChunk(last)'
      BY <1>1, <1>2, <2>2, StillTame
    <3>5. TameParser(parser)'
      BY <1>1, <1>2, <2>2 DEF TameParser, TameSlot, MeantHead, InventedHead
    <3>6. CallsAreMeant'
      <4>1. out' = Nothing /\ Nothing.kind # "calls"
        BY <1>1, <1>2, <2>2 DEF TextInv, Nothing
      <4>. QED BY <4>1, NoCalls
    <3>7. SaidSlots(parser, sent.calls, spoiled)'
      <4>1. spoiled \subseteq spoiled' /\ parser' = parser
        BY <2>2, <3>1
      <4>. QED BY <1>1, <1>2, <3>3, <4>1 DEF SaidSlots
    <3>8. parser'.finish = "none"
      BY <2>2
    <3>. HIDE DEF TextInv, CallsAreMeant
    <3>. QED BY <1>1, <2>2, <3>3, <3>4, <3>5, <3>6, <3>7, <3>8 DEF CallsInv
  <2>3. CASE Line(last) /\ spoiled' = spoiled \cup Spoils(last) /\ UNCHANGED <<sent, last>>
    <3>1. TameChunk(last)'
      BY <1>1, <1>2, <2>3, StillTame
    <3>2. Progress(sent.calls)'
      BY <1>1, <1>2, <2>3, StillSaid
    <3>3. phase' = "reading" =>
             /\ SaidSlots(parser, sent.calls, spoiled)'
             /\ parser'.finish = "tool_calls" => AllSaid(sent.calls, spoiled)'
      <4>1. Len(last.deltas) \in Nat
        BY <1>2 DEF TameChunk
      <4>. QED BY <1>1, <1>2, <2>3, <4>1, LineSpoils
    <3>. HIDE DEF Line, TextInv, CallsInv
    <3>. QED BY <1>1, <1>2, <2>3, <3>1, <3>2, <3>3, LineKeepsCalls
  <2>4. CASE \E k \in Strays :
                Line(k) /\ spoiled' = spoiled \cup Spoils(k) /\ UNCHANGED <<sent, last>>
    <3>1. PICK k \in Strays :
                Line(k) /\ spoiled' = spoiled \cup Spoils(k) /\ UNCHANGED <<sent, last>>
      BY <2>4
    <3>2. TameChunk(k) /\ Len(k.deltas) \in Nat /\ k.content \in Seq(Symbols)
      <4>1. TameChunk(k)
        BY StraysAreTame
      <4>. QED BY <4>1, MessageShapes DEF TameChunk
    <3>3. TameChunk(last)'
      BY <1>1, <1>2, <3>1, StillTame
    <3>4. Progress(sent.calls)'
      BY <1>1, <1>2, <3>1, StillSaid
    <3>5. phase' = "reading" =>
             /\ SaidSlots(parser, sent.calls, spoiled)'
             /\ parser'.finish = "tool_calls" => AllSaid(sent.calls, spoiled)'
      BY <1>1, <3>1, <3>2, LineSpoils
    <3>. HIDE DEF Line, TextInv, CallsInv
    <3>. QED BY <1>1, <1>2, <3>1, <3>2, <3>3, <3>4, <3>5, LineKeepsCalls
  <2>5. CASE Close(Failure("protocol"))
    <3>1. phase' = "closing" /\ CallsAreMeant'
      BY <2>5, FailureIsNoCalls DEF Close
    <3>. QED BY <3>1, ClosedCalls
  <2>. QED BY <1>5, <2>2, <2>3, <2>4, <2>5 DEF Fault
<1>. QED BY <1>3, <1>4, <1>5

\* What a result hands over.
LEMMA ResultHandsOver ==
    ASSUME meant \in Messages, NEW p, NEW done, NEW progress, out' = ResultOf(p, done),
           meant' = meant, offer' = offer, spoiled' = spoiled,
           p.finish = "tool_calls" =>
              TameParser(p) /\ SaidSlots(p, progress, spoiled) /\ AllSaid(progress, spoiled)
    PROVE  CallsAreMeant'
<1>1. CASE out'.kind # "calls"
  BY <1>1, NoCalls
<1>2. CASE out'.kind = "calls"
  <2>. DEFINE made == ResultOf(p, done).calls
              n == Cardinality(Started(p))
  <2>1. /\ n \in 1 .. MaxCalls /\ p.finish = "tool_calls"
        /\ \A i \in 1 .. n : Sound(p.calls[i - 1])
        /\ made = [i \in 1 .. n |-> p.calls[i - 1]]
    BY <1>2, CallsResult
  <2>2. MaxCalls \in Nat
    BY CompletionAssumption
  <2>. HIDE DEF n
  <2>3. /\ DOMAIN made = 1 .. n
        /\ \A i \in DOMAIN made : Sound(made[i]) /\ made[i] = p.calls[i - 1]
    BY <2>1
  <2>4. offer = "auto" /\ \A i \in DOMAIN made : made[i].name \in Tools /\ made[i].args \in Objects
    BY <2>1, <2>2, <2>3 DEF Sound, Resolves
  <2>5. ASSUME NEW i \in DOMAIN made \cup DOMAIN meant.calls, i - 1 \notin spoiled
        PROVE  /\ i \in DOMAIN made \cap DOMAIN meant.calls
               /\ [id |-> made[i].id, name |-> made[i].name, args |-> made[i].args] = meant.calls[i]
    <3>. DEFINE c == meant.calls[i]
    <3>1. TameParser(p) /\ SaidSlots(p, progress, spoiled) /\ AllSaid(progress, spoiled)
      BY <2>1
    <3>2. i \in DOMAIN made \cap DOMAIN meant.calls /\ made[i] = Full(c, c.args)
      BY <1>2, <2>5, <3>1, ExactResult
    <3>3. c = [id |-> c.id, name |-> c.name, args |-> c.args]
      BY <3>2, MeantCalls
    <3>. HIDE DEF c, made
    <3>4. made[i].id = c.id /\ made[i].name = c.name /\ made[i].args = c.args
      BY <3>2 DEF Full
    <3>5. [id |-> made[i].id, name |-> made[i].name, args |-> made[i].args] = c
      BY <3>3, <3>4
    <3>. QED BY <3>2, <3>5 DEF c
  <2>6. ASSUME NEW i \in DOMAIN made
        PROVE  \/ /\ i \in DOMAIN meant.calls
                  /\ made[i].id = meant.calls[i].id /\ made[i].name = meant.calls[i].name
               \/ \E d, e \in Noise(i - 1) : made[i].id = d.id /\ made[i].name = e.name
    <3>1. TameParser(p) /\ Sound(made[i]) /\ made[i] = p.calls[i - 1]
      BY <2>1, <2>3, <2>6
    <3>2. i - 1 \in Indices /\ i - 1 + 1 = i
      BY <2>1, <2>2, <2>3, <2>6 DEF Indices
    <3>3. TameSlot(made[i], i - 1)
      BY <3>1, <3>2 DEF TameParser
    <3>. HIDE DEF made
    <3>. QED BY <3>1, <3>2, <3>3, TameResult
  <2>7. out'.calls = made
    OBVIOUS
  <2>. HIDE DEF made
  <2>8. \A i : Made(i)' = [id |-> made[i].id, name |-> made[i].name, args |-> made[i].args]
    BY <2>7 DEF Made
  <2>9. \A i : [id |-> made[i].id, name |-> made[i].name, args |-> made[i].args].id = made[i].id
           /\ [id |-> made[i].id, name |-> made[i].name, args |-> made[i].args].name = made[i].name
           /\ [id |-> made[i].id, name |-> made[i].name, args |-> made[i].args].args = made[i].args
    OBVIOUS
  <2>10. \A i \in DOMAIN made \cup DOMAIN meant.calls : i - 1 \notin spoiled =>
            i \in DOMAIN made \cap DOMAIN meant.calls /\ Made(i)' = meant.calls[i]
    BY <2>5, <2>8
  <2>11. \A i \in DOMAIN made :
            /\ Made(i)'.name \in Tools /\ Made(i)'.args \in Objects
            /\ \/ /\ i \in DOMAIN meant.calls
                  /\ Made(i)'.id = meant.calls[i].id /\ Made(i)'.name = meant.calls[i].name
               \/ \E d, e \in Noise(i - 1) : Made(i)'.id = d.id /\ Made(i)'.name = e.name
    BY <2>4, <2>6, <2>8, <2>9
  <2>. HIDE DEF Made
  <2>. QED BY <2>4, <2>7, <2>10, <2>11 DEF CallsAreMeant
<1>. QED BY <1>1, <1>2

\* A parser that threw is the broken one.
LEMMA OkOrBroken ==
    ASSUME NEW p, NEW k, IsParser(p), p.ok, Len(k.deltas) \in Nat
    PROVE  Chunk(p, k).ok \/ Chunk(p, k) = Broken
<1>. DEFINE q == [p EXCEPT !.content = p.content \o k.content]
            m == Message(p, k)
<1>1. IsParser(q) /\ q.ok
  BY TextAdded
<1>2. m = AddCalls(q, k.deltas) \/ m = Broken
  BY DEF Message
<1>. HIDE DEF q, m
<1>3. IsParser(m) /\ (m.ok \/ m = Broken)
  BY <1>1, <1>2, AddCallsKeeps, BrokenIsParser
<1>4. Finishes(m, k.finish).ok \/ Finishes(m, k.finish) = Broken
  <2>1. CASE ~m.ok
    BY <1>3, <2>1 DEF Finishes
  <2>2. CASE m.ok /\ k.finish = "none"
    BY <2>2 DEF Finishes
  <2>3. CASE m.ok /\ k.finish # "none"
    <3>1. [m EXCEPT !.finish = k.finish].ok = m.ok
      BY <1>3 DEF IsParser
    <3>2. Finishes(m, k.finish) = [m EXCEPT !.finish = k.finish] \/ Finishes(m, k.finish) = Broken
      BY <2>3 DEF Finishes
    <3>. QED BY <2>3, <3>1, <3>2
  <2>. QED BY <2>1, <2>2, <2>3
<1>5. Chunk(p, k) \in {Finishes(m, k.finish), p, Broken}
  BY DEF Chunk, m
<1>. QED BY <1>4, <1>5

\* The calls of a whole body, read one after the other.
SaidDeltas ==
    [i \in DOMAIN meant.calls |->
        Delta(i, meant.calls[i].id, TRUE, meant.calls[i].name, meant.calls[i].args)]

LEMMA WholeReads ==
    ASSUME meant \in Messages, NEW p, IsParser(p), \A i \in Indices : p.calls[i] = Call,
           AddCalls(p, SaidDeltas).ok
    PROVE  SaidSlots(AddCalls(p, SaidDeltas), Whole.calls, {})
<1>. DEFINE deltas == SaidDeltas
            L == Len(meant.calls)
            m(i) == meant.calls[i]
<1>1. /\ L \in Nat /\ MaxCalls \in Nat /\ DOMAIN meant.calls = 1 .. L
      /\ meant.calls \in Seq(Range(meant.calls))
  BY MessageShapes, CompletionAssumption
<1>. HIDE DEF L
<1>2. /\ Len(deltas) = L
      /\ \A i \in 1 .. L : deltas[i] = Delta(i, m(i).id, TRUE, m(i).name, m(i).args)
  <2>1. DOMAIN deltas = 1 .. L
    BY <1>1 DEF SaidDeltas
  <2>2. L \in Nat
    BY <1>1
  <2>. HIDE DEF deltas
  <2>3. Len(deltas) = L
    BY <2>1, <2>2
  <2>. QED BY <1>1, <2>3 DEF deltas, SaidDeltas
<1>. HIDE DEF deltas, m
<1>3. Len(deltas) \in Nat
  BY <1>1, <1>2
<1>4. PICK read : /\ read[0] = p /\ AddCalls(p, deltas) = read[Len(deltas)]
                  /\ \A n \in 1 .. Len(deltas) : read[n] = AddCall(read[n - 1], deltas[n])
  <2>1. PICK read : Reads(p, deltas, read)
    BY <1>3, ReadInOrder
  <2>. QED BY <2>1 DEF Reads
<1>. DEFINE Slots(n) == \A i \in Indices :
                          read[n].calls[i] = IF i < n THEN Full(m(i + 1), m(i + 1).args) ELSE Call
            Fits(n) == \A i \in 1 .. n : i - 1 \in Indices
            Says(n) == IsParser(read[n]) /\ (read[n].ok => Slots(n) /\ Fits(n))
            S == {n \in 0 .. L : ~Says(n)}
<1>5. ASSUME S # {} PROVE FALSE
  <2>1. PICK n \in S : \A j \in S : n <= j
    <3>. HIDE DEF S
    <3>1. S \subseteq 0 .. L /\ L \in Nat
      BY <1>1 DEF S
    <3>. QED BY <1>5, <3>1, Earliest
  <2>2. Says(0)
    <3>1. \A i \in Indices : ~(i < 0)
      BY DEF Indices
    <3>. QED BY <1>4, <3>1
  <2>3. n # 0
    BY <2>2
  <2>4. n \in 1 .. L /\ n - 1 \in 0 .. L /\ n - 1 \notin S
    BY <1>1, <2>1, <2>3
  <2>. DEFINE x == deltas[n]
  <2>5. Says(n - 1) /\ read[n] = AddCall(read[n - 1], x)
    BY <1>2, <1>4, <2>4
  <2>6. IsParser(read[n])
    BY <2>5, AddCallKeeps
  <2>7. ASSUME read[n].ok PROVE Slots(n) /\ Fits(n)
    <3>1. /\ read[n - 1].ok /\ x.index \in Indices
          /\ read[n].calls[x.index] = Merged(read[n - 1].calls[x.index], x)
          /\ \A i \in Indices : i # x.index => read[n].calls[i] = read[n - 1].calls[i]
      BY <2>5, <2>7, Accepted
    <3>2. Slots(n - 1) /\ Fits(n - 1)
      BY <2>5, <3>1
    <3>3. x.index = n - 1 /\ x = Delta(n, m(n).id, TRUE, m(n).name, m(n).args)
      BY <1>2, <2>4 DEF Delta
    <3>4. m(n).args \in Seq(Range(m(n).args))
      BY <1>1, <2>4, MeantCalls DEF m
    <3>5. Merged(Call, x) = Full(m(n), m(n).args)
      <4>. DEFINE c == m(n)
      <4>1. c.args \in Seq(Range(c.args)) /\ x = Delta(n, c.id, TRUE, c.name, c.args)
        BY <3>3, <3>4
      <4>. HIDE DEF c, x
      <4>2. Merged(Call, Delta(n, c.id, TRUE, c.name, c.args)) = Full(c, c.args)
        BY <4>1, HeadMerges
      <4>3. Merged(Call, x) = Full(c, c.args)
        BY <4>1, <4>2
      <4>. QED BY <4>3 DEF c
    <3>. HIDE DEF x
    <3>6. ASSUME NEW i \in Indices
          PROVE  read[n].calls[i] = IF i < n THEN Full(m(i + 1), m(i + 1).args) ELSE Call
      <4>1. i \in Nat /\ n \in Nat
        BY <1>1, <2>4 DEF Indices
      <4>2. CASE i = n - 1
        <5>1. ~(i < n - 1) /\ i < n /\ i + 1 = n
          BY <4>1, <4>2
        <5>2. read[n - 1].calls[i] = Call
          BY <3>2, <5>1
        <5>. QED BY <3>1, <3>3, <3>5, <4>2, <5>1, <5>2
      <4>3. CASE i # n - 1
        <5>1. i < n <=> i < n - 1
          BY <4>1, <4>3
        <5>2. read[n].calls[i] = read[n - 1].calls[i]
          BY <3>1, <3>3, <4>3
        <5>. QED BY <3>2, <5>1, <5>2
      <4>. QED BY <4>2, <4>3
    <3>7. ASSUME NEW i \in 1 .. n PROVE i - 1 \in Indices
      <4>1. i = n \/ i \in 1 .. n - 1
        BY <1>1, <2>4
      <4>. QED BY <3>1, <3>2, <3>3, <4>1
    <3>. QED BY <3>6, <3>7
  <2>8. Says(n)
    BY <2>6, <2>7
  <2>. QED BY <2>8
<1>6. Says(L)
  <2>1. L \in 0 .. L
    BY <1>1
  <2>. QED BY <1>5, <2>1
<1>7. AddCalls(p, deltas) = read[L] /\ read[L].ok
  BY <1>2, <1>4 DEF deltas
<1>8. Slots(L) /\ Fits(L)
  BY <1>6, <1>7
<1>9. ASSUME NEW i \in DOMAIN meant.calls
      PROVE  i - 1 \in Indices /\ read[L].calls[i - 1] = Part(meant.calls[i], Whole.calls[i])
  <2>1. i - 1 \in Indices /\ i - 1 < L /\ i - 1 + 1 = i
    <3>1. i \in 1 .. L
      BY <1>1
    <3>2. i - 1 < L /\ i - 1 + 1 = i
      BY <1>1, <3>1
    <3>. QED BY <1>8, <3>1, <3>2
  <2>2. read[L].calls[i - 1] = Full(m(i), m(i).args)
    BY <1>8, <2>1
  <2>. QED BY <2>1, <2>2, WholePart DEF m
<1>10. ASSUME NEW i \in Indices, i + 1 \notin DOMAIN meant.calls PROVE read[L].calls[i] = Call
  <2>1. ~(i < L)
    BY <1>1, <1>10 DEF Indices
  <2>. QED BY <1>8, <2>1
<1>. QED BY <1>7, <1>9, <1>10 DEF SaidSlots, deltas

LEMMA SaidSays ==
    ASSUME meant \in Messages, NEW n \in 0 .. Len(meant.content), NEW all \in BOOLEAN
    PROVE  /\ Said(n, all).deltas = IF all THEN SaidDeltas ELSE <<>>
           /\ TameChunk(Said(n, all))
           /\ Said(n, all).finish = "tool_calls" => all
<1>. DEFINE text == SubSeq(meant.content, 1, n)
<1>1. /\ Said(n, all).deltas = IF all THEN SaidDeltas ELSE <<>>
      /\ Said(n, all).finish = "tool_calls" => all
  <2>. DEFINE deltas == IF all THEN SaidDeltas ELSE <<>>
              ended == IF n < Len(meant.content) \/ ~all THEN "length"
                       ELSE IF meant.calls = <<>> THEN "stop" ELSE "tool_calls"
  <2>1. Said(n, all) = [content |-> text, deltas |-> deltas, finish |-> ended]
    BY DEF Said, SaidDeltas
  <2>2. ended = "tool_calls" => all
    OBVIOUS
  <2>. HIDE DEF text, deltas, ended
  <2>3. Said(n, all).deltas = deltas /\ Said(n, all).finish = ended
    BY <2>1
  <2>. QED BY <2>2, <2>3 DEF deltas
<1>2. Len(Said(n, all).deltas) \in Nat
  BY SaidWhole
<1>3. ASSUME NEW i \in 1 .. Len(Said(n, all).deltas) PROVE TameDelta(Said(n, all).deltas[i])
  <2>1. Len(<<>>) = 0
    OBVIOUS
  <2>2. Said(n, all).deltas = SaidDeltas
    BY <1>1, <1>2, <1>3, <2>1
  <2>3. /\ meant.calls \in Seq(Range(meant.calls)) /\ Len(meant.calls) \in Nat
        /\ DOMAIN meant.calls = 1 .. Len(meant.calls)
    BY MessageShapes, CompletionAssumption
  <2>4. DOMAIN SaidDeltas = 1 .. Len(meant.calls)
    BY <2>3 DEF SaidDeltas
  <2>5. Len(SaidDeltas) = Len(meant.calls)
    <3>. HIDE DEF SaidDeltas
    <3>. QED BY <2>3, <2>4
  <2>6. i \in DOMAIN meant.calls
    BY <1>3, <2>2, <2>3, <2>5
  <2>7. SaidDeltas[i] = Delta(i, meant.calls[i].id, TRUE, meant.calls[i].name, meant.calls[i].args)
    BY <2>6 DEF SaidDeltas
  <2>8. TameDelta(Delta(i, meant.calls[i].id, TRUE, meant.calls[i].name, meant.calls[i].args))
    BY <2>6, DeltasAreTame
  <2>. QED BY <2>2, <2>7, <2>8
<1>. QED BY <1>1, <1>2, <1>3 DEF TameChunk

\* A whole body is read from a fresh parser, the end of a stream from what it
\* has.
LEMMA ResultKeepsCalls ==
    ASSUME CallsInv, SendWhole \/ SendDone, TextInv'
    PROVE  CallsInv'
<1>1. /\ phase = "reading" /\ phase' = "closing" /\ meant' = meant /\ offer' = offer
      /\ spoiled' = spoiled
  BY DEF SendWhole, SendDone, Streaming, Reading, askVars, Close
<1>2. /\ IsParser(parser) /\ parser.ok /\ meant \in Messages
      /\ ~streamed => parser = Fresh /\ spoiled = {}
      /\ TameParser(parser) /\ SaidSlots(parser, sent.calls, spoiled)
      /\ parser.finish = "tool_calls" => AllSaid(sent.calls, spoiled)
  BY <1>1 DEF CallsInv, TextInv
<1>3. CASE SendDone
  <2>1. PICK done \in BOOLEAN : out' = ResultOf(parser, done)
    BY <1>3 DEF SendDone, Close
  <2>2. CallsAreMeant'
    BY <1>1, <1>2, <2>1, ResultHandsOver
  <2>. QED BY <1>1, <2>2, ClosedCalls
<1>4. CASE SendWhole
  <2>1. PICK n \in 0 .. Len(meant.content), all \in BOOLEAN :
           out' = ResultOf(Chunk(parser, Said(n, all)), TRUE)
    BY <1>4, Zenon DEF SendWhole, Close, Said
  <2>. DEFINE k == Said(n, all)
              p == Chunk(parser, k)
              q == [parser EXCEPT !.content = parser.content \o k.content]
  <2>2. /\ \A i \in Indices : parser.calls[i] = Call
        /\ parser.finish = "none"
    <3>1. parser = Fresh
      BY <1>2, <1>4 DEF SendWhole
    <3>2. Fresh.finish = "none"
      BY DEF Fresh
    <3>. QED BY <3>1, <3>2, FreshTame
  <2>3. /\ k.deltas = IF all THEN SaidDeltas ELSE <<>>
        /\ TameChunk(k) /\ (k.finish = "tool_calls" => all)
        /\ k.content \in Seq(Symbols) /\ Len(k.deltas) \in Nat
    BY <1>2, SaidSays, SaidWhole
  <2>. HIDE DEF k
  <2>4. parser.content \in Seq(Symbols)
    BY <1>1 DEF CallsInv, TextInv
  <2>5. ASSUME p.finish = "tool_calls"
        PROVE  p.ok /\ k.finish = "tool_calls"
    <3>1. p.ok \/ p = Broken
      BY <1>2, <2>3, OkOrBroken
    <3>2. Broken.finish = "none"
      BY DEF Broken, Fresh
    <3>3. p.ok
      BY <2>5, <3>1, <3>2
    <3>4. p.finish = k.finish
      BY <1>2, <2>2, <2>3, <2>4, <3>3, ChunkKeeps
    <3>. QED BY <2>5, <3>3, <3>4
  <2>6. p.finish = "tool_calls" => TameParser(p)
    BY <1>2, <2>3, <2>5, ChunkTame
  <2>7. ASSUME p.finish = "tool_calls" PROVE SaidSlots(p, Whole.calls, {})
    <3>1. p.ok /\ all /\ k.deltas = SaidDeltas
      BY <2>3, <2>5, <2>7
    <3>2. IsParser(q) /\ q.calls = parser.calls
      BY <1>2, TextAdded
    <3>3. AddCalls(q, k.deltas).ok /\ p.calls = AddCalls(q, k.deltas).calls
      BY <1>2, <2>2, <2>3, <3>1, ChunkReads
    <3>. HIDE DEF q, p
    <3>4. SaidSlots(AddCalls(q, SaidDeltas), Whole.calls, {})
      BY <1>2, <2>2, <3>1, <3>2, <3>3, WholeReads
    <3>. QED BY <3>1, <3>3, <3>4 DEF SaidSlots
  <2>. HIDE DEF p
  <2>8. out' = ResultOf(p, TRUE)
    BY <2>1 DEF p, k
  <2>9. AllSaid(Whole.calls, {}) /\ spoiled = {}
    BY <1>2, <1>4 DEF AllSaid, SendWhole
  <2>10. CallsAreMeant'
    BY <1>1, <1>2, <2>6, <2>7, <2>8, <2>9, ResultHandsOver
  <2>. QED BY <1>1, <2>10, ClosedCalls
<1>. QED BY <1>3, <1>4

LEMMA StillHandedOver ==
    ASSUME CallsAreMeant, UNCHANGED <<offer, meant, spoiled, out>>
    PROVE  CallsAreMeant'
<1>1. \A i : Made(i)' = Made(i)
  BY DEF Made
<1>2. out' = out /\ offer' = offer /\ meant' = meant /\ spoiled' = spoiled
  OBVIOUS
<1>. HIDE DEF Made
<1>. QED BY <1>1, <1>2 DEF CallsAreMeant

LEMMA RestKeepsCalls ==
    ASSUME CallsInv, TextInv',
           \/ HeadersArrive \/ FetchFails \/ TimerFires \/ ClientAborts \/ Rejects
           \/ Returns \/ UNCHANGED requestVars
    PROVE  CallsInv'
<1>1. CallsAreMeant
  BY DEF CallsInv
<1>2. CASE FetchFails \/ Rejects
  <2>1. phase' \notin {"fetching", "reading"}
        /\ \E kind \in {"status", "unreachable", "aborted"} : out' = Failure(kind)
    BY <1>2 DEF FetchFails, Rejects, Close
  <2>2. CallsAreMeant'
    BY <2>1, FailureIsNoCalls
  <2>. QED BY <2>1, <2>2, ClosedCalls
<1>3. CASE Returns
  <2>1. phase' \notin {"fetching", "reading"}
    BY <1>3 DEF Returns
  <2>2. CallsAreMeant'
    <3>1. CASE out' = out
      <4>1. UNCHANGED <<offer, meant, spoiled, out>>
        BY <1>3, <3>1 DEF Returns, askVars
      <4>. QED BY <1>1, <4>1, StillHandedOver
    <3>2. CASE out' = Failure("timeout") \/ out' = Failure("aborted")
      BY <3>2, FailureIsNoCalls
    <3>. QED BY <1>3, <3>1, <3>2 DEF Returns
  <2>. QED BY <2>1, <2>2, ClosedCalls
<1>4. CASE HeadersArrive \/ TimerFires \/ ClientAborts \/ UNCHANGED requestVars
  <2>1. /\ UNCHANGED <<parser, out, meant, sent, last, spoiled, streamed, offer>>
        /\ phase' = phase \/ (phase = "fetching" /\ phase' = "reading")
    BY <1>4 DEF HeadersArrive, TimerFires, ClientAborts, requestVars, askVars
  <2>2. CallsAreMeant'
    BY <1>1, <2>1, StillHandedOver
  <2>3. TameParser(parser) /\ TameChunk(last) => (TameParser(parser) /\ TameChunk(last))'
    BY <2>1 DEF TameParser, TameSlot, TameChunk, TameDelta, MeantHead, InventedHead
  <2>4. Progress(sent.calls) => Progress(sent.calls)'
    BY <2>1 DEF Progress
  <2>5. /\ SaidSlots(parser, sent.calls, spoiled) => SaidSlots(parser, sent.calls, spoiled)'
        /\ AllSaid(sent.calls, spoiled) => AllSaid(sent.calls, spoiled)'
    BY <2>1 DEF SaidSlots, AllSaid, Whole
  <2>. HIDE DEF TextInv, CallsAreMeant
  <2>. QED BY <2>1, <2>2, <2>3, <2>4, <2>5 DEF CallsInv
<1>. QED BY <1>2, <1>3, <1>4

LEMMA CallsStep == CallsInv /\ [RequestNext]_requestVars => CallsInv'
<1>1. ASSUME CallsInv, [RequestNext]_requestVars PROVE TextInv'
  BY <1>1, TextStep DEF CallsInv
<1>2. ASSUME CallsInv, TextInv', Continue \/ NewTurn \/ PlainChat PROVE CallsInv'
  BY <1>2, AskCalls DEF Continue, NewTurn, PlainChat
<1>. QED BY <1>1, <1>2, ChunkKeepsCalls, StreamKeepsCalls, ResultKeepsCalls, RestKeepsCalls
         DEF RequestNext, Endpoint

LEMMA CallsHoldFirst == RequestInit => CallsInv
<1>1. RequestInit => out = Nothing /\ Nothing.kind # "calls" /\ phase = "idle"
  BY DEF RequestInit, Nothing
<1>. QED BY <1>1, TextHoldsFirst DEF CallsInv, CallsAreMeant

\* The calls handed to the loop were offered, and those that the gateway left
\* alone are all there, exactly as they were meant, however the deltas of the
\* calls were interleaved and whatever was lost, repeated or invented of the
\* others; no call has the id of one head and the name of another.
THEOREM CallsArriveWhole == RequestSpec => []CallsAreMeant
<1>1. CallsInv => CallsAreMeant
  BY DEF CallsInv
<1>. QED BY <1>1, CallsHoldFirst, CallsStep, PTL DEF RequestSpec
=============================================================================
