------------------------------ MODULE AgentRun ------------------------------
(* One agent run: the bounded propose/execute loop of ConversationService, *)
(* the resumes that continue it after an approval, and its durable row in  *)
(* agent_runs.                                                             *)
(*                                                                         *)
(* Steps are the run-to-completion segments of the event loop: an          *)
(* activation is interrupted only while a model call or a tool call is in  *)
(* flight.  The ledger appears as what ToolLedger shows of it: a row that  *)
(* executes at most once, is answered at most once, transcribed at most    *)
(* once, and an approval whose decision never changes.                     *)
EXTENDS Naturals, Sequences

CONSTANTS
    Resumers,        \* slots for concurrent resumeTurn/resumeStream calls
    Driver,          \* the converse/converseStream activation
    MaxIterations,   \* limits.maxIterations
    MaxToolSteps,    \* limits.maxToolSteps
    MaxRequests,     \* bound: request ids drawn by randomUUID
    MaxCrashes       \* bound: process crashes

ASSUME AgentRunAssumption ==
    /\ Driver \notin Resumers
    /\ MaxIterations \in Nat /\ MaxToolSteps \in Nat
    /\ MaxRequests \in Nat \ {0} /\ MaxCrashes \in Nat

VARIABLES
    \* row of agent_runs: state, termination reason, request_ids,
    \* iteration_count, tool_call_count
    run, reason, ids, iter, calls,
    \* the ledger row of each request, its approval's decision, and whether
    \* its transcript write was claimed
    row, decision, written,
    \* activations: label, loop counter, executions counted against the
    \* budget, request in flight, finalAttempt, run row read at entry
    pc, step, used, cur, final, base,
    stream,    \* converseStream rather than converse
    issued,    \* request ids drawn so far
    \* history: tool executions, transcript turns, how often each request was
    \* continued from, whether a forced answer ended the run, why it failed
    executed, turns, continued, forced, failure, crashes

runVars == <<run, reason, ids, iter, calls>>
ledgerVars == <<row, decision, written>>
loopVars == <<step, used, final>>
actVars == <<pc, cur, base>>
historyVars == <<executed, turns, continued, forced, failure>>
vars == <<runVars, ledgerVars, loopVars, actVars, stream, issued, historyVars, crashes>>

Requests == 1..MaxRequests
Activations == Resumers \cup {Driver}
Terminal == {"completed", "failed", "cancelled", "budget_exhausted"}
RunStates == Terminal \cup {"none", "created", "reasoning", "executing", "action_proposed",
                            "observing", "awaiting_approval"}
Rows == {"absent", "closed", "invalid", "parked", "executing", "background",
         "succeeded", "denied", "answering", "answered"}
Labels == {"idle", "thinking", "acting", "resuming", "settling", "answering"}

\* What findRunRecord returned to a resume: the state and the last request of
\* the run, or NoRun when no run contains the request.
NoRun == [state |-> "none", last |-> 0]

Init ==
    /\ run = "none" /\ reason = "none" /\ ids = <<>> /\ iter = 0 /\ calls = 0
    /\ row = [q \in Requests |-> "absent"]
    /\ decision = [q \in Requests |-> "none"]
    /\ written = [q \in Requests |-> FALSE]
    /\ pc = [p \in Activations |-> "idle"]
    /\ step = [p \in Activations |-> 0]
    /\ used = [p \in Activations |-> 0]
    /\ cur = [p \in Activations |-> 0]
    /\ final = [p \in Activations |-> FALSE]
    /\ base = [p \in Activations |-> NoRun]
    /\ stream \in BOOLEAN
    /\ issued = 0
    /\ executed = 0 /\ turns = 0 /\ forced = FALSE /\ failure = "none"
    /\ continued = [q \in Requests |-> 0]
    /\ crashes = 0

-----------------------------------------------------------------------------
(* the loop *)

\* An activation that returned keeps nothing.
Return(p) ==
    /\ pc' = [pc EXCEPT ![p] = "idle"]
    /\ cur' = [cur EXCEPT ![p] = 0]
    /\ base' = [base EXCEPT ![p] = NoRun]
    /\ step' = [step EXCEPT ![p] = 0]
    /\ used' = [used EXCEPT ![p] = 0]
    /\ final' = [final EXCEPT ![p] = FALSE]

\* finalAttempt: the deadline may pass at any time.
IgnoresToolBudget(n, u) == n >= MaxIterations
BoundReached(n, u) == n >= MaxIterations \/ u >= MaxToolSteps

\* Head of the loop: decide finalAttempt, mark the run reasoning, call the
\* model.
Propose(p, q, n, u) ==
    /\ \E late \in BOOLEAN : final' = [final EXCEPT ![p] = BoundReached(n, u) \/ late]
    /\ pc' = [pc EXCEPT ![p] = "thinking"]
    /\ cur' = [cur EXCEPT ![p] = q]
    /\ step' = [step EXCEPT ![p] = n]
    /\ used' = [used EXCEPT ![p] = u]
    /\ run' = "reasoning"

\* recordStep: append the request, count the iteration and its calls.
RecordStep(q, n) ==
    /\ ids' = Append(ids, q)
    /\ iter' = iter + 1
    /\ calls' = calls + n

Finish(state, why) == run' = state /\ reason' = why

\* persistTurn: one transcript turn per request that won claimTranscript.
Transcribe(q) ==
    /\ written' = [written EXCEPT ![q] = TRUE]
    /\ turns' = IF written[q] THEN turns ELSE turns + 1

\* converseStream keeps one request id until it draws another; converse and
\* the resumes draw one per step.
KeepsIdOnResume(p) == stream \/ p # Driver
KeepsId(p) == p = Driver /\ stream
Drawn(p) == IF KeepsId(p) THEN cur[p] ELSE issued + 1
Draw(p) == issued' = IF KeepsId(p) THEN issued ELSE issued + 1

StartTurn ==
    /\ run = "none"
    /\ issued' = IF stream THEN 1 ELSE 0
    /\ Propose(Driver, issued', 0, 0)
    /\ UNCHANGED <<reason, ids, iter, calls, ledgerVars, base, stream,
                   historyVars, crashes>>

\* chatWithTools / chatStreamWithTools throws; a stream whose client hung up
\* ends cancelled instead.
ModelFails(p) ==
    /\ pc[p] = "thinking"
    /\ \/ Finish("failed", "turn_error")
       \/ (p = Driver => stream) /\ Finish("cancelled", "cancelled")
    /\ failure' = "provider"
    /\ Return(p)
    /\ UNCHANGED <<ids, iter, calls, ledgerVars, stream, issued, executed,
                   turns, continued, forced, crashes>>

\* consume finds a row with another input under this id: request_conflict.
ConsumeConflicts(p) ==
    /\ pc[p] = "thinking"
    /\ KeepsId(p) /\ row[cur[p]] # "absent"
    /\ Finish("failed", "turn_error")
    /\ failure' = "conflict"
    /\ Return(p)
    /\ UNCHANGED <<ids, iter, calls, ledgerVars, stream, issued, executed,
                   turns, continued, forced, crashes>>

Consumable(p) ==
    /\ pc[p] = "thinking"
    /\ Drawn(p) \in Requests
    /\ row[Drawn(p)] = "absent"

\* Text ends the turn: closed row, transcript, clean completion.  boundHit
\* and deadlineHit are set only for an executed call on a final attempt,
\* and a final attempt offers no tool (ToolOffer.resolve rejects any call).
ModelAnswers(p) ==
    LET q == Drawn(p) IN
    /\ Consumable(p)
    /\ row' = [row EXCEPT ![q] = "closed"]
    /\ RecordStep(q, 0)
    /\ Transcribe(q)
    /\ Finish("completed", "final_answer")
    /\ forced' = (forced \/ final[p])
    /\ Draw(p)
    /\ Return(p)
    /\ UNCHANGED <<decision, stream, executed, continued, failure, crashes>>

\* skipRepeatedCall: no ledger row; the step is recorded all the same, under
\* an id that converseStream keeps for its next step.
ModelRepeats(p) ==
    /\ pc[p] = "thinking"
    /\ ~final[p]
    /\ issued < MaxRequests
    /\ issued' = issued + 1
    /\ RecordStep(issued', 0)
    /\ Propose(p, IF KeepsId(p) THEN issued' ELSE cur[p], step[p] + 1, used[p])
    /\ UNCHANGED <<reason, ledgerVars, base, stream, historyVars, crashes>>

\* An invalid proposal (a fan-out of n calls included) is fed back.
ModelProposesBadly(p, n) ==
    LET q == Drawn(p) IN
    /\ Consumable(p)
    /\ ~final[p]
    /\ row' = [row EXCEPT ![q] = "invalid"]
    /\ RecordStep(q, n)
    /\ Draw(p)
    /\ Propose(p, cur[p], step[p] + 1, used[p])
    /\ UNCHANGED <<reason, decision, written, base, stream, historyVars, crashes>>

\* An approval-required call parks the row and the run.
ModelProposesGated(p) ==
    LET q == Drawn(p) IN
    /\ Consumable(p)
    /\ ~final[p]
    /\ row' = [row EXCEPT ![q] = "parked"]
    /\ decision' = [decision EXCEPT ![q] = "pending"]
    /\ RecordStep(q, 1)
    /\ run' = "awaiting_approval"
    /\ Draw(p)
    /\ Return(p)
    /\ UNCHANGED <<reason, written, stream, historyVars, crashes>>

\* An approval-free call runs while the loop awaits it.
ModelProposesFree(p) ==
    LET q == Drawn(p) IN
    /\ Consumable(p)
    /\ ~final[p]
    /\ row' = [row EXCEPT ![q] = "executing"]
    /\ run' = "executing"
    /\ pc' = [pc EXCEPT ![p] = "acting"]
    /\ cur' = [cur EXCEPT ![p] = q]
    /\ Draw(p)
    /\ UNCHANGED <<reason, ids, iter, calls, decision, written, loopVars, base,
                   stream, historyVars, crashes>>

\* The call returned: observe its pair and propose again.
CallReturns(p) ==
    LET q == cur[p] IN
    /\ pc[p] = "acting"
    /\ row' = [row EXCEPT ![q] = "succeeded"]
    /\ executed' = executed + 1
    /\ RecordStep(q, 1)
    /\ IF KeepsId(p)
         THEN /\ issued < MaxRequests
              /\ issued' = issued + 1
              /\ Propose(p, issued', step[p] + 1, used[p] + 1)
         ELSE /\ Propose(p, q, step[p] + 1, used[p] + 1)
              /\ UNCHANGED issued
    /\ UNCHANGED <<reason, decision, written, base, stream, turns, continued,
                   forced, failure, crashes>>

\* The search timeout passed: `processing` is rendered and counts as
\* delivered; the search goes on in the background.
CallOutlastsTimeout(p) ==
    LET q == cur[p] IN
    /\ pc[p] = "acting"
    /\ row' = [row EXCEPT ![q] = "background"]
    /\ RecordStep(q, 1)
    /\ Finish("completed", "final_answer")
    /\ Return(p)
    /\ UNCHANGED <<decision, written, stream, issued, historyVars, crashes>>

\* consume or resume throws (ledger_unavailable, claim_lost): the row stays
\* executing.
CallThrows(p) ==
    /\ pc[p] \in {"acting", "resuming", "settling"}
    /\ IF pc[p] # "acting" /\ base[p] = NoRun
         THEN UNCHANGED <<run, reason>>
         ELSE Finish("failed", "turn_error")
    /\ failure' = "ledger"
    /\ Return(p)
    /\ UNCHANGED <<ids, iter, calls, ledgerVars, stream, issued, executed,
                   turns, continued, forced, crashes>>

BackgroundReturns(q) ==
    /\ row[q] = "background"
    /\ row' = [row EXCEPT ![q] = "succeeded"]
    /\ executed' = executed + 1
    /\ UNCHANGED <<runVars, decision, written, loopVars, actVars, stream,
                   issued, turns, continued, forced, failure, crashes>>

-----------------------------------------------------------------------------
(* resumeTurn and resumeStream *)

\* The row tools.resume(q) leaves behind when nothing has to run: a denial is
\* mirrored.
Mirror(rows, q) ==
    IF rows[q] = "parked" /\ decision[q] = "denied"
      THEN [rows EXCEPT ![q] = "denied"]
      ELSE rows

Executes(rows, q) == rows[q] = "parked" /\ decision[q] = "approved"

\* resumeObservationPair: an execution or a denial to continue from.
HasEntry(rw) == rw \in {"succeeded", "denied", "answering", "answered"}

\* Only a parked run continues planning.
ContinuesAny(b, rw) == b # NoRun /\ HasEntry(rw)
Continues(b, rw) == b.state = "awaiting_approval" /\ HasEntry(rw)

Stored(q) ==
    IF \E i \in DOMAIN ids : ids[i] = q
      THEN [state |-> run, last |-> ids[Len(ids)]]
      ELSE NoRun

\* settleResumeRecord: a terminal run converges onto its last step.
Target(b, q) == IF b.state \in Terminal THEN b.last ELSE q

\* renderTurn and terminalRun on a legacy resume: whatever was rendered, the
\* run ends.
Rendered(p, b, q, rw) ==
    /\ IF rw \in {"closed", "denied", "answered"}
         THEN Transcribe(q)
         ELSE UNCHANGED <<written, turns>>
    /\ IF b = NoRun THEN UNCHANGED <<run, reason>>
       ELSE IF rw \in {"absent", "invalid"} THEN Finish("failed", "turn_error")
       ELSE IF rw = "denied" THEN Finish("completed", "approval_denied")
       ELSE Finish("completed", "final_answer")
    /\ Return(p)

\* transitionRun at the entry of a resume.
Marked(b) == IF b = NoRun THEN run ELSE "executing"

\* Enter label on request q with the run row read at entry, and leave it state.
Await(p, label, q, b, state) ==
    /\ pc' = [pc EXCEPT ![p] = label]
    /\ cur' = [cur EXCEPT ![p] = q]
    /\ base' = [base EXCEPT ![p] = b]
    /\ step' = [step EXCEPT ![p] = iter]
    /\ used' = [used EXCEPT ![p] = calls]
    /\ run' = state
    /\ UNCHANGED <<final, reason, written, turns>>

\* The single-shot path: finalize the target, executing or answering it if
\* that is still due, else render what is there.
Legacy(p, b, q, before, state) ==
    LET t == Target(b, q)
        rows == Mirror(before, t) IN
    \/ /\ Executes(before, t)
       /\ row' = [before EXCEPT ![t] = "executing"]
       /\ Await(p, "settling", t, b, state)
    \/ /\ rows[t] = "succeeded"
       /\ row' = [rows EXCEPT ![t] = "answering"]
       /\ Await(p, "answering", t, b, state)
    \/ /\ ~Executes(before, t) /\ rows[t] # "succeeded"
       /\ row' = rows
       /\ Rendered(p, b, t, rows[t])

\* A resume arrives: the run row is read and marked executing, then
\* tools.resume acts on the request's own approval.
ResumeExecutes(p, q) ==
    /\ pc[p] = "idle"
    /\ Executes(row, q)
    /\ row' = [row EXCEPT ![q] = "executing"]
    /\ Await(p, "resuming", q, Stored(q), Marked(Stored(q)))
    /\ UNCHANGED <<ids, iter, calls, decision, stream, issued, executed,
                   continued, forced, failure, crashes>>

ResumeContinues(p, q) ==
    LET rows == Mirror(row, q) IN
    /\ pc[p] = "idle"
    /\ row[q] # "absent" /\ ~Executes(row, q)
    /\ Continues(Stored(q), rows[q])
    /\ row' = rows
    /\ base' = [base EXCEPT ![p] = Stored(q)]
    /\ continued' = [continued EXCEPT ![q] = @ + 1]
    /\ Propose(p, q, iter, calls)
    /\ UNCHANGED <<reason, ids, iter, calls, decision, written, stream, issued,
                   executed, turns, forced, failure, crashes>>

ResumeSettles(p, q) ==
    LET rows == Mirror(row, q) IN
    /\ pc[p] = "idle"
    /\ row[q] # "absent" /\ ~Executes(row, q)
    /\ ~Continues(Stored(q), rows[q])
    /\ Legacy(p, Stored(q), q, rows, Marked(Stored(q)))
    /\ UNCHANGED <<ids, iter, calls, decision, stream, issued, executed,
                   continued, forced, failure, crashes>>

\* The approved call returned: continue planning from the counters of the
\* stored run, or settle.
ResumeReturns(p) ==
    LET q == cur[p]
        rows == [row EXCEPT ![q] = "succeeded"] IN
    /\ pc[p] = "resuming"
    /\ executed' = executed + 1
    /\ \/ /\ Continues(base[p], "succeeded")
          /\ row' = rows
          /\ continued' = [continued EXCEPT ![q] = @ + 1]
          /\ Propose(p, q, step[p], used[p])
          /\ UNCHANGED <<reason, base, written, turns>>
       \/ /\ ~Continues(base[p], "succeeded")
          /\ Legacy(p, base[p], q, rows, run)
          /\ UNCHANGED continued
    /\ UNCHANGED <<ids, iter, calls, decision, stream, issued, forced, failure,
                   crashes>>

\* A legacy resume executed its target; the final call follows at once.
SettleReturns(p) ==
    /\ pc[p] = "settling"
    /\ row' = [row EXCEPT ![cur[p]] = "answering"]
    /\ executed' = executed + 1
    /\ pc' = [pc EXCEPT ![p] = "answering"]
    /\ UNCHANGED <<runVars, decision, written, loopVars, cur, base, stream,
                   issued, turns, continued, forced, failure, crashes>>

\* The tools-disabled final call ends in an answer or a stored failure.
AnswerReturns(p) ==
    /\ pc[p] = "answering"
    /\ row' = [row EXCEPT ![cur[p]] = "answered"]
    /\ Rendered(p, base[p], cur[p], "answered")
    /\ UNCHANGED <<ids, iter, calls, decision, stream, issued, executed,
                   continued, forced, failure, crashes>>

-----------------------------------------------------------------------------
(* the user and the process *)

Decide(q, d) ==
    /\ decision[q] = "pending"
    /\ decision' = [decision EXCEPT ![q] = d]
    /\ UNCHANGED <<runVars, row, written, loopVars, actVars, stream, issued,
                   historyVars, crashes>>

\* POST runs/cancel: no effect on a terminal run, none on any activation.
CancelRun ==
    /\ run \notin Terminal \cup {"none"}
    /\ Finish("cancelled", "cancelled")
    /\ UNCHANGED <<ids, iter, calls, ledgerVars, loopVars, actVars, stream,
                   issued, historyVars, crashes>>

\* Background searches and calls in flight are lost with the process.
Crash ==
    /\ crashes < MaxCrashes
    /\ run # "none"
    /\ crashes' = crashes + 1
    /\ pc' = [p \in Activations |-> "idle"]
    /\ cur' = [p \in Activations |-> 0]
    /\ base' = [p \in Activations |-> NoRun]
    /\ step' = [p \in Activations |-> 0]
    /\ used' = [p \in Activations |-> 0]
    /\ final' = [p \in Activations |-> FALSE]
    /\ row' = [q \in Requests |-> IF row[q] = "background" THEN "executing" ELSE row[q]]
    /\ UNCHANGED <<runVars, decision, written, stream, issued, historyVars>>

-----------------------------------------------------------------------------
ModelReplies(p) ==
    \/ ModelFails(p) \/ ConsumeConflicts(p) \/ ModelAnswers(p)
    \/ ModelRepeats(p) \/ ModelProposesGated(p) \/ ModelProposesFree(p)
    \/ \E n \in 1..2 : ModelProposesBadly(p, n)

Proceed(p) ==
    \/ ModelReplies(p) \/ CallReturns(p) \/ CallOutlastsTimeout(p)
    \/ CallThrows(p) \/ ResumeReturns(p) \/ SettleReturns(p) \/ AnswerReturns(p)

Next ==
    \/ StartTurn
    \/ \E p \in Activations : Proceed(p)
    \/ \E p \in Resumers, q \in Requests :
         ResumeExecutes(p, q) \/ ResumeContinues(p, q) \/ ResumeSettles(p, q)
    \/ \E q \in Requests :
         BackgroundReturns(q) \/ \E d \in {"approved", "denied"} : Decide(q, d)
    \/ CancelRun
    \/ Crash

Spec == Init /\ [][Next]_vars

\* Model and tool calls end, by an answer, an error or a timeout.
FairSpec == Spec /\ \A p \in Activations : WF_vars(Proceed(p))

-----------------------------------------------------------------------------
\* Columns and labels have their types, and iteration_count counts the
\* recorded requests.
TypeOK ==
    /\ iter = Len(ids)
    /\ run \in RunStates
    /\ reason \in {"none", "final_answer", "approval_denied", "turn_error", "cancelled"}
    /\ ids \in Seq(Requests) /\ iter \in Nat /\ calls \in Nat
    /\ row \in [Requests -> Rows]
    /\ decision \in [Requests -> {"none", "pending", "approved", "denied"}]
    /\ written \in [Requests -> BOOLEAN]
    /\ pc \in [Activations -> Labels]
    /\ step \in [Activations -> Nat] /\ used \in [Activations -> Nat]
    /\ cur \in [Activations -> 0..MaxRequests]
    /\ final \in [Activations -> BOOLEAN]
    /\ base \in [Activations -> [state : RunStates, last : 0..MaxRequests]]
    /\ stream \in BOOLEAN /\ issued \in 0..MaxRequests
    /\ executed \in Nat /\ turns \in Nat /\ continued \in [Requests -> Nat]
    /\ forced \in BOOLEAN /\ crashes \in 0..MaxCrashes
    /\ failure \in {"none", "provider", "conflict", "ledger"}

\* Activations that plan for the run, or will once their call returns.
Planning(p) ==
    \/ pc[p] \in {"thinking", "acting"}
    \/ pc[p] = "resuming" /\ base[p].state = "awaiting_approval"

\* Only one activation plans for a run at a time, and none plans for a run
\* that is parked: of two concurrent resumes one continues, however the run
\* row is overwritten by cancels and by legacy resumes meanwhile.
OnePlanner ==
    \A p, o \in Activations :
      Planning(p) => run # "awaiting_approval" /\ (Planning(o) => o = p)

\* The budget of a run holds across parks and resumes: no more tools run than
\* maxToolSteps, and no more rounds are recorded than maxIterations and the
\* forced one.
WithinBudget ==
    /\ executed <= MaxToolSteps
    /\ iter <= MaxIterations + 1

\* A run that is over stays over: once nobody plans for it and it is not
\* parked, no cancel, late approval or duplicate resume makes it plan or park
\* again, although the single-shot path of a resume marks it executing.
OverPlansNoMore ==
    [][(run \notin {"none", "awaiting_approval"} /\ \A p \in Activations : ~Planning(p))
         => (run' # "awaiting_approval" /\ \A p \in Activations : ~Planning(p)')]_vars

\* On the JSON path every step has a request id of its own: a corrected
\* proposal is not refused as a conflict with the rejected one, and the run
\* observes each executed action once, although rejected proposals and skipped
\* repeats are recorded too.  (The stream path draws ids differently, and
\* breaks both.)
StepsHaveOwnIds ==
    ~stream =>
      /\ failure # "conflict"
      /\ \A i, j \in DOMAIN ids :
           ids[i] = ids[j] /\ row[ids[i]] \in {"succeeded", "answering", "answered"} => i = j

-----------------------------------------------------------------------------
(* What the comments and the milestone documents say, against the code:    *)
(* TLC refutes each of these.                                              *)

\* cancelRun: "Terminal by design".
CancelledIsTerminal ==
    [][run = "cancelled" /\ (\A p \in Activations : ~Planning(p))
         => run' = "cancelled"]_vars

\* "bound/deadline exhaustion is budget_exhausted (answer still delivered)".
ForcedIsExhausted == forced => run = "budget_exhausted"

\* "terminates with truthful persisted state": a completed run is not still
\* waiting for somebody to decide on its current request.
CompletedIsDecided ==
    run = "completed" => decision[ids[Len(ids)]] # "pending"

\* "duplicate resumes converge on the last step's durable answer with no new
\* writes": one message is transcribed once.
OneTurnPerMessage == turns <= 1

\* The same sentence: a request already continued from is not planned from
\* again.
ContinuedOnce == \A q \in Requests : continued[q] <= 1
=============================================================================
