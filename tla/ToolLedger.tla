----------------------------- MODULE ToolLedger -----------------------------
(* The tool-request ledger and the approvals it executes under.            *)
(*                                                                         *)
(* ToolExecutionService.consume and .resume run as concurrent activations  *)
(* over one durable row per request (table tool_requests) and one durable  *)
(* row per approval (table approvals).  Every label of an activation is a  *)
(* point between two committed transactions, or an await: the process may  *)
(* die there, and another activation may run there.                        *)
EXTENDS Naturals

CONSTANTS
    Requests,    \* request ids
    Approvals,   \* approval ids
    Handlers,    \* slots for concurrent consume/resume activations
    NoRequest,   \* sentinel: an idle slot serves no request
    NoApproval,  \* sentinel: approval_id IS NULL
    NoHandler,   \* sentinel: execution_token / final_token IS NULL
    Offered,     \* bound: the kinds of proposal the model makes
    Legacy,      \* rename rows parked before renames became approval-free
    CanRelease,  \* whether an operator calls releaseOwner
    MaxCrashes   \* bound on process crashes

\* What a proposal asks for; NoKind is the input of a row not yet inserted.
Kinds == {"text", "search", "rename", "foreign", "malformed"}
NoKind == "none"

ASSUME SentinelAssumption ==
    /\ NoRequest \notin Requests
    /\ NoApproval \notin Approvals
    /\ NoHandler \notin Handlers

ASSUME LegacyAssumption ==
    /\ Legacy \in [Requests -> Approvals \cup {NoApproval}]
    /\ \A r, s \in Requests : Legacy[r] = Legacy[s] => r = s \/ Legacy[r] = NoApproval

ASSUME BoundAssumption ==
    MaxCrashes \in Nat /\ CanRelease \in BOOLEAN /\ Offered \subseteq Kinds

VARIABLES
    \* columns of tool_requests
    state, input, binding, token, released, outcome, final, ftoken, transcript,
    \* columns of approvals: status, expires_at IS NOT NULL, expires_at passed
    status, timed, due,
    \* activations: label, request, skipFinal, minted approval, observed
    \* approval status
    pc, req, skip, mint, seen,
    \* the bridged descriptor of the foreign tool, as the registry sees it now
    policy,
    \* what happened outside the ledger: effects started, what the executor
    \* answered, final model calls, transcript writes, crashes
    calls, reply, answers, turns, crashes

keyVars == <<input, binding>>
execVars == <<state, token, released, outcome>>
finalVars == <<final, ftoken>>
approvalVars == <<status, timed, due>>
callVars == <<pc, req, skip>>
watchVars == <<mint, seen>>
ghostVars == <<calls, reply, answers, turns>>
vars == <<keyVars, execVars, finalVars, transcript, approvalVars, callVars,
          watchVars, policy, ghostVars, crashes>>

Mirrored == {"rejected", "cancelled", "expired"}
States == {"absent", "closed", "invalid", "validated", "awaiting_approval",
           "executing", "succeeded", "failed"} \cup Mirrored
Statuses == {"none", "pending", "approved"} \cup Mirrored
Labels == {"idle", "minted", "dispatch", "resume", "observed", "claimed",
           "running", "background", "settle", "responding", "render", "append"}
\* "error": a throw, isError or more than 64 KiB of text; "wide": the text is within 64 KiB and the JSON outcome around it is not.
Replies == {"ok", "error", "wide"}

-----------------------------------------------------------------------------
Init ==
    /\ state = [r \in Requests |->
                  IF Legacy[r] = NoApproval THEN "absent" ELSE "awaiting_approval"]
    /\ input = [r \in Requests |->
                  IF Legacy[r] = NoApproval THEN NoKind ELSE "rename"]
    /\ binding = Legacy
    /\ token = [r \in Requests |-> NoHandler]
    /\ released = [r \in Requests |-> FALSE]
    /\ outcome = [r \in Requests |-> "none"]
    /\ final = [r \in Requests |-> "not_required"]
    /\ ftoken = [r \in Requests |-> NoHandler]
    /\ transcript = [r \in Requests |-> "pending"]
    /\ timed = {Legacy[r] : r \in Requests} \ {NoApproval}
    /\ status = [a \in Approvals |-> IF a \in timed THEN "pending" ELSE "none"]
    /\ due = {}
    /\ pc = [h \in Handlers |-> "idle"]
    /\ req = [h \in Handlers |-> NoRequest]
    /\ skip = [h \in Handlers |-> FALSE]
    /\ mint = [h \in Handlers |-> NoApproval]
    /\ seen = [h \in Handlers |-> "none"]
    /\ policy = "required"
    /\ calls = [r \in Requests |-> 0]
    /\ reply = [r \in Requests |-> "none"]
    /\ answers = [r \in Requests |-> 0]
    /\ turns = [r \in Requests |-> 0]
    /\ crashes = 0

\* An idle slot remembers nothing of the activation it served.
Goto(h, label) ==
    /\ pc' = [pc EXCEPT ![h] = label]
    /\ req' = [req EXCEPT ![h] = IF label = "idle" THEN NoRequest ELSE @]
    /\ skip' = [skip EXCEPT ![h] = label # "idle" /\ @]

Enter(h, label, r, s) ==
    /\ pc' = [pc EXCEPT ![h] = label]
    /\ req' = [req EXCEPT ![h] = r]
    /\ skip' = [skip EXCEPT ![h] = s]

\* ToolRegistry.validate and validateForeign: native proposals never change
\* verdict, a foreign one is valid while it is bridged.
Registered(k) == k = "foreign" => policy # "gone"

\* ToolExecutionService.validate
Valid(k) == k # "malformed" /\ Registered(k)

\* approval.status === 'approved' on the bound approval, as it was observed.
GrantedByAnyone(h) == \E a \in Approvals : status[a] = "approved"
Granted(h) == seen[h] = "approved"

\* WHERE state = ? AND execution_token IS NULL of every claim.
ClaimableAgain(r, from) == state[r] \in {from, "executing"}
Claimable(r, from) == state[r] = from /\ token[r] = NoHandler

\* consumeForeign: an unparked foreign call runs only if approval-free.
ApprovalFree(r) == input[r] = "foreign" => policy = "none"

\* isError and oversized text are failures.
OkUnlessThrown(rep) == rep \in {"ok", "error"}
Ok(rep) == rep = "ok"

\* WHERE status = 'pending' of resolveApproval.
ResolvableTwice(a) == status[a] # "none"
Resolvable(a) == status[a] = "pending"

\* WHERE transcript_state = 'pending' of claimTranscript.
TranscriptFree(r) == transcript[r] = "pending"

\* applyLazyExpiry: the status any read of an approval returns (and stores).
Lapsed(a) == status[a] = "pending" /\ a \in due
Observed(a) == IF Lapsed(a) THEN "expired" ELSE status[a]

-----------------------------------------------------------------------------
(* consume: mint, register, dispatch *)

\* No row yet and an approval-required foreign call: the approval is minted
\* first (without a TTL) and create is awaited.
Mint(h, r, s) ==
    /\ pc[h] = "idle"
    /\ state[r] = "absent"
    /\ policy = "required"
    /\ \E a \in Approvals :
         /\ status[a] = "none"
         /\ status' = [status EXCEPT ![a] = "pending"]
         /\ mint' = [mint EXCEPT ![h] = a]
    /\ Enter(h, "minted", r, s)
    /\ UNCHANGED <<keyVars, execVars, finalVars, transcript, timed, due, seen,
                   policy, ghostVars, crashes>>

\* The INSERT of register: the state is decided by a second validation, the
\* approval minted before it is bound for good.
Insert(r, k, a) ==
    /\ state' = [state EXCEPT ![r] = IF ~Valid(k) THEN "invalid"
                                     ELSE IF a # NoApproval THEN "awaiting_approval"
                                     ELSE IF k = "text" THEN "closed"
                                     ELSE "validated"]
    /\ input' = [input EXCEPT ![r] = k]
    /\ binding' = [binding EXCEPT ![r] = a]

\* register, reached synchronously when nothing had to be minted.
Register(h, r, k, s) ==
    /\ pc[h] = "idle"
    /\ ~(state[r] = "absent" /\ k = "foreign" /\ policy = "required")
    /\ \/ /\ state[r] = "absent"
          /\ Insert(r, k, NoApproval)
       \/ /\ state[r] # "absent" /\ input[r] = k
          /\ UNCHANGED <<state, keyVars>>
    /\ Enter(h, "dispatch", r, s)
    /\ UNCHANGED <<token, released, outcome, finalVars, transcript, approvalVars,
                   watchVars, policy, ghostVars, crashes>>

\* register after create resolved: a row inserted meanwhile wins (and its
\* input must be this one, else request_conflict is thrown).
RegisterMinted(h) ==
    LET r == req[h] IN
    /\ pc[h] = "minted"
    /\ \/ /\ state[r] = "absent"
          /\ Insert(r, "foreign", mint[h])
          /\ Goto(h, "dispatch")
       \/ /\ state[r] # "absent"
          /\ Goto(h, IF input[r] = "foreign" THEN "dispatch" ELSE "idle")
          /\ UNCHANGED <<state, keyVars>>
    /\ mint' = [mint EXCEPT ![h] = NoApproval]
    /\ UNCHANGED <<token, released, outcome, finalVars, transcript, approvalVars,
                   seen, policy, ghostVars, crashes>>

\* resolveReleasedToUnknown: a released claim becomes a durable unknown.
ResolveReleased(h) ==
    LET r == req[h] IN
    /\ pc[h] = "dispatch"
    /\ state[r] = "executing" /\ released[r]
    /\ state' = [state EXCEPT ![r] = "failed"]
    /\ outcome' = [outcome EXCEPT ![r] = "unknown"]
    /\ released' = [released EXCEPT ![r] = FALSE]
    /\ final' = [final EXCEPT ![r] = "pending"]
    /\ Goto(h, "settle")
    /\ UNCHANGED <<keyVars, token, ftoken, transcript, approvalVars,
                   watchVars, policy, ghostVars, crashes>>

\* claimSearch, claimTool, claimApprovedTool, claimRename, claimRenameInline:
\* revalidate inside the transaction; a changed verdict invalidates the row.
Claim(h, from) ==
    LET r == req[h] IN
    /\ \/ /\ state[r] = from /\ ~Valid(input[r])
          /\ state' = [state EXCEPT ![r] = "invalid"]
          /\ Goto(h, "settle")
          /\ UNCHANGED token
       \/ /\ Claimable(r, from) /\ Valid(input[r])
          /\ state' = [state EXCEPT ![r] = "executing"]
          /\ token' = [token EXCEPT ![r] = h]
          /\ Goto(h, "claimed")
    /\ UNCHANGED <<keyVars, released, outcome>>

\* A validated row: consumeForeign refuses a tool that is not approval-free
\* (mcp_parking_bypassed is thrown); everything else is claimed.
DispatchValidated(h) ==
    LET r == req[h] IN
    /\ pc[h] = "dispatch"
    /\ state[r] = "validated"
    /\ \/ /\ ~ApprovalFree(r)
          /\ Goto(h, "idle")
          /\ UNCHANGED <<keyVars, execVars>>
       \/ /\ ApprovalFree(r)
          /\ Claim(h, "validated")
    /\ UNCHANGED <<finalVars, transcript, approvalVars, watchVars,
                   policy, ghostVars, crashes>>

\* Parked rows go through resume, all others to the final answer.
DispatchOther(h) ==
    LET r == req[h] IN
    /\ pc[h] = "dispatch"
    /\ state[r] # "validated" /\ ~(state[r] = "executing" /\ released[r])
    /\ Goto(h, IF state[r] = "awaiting_approval" THEN "resume" ELSE "settle")
    /\ UNCHANGED <<keyVars, execVars, finalVars, transcript, approvalVars,
                   watchVars, policy, ghostVars, crashes>>

-----------------------------------------------------------------------------
(* resume: observe the bound approval, then act on what was observed *)

Resume(h, r, s) ==
    /\ pc[h] = "idle"
    /\ state[r] # "absent"
    /\ Enter(h, "resume", r, s)
    /\ UNCHANGED <<keyVars, execVars, finalVars, transcript, approvalVars,
                   watchVars, policy, ghostVars, crashes>>

\* getApproval runs now; its result is used after the await.
AwaitDecision(h) ==
    LET a == binding[req[h]] IN
    /\ pc[h] = "resume"
    /\ state[req[h]] = "awaiting_approval"
    /\ Observed(a) # "pending"
    /\ status' = [status EXCEPT ![a] = Observed(a)]
    /\ seen' = [seen EXCEPT ![h] = Observed(a)]
    /\ Goto(h, "observed")
    /\ UNCHANGED <<keyVars, execVars, finalVars, transcript, timed, due,
                   mint, policy, ghostVars, crashes>>
ObserveApproval(h) ==
    LET a == binding[req[h]] IN
    /\ pc[h] = "resume"
    /\ state[req[h]] = "awaiting_approval"
    /\ status' = [status EXCEPT ![a] = Observed(a)]
    /\ seen' = [seen EXCEPT ![h] = Observed(a)]
    /\ Goto(h, "observed")
    /\ UNCHANGED <<keyVars, execVars, finalVars, transcript, timed, due,
                   mint, policy, ghostVars, crashes>>

ResumeSettled(h) ==
    /\ pc[h] = "resume"
    /\ state[req[h]] # "awaiting_approval"
    /\ Goto(h, "settle")
    /\ UNCHANGED <<keyVars, execVars, finalVars, transcript, approvalVars,
                   watchVars, policy, ghostVars, crashes>>

\* Granted: claimApprovedTool / claimRename.  Denied: mirrorOutcome.  Still
\* pending, or the row moved on while the approval was read: nothing.
ActOnApproval(h) ==
    LET r == req[h] IN
    /\ pc[h] = "observed"
    /\ \/ /\ Granted(h)
          /\ Claim(h, "awaiting_approval")
       \/ /\ seen[h] \in Mirrored
          /\ state[r] = "awaiting_approval"
          /\ state' = [state EXCEPT ![r] = seen[h]]
          /\ Goto(h, "settle")
          /\ UNCHANGED <<keyVars, token, released, outcome>>
       \/ /\ seen[h] = "pending" \/ state[r] # "awaiting_approval"
          /\ Goto(h, "settle")
          /\ UNCHANGED <<keyVars, execVars>>
    /\ seen' = [seen EXCEPT ![h] = "none"]
    /\ UNCHANGED <<finalVars, transcript, approvalVars, mint, policy,
                   ghostVars, crashes>>

-----------------------------------------------------------------------------
(* execution *)

\* mcp.callTool / searchMessages is invoked by the activation that claimed.
StartEffect(h) ==
    LET r == req[h] IN
    /\ pc[h] = "claimed"
    /\ input[r] \in {"foreign", "search"}
    /\ calls' = [calls EXCEPT ![r] = @ + 1]
    /\ Goto(h, "running")
    /\ UNCHANGED <<keyVars, execVars, finalVars, transcript, approvalVars,
                   watchVars, policy, reply, answers, turns, crashes>>

\* The UPDATE ... WHERE state = 'executing' AND execution_token = ? of the
\* finish* transactions, under the table's CHECKs (a released row must stay
\* executing, execution_json is at most 64 KiB).
Storable(h, r, rep) ==
    /\ state[r] = "executing"
    /\ token[r] = h
    /\ ~released[r]
    /\ rep # "wide"

Finish(h, r, rep) ==
    /\ state' = [state EXCEPT ![r] = IF Ok(rep) THEN "succeeded" ELSE "failed"]
    /\ outcome' = [outcome EXCEPT ![r] = IF Ok(rep) THEN "ok" ELSE "failure"]
    /\ final' = [final EXCEPT ![r] = "pending"]
    /\ UNCHANGED <<keyVars, token, released, ftoken>>

\* finishTool / finishSearch: the outcome is stored, or the transaction
\* throws (claim_lost, ledger_unavailable) and the activation ends.  Only an
\* MCP result can be wide: a search measures its serialized outcome.
Return(h, rep) ==
    LET r == req[h] IN
    /\ pc[h] \in {"running", "background"}
    /\ input[r] = "search" => rep # "wide"
    /\ reply' = [reply EXCEPT ![r] = rep]
    /\ \/ /\ Storable(h, r, rep)
          /\ Finish(h, r, rep)
          /\ Goto(h, IF pc[h] = "background" THEN "idle" ELSE "settle")
       \/ /\ ~Storable(h, r, rep)
          /\ Goto(h, "idle")
          /\ UNCHANGED <<keyVars, execVars, finalVars>>
    /\ UNCHANGED <<transcript, approvalVars, watchVars, policy, calls,
                   answers, turns, crashes>>

\* The search timer wins the race: consume returns the executing row and the
\* search keeps running in the background.
SearchTimeoutAbandons(h) ==
    /\ pc[h] = "running"
    /\ input[req[h]] = "search"
    /\ Goto(h, "idle")
    /\ UNCHANGED <<keyVars, execVars, finalVars, transcript, approvalVars,
                   watchVars, policy, ghostVars, crashes>>
SearchTimeout(h) ==
    /\ pc[h] = "running"
    /\ input[req[h]] = "search"
    /\ Goto(h, "background")
    /\ UNCHANGED <<keyVars, execVars, finalVars, transcript, approvalVars,
                   watchVars, policy, ghostVars, crashes>>

\* finishRename: title and ledger row change in one transaction, or neither.
FinishRename(h) ==
    LET r == req[h] IN
    /\ pc[h] = "claimed"
    /\ input[r] = "rename"
    /\ \/ /\ Storable(h, r, "ok")
          /\ Finish(h, r, "ok")
          /\ calls' = [calls EXCEPT ![r] = @ + 1]
          /\ reply' = [reply EXCEPT ![r] = "ok"]
          /\ Goto(h, "settle")
       \/ /\ ~Storable(h, r, "ok")
          /\ Goto(h, "idle")
          /\ UNCHANGED <<keyVars, execVars, finalVars, calls, reply>>
    /\ UNCHANGED <<transcript, approvalVars, watchVars, policy,
                   answers, turns, crashes>>

-----------------------------------------------------------------------------
(* the final answer and the transcript *)

FinalClaimable(r) ==
    /\ state[r] \in {"succeeded", "failed"}
    /\ ~released[r]
    /\ final[r] = "pending"
    /\ ftoken[r] = NoHandler

\* What renderTurn persists: text, a denial notice, an answer or its failure.
Renderable(r) ==
    \/ state[r] = "closed"
    \/ state[r] \in Mirrored
    \/ final[r] \in {"succeeded", "failed"}

\* skipFinal returns the row as it is; maybeFinal claims the final call once.
Settle(h) ==
    LET r == req[h] IN
    /\ pc[h] = "settle"
    /\ \/ /\ ~skip[h] /\ FinalClaimable(r)
          /\ final' = [final EXCEPT ![r] = "claimed"]
          /\ ftoken' = [ftoken EXCEPT ![r] = h]
          /\ answers' = [answers EXCEPT ![r] = @ + 1]
          /\ Goto(h, "responding")
       \/ /\ skip[h] \/ ~FinalClaimable(r)
          /\ Goto(h, IF Renderable(r) THEN "render" ELSE "idle")
          /\ UNCHANGED <<finalVars, answers>>
    /\ UNCHANGED <<keyVars, execVars, transcript, approvalVars,
                   watchVars, policy, calls, reply, turns, crashes>>

\* respond returns text or one of its failures; finishFinal stores it.
Respond(h, result) ==
    LET r == req[h] IN
    /\ pc[h] = "responding"
    /\ final[r] = "claimed" /\ ftoken[r] = h
    /\ final' = [final EXCEPT ![r] = result]
    /\ Goto(h, "render")
    /\ UNCHANGED <<keyVars, execVars, ftoken, transcript, approvalVars,
                   watchVars, policy, ghostVars, crashes>>

\* persistTurn: only the winner of claimTranscript appends the turn.
ClaimTranscript(h) ==
    LET r == req[h] IN
    /\ pc[h] = "render"
    /\ transcript' = [transcript EXCEPT ![r] = "written"]
    /\ Goto(h, IF TranscriptFree(r) THEN "append" ELSE "idle")
    /\ UNCHANGED <<keyVars, execVars, finalVars, approvalVars,
                   watchVars, policy, ghostVars, crashes>>

AppendTurn(h) ==
    /\ pc[h] = "append"
    /\ turns' = [turns EXCEPT ![req[h]] = @ + 1]
    /\ Goto(h, "idle")
    /\ UNCHANGED <<keyVars, execVars, finalVars, transcript, approvalVars,
                   watchVars, policy, calls, reply, answers, crashes>>

-----------------------------------------------------------------------------
(* the approvals API, the clock, the bridge, the operator, the process *)

\* POST /core/approvals: a generic approval, bound to no invocation.
CreateApproval(a, ttl) ==
    /\ status[a] = "none"
    /\ status' = [status EXCEPT ![a] = "pending"]
    /\ timed' = IF ttl THEN timed \cup {a} ELSE timed
    /\ UNCHANGED <<keyVars, execVars, finalVars, transcript, due, callVars,
                   watchVars, policy, ghostVars, crashes>>

\* approve / reject / cancel: only a pending approval that has not lapsed
\* changes; resolving a lapsed one stores the expiry and throws.
ResolveApproval(a, to) ==
    /\ Resolvable(a)
    /\ status' = [status EXCEPT ![a] = IF Lapsed(a) THEN "expired" ELSE to]
    /\ UNCHANGED <<keyVars, execVars, finalVars, transcript, timed, due, callVars, watchVars, policy, ghostVars, crashes>>

\* expireLapsed, before every listing.
ListApprovals ==
    /\ \E a \in Approvals : Lapsed(a)
    /\ status' = [a \in Approvals |-> Observed(a)]
    /\ UNCHANGED <<keyVars, execVars, finalVars, transcript, timed, due, callVars, watchVars, policy, ghostVars, crashes>>

\* The clock passes expires_at (of no consequence once it is resolved).
Lapse(a) ==
    /\ status[a] = "pending"
    /\ a \in timed \ due
    /\ due' = due \cup {a}
    /\ UNCHANGED <<keyVars, execVars, finalVars, transcript, status, timed, callVars, watchVars, policy, ghostVars, crashes>>

\* The bridge is rebuilt: the tool changes its approval policy or disappears.
RebuildBridge(p) ==
    /\ policy # p
    /\ policy' = p
    /\ UNCHANGED <<keyVars, execVars, finalVars, transcript, approvalVars, callVars, watchVars, ghostVars, crashes>>

ReleaseOwner(r) ==
    /\ CanRelease
    /\ state[r] = "executing" /\ ~released[r]
    /\ released' = [released EXCEPT ![r] = TRUE]
    /\ UNCHANGED <<keyVars, state, token, outcome, finalVars, transcript,
                   approvalVars, callVars, watchVars, policy, ghostVars,
                   crashes>>

\* Every activation is lost; the tables survive.
Crash ==
    /\ crashes < MaxCrashes
    /\ crashes' = crashes + 1
    /\ pc' = [h \in Handlers |-> "idle"]
    /\ req' = [h \in Handlers |-> NoRequest]
    /\ skip' = [h \in Handlers |-> FALSE]
    /\ mint' = [h \in Handlers |-> NoApproval]
    /\ seen' = [h \in Handlers |-> "none"]
    /\ UNCHANGED <<keyVars, execVars, finalVars, transcript, approvalVars,
                   policy, ghostVars>>

-----------------------------------------------------------------------------
\* Steps an activation takes by itself once it was called.
Step(h) ==
    \/ RegisterMinted(h) \/ ResolveReleased(h) \/ DispatchValidated(h)
    \/ DispatchOther(h) \/ ObserveApproval(h) \/ ResumeSettled(h)
    \/ ActOnApproval(h) \/ StartEffect(h) \/ FinishRename(h)
    \/ Settle(h) \/ ClaimTranscript(h) \/ AppendTurn(h)
    \/ \E rep \in Replies : Return(h, rep)
    \/ \E result \in {"succeeded", "failed"} : Respond(h, result)

\* Calls made by the conversation and the approvals controllers.
Call(h) ==
    \E r \in Requests, s \in BOOLEAN :
      \/ "foreign" \in Offered /\ Mint(h, r, s)
      \/ \E k \in Offered : Register(h, r, k, s)
      \/ Resume(h, r, s)

Environment ==
    \/ \E a \in Approvals :
         \/ \E ttl \in BOOLEAN : CreateApproval(a, ttl)
         \/ \E to \in {"approved", "rejected", "cancelled"} : ResolveApproval(a, to)
         \/ Lapse(a)
    \/ ListApprovals
    \/ \E p \in {"none", "required", "gone"} : RebuildBridge(p)
    \/ \E r \in Requests : ReleaseOwner(r)

Next ==
    \/ \E h \in Handlers : Step(h) \/ Call(h) \/ SearchTimeout(h)
    \/ Environment
    \/ Crash

Spec == Init /\ [][Next]_vars

\* An activation never stops by itself: MCP and model calls end with an
\* answer, an error or their timeout.  Nobody owes the ledger a call.
FairSpec == Spec /\ \A h \in Handlers : WF_vars(Step(h))

-----------------------------------------------------------------------------
\* The columns of tool_requests.
RowsOK ==
    /\ state \in [Requests -> States]
    /\ input \in [Requests -> Kinds \cup {NoKind}]
    /\ binding \in [Requests -> Approvals \cup {NoApproval}]
    /\ token \in [Requests -> Handlers \cup {NoHandler}]
    /\ released \in [Requests -> BOOLEAN]
    /\ outcome \in [Requests -> {"none", "ok", "failure", "unknown"}]
    /\ final \in [Requests -> {"not_required", "pending", "claimed", "succeeded", "failed"}]
    /\ ftoken \in [Requests -> Handlers \cup {NoHandler}]
    /\ transcript \in [Requests -> {"pending", "written"}]

\* The columns of approvals.
ApprovalsOK ==
    /\ status \in [Approvals -> Statuses]
    /\ timed \in SUBSET Approvals
    /\ due \in SUBSET timed

\* The activations and the bridge; an active slot serves a request.
CallsOK ==
    /\ pc \in [Handlers -> Labels]
    /\ req \in [Handlers -> Requests \cup {NoRequest}]
    /\ skip \in [Handlers -> BOOLEAN]
    /\ mint \in [Handlers -> Approvals \cup {NoApproval}]
    /\ seen \in [Handlers -> Statuses]
    /\ policy \in {"none", "required", "gone"}
    /\ \A h \in Handlers : pc[h] = "idle" <=> req[h] = NoRequest

HistoryOK ==
    /\ calls \in [Requests -> Nat]
    /\ answers \in [Requests -> Nat]
    /\ turns \in [Requests -> Nat]
    /\ reply \in [Requests -> Replies \cup {"none"}]
    /\ crashes \in 0..MaxCrashes

\* The CHECK constraints of tool_requests.
Checks ==
    \A r \in Requests :
      /\ state[r] = "awaiting_approval" => binding[r] # NoApproval
      /\ state[r] = "executing" => token[r] # NoHandler
      /\ released[r] => state[r] = "executing"
      /\ state[r] \in {"succeeded", "failed"} <=> outcome[r] # "none"
      /\ final[r] # "not_required" => outcome[r] # "none"
      /\ final[r] = "claimed" => ftoken[r] # NoHandler

\* Every column and label has its type, and none of the UPDATEs above can be
\* rejected by the table: a stored outcome, a released claim and a claimed
\* answer always belong to a row in the state that allows them.
TypeOK == RowsOK /\ ApprovalsOK /\ CallsOK /\ HistoryOK /\ Checks

\* "exactly once": whatever replays of consume, concurrent resumes, timeouts
\* and restarts happen, a tool runs at most once per request, the model is
\* asked for the closing answer at most once and one turn is transcribed.
AtMostOnce ==
    \A r \in Requests : calls[r] <= 1 /\ answers[r] <= 1 /\ turns[r] <= 1

\* A parked call that ran did so under its own approval, granted: neither a
\* generic approval nor one bound to another request confers authority, and
\* the status observed before an await still holds when it is acted upon.
RanUnderOwnGrant ==
    \A r \in Requests :
      /\ calls[r] > 0 /\ binding[r] # NoApproval => status[binding[r]] = "approved"
      /\ \A q \in Requests :
           binding[r] = binding[q] /\ binding[r] # NoApproval => r = q

\* A denied row carries exactly the denial its approval stores, and its tool
\* never ran.
DenialMirrorsApproval ==
    \A r \in Requests :
      state[r] \in Mirrored => status[binding[r]] = state[r] /\ calls[r] = 0

\* The stored outcome is what the executor answered: success is never
\* recorded for an error or an oversized result, and only a released claim
\* becomes unknown.
OutcomeIsTrue ==
    \A r \in Requests :
      /\ outcome[r] = "ok" => calls[r] = 1 /\ reply[r] = "ok"
      /\ outcome[r] = "failure" => calls[r] = 1 /\ reply[r] = "error"
      /\ outcome[r] = "unknown" => CanRelease

\* A row is executing only while the activation that claimed it is alive, or
\* it lost that activation to a crash, a release or an outcome the table
\* refuses to store.
ExecutingIsOwned ==
    \A r \in Requests :
      state[r] = "executing" =>
        \/ /\ token[r] \in Handlers
           /\ req[token[r]] = r
           /\ pc[token[r]] \in {"claimed", "running", "background"}
        \/ crashes > 0 \/ released[r] \/ reply[r] = "wide"

\* A foreign call that nobody was asked about starts only while its tool is
\* approval-free: a policy tightened after registration is honoured.
ClaimsHonourPolicy ==
    [][\A r \in Requests :
         token[r] # token'[r] /\ input[r] = "foreign" /\ binding[r] = NoApproval
           => policy = "none"]_vars

\* Settled rows and settled approvals never change again.
SettledIsFinal ==
    [][/\ \A r \in Requests :
            state[r] \in {"closed", "invalid", "succeeded", "failed"} \cup Mirrored
              => state'[r] = state[r] /\ outcome'[r] = outcome[r]
       /\ \A a \in Approvals :
            status[a] \in {"approved"} \cup Mirrored => status'[a] = status[a]]_vars

\* Every consume and resume returns: none waits for a human decision, for a
\* claim another activation holds, or for an answer that is already stored.
EveryCallReturns == \A h \in Handlers : pc[h] # "idle" ~> pc[h] = "idle"

\* What a row shows of its invocation.
Shown(st, out) ==
    CASE st = "absent" -> "new"
      [] st = "closed" -> "said"
      [] st = "invalid" -> "refused"
      [] st = "validated" -> "open"
      [] st = "awaiting_approval" -> "gated"
      [] st = "executing" -> "running"
      [] st \in Mirrored -> "denied"
      [] OTHER -> out

Phase(r) == Shown(state[r], outcome[r])

Consented(r) ==
    binding[r] # NoApproval /\ status[binding[r]] = "approved"

OS == INSTANCE OneShot WITH
        phase <- [r \in Requests |-> Phase(r)],
        consent <- [r \in Requests |-> Consented(r)]

\* The ledger implements the one-shot invocation: whatever replays, races and
\* crashes interleave, a request moves only as OneShot lets it.
ImplementsOneShot == OS!OneShotSpec

\* "oversized -> result_too_large (64 KiB, same bound as native)": a call
\* that answered leaves the executing state, without any crash or release.
AnsweredCallsSettle ==
    \A r \in Requests :
      reply[r] # "none" /\ crashes = 0 => state[r] # "executing"
=============================================================================
