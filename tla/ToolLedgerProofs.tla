-------------------------- MODULE ToolLedgerProofs --------------------------
(* Safety of the tool ledger for any requests, approvals, activations and  *)
(* crashes.  Type correctness comes first; the safety theorems rest on the *)
(* inductive invariant Inv, whose parts are preserved one by one, and the  *)
(* ledger implements OneShot at the end.                                   *)
EXTENDS ToolLedger, TLAPS

USE DEF keyVars, execVars, finalVars, approvalVars, callVars, watchVars, ghostVars

\* The tables as the process finds them satisfy their types and CHECKs.
LEMMA TypeInit == Init => TypeOK
<1> SUFFICES ASSUME Init PROVE TypeOK OBVIOUS
<1> USE SentinelAssumption, LegacyAssumption, BoundAssumption DEF Init, NoKind, Kinds, Mirrored
<1>1. RowsOK BY DEF RowsOK, States
<1>2. ApprovalsOK BY DEF ApprovalsOK, Statuses
<1>3. CallsOK BY DEF CallsOK, Labels, Statuses
<1>4. HistoryOK BY DEF HistoryOK, Replies
<1>5. Checks BY DEF Checks
<1> QED BY <1>1, <1>2, <1>3, <1>4, <1>5 DEF TypeOK

\* Every step leaves each activation at a label, with a request while it is
\* active.
LEMMA CallsStep == TypeOK /\ [Next]_vars => CallsOK'
<1> SUFFICES ASSUME CallsOK, ApprovalsOK, RowsOK, Checks, [Next]_vars PROVE CallsOK'
    BY DEF TypeOK
<1> USE SentinelAssumption DEF CallsOK
<1>1. ASSUME NEW h \in Handlers, NEW label \in Labels, req[h] \in Requests, Goto(h, label),
             mint' \in [Handlers -> Approvals \cup {NoApproval}], seen' \in [Handlers -> Statuses], UNCHANGED policy
      PROVE CallsOK'
  BY <1>1 DEF Goto
<1>2. ASSUME NEW h \in Handlers, NEW label \in Labels \ {"idle"}, NEW r \in Requests, NEW s \in BOOLEAN, Enter(h, label, r, s),
             mint' \in [Handlers -> Approvals \cup {NoApproval}], seen' \in [Handlers -> Statuses], UNCHANGED policy
      PROVE CallsOK'
  BY <1>2 DEF Enter
<1>3. ASSUME NEW h \in Handlers, Step(h) PROVE CallsOK'
  <2>1. CASE RegisterMinted(h) BY <2>1, <1>1 DEF RegisterMinted, Labels
  <2>2. CASE ResolveReleased(h) BY <2>2, <1>1 DEF ResolveReleased, Labels
  <2>3. CASE DispatchValidated(h) BY <2>3, <1>1 DEF DispatchValidated, Claim, Labels
  <2>4. CASE DispatchOther(h) BY <2>4, <1>1 DEF DispatchOther, Labels
  <2>5. CASE ObserveApproval(h)
    <3>1. binding[req[h]] \in Approvals /\ req[h] \in Requests
      BY <2>5 DEF ObserveApproval, RowsOK, Checks
    <3>2. Observed(binding[req[h]]) \in Statuses
      BY <3>1 DEF Observed, ApprovalsOK, Statuses, Mirrored
    <3>3. seen' \in [Handlers -> Statuses]
      BY <2>5, <3>2 DEF ObserveApproval
    <3>4. mint' \in [Handlers -> Approvals \cup {NoApproval}] /\ UNCHANGED policy /\ Goto(h, "observed")
      BY <2>5 DEF ObserveApproval
    <3>5. "observed" \in Labels
      BY DEF Labels
    <3> QED BY <1>1, <3>1, <3>3, <3>4, <3>5
  <2>6. CASE ResumeSettled(h) BY <2>6, <1>1 DEF ResumeSettled, Labels
  <2>7. CASE ActOnApproval(h) BY <2>7, <1>1 DEF ActOnApproval, Claim, Labels, Statuses
  <2>8. CASE StartEffect(h) BY <2>8, <1>1 DEF StartEffect, Labels
  <2>9. CASE FinishRename(h) BY <2>9, <1>1 DEF FinishRename, Labels
  <2>10. CASE Settle(h) BY <2>10, <1>1 DEF Settle, Labels
  <2>11. CASE ClaimTranscript(h) BY <2>11, <1>1 DEF ClaimTranscript, Labels
  <2>12. CASE AppendTurn(h) BY <2>12, <1>1 DEF AppendTurn, Labels
  <2>13. ASSUME NEW rep \in Replies, Return(h, rep) PROVE CallsOK' BY <2>13, <1>1 DEF Return, Labels
  <2>14. ASSUME NEW result \in {"succeeded", "failed"}, Respond(h, result) PROVE CallsOK'
    BY <2>14, <1>1 DEF Respond, Labels
  <2> QED BY <1>3, <2>1, <2>2, <2>3, <2>4, <2>5, <2>6, <2>7, <2>8, <2>9, <2>10, <2>11, <2>12, <2>13, <2>14 DEF Step
<1>4. ASSUME NEW h \in Handlers, Call(h) PROVE CallsOK'
  BY <1>4, <1>2 DEF Call, Mint, Register, Resume, Labels
<1>5. ASSUME NEW h \in Handlers, SearchTimeout(h) PROVE CallsOK'
  BY <1>5, <1>1 DEF SearchTimeout, Labels
<1>6. CASE Environment
  BY <1>6 DEF Environment, CreateApproval, ResolveApproval, Lapse, ListApprovals, RebuildBridge, ReleaseOwner
<1>7. CASE Crash
  BY <1>7 DEF Crash, Labels, Statuses
<1>8. CASE UNCHANGED vars
  BY <1>8 DEF vars
<1> QED BY <1>3, <1>4, <1>5, <1>6, <1>7, <1>8 DEF Next

\* Every step leaves the columns of tool_requests typed.
LEMMA RowsStep == TypeOK /\ [Next]_vars => RowsOK'
<1> SUFFICES ASSUME RowsOK, CallsOK, [Next]_vars PROVE RowsOK'
    BY DEF TypeOK
<1> USE SentinelAssumption DEF RowsOK
<1>1. ASSUME NEW h \in Handlers, Step(h) PROVE RowsOK'
  <2>1. pc[h] # "idle" => req[h] \in Requests
    BY DEF CallsOK
  <2>2. ASSUME NEW from, pc[h] # "idle", Claim(h, from), UNCHANGED <<finalVars, transcript>> PROVE RowsOK'
    BY <2>1, <2>2 DEF Claim, States
  <2>3. ASSUME NEW rep, pc[h] # "idle", Finish(h, req[h], rep), UNCHANGED transcript PROVE RowsOK'
    BY <2>1, <2>3 DEF Finish, States
  <2>4. CASE RegisterMinted(h)
    BY <2>1, <2>4 DEF RegisterMinted, Insert, States, CallsOK, Kinds
  <2>5. CASE ResolveReleased(h)
    BY <2>1, <2>5 DEF ResolveReleased, States
  <2>6. CASE DispatchValidated(h)
    BY <2>2, <2>6 DEF DispatchValidated
  <2>7. CASE ActOnApproval(h)
    BY <2>1, <2>2, <2>7 DEF ActOnApproval, Mirrored, States
  <2>8. CASE FinishRename(h)
    BY <2>3, <2>8 DEF FinishRename
  <2>9. CASE Settle(h)
    BY <2>1, <2>9 DEF Settle
  <2>10. CASE ClaimTranscript(h)
    BY <2>1, <2>10 DEF ClaimTranscript
  <2>11. ASSUME NEW rep \in Replies, Return(h, rep) PROVE RowsOK'
    BY <2>3, <2>11 DEF Return
  <2>12. ASSUME NEW result \in {"succeeded", "failed"}, Respond(h, result) PROVE RowsOK'
    BY <2>1, <2>12 DEF Respond
  <2>13. CASE DispatchOther(h) \/ ObserveApproval(h) \/ ResumeSettled(h) \/ StartEffect(h) \/ AppendTurn(h)
    BY <2>13 DEF DispatchOther, ObserveApproval, ResumeSettled, StartEffect, AppendTurn
  <2> QED BY <1>1, <2>4, <2>5, <2>6, <2>7, <2>8, <2>9, <2>10, <2>11, <2>12, <2>13 DEF Step
<1>2. ASSUME NEW h \in Handlers, Call(h) PROVE RowsOK'
  BY <1>2, BoundAssumption DEF Call, Mint, Register, Resume, Insert, States, Kinds
<1>3. ASSUME NEW h \in Handlers, SearchTimeout(h) PROVE RowsOK'
  BY <1>3 DEF SearchTimeout
<1>4. CASE Environment
  BY <1>4, ZenonT(40) DEF Environment, CreateApproval, ResolveApproval, Lapse, ListApprovals, RebuildBridge, ReleaseOwner
<1>5. CASE Crash \/ UNCHANGED vars
  BY <1>5 DEF Crash, vars
<1> QED BY <1>1, <1>2, <1>3, <1>4, <1>5 DEF Next

\* Every step leaves the columns of approvals typed; only reads, consume's
\* mint and the approvals API write them.
LEMMA ApprovalsStep == TypeOK /\ [Next]_vars => ApprovalsOK'
<1> SUFFICES ASSUME RowsOK, Checks, ApprovalsOK, CallsOK, [Next]_vars PROVE ApprovalsOK'
    BY DEF TypeOK
<1> USE DEF ApprovalsOK, Statuses, Mirrored
<1>1. ASSUME NEW h \in Handlers, ObserveApproval(h) PROVE ApprovalsOK'
  BY <1>1 DEF ObserveApproval, Observed, Lapsed
<1>2. ASSUME NEW h \in Handlers, Call(h) PROVE ApprovalsOK'
  BY <1>2 DEF Call, Mint, Register, Resume
<1>3. CASE Environment
  BY <1>3 DEF Environment, CreateApproval, ResolveApproval, Lapse, ListApprovals, RebuildBridge,
              ReleaseOwner, Observed, Lapsed
<1>4. CASE UNCHANGED approvalVars
  BY <1>4
<1> QED BY <1>1, <1>2, <1>3, <1>4
        DEF Next, Step, RegisterMinted, ResolveReleased, DispatchValidated, DispatchOther, ResumeSettled,
            ActOnApproval, StartEffect, FinishRename, Settle, ClaimTranscript, AppendTurn, Return, Respond,
            SearchTimeout, Crash, vars

\* Every step leaves the history typed.
LEMMA HistoryStep == TypeOK /\ [Next]_vars => HistoryOK'
<1> SUFFICES ASSUME HistoryOK, CallsOK, [Next]_vars PROVE HistoryOK'
    BY DEF TypeOK
<1> USE BoundAssumption DEF HistoryOK
<1>1. ASSUME NEW h \in Handlers, Step(h) PROVE HistoryOK'
  <2>1. pc[h] # "idle" => req[h] \in Requests
    BY DEF CallsOK
  <2>2. CASE StartEffect(h)
    BY <2>1, <2>2 DEF StartEffect
  <2>3. CASE FinishRename(h)
    BY <2>1, <2>3 DEF FinishRename, Replies
  <2>4. CASE Settle(h)
    BY <2>1, <2>4 DEF Settle
  <2>5. CASE AppendTurn(h)
    BY <2>1, <2>5 DEF AppendTurn
  <2>6. ASSUME NEW rep \in Replies, Return(h, rep) PROVE HistoryOK'
    BY <2>1, <2>6 DEF Return
  <2>7. CASE UNCHANGED <<ghostVars, crashes>>
    BY <2>7
  <2> QED BY <1>1, <2>2, <2>3, <2>4, <2>5, <2>6, <2>7
          DEF Step, RegisterMinted, ResolveReleased, DispatchValidated, DispatchOther, ObserveApproval,
              ResumeSettled, ActOnApproval, ClaimTranscript, Respond
<1>2. ASSUME NEW h \in Handlers, Call(h) \/ SearchTimeout(h) PROVE HistoryOK'
  BY <1>2 DEF Call, Mint, Register, Resume, SearchTimeout
<1>3. CASE Environment
  BY <1>3 DEF Environment, CreateApproval, ResolveApproval, Lapse, ListApprovals, RebuildBridge, ReleaseOwner
<1>4. CASE Crash
  BY <1>4 DEF Crash
<1>5. CASE UNCHANGED vars
  BY <1>5 DEF vars
<1> QED BY <1>1, <1>2, <1>3, <1>4, <1>5 DEF Next

\* No UPDATE of the ledger can be rejected by a CHECK of tool_requests: the
\* state guard in each WHERE clause is what makes it so.
LEMMA ChecksStep == TypeOK /\ [Next]_vars => Checks'
<1> SUFFICES ASSUME RowsOK, CallsOK, Checks, [Next]_vars PROVE Checks'
    BY DEF TypeOK
<1> USE SentinelAssumption DEF RowsOK, Checks
<1>1. ASSUME NEW h \in Handlers, Step(h) PROVE Checks'
  <2>1. pc[h] # "idle" => req[h] \in Requests
    BY DEF CallsOK
  <2>2. ASSUME NEW from \in {"validated", "awaiting_approval"}, pc[h] # "idle", Claim(h, from),
               UNCHANGED <<finalVars, transcript>>
        PROVE Checks'
    BY <2>1, <2>2 DEF Claim, Claimable
  <2>3. ASSUME NEW rep, pc[h] # "idle", Storable(h, req[h], rep), Finish(h, req[h], rep) PROVE Checks'
    BY <2>1, <2>3 DEF Finish, Storable
  <2>4. CASE RegisterMinted(h)
    BY <2>1, <2>4 DEF RegisterMinted, Insert
  <2>5. CASE ResolveReleased(h)
    BY <2>1, <2>5 DEF ResolveReleased
  <2>6. CASE DispatchValidated(h)
    BY <2>2, <2>6 DEF DispatchValidated
  <2>7. CASE ActOnApproval(h)
    BY <2>1, <2>2, <2>7 DEF ActOnApproval, Mirrored
  <2>8. CASE FinishRename(h)
    BY <2>3, <2>8 DEF FinishRename
  <2>9. CASE Settle(h)
    BY <2>1, <2>9 DEF Settle, FinalClaimable
  <2>10. ASSUME NEW rep \in Replies, Return(h, rep) PROVE Checks'
    BY <2>3, <2>10 DEF Return
  <2>11. ASSUME NEW result \in {"succeeded", "failed"}, Respond(h, result) PROVE Checks'
    BY <2>1, <2>11 DEF Respond
  <2>12. CASE UNCHANGED <<keyVars, execVars, finalVars>>
    BY <2>12
  <2> QED BY <1>1, <2>4, <2>5, <2>6, <2>7, <2>8, <2>9, <2>10, <2>11, <2>12
          DEF Step, DispatchOther, ObserveApproval, ResumeSettled, StartEffect, ClaimTranscript, AppendTurn
<1>2. ASSUME NEW h \in Handlers, Call(h) PROVE Checks'
  BY <1>2, BoundAssumption DEF Call, Mint, Register, Resume, Insert
<1>3. ASSUME NEW h \in Handlers, SearchTimeout(h) PROVE Checks'
  BY <1>3 DEF SearchTimeout
<1>4. CASE Environment
  BY <1>4 DEF Environment, CreateApproval, ResolveApproval, Lapse, ListApprovals, RebuildBridge, ReleaseOwner
<1>5. CASE Crash \/ UNCHANGED vars
  BY <1>5 DEF Crash, vars
<1> QED BY <1>1, <1>2, <1>3, <1>4, <1>5 DEF Next

\* TypeOK is inductive by itself.
LEMMA TypeCorrectStep == TypeOK /\ [Next]_vars => TypeOK'
BY CallsStep, RowsStep, ApprovalsStep, HistoryStep, ChecksStep DEF TypeOK

\* Whatever the sets of requests, approvals and activations, the tables stay
\* typed and the CHECK constraints of tool_requests always hold.
THEOREM TypeCorrect == Spec => []TypeOK
BY TypeInit, TypeCorrectStep, PTL DEF Spec

-----------------------------------------------------------------------------
\* States of a row whose claim was taken.
Ran == {"executing", "succeeded", "failed"}

\* The claim: whoever holds it is the only one who may start the effect, and
\* has not yet (claimed) or has exactly once (running, background).
Owned ==
    /\ \A r \in Requests :
         /\ calls[r] <= 1
         /\ token[r] = NoHandler => calls[r] = 0
         /\ token[r] # NoHandler => state[r] \in Ran
    /\ \A h \in Handlers :
         /\ pc[h] = "claimed" => token[req[h]] = h /\ calls[req[h]] = 0
         /\ pc[h] \in {"running", "background"} => token[req[h]] = h /\ calls[req[h]] = 1

\* No step gives a claim away: a claim needs execution_token IS NULL, and
\* nothing ever clears the token.
LEMMA OwnedStep == TypeOK /\ Owned /\ [Next]_vars => Owned'
<1> SUFFICES ASSUME RowsOK, CallsOK, HistoryOK, Owned, [Next]_vars PROVE Owned'
    BY DEF TypeOK
<1> USE SentinelAssumption DEF RowsOK, CallsOK, HistoryOK, Owned
<1>1. ASSUME NEW h \in Handlers, Step(h) PROVE Owned'
  <2>1. pc[h] # "idle" => req[h] \in Requests
    OBVIOUS
  <2>2. ASSUME NEW label \in Labels \ {"claimed", "running", "background"}, Goto(h, label),
               UNCHANGED <<state, token, calls>>
        PROVE Owned'
    BY <2>2 DEF Goto
  <2>3. ASSUME NEW from \in {"validated", "awaiting_approval"}, pc[h] # "idle", Claim(h, from), UNCHANGED calls
        PROVE Owned'
    <3>1. CASE ~Valid(input[req[h]])
      BY <2>1, <2>3, <3>1 DEF Claim, Goto, Ran
    <3>2. CASE Valid(input[req[h]])
      BY <2>1, <2>3, <3>2 DEF Claim, Claimable, Goto, Ran
    <3> QED BY <3>1, <3>2
  <2>4. CASE RegisterMinted(h)
    <3>1. CASE state[req[h]] = "absent"
      BY <2>1, <2>4, <3>1 DEF RegisterMinted, Insert, Goto, Ran
    <3>2. CASE state[req[h]] # "absent"
      BY <2>2, <2>4, <3>2 DEF RegisterMinted, Labels
    <3> QED BY <3>1, <3>2
  <2>5. CASE ResolveReleased(h)
    BY <2>1, <2>5 DEF ResolveReleased, Goto, Ran
  <2>6. CASE DispatchValidated(h)
    BY <2>2, <2>3, <2>6 DEF DispatchValidated, Labels
  <2>7. CASE ActOnApproval(h)
    <3>1. CASE Granted(h) /\ Claim(h, "awaiting_approval")
      BY <2>3, <2>7, <3>1 DEF ActOnApproval
    <3>2. CASE seen[h] \in Mirrored /\ state[req[h]] = "awaiting_approval"
               /\ state' = [state EXCEPT ![req[h]] = seen[h]] /\ Goto(h, "settle") /\ UNCHANGED <<token, calls>>
      BY <2>1, <2>7, <3>2 DEF ActOnApproval, Goto, Ran
    <3>3. CASE Goto(h, "settle") /\ UNCHANGED <<state, token, calls>>
      BY <2>2, <3>3 DEF Labels
    <3> QED BY <2>7, <3>1, <3>2, <3>3 DEF ActOnApproval
  <2>8. CASE StartEffect(h)
    BY <2>1, <2>8 DEF StartEffect, Goto
  <2>9. CASE FinishRename(h)
    <3>1. CASE Storable(h, req[h], "ok")
      BY <2>1, <2>9, <3>1, SMTT(30) DEF FinishRename, Finish, Storable, Goto, Ran
    <3>2. CASE ~Storable(h, req[h], "ok")
      BY <2>2, <2>9, <3>2 DEF FinishRename, Labels
    <3> QED BY <3>1, <3>2
  <2>10. ASSUME NEW rep \in Replies, Return(h, rep) PROVE Owned'
    <3>1. CASE Storable(h, req[h], rep)
      BY <2>1, <2>10, <3>1, SMTT(30) DEF Return, Finish, Goto, Ran
    <3>2. CASE ~Storable(h, req[h], rep)
      BY <2>2, <2>10, <3>2 DEF Return, Labels
    <3> QED BY <3>1, <3>2
  <2>11. ASSUME NEW result \in {"succeeded", "failed"}, Respond(h, result) PROVE Owned'
    BY <2>2, <2>11 DEF Respond, Labels
  <2>12. CASE DispatchOther(h) \/ ObserveApproval(h) \/ ResumeSettled(h)
    BY <2>2, <2>12 DEF DispatchOther, ObserveApproval, ResumeSettled, Labels
  <2>13. CASE Settle(h)
    BY <2>2, <2>13 DEF Settle, Labels
  <2>14. CASE ClaimTranscript(h) \/ AppendTurn(h)
    BY <2>2, <2>14 DEF ClaimTranscript, AppendTurn, Labels
  <2> QED BY <1>1, <2>4, <2>5, <2>6, <2>7, <2>8, <2>9, <2>10, <2>11, <2>12, <2>13, <2>14 DEF Step
<1>2. ASSUME NEW h \in Handlers, NEW label \in {"minted", "dispatch", "resume"}, NEW r \in Requests, NEW s \in BOOLEAN,
             Enter(h, label, r, s), UNCHANGED <<token, calls>>,
             \A q \in Requests : state'[q] = state[q] \/ state[q] = "absent"
      PROVE Owned'
  BY <1>2 DEF Enter, Ran
<1>3. ASSUME NEW h \in Handlers, Call(h) PROVE Owned'
  BY <1>2, <1>3 DEF Call, Mint, Register, Resume, Insert
<1>4. ASSUME NEW h \in Handlers, SearchTimeout(h) PROVE Owned'
  BY <1>4 DEF SearchTimeout, Goto
<1>5. CASE Environment
  BY <1>5 DEF Environment, CreateApproval, ResolveApproval, Lapse, ListApprovals, RebuildBridge, ReleaseOwner
<1>6. CASE Crash
  BY <1>6 DEF Crash
<1>7. CASE UNCHANGED vars
  BY <1>7 DEF vars
<1> QED BY <1>1, <1>3, <1>4, <1>5, <1>6, <1>7 DEF Next

\* The closing model call is made by whoever set final_token.
Answered ==
    \A r \in Requests :
      answers[r] <= 1 /\ (ftoken[r] = NoHandler => answers[r] = 0)

\* The final call is claimed once: nothing clears final_token.
LEMMA AnsweredStep == TypeOK /\ Answered /\ [Next]_vars => Answered'
<1> SUFFICES ASSUME RowsOK, CallsOK, HistoryOK, Answered, [Next]_vars PROVE Answered'
    BY DEF TypeOK
<1> USE SentinelAssumption DEF RowsOK, CallsOK, HistoryOK, Answered
<1>1. ASSUME NEW h \in Handlers, Settle(h) PROVE Answered'
  BY <1>1 DEF Settle, FinalClaimable
<1>2. CASE UNCHANGED <<ftoken, answers>>
  BY <1>2
<1>3. ASSUME NEW h \in Handlers, Step(h), ~Settle(h) PROVE UNCHANGED <<ftoken, answers>>
  BY <1>3 DEF Step, RegisterMinted, ResolveReleased, DispatchValidated, DispatchOther, ObserveApproval, ResumeSettled,
              ActOnApproval, StartEffect, FinishRename, Finish, ClaimTranscript, AppendTurn, Return, Respond
<1>4. ASSUME NEW h \in Handlers, Call(h) \/ SearchTimeout(h) PROVE UNCHANGED <<ftoken, answers>>
  BY <1>4 DEF Call, Mint, Register, Resume, SearchTimeout
<1>5. CASE Environment \/ Crash \/ UNCHANGED vars
  BY <1>2, <1>5 DEF Environment, CreateApproval, ResolveApproval, Lapse, ListApprovals, RebuildBridge, ReleaseOwner,
              Crash, vars
<1> QED BY <1>1, <1>2, <1>3, <1>4, <1>5 DEF Next

\* The turn is appended by whoever moved transcript_state to written.
Transcribed ==
    /\ \A r \in Requests :
         turns[r] <= 1 /\ (transcript[r] = "pending" => turns[r] = 0)
    /\ \A h \in Handlers :
         pc[h] = "append" =>
           /\ transcript[req[h]] = "written" /\ turns[req[h]] = 0
           /\ \A g \in Handlers : pc[g] = "append" /\ req[g] = req[h] => g = h

\* The transcript write is claimed once: transcript_state never goes back.
LEMMA TranscribedStep == TypeOK /\ Transcribed /\ [Next]_vars => Transcribed'
<1> SUFFICES ASSUME RowsOK, CallsOK, HistoryOK, Transcribed, [Next]_vars PROVE Transcribed'
    BY DEF TypeOK
<1> USE DEF RowsOK, CallsOK, HistoryOK, Transcribed
<1>1. ASSUME NEW h \in Handlers, NEW label \in Labels \ {"append"}, Goto(h, label), UNCHANGED <<transcript, turns>>
      PROVE Transcribed'
  BY <1>1 DEF Goto
<1>2. ASSUME NEW h \in Handlers, NEW label \in Labels \ {"append"}, NEW r \in Requests, NEW s \in BOOLEAN,
             Enter(h, label, r, s), UNCHANGED <<transcript, turns>>
      PROVE Transcribed'
  BY <1>2 DEF Enter
<1>3. ASSUME NEW h \in Handlers, Step(h) PROVE Transcribed'
  <2>1. CASE RegisterMinted(h) BY <2>1, <1>1 DEF RegisterMinted, Labels
  <2>2. CASE ResolveReleased(h) BY <2>2, <1>1 DEF ResolveReleased, Labels
  <2>3. CASE DispatchValidated(h) BY <2>3, <1>1 DEF DispatchValidated, Claim, Labels
  <2>4. CASE DispatchOther(h) BY <2>4, <1>1 DEF DispatchOther, Labels
  <2>5. CASE ObserveApproval(h) BY <2>5, <1>1 DEF ObserveApproval, Labels
  <2>6. CASE ResumeSettled(h) BY <2>6, <1>1 DEF ResumeSettled, Labels
  <2>7. CASE ActOnApproval(h) BY <2>7, <1>1 DEF ActOnApproval, Claim, Labels
  <2>8. CASE StartEffect(h) BY <2>8, <1>1 DEF StartEffect, Labels
  <2>9. CASE FinishRename(h) BY <2>9, <1>1 DEF FinishRename, Labels
  <2>10. CASE Settle(h) BY <2>10, <1>1 DEF Settle, Labels
  <2>11. CASE ClaimTranscript(h)
    <3>1. CASE TranscriptFree(req[h])
      BY <2>11, <3>1 DEF ClaimTranscript, TranscriptFree, Goto
    <3>2. CASE ~TranscriptFree(req[h])
      <4>1. UNCHANGED transcript
        BY <2>11, <3>2 DEF ClaimTranscript, TranscriptFree
      <4> QED BY <2>11, <3>2, <4>1, <1>1 DEF ClaimTranscript, Labels
    <3> QED BY <3>1, <3>2
  <2>12. CASE AppendTurn(h) BY <2>12 DEF AppendTurn, Goto
  <2>13. ASSUME NEW rep \in Replies, Return(h, rep) PROVE Transcribed' BY <2>13, <1>1 DEF Return, Labels
  <2>14. ASSUME NEW result \in {"succeeded", "failed"}, Respond(h, result) PROVE Transcribed'
    BY <2>14, <1>1 DEF Respond, Labels
  <2> QED BY <1>3, <2>1, <2>2, <2>3, <2>4, <2>5, <2>6, <2>7, <2>8, <2>9, <2>10, <2>11, <2>12, <2>13, <2>14 DEF Step
<1>4. ASSUME NEW h \in Handlers, Call(h) PROVE Transcribed'
  BY <1>4, <1>2 DEF Call, Mint, Register, Resume, Labels
<1>5. ASSUME NEW h \in Handlers, SearchTimeout(h) PROVE Transcribed'
  BY <1>5, <1>1 DEF SearchTimeout, Labels
<1>6. CASE Environment
  BY <1>6 DEF Environment, CreateApproval, ResolveApproval, Lapse, ListApprovals, RebuildBridge, ReleaseOwner
<1>7. CASE Crash
  BY <1>7 DEF Crash
<1>8. CASE UNCHANGED vars
  BY <1>8 DEF vars
<1> QED BY <1>3, <1>4, <1>5, <1>6, <1>7, <1>8 DEF Next

\* For any number of replays, concurrent activations and crashes: one tool
\* execution, one closing model call and one transcript turn per request.
THEOREM RunsAtMostOnce == Spec => []AtMostOnce
<1> DEFINE Inv == TypeOK /\ Owned /\ Answered /\ Transcribed
<1>1. Init => Inv
  BY TypeInit DEF Init, Owned, Answered, Transcribed
<1>2. Inv /\ [Next]_vars => Inv'
  BY TypeCorrectStep, OwnedStep, AnsweredStep, TranscribedStep
<1>3. Inv => AtMostOnce
  BY DEF AtMostOnce, Owned, Answered, Transcribed
<1> QED BY <1>1, <1>2, <1>3, PTL DEF Spec

\* An approval exists for good, and its decision is never overwritten:
\* resolveApproval and the lazy expiry change a pending row only.
LEMMA StatusStep ==
    ASSUME TypeOK, [Next]_vars, NEW a \in Approvals
    PROVE  /\ status[a] # "none" => status'[a] # "none"
           /\ status[a] \in {"approved"} \cup Mirrored => status'[a] = status[a]
<1> USE DEF TypeOK, ApprovalsOK, Mirrored
<1>1. CASE UNCHANGED status
  BY <1>1
<1>2. ASSUME NEW h \in Handlers, ObserveApproval(h) PROVE status'[a] \in {status[a], Observed(a)}
  BY <1>2 DEF ObserveApproval
<1>3. ASSUME NEW h \in Handlers, Call(h) PROVE status[a] = "none" \/ status'[a] = status[a]
  BY <1>3 DEF Call, Mint, Register, Resume
<1>4. CASE Environment
  BY <1>4 DEF Environment, CreateApproval, ResolveApproval, Lapse, ListApprovals, RebuildBridge, ReleaseOwner,
              Resolvable, Observed, Lapsed
<1>5. ASSUME NEW h \in Handlers, Step(h), ~ObserveApproval(h) PROVE UNCHANGED status
  BY <1>5 DEF Step, RegisterMinted, ResolveReleased, DispatchValidated, DispatchOther, ResumeSettled,
              ActOnApproval, StartEffect, FinishRename, Settle, ClaimTranscript, AppendTurn, Return, Respond
<1>6. ASSUME NEW h \in Handlers, SearchTimeout(h) PROVE UNCHANGED status
  BY <1>6 DEF SearchTimeout
<1>7. CASE Crash \/ UNCHANGED vars
  BY <1>1, <1>7 DEF Crash, vars
<1> QED BY <1>1, <1>2, <1>3, <1>4, <1>5, <1>6, <1>7 DEF Next, Observed, Lapsed

\* A row exists for good and keeps the approval it was registered with.
LEMMA BindingStep ==
    ASSUME TypeOK, [Next]_vars, NEW r \in Requests, state[r] # "absent"
    PROVE  binding'[r] = binding[r] /\ state'[r] # "absent"
<1> USE DEF TypeOK, RowsOK, CallsOK
<1>1. ASSUME NEW h \in Handlers, RegisterMinted(h) PROVE binding'[r] = binding[r] /\ state'[r] # "absent"
  BY <1>1 DEF RegisterMinted, Insert
<1>2. ASSUME NEW h \in Handlers, Call(h) PROVE binding'[r] = binding[r] /\ state'[r] # "absent"
  BY <1>2 DEF Call, Mint, Register, Resume, Insert
<1>3. ASSUME NEW h \in Handlers, Step(h), ~RegisterMinted(h) PROVE binding'[r] = binding[r] /\ state'[r] # "absent"
  <2>1. UNCHANGED binding
    BY <1>3 DEF Step, ResolveReleased, DispatchValidated, DispatchOther, ResumeSettled, ObserveApproval, Claim,
              ActOnApproval, StartEffect, FinishRename, Finish, Settle, ClaimTranscript, AppendTurn, Return, Respond
  <2>2. state'[r] # "absent"
    BY <1>3 DEF Step, ResolveReleased, DispatchValidated, DispatchOther, ResumeSettled, ObserveApproval, Claim,
              ActOnApproval, StartEffect, FinishRename, Finish, Settle, ClaimTranscript, AppendTurn, Return, Respond,
              Mirrored
  <2> QED BY <2>1, <2>2
<1>4. CASE Environment \/ Crash \/ UNCHANGED vars
  BY <1>4 DEF Environment, CreateApproval, ResolveApproval, Lapse, ListApprovals, RebuildBridge, ReleaseOwner,
              Crash, vars
<1>5. ASSUME NEW h \in Handlers, SearchTimeout(h) PROVE binding'[r] = binding[r] /\ state'[r] # "absent"
  BY <1>5 DEF SearchTimeout
<1> QED BY <1>1, <1>2, <1>3, <1>4, <1>5 DEF Next

\* A dispatched activation serves a row that exists.
Placed ==
    \A h \in Handlers :
      pc[h] \notin {"idle", "minted"} => req[h] \in Requests /\ state[req[h]] # "absent"

\* A step keeps every dispatched activation on a row that exists.
LEMMA PlacedStep == TypeOK /\ Placed /\ [Next]_vars => Placed'
<1> SUFFICES ASSUME TypeOK, Placed, [Next]_vars, NEW g \in Handlers, pc'[g] \notin {"idle", "minted"}
             PROVE  req'[g] \in Requests /\ state'[req'[g]] # "absent"
    BY DEF Placed
<1> USE DEF TypeOK, CallsOK, RowsOK, Placed
<1>1. CASE pc[g] \notin {"idle", "minted"} /\ req'[g] = req[g]
  BY <1>1, BindingStep
<1>2. ASSUME NEW h \in Handlers, NEW label \in Labels, Goto(h, label), pc[h] \notin {"idle", "minted"}
      PROVE  req'[g] = req[g] /\ pc[g] \notin {"idle", "minted"}
  BY <1>2 DEF Goto
<1>3. ASSUME NEW h \in Handlers, RegisterMinted(h) PROVE req'[g] = req[g] /\ state'[req'[g]] # "absent"
  BY <1>3 DEF RegisterMinted, Insert, Goto
<1>4. ASSUME NEW h \in Handlers, Call(h) PROVE req'[g] \in Requests /\ state'[req'[g]] # "absent"
  BY <1>4 DEF Call, Mint, Register, Resume, Insert, Enter
<1>5. ASSUME NEW h \in Handlers, Step(h), ~RegisterMinted(h) 
      PROVE pc[g] \notin {"idle", "minted"} /\ req'[g] = req[g]
  <2>1. \E label \in Labels : Goto(h, label)
    BY <1>5 DEF Step, ResolveReleased, DispatchValidated, DispatchOther, ResumeSettled, ObserveApproval, Claim, Labels,
              ActOnApproval, StartEffect, FinishRename, Settle, ClaimTranscript, AppendTurn, Return, Respond
  <2>2. pc[h] \notin {"idle", "minted"}
    BY <1>5 DEF Step, ResolveReleased, DispatchValidated, DispatchOther, ResumeSettled, ObserveApproval,
              ActOnApproval, StartEffect, FinishRename, Settle, ClaimTranscript, AppendTurn, Return, Respond
  <2> QED BY <1>2, <2>1, <2>2
<1>6. ASSUME NEW h \in Handlers, SearchTimeout(h) PROVE pc[g] \notin {"idle", "minted"} /\ req'[g] = req[g]
  BY <1>2, <1>6 DEF SearchTimeout, Labels
<1>7. CASE Environment \/ Crash \/ UNCHANGED vars
  BY <1>1, <1>7 DEF Environment, CreateApproval, ResolveApproval, Lapse, ListApprovals, RebuildBridge, ReleaseOwner,
              Crash, vars
<1>8. ASSUME NEW h \in Handlers, RegisterMinted(h) PROVE req'[g] \in Requests
  BY <1>8 DEF RegisterMinted, Goto
<1> QED BY <1>1, <1>3, <1>4, <1>5, <1>6, <1>7, <1>8 DEF Next

\* Approvals are not shared: between rows, between activations that minted
\* one, or between a row and a mint not registered yet.
Bound ==
    /\ \A r, q \in Requests : binding[r] = binding[q] /\ binding[r] # NoApproval => r = q
    /\ \A r \in Requests :
         /\ binding[r] # NoApproval => status[binding[r]] # "none"
         /\ state[r] \in {"absent", "closed", "validated"} => binding[r] = NoApproval
    /\ \A h \in Handlers :
         mint[h] # NoApproval =>
           /\ status[mint[h]] # "none"
           /\ \A r \in Requests : binding[r] # mint[h]
           /\ \A g \in Handlers : mint[g] = mint[h] => g = h

\* Minting and registering keep approvals unshared: an approval bound to a row
\* was minted by one activation and is bound to that row only.
LEMMA BoundStep == TypeOK /\ Bound /\ [Next]_vars => Bound'
<1> SUFFICES ASSUME TypeOK, Bound, [Next]_vars PROVE Bound'
    OBVIOUS
<1> USE SentinelAssumption DEF TypeOK, RowsOK, CallsOK, ApprovalsOK, Bound
<1>1. \A a \in Approvals : status[a] # "none" => status'[a] # "none"
  BY StatusStep
<1>2. ASSUME UNCHANGED binding, \A h \in Handlers : mint'[h] \in {mint[h], NoApproval},
             \A r \in Requests : state'[r] \in {"absent", "closed", "validated"} => state[r] = state'[r]
      PROVE Bound'
  BY <1>1, <1>2
<1>3. ASSUME NEW h \in Handlers, RegisterMinted(h) PROVE Bound'
  <2>1. CASE state[req[h]] = "absent"
    BY <1>1, <1>3, <2>1 DEF RegisterMinted, Insert
  <2>2. CASE state[req[h]] # "absent"
    BY <1>2, <1>3, <2>2 DEF RegisterMinted
  <2> QED BY <2>1, <2>2
<1>4. ASSUME NEW h \in Handlers, NEW r \in Requests, NEW s \in BOOLEAN, Mint(h, r, s) PROVE Bound'
  BY <1>1, <1>4 DEF Mint
<1>5. ASSUME NEW h \in Handlers, NEW r \in Requests, NEW k \in Offered, NEW s \in BOOLEAN, Register(h, r, k, s)
      PROVE  Bound'
  <2>1. CASE state[r] = "absent"
    BY <1>1, <1>5, <2>1 DEF Register, Insert
  <2>2. CASE state[r] # "absent"
    BY <1>2, <1>5, <2>2 DEF Register
  <2> QED BY <2>1, <2>2
<1>6. ASSUME NEW h \in Handlers, NEW r \in Requests, NEW s \in BOOLEAN, Resume(h, r, s) PROVE Bound'
  BY <1>2, <1>6 DEF Resume
<1>7. ASSUME NEW h \in Handlers, Step(h), ~RegisterMinted(h) PROVE Bound'
  <2>1. UNCHANGED <<binding, mint>>
    BY <1>7 DEF Step, ResolveReleased, DispatchValidated, DispatchOther, ResumeSettled, ObserveApproval, Claim,
              ActOnApproval, StartEffect, FinishRename, Finish, Settle, ClaimTranscript, AppendTurn, Return, Respond
  <2>2. ASSUME NEW r \in Requests, state'[r] \in {"absent", "closed", "validated"} PROVE state[r] = state'[r]
    BY <1>7, <2>2 DEF Step, ResolveReleased, DispatchValidated, DispatchOther, ResumeSettled, ObserveApproval, Claim,
              ActOnApproval, StartEffect, FinishRename, Finish, Settle, ClaimTranscript, AppendTurn, Return, Respond,
              Mirrored
  <2> QED BY <1>2, <2>1, <2>2
<1>8. CASE Environment \/ Crash \/ UNCHANGED vars
  BY <1>2, <1>8 DEF Environment, CreateApproval, ResolveApproval, Lapse, ListApprovals, RebuildBridge, ReleaseOwner,
              Crash, vars
<1>9. ASSUME NEW h \in Handlers, SearchTimeout(h) PROVE Bound'
  BY <1>2, <1>9 DEF SearchTimeout
<1>10. ASSUME NEW h \in Handlers, Call(h) PROVE Bound'
  BY <1>4, <1>5, <1>6, <1>10 DEF Call
<1> QED BY <1>3, <1>7, <1>8, <1>9, <1>10 DEF Next

\* Rows agree with the approvals they are bound to, and so does what an
\* activation observed of one before its await.
Decided ==
    /\ \A r \in Requests :
         /\ state[r] \in Mirrored => binding[r] # NoApproval /\ status[binding[r]] = state[r]
         /\ state[r] \in Ran /\ binding[r] # NoApproval => status[binding[r]] = "approved"
    /\ \A h \in Handlers :
         pc[h] = "observed" =>
           /\ binding[req[h]] # NoApproval
           /\ seen[h] # "pending" => seen[h] # "none" /\ status[binding[req[h]]] = seen[h]

\* What an activation observed before its await still holds after it, so the
\* row it moves agrees with its approval.
LEMMA DecidedStep == TypeOK /\ Placed /\ Bound /\ Decided /\ [Next]_vars => Decided'
<1> SUFFICES ASSUME TypeOK, Placed, Bound, Decided, [Next]_vars PROVE Decided'
    OBVIOUS
<1> USE SentinelAssumption DEF TypeOK, RowsOK, CallsOK, ApprovalsOK, Placed, Decided
<1>1. \A a \in Approvals : status[a] \in {"approved"} \cup Mirrored => status'[a] = status[a]
  BY StatusStep
<1>2. \A r \in Requests : state[r] # "absent" => binding'[r] = binding[r]
  BY BindingStep
<1>3. ASSUME NEW r \in Requests, state'[r] = state[r] \/ state'[r] \notin Ran \cup Mirrored \/ {state[r], state'[r]} \subseteq Ran
      PROVE  /\ state'[r] \in Mirrored => binding'[r] # NoApproval /\ status'[binding'[r]] = state'[r]
             /\ state'[r] \in Ran /\ binding'[r] # NoApproval => status'[binding'[r]] = "approved"
  BY <1>1, <1>2, <1>3 DEF Ran, Mirrored
<1>4. ASSUME NEW g \in Handlers, pc'[g] = "observed", pc[g] = "observed", req'[g] = req[g], seen'[g] = seen[g]
      PROVE  /\ binding'[req'[g]] # NoApproval
             /\ seen'[g] # "pending" => seen'[g] # "none" /\ status'[binding'[req'[g]]] = seen'[g]
  <2>1. req[g] \in Requests /\ binding'[req[g]] = binding[req[g]]
    BY <1>2, <1>4
  <2>2. binding[req[g]] \in Approvals
    BY <1>4, <2>1
  <2>3. seen[g] # "pending" => seen[g] \in {"approved"} \cup Mirrored
    BY <1>4 DEF Statuses
  <2> QED BY <1>1, <1>4, <2>1, <2>2, <2>3
<1>5. ASSUME NEW h \in Handlers, NEW label \in Labels \ {"observed"}, Goto(h, label),
             \A r \in Requests : state'[r] = state[r] \/ state'[r] \notin Ran \cup Mirrored \/ {state[r], state'[r]} \subseteq Ran,
             \A g \in Handlers \ {h} : seen'[g] = seen[g]
      PROVE  Decided'
  <2>1. ASSUME NEW g \in Handlers, pc'[g] = "observed" PROVE g # h /\ pc[g] = "observed" /\ req'[g] = req[g]
    BY <1>5, <2>1 DEF Goto
  <2> QED BY <1>3, <1>4, <1>5, <2>1
<1>6. ASSUME NEW h \in Handlers, Step(h) PROVE Decided'
  <2>1. CASE RegisterMinted(h)
    BY <1>5, <2>1 DEF RegisterMinted, Insert, Labels, Ran, Mirrored
  <2>2. CASE ResolveReleased(h)
    BY <1>5, <2>2 DEF ResolveReleased, Ran, Labels
  <2>3. CASE DispatchValidated(h)
    <3>1. CASE Claim(h, "validated") /\ Valid(input[req[h]])
      <4>1. pc'[h] # "observed" /\ \A g \in Handlers \ {h} : pc'[g] = pc[g] /\ req'[g] = req[g]
        BY <2>3, <3>1 DEF Claim, Goto
      <4>2. state[req[h]] = "validated" /\ binding'[req[h]] = NoApproval
        BY <1>2, <2>3, <3>1 DEF DispatchValidated, Bound
      <4>3. UNCHANGED seen /\ \A r \in Requests \ {req[h]} : state'[r] = state[r]
        BY <2>3, <3>1 DEF DispatchValidated, Claim
      <4>4. state'[req[h]] = "executing"
        BY <2>3, <3>1 DEF DispatchValidated, Claim
      <4> QED BY <1>3, <1>4, <4>1, <4>2, <4>3, <4>4 DEF Mirrored
    <3>2. CASE ~(Claim(h, "validated") /\ Valid(input[req[h]]))
      BY <1>5, <2>3, <3>2 DEF DispatchValidated, Claim, Labels, Ran, Mirrored
    <3> QED BY <3>1, <3>2
  <2>4. CASE ObserveApproval(h)
    <3> DEFINE a == binding[req[h]]
    <3>1. req[h] \in Requests /\ a \in Approvals /\ binding'[req[h]] = a /\ status[a] # "none"
      BY <1>2, <2>4 DEF ObserveApproval, Checks, Bound
    <3>2. seen'[h] = status'[a] /\ seen'[h] # "none"
      BY <2>4, <3>1 DEF ObserveApproval, Observed, Lapsed
    <3>3. req' = req /\ UNCHANGED state /\ \A g \in Handlers \ {h} : pc'[g] = pc[g] /\ seen'[g] = seen[g]
      BY <2>4 DEF ObserveApproval, Goto
    <3> QED BY <1>3, <1>4, <3>1, <3>2, <3>3
  <2>5. CASE ActOnApproval(h)
    <3>1. req[h] \in Requests /\ binding[req[h]] \in Approvals /\ binding'[req[h]] = binding[req[h]]
      BY <1>2, <2>5 DEF ActOnApproval
    <3>2. /\ pc'[h] # "observed"
          /\ \A g \in Handlers \ {h} : pc'[g] = pc[g] /\ seen'[g] = seen[g] /\ req'[g] = req[g]
      BY <2>5 DEF ActOnApproval, Claim, Goto
    <3>3. \A r \in Requests \ {req[h]} : state'[r] = state[r]
      BY <2>5 DEF ActOnApproval, Claim
    <3>4. CASE Granted(h)
      BY <1>1, <1>3, <1>4, <2>5, <3>1, <3>2, <3>3, <3>4 DEF ActOnApproval, Granted, Claim, Mirrored, Ran
    <3>5. CASE seen[h] \in Mirrored
      BY <1>1, <1>3, <1>4, <2>5, <3>1, <3>2, <3>3, <3>5 DEF ActOnApproval, Granted, Mirrored, Ran
    <3>6. CASE UNCHANGED state
      BY <1>3, <1>4, <3>2, <3>6
    <3> QED BY <2>5, <3>4, <3>5, <3>6 DEF ActOnApproval
  <2>6. CASE FinishRename(h)
    BY <1>5, <2>6 DEF FinishRename, Finish, Storable, Ran, Labels
  <2>7. ASSUME NEW rep \in Replies, Return(h, rep) PROVE Decided'
    BY <1>5, <2>7 DEF Return, Finish, Storable, Ran, Labels
  <2>8. ASSUME NEW result \in {"succeeded", "failed"}, Respond(h, result) PROVE Decided'
    BY <1>5, <2>8 DEF Respond, Labels
  <2>9. CASE DispatchOther(h) \/ ResumeSettled(h) \/ StartEffect(h)
    BY <1>5, <2>9 DEF DispatchOther, ResumeSettled, StartEffect, Labels
  <2>10. CASE Settle(h)
    BY <1>5, <2>10 DEF Settle, Labels
  <2>11. CASE ClaimTranscript(h) \/ AppendTurn(h)
    BY <1>5, <2>11 DEF ClaimTranscript, AppendTurn, Labels
  <2> QED BY <1>6, <2>1, <2>2, <2>3, <2>4, <2>5, <2>6, <2>7, <2>8, <2>9, <2>10, <2>11 DEF Step
<1>7. ASSUME NEW h \in Handlers, Call(h) PROVE Decided'
  <2>1. UNCHANGED seen /\ \A g \in Handlers : pc'[g] = "observed" => pc[g] = "observed" /\ req'[g] = req[g]
    BY <1>7 DEF Call, Mint, Register, Resume, Enter
  <2>2. \A r \in Requests : state'[r] = state[r] \/ state'[r] \notin Ran \cup Mirrored
    BY <1>7 DEF Call, Mint, Register, Resume, Insert, Ran, Mirrored
  <2> QED BY <1>3, <1>4, <2>1, <2>2
<1>8. ASSUME NEW h \in Handlers, SearchTimeout(h) PROVE Decided'
  BY <1>5, <1>8 DEF SearchTimeout, Labels
<1>9. CASE Environment \/ Crash \/ UNCHANGED vars
  <2>1. UNCHANGED state /\ \A g \in Handlers : pc'[g] = "observed" =>
          pc[g] = "observed" /\ req'[g] = req[g] /\ seen'[g] = seen[g]
    BY <1>9 DEF Environment, CreateApproval, ResolveApproval, Lapse, ListApprovals, RebuildBridge, ReleaseOwner,
                Crash, vars
  <2> QED BY <1>3, <1>4, <2>1
<1> QED BY <1>6, <1>7, <1>8, <1>9 DEF Next

\* The activation holds the claim of its request.
Holds(h) == pc[h] \in {"claimed", "running", "background"}

\* Outcomes are what the executor answered; while the claim is held nobody
\* was answered yet.
Told ==
    /\ \A r \in Requests :
         /\ token[r] = NoHandler => reply[r] = "none"
         /\ released[r] => CanRelease
         /\ outcome[r] = "ok" => calls[r] = 1 /\ reply[r] = "ok"
         /\ outcome[r] = "failure" => calls[r] = 1 /\ reply[r] = "error"
         /\ outcome[r] = "unknown" => CanRelease
    /\ \A h \in Handlers :
         Holds(h) => outcome[req[h]] \in {"none", "unknown"} /\ reply[req[h]] = "none"

\* Only the holder of the claim stores an outcome, and it stores what it was
\* told.
LEMMA ToldStep == TypeOK /\ Owned /\ Told /\ [Next]_vars => Told'
<1> SUFFICES ASSUME TypeOK, Owned, Told, [Next]_vars PROVE Told'
    OBVIOUS
<1> USE SentinelAssumption DEF TypeOK, RowsOK, CallsOK, HistoryOK, Owned, Told, Holds
<1>1. ASSUME NEW h \in Handlers, NEW label \in Labels, Goto(h, label),
             Holds(h) \/ label \notin {"claimed", "running", "background"},
             UNCHANGED <<token, released, outcome, calls, reply>>
      PROVE  Told'
  BY <1>1 DEF Goto
<1>2. ASSUME NEW h \in Handlers, Step(h) PROVE Told'
  <2>1. pc[h] # "idle" => req[h] \in Requests
    OBVIOUS
  <2>2. ASSUME NEW from \in {"validated", "awaiting_approval"}, pc[h] # "idle", Claim(h, from), UNCHANGED <<calls, reply>>
        PROVE  Told'
    <3>1. CASE Goto(h, "settle") /\ UNCHANGED token
      BY <1>1, <2>2, <3>1 DEF Claim, Labels
    <3>2. CASE Claimable(req[h], from) /\ Goto(h, "claimed") /\ token' = [token EXCEPT ![req[h]] = h]
      <4>1. outcome[req[h]] = "none" /\ reply[req[h]] = "none"
        BY <2>1, <2>2, <3>2 DEF Claimable, Checks
      <4> QED BY <2>1, <2>2, <3>2, <4>1 DEF Claim, Goto
    <3> QED BY <2>2, <3>1, <3>2 DEF Claim
  <2>3. CASE RegisterMinted(h)
    BY <1>1, <2>3 DEF RegisterMinted, Labels
  <2>4. CASE ResolveReleased(h)
    BY <2>1, <2>4 DEF ResolveReleased, Goto
  <2>5. CASE DispatchValidated(h)
    BY <1>1, <2>2, <2>5 DEF DispatchValidated, Labels
  <2>6. CASE ActOnApproval(h)
    BY <1>1, <2>2, <2>6 DEF ActOnApproval, Labels
  <2>7. CASE StartEffect(h)
    BY <2>1, <2>7 DEF StartEffect, Goto
  <2>8. CASE FinishRename(h)
    <3>1. CASE Storable(h, req[h], "ok")
      BY <2>1, <2>8, <3>1 DEF FinishRename, Finish, Ok, Goto
    <3>2. CASE ~Storable(h, req[h], "ok")
      BY <1>1, <2>8, <3>2 DEF FinishRename, Labels
    <3> QED BY <3>1, <3>2
  <2>9. ASSUME NEW rep \in Replies, Return(h, rep) PROVE Told'
    <3>1. CASE Storable(h, req[h], rep)
      BY <2>1, <2>9, <3>1 DEF Return, Storable, Finish, Ok, Goto, Replies
    <3>2. CASE ~Storable(h, req[h], rep)
      BY <2>1, <2>9, <3>2 DEF Return, Goto
    <3> QED BY <3>1, <3>2
  <2>10. ASSUME NEW result \in {"succeeded", "failed"}, Respond(h, result) PROVE Told'
    BY <1>1, <2>10 DEF Respond, Labels
  <2>11. CASE DispatchOther(h) \/ ObserveApproval(h) \/ ResumeSettled(h)
    BY <1>1, <2>11 DEF DispatchOther, ObserveApproval, ResumeSettled, Labels
  <2>12. CASE Settle(h)
    BY <1>1, <2>12 DEF Settle, Labels
  <2>13. CASE ClaimTranscript(h) \/ AppendTurn(h)
    BY <1>1, <2>13 DEF ClaimTranscript, AppendTurn, Labels
  <2> QED BY <1>2, <2>3, <2>4, <2>5, <2>6, <2>7, <2>8, <2>9, <2>10, <2>11, <2>12, <2>13 DEF Step
<1>3. ASSUME NEW h \in Handlers, Call(h) PROVE Told'
  BY <1>3 DEF Call, Mint, Register, Resume, Enter
<1>4. ASSUME NEW h \in Handlers, SearchTimeout(h) PROVE Told'
  BY <1>1, <1>4 DEF SearchTimeout, Labels
<1>5. CASE Environment
  BY <1>5 DEF Environment, CreateApproval, ResolveApproval, Lapse, ListApprovals, RebuildBridge, ReleaseOwner
<1>6. CASE Crash
  BY <1>6 DEF Crash
<1>7. CASE UNCHANGED vars
  BY <1>7 DEF vars
<1> QED BY <1>2, <1>3, <1>4, <1>5, <1>6, <1>7 DEF Next

\* Only a crash, a release or an outcome that does not fit separates an
\* executing row from the activation that claimed it.
LEMMA OwnerStep == TypeOK /\ Owned /\ Told /\ ExecutingIsOwned /\ [Next]_vars => ExecutingIsOwned'
<1> SUFFICES ASSUME TypeOK, Owned, Told, ExecutingIsOwned, [Next]_vars, NEW r \in Requests, state'[r] = "executing",
                    ~(crashes' > 0), ~released'[r], reply'[r] # "wide"
             PROVE  (token[r] \in Handlers /\ req[token[r]] = r /\ Holds(token[r]))'
    BY DEF ExecutingIsOwned, Holds
<1> DEFINE Held == token[r] \in Handlers /\ req[token[r]] = r /\ Holds(token[r])
<1> USE SentinelAssumption DEF TypeOK, RowsOK, CallsOK, HistoryOK, Checks, Owned, Told, ExecutingIsOwned, Holds
<1>1. ASSUME state[r] = "executing", UNCHANGED crashes, released[r] => released'[r], reply[r] = "wide" => reply'[r] = "wide"
      PROVE  Held
  BY <1>1
<1>2. ASSUME NEW h \in Handlers, NEW label \in Labels, Goto(h, label), ~Holds(h) \/ Holds(h)', Held, UNCHANGED token
      PROVE  Held'
  BY <1>2 DEF Goto
<1>3. ASSUME NEW h \in Handlers, NEW label \in Labels, Goto(h, label), ~Holds(h) \/ Holds(h)',
             UNCHANGED <<token, crashes, reply>>, UNCHANGED released \/ ~released[r], state[r] = state'[r]
      PROVE  Held'
  BY <1>1, <1>2, <1>3
<1>4. ASSUME NEW h \in Handlers, Step(h) PROVE Held'
  <2>1. pc[h] # "idle" => req[h] \in Requests
    OBVIOUS
  <2>2. ASSUME NEW from \in {"validated", "awaiting_approval"}, ~Holds(h), pc[h] # "idle", Claim(h, from),
               UNCHANGED <<crashes, reply>>
        PROVE  Held'
    <3>1. CASE Goto(h, "settle") /\ UNCHANGED token /\ state' = [state EXCEPT ![req[h]] = "invalid"]
      BY <1>3, <2>1, <2>2, <3>1 DEF Claim, Labels
    <3>2. CASE Claimable(req[h], from) /\ Goto(h, "claimed") /\ token' = [token EXCEPT ![req[h]] = h]
               /\ state' = [state EXCEPT ![req[h]] = "executing"]
      <4>1. CASE r = req[h]
        BY <2>1, <2>2, <3>2, <4>1 DEF Goto
      <4>2. CASE r # req[h]
        <5>1. Held
          BY <1>1, <2>1, <2>2, <3>2, <4>2 DEF Claim
        <5> QED BY <2>1, <2>2, <3>2, <4>2, <5>1 DEF Goto
      <4> QED BY <4>1, <4>2
    <3> QED BY <2>2, <3>1, <3>2 DEF Claim
  <2>3. CASE RegisterMinted(h)
    BY <1>3, <2>1, <2>3 DEF RegisterMinted, Insert, Labels
  <2>4. CASE ResolveReleased(h)
    BY <1>3, <2>1, <2>4 DEF ResolveReleased, Labels
  <2>5. CASE DispatchValidated(h)
    BY <1>3, <2>2, <2>5 DEF DispatchValidated, Labels
  <2>6. CASE ActOnApproval(h)
    <3>1. CASE Claim(h, "awaiting_approval")
      BY <2>2, <2>6, <3>1 DEF ActOnApproval
    <3>2. CASE ~Claim(h, "awaiting_approval")
      BY <1>3, <2>1, <2>6, <3>2 DEF ActOnApproval, Mirrored, Labels
    <3> QED BY <3>1, <3>2
  <2>7. CASE StartEffect(h)
    <3>1. Holds(h)'
      BY <2>7 DEF StartEffect, Goto
    <3> QED BY <1>3, <2>7, <3>1 DEF StartEffect, Labels
  <2>8. CASE FinishRename(h)
    <3>1. r # req[h]
      BY <2>1, <2>8 DEF FinishRename, Storable, Finish
    <3>2. token' = token /\ req' \in [Handlers -> Requests \cup {NoRequest}] /\ Held
      BY <1>1, <2>1, <2>8, <3>1 DEF FinishRename, Finish, Goto
    <3> QED BY <2>1, <2>8, <3>1, <3>2 DEF FinishRename, Goto
  <2>9. ASSUME NEW rep \in Replies, Return(h, rep) PROVE Held'
    <3>1. r # req[h]
      BY <2>1, <2>9 DEF Return, Storable, Finish
    <3>2. token' = token /\ req' \in [Handlers -> Requests \cup {NoRequest}] /\ Held
      BY <1>1, <2>1, <2>9, <3>1 DEF Return, Finish, Goto
    <3> QED BY <2>1, <2>9, <3>1, <3>2 DEF Return, Goto
  <2>10. ASSUME NEW result \in {"succeeded", "failed"}, Respond(h, result) PROVE Held'
    BY <1>3, <2>10 DEF Respond, Labels
  <2>11. CASE DispatchOther(h) \/ ObserveApproval(h) \/ ResumeSettled(h)
    BY <1>3, <2>11 DEF DispatchOther, ObserveApproval, ResumeSettled, Labels
  <2>12. CASE Settle(h)
    BY <1>3, <2>12 DEF Settle, Labels
  <2>13. CASE ClaimTranscript(h) \/ AppendTurn(h)
    BY <1>3, <2>13 DEF ClaimTranscript, AppendTurn, Labels
  <2> QED BY <1>4, <2>3, <2>4, <2>5, <2>6, <2>7, <2>8, <2>9, <2>10, <2>11, <2>12, <2>13 DEF Step
<1>5. ASSUME NEW h \in Handlers, Call(h) PROVE Held'
  BY <1>1, <1>5 DEF Call, Mint, Register, Resume, Insert, Enter
<1>6. ASSUME NEW h \in Handlers, SearchTimeout(h) PROVE Held'
  <2>1. Holds(h)'
    BY <1>6 DEF SearchTimeout, Goto
  <2> QED BY <1>3, <1>6, <2>1 DEF SearchTimeout, Labels
<1>7. CASE Environment
  BY <1>1, <1>7 DEF Environment, CreateApproval, ResolveApproval, Lapse, ListApprovals, RebuildBridge, ReleaseOwner
<1>8. CASE Crash
  BY <1>8, BoundAssumption DEF Crash
<1>9. CASE UNCHANGED vars
  BY <1>1, <1>9 DEF vars
<1> QED BY <1>4, <1>5, <1>6, <1>7, <1>8, <1>9 DEF Next

\* The inductive invariant.
Inv ==
    /\ TypeOK
    /\ Placed
    /\ Owned
    /\ Answered
    /\ Transcribed
    /\ Bound
    /\ Decided
    /\ Told
    /\ ExecutingIsOwned

\* The inductive invariant holds initially.
LEMMA InvInit == Init => Inv
<1> SUFFICES ASSUME Init PROVE Inv
    OBVIOUS
<1> USE SentinelAssumption, LegacyAssumption DEF Init
<1>1. Placed /\ Owned /\ Answered /\ Transcribed /\ Told /\ ExecutingIsOwned
  BY DEF Placed, Owned, Answered, Transcribed, Told, Holds, ExecutingIsOwned
<1>2. Bound
  BY DEF Bound
<1>3. Decided
  BY DEF Decided, Ran, Mirrored
<1> QED BY TypeInit, <1>1, <1>2, <1>3 DEF Inv

\* Every step preserves the inductive invariant.
LEMMA InvStep == Inv /\ [Next]_vars => Inv'
BY TypeCorrectStep, PlacedStep, OwnedStep, AnsweredStep, TranscribedStep, BoundStep, DecidedStep, ToldStep, OwnerStep
   DEF Inv

\* The inductive invariant holds always.
LEMMA Invariance == Spec => []Inv
BY InvInit, InvStep, PTL DEF Spec

\* A parked call runs only under its own approval, and that approval is
\* granted, for any number of approvals and concurrent resumes.
THEOREM RunsUnderOwnGrant == Spec => []RanUnderOwnGrant
<1>1. Inv => RanUnderOwnGrant
  <2> SUFFICES ASSUME Inv PROVE RanUnderOwnGrant
      OBVIOUS
  <2>1. \A r, q \in Requests : binding[r] = binding[q] /\ binding[r] # NoApproval => r = q
    BY DEF Inv, Bound
  <2>2. ASSUME NEW r \in Requests, calls[r] > 0 PROVE state[r] \in Ran
    BY <2>2 DEF Inv, Owned
  <2>3. ASSUME NEW r \in Requests, state[r] \in Ran, binding[r] # NoApproval PROVE status[binding[r]] = "approved"
    BY <2>3 DEF Inv, Decided
  <2> QED BY <2>1, <2>2, <2>3 DEF RanUnderOwnGrant
<1> QED BY <1>1, Invariance, PTL

\* A denied row agrees with its approval and its tool never ran.
THEOREM DenialsMirror == Spec => []DenialMirrorsApproval
<1>1. Inv => DenialMirrorsApproval
  BY DEF Inv, Owned, Decided, DenialMirrorsApproval, Ran, Mirrored
<1> QED BY <1>1, Invariance, PTL

\* The stored outcome is what the executor answered.
THEOREM OutcomesAreTrue == Spec => []OutcomeIsTrue
<1>1. Inv => OutcomeIsTrue
  BY DEF Inv, Told, OutcomeIsTrue
<1> QED BY <1>1, Invariance, PTL

\* An executing row has a live owner, or lost it to a crash, a release or an
\* outcome the table refuses.
THEOREM ExecutingRowsAreOwned == Spec => []ExecutingIsOwned
<1>1. Inv => ExecutingIsOwned
  BY DEF Inv
<1> QED BY <1>1, Invariance, PTL

\* An unparked foreign call is claimed only while its tool is approval-free:
\* consumeForeign reads the registry in the same run-to-completion segment as
\* the claim.
THEOREM PolicyIsHonoured == Spec => ClaimsHonourPolicy
<1> DEFINE P(r) == token[r] # token'[r] /\ input[r] = "foreign" /\ binding[r] = NoApproval => policy = "none"
<1>1. ASSUME TypeOK, [Next]_vars, NEW r \in Requests PROVE P(r)
  <2> USE <1>1 DEF TypeOK, RowsOK, CallsOK
  <2>1. ASSUME NEW h \in Handlers, DispatchValidated(h) PROVE P(r)
    BY <2>1 DEF DispatchValidated, ApprovalFree, Claim
  <2>2. ASSUME NEW h \in Handlers, ActOnApproval(h) PROVE P(r)
    BY <2>2 DEF ActOnApproval, Claim, Claimable, Checks
  <2>3. ASSUME NEW h \in Handlers, Step(h), ~DispatchValidated(h), ~ActOnApproval(h) PROVE UNCHANGED token
    BY <2>3 DEF Step, RegisterMinted, ResolveReleased, DispatchOther, ResumeSettled, ObserveApproval, StartEffect,
                FinishRename, Finish, Settle, ClaimTranscript, AppendTurn, Return, Respond
  <2>4. ASSUME NEW h \in Handlers, Call(h) \/ SearchTimeout(h) PROVE UNCHANGED token
    BY <2>4 DEF Call, Mint, Register, Resume, SearchTimeout
  <2>5. CASE Environment \/ Crash \/ UNCHANGED vars
    BY <2>5 DEF Environment, CreateApproval, ResolveApproval, Lapse, ListApprovals, RebuildBridge, ReleaseOwner,
                Crash, vars
  <2> QED BY <2>1, <2>2, <2>3, <2>4, <2>5 DEF Next
<1>2. TypeOK /\ [Next]_vars => [\A r \in Requests : P(r)]_vars
  BY <1>1
<1> QED BY <1>2, TypeCorrect, PTL DEF Spec, ClaimsHonourPolicy

\* Settled rows and decided approvals never change again.
THEOREM SettledStays == Spec => SettledIsFinal
<1> DEFINE Settled == {"closed", "invalid", "succeeded", "failed"} \cup Mirrored
           Q(r) == state[r] \in Settled => state'[r] = state[r] /\ outcome'[r] = outcome[r]
           R(a) == status[a] \in {"approved"} \cup Mirrored => status'[a] = status[a]
<1>1. ASSUME TypeOK, [Next]_vars, NEW r \in Requests PROVE Q(r)
  <2> USE <1>1 DEF TypeOK, RowsOK, CallsOK, Mirrored
  <2>1. ASSUME NEW h \in Handlers, RegisterMinted(h) PROVE Q(r)
    BY <2>1 DEF RegisterMinted, Insert
  <2>2. ASSUME NEW h \in Handlers, DispatchValidated(h) \/ ActOnApproval(h) PROVE Q(r)
    BY <2>2 DEF DispatchValidated, ActOnApproval, Claim, Claimable
  <2>3. ASSUME NEW h \in Handlers, ResolveReleased(h) PROVE Q(r)
    BY <2>3 DEF ResolveReleased
  <2>4. ASSUME NEW h \in Handlers, FinishRename(h) PROVE Q(r)
    BY <2>4 DEF FinishRename, Finish, Storable
  <2>5. ASSUME NEW h \in Handlers, NEW rep \in Replies, Return(h, rep) PROVE Q(r)
    BY <2>5 DEF Return, Finish, Storable
  <2>6. ASSUME NEW h \in Handlers, Call(h) PROVE Q(r)
    BY <2>6 DEF Call, Mint, Register, Resume, Insert
  <2>7. CASE UNCHANGED <<state, outcome>>
    BY <2>7
  <2>8. ASSUME NEW h \in Handlers, Step(h) PROVE Q(r)
    BY <2>1, <2>2, <2>3, <2>4, <2>5, <2>7, <2>8
       DEF Step, DispatchOther, ResumeSettled, ObserveApproval, StartEffect, Settle, ClaimTranscript, AppendTurn, Respond
  <2>9. ASSUME NEW h \in Handlers, SearchTimeout(h) PROVE Q(r)
    BY <2>9 DEF SearchTimeout
  <2>10. CASE Environment \/ Crash \/ UNCHANGED vars
    BY <2>7, <2>10 DEF Environment, CreateApproval, ResolveApproval, Lapse, ListApprovals, RebuildBridge, ReleaseOwner,
                Crash, vars
  <2> QED BY <2>6, <2>8, <2>9, <2>10 DEF Next
<1>2. TypeOK /\ [Next]_vars => [(\A r \in Requests : Q(r)) /\ (\A a \in Approvals : R(a))]_vars
  BY <1>1, StatusStep
<1> QED BY <1>2, TypeCorrect, PTL DEF Spec, SettledIsFinal

-----------------------------------------------------------------------------
(* the ledger implements OneShot *)

\* What one step of OneShot may do to one request.
Moves(p, c, p2, c2) ==
    \/ p2 = p /\ c2 = c
    \/ p = "new" /\ p2 \in {"said", "refused", "gated", "open"} /\ (c2 => p2 \in {"gated", "refused"})
    \/ p \in {"gated", "refused"} /\ p2 = p /\ c2 = TRUE
    \/ p \in {"gated", "open"} /\ p2 = "refused" /\ c2 = c
    \/ p = "gated" /\ ~c /\ p2 = "denied" /\ c2 = c
    \/ (p = "open" \/ (p = "gated" /\ c)) /\ p2 = "running" /\ c2 = c
    \/ p = "running" /\ p2 \in {"ok", "failure", "unknown"} /\ c2 = c

\* If one request moves as OneShot allows and the others stand still, the
\* step is a step of OneShot or a stutter.
LEMMA OneMoves ==
    ASSUME NEW r \in Requests,
           \A q \in Requests \ {r} : Phase(q)' = Phase(q) /\ Consented(q)' = Consented(q),
           Moves(Phase(r), Consented(r), Phase(r)', Consented(r)')
    PROVE  [OS!OneShotNext]_(OS!vars)
<1> DEFINE f == [q \in Requests |-> Phase(q)]
           g == [q \in Requests |-> Consented(q)]
<1>1. f' = [f EXCEPT ![r] = Phase(r)'] /\ g' = [g EXCEPT ![r] = Consented(r)']
  OBVIOUS
<1>2. f[r] = Phase(r) /\ g[r] = Consented(r)
  OBVIOUS
<1>3. Consented(r) \in BOOLEAN /\ Consented(r)' \in BOOLEAN
  BY DEF Consented
<1>4. (Phase(r)' = Phase(r) => f' = f) /\ (Consented(r)' = Consented(r) => g' = g)
  BY <1>1
<1> HIDE DEF f, g
<1>5. CASE Phase(r)' = Phase(r) /\ Consented(r)' = Consented(r)
  BY <1>4, <1>5 DEF OS!vars, f, g
<1>6. CASE OS!Propose(r) \/ OS!Consent(r) \/ OS!Refuse(r) \/ OS!Deny(r) \/ OS!Start(r) \/ OS!Finish(r)
  BY <1>6 DEF OS!OneShotNext
<1>7. OS!Propose(r) \/ OS!Consent(r) \/ OS!Refuse(r) \/ OS!Deny(r) \/ OS!Start(r) \/ OS!Finish(r)
        \/ (Phase(r)' = Phase(r) /\ Consented(r)' = Consented(r))
  BY <1>1, <1>2, <1>3, <1>4
     DEF Moves, OS!Propose, OS!Consent, OS!Refuse, OS!Deny, OS!Start, OS!Finish, OS!Done, f, g
<1> QED BY <1>5, <1>6, <1>7

\* The phase each state of a row shows.
LEMMA ShownValues ==
    ASSUME NEW out
    PROVE  /\ Shown("absent", out) = "new" /\ Shown("closed", out) = "said"
           /\ Shown("invalid", out) = "refused" /\ Shown("validated", out) = "open"
           /\ Shown("awaiting_approval", out) = "gated" /\ Shown("executing", out) = "running"
           /\ \A st \in Mirrored : Shown(st, out) = "denied"
           /\ \A st \in {"succeeded", "failed"} : Shown(st, out) = out
BY DEF Shown, Mirrored

\* The ledger implements the abstract one-shot invocation.
THEOREM Refines == Spec => ImplementsOneShot
<1>1. Init => OS!OneShotInit
  <2> SUFFICES ASSUME Init PROVE OS!OneShotInit
      OBVIOUS
  <2>1. \A r \in Requests : Phase(r) \in {"new", "gated"}
    BY ShownValues DEF Init, Phase
  <2>2. \A r \in Requests : Legacy[r] \in Approvals \cup {NoApproval}
    BY LegacyAssumption
  <2>3. \A a \in Approvals : status[a] # "approved"
    BY DEF Init
  <2>4. \A r \in Requests : ~Consented(r)
    BY <2>2, <2>3 DEF Init, Consented
  <2>5. [r \in Requests |-> Consented(r)] = [r \in Requests |-> FALSE]
    BY <2>4 DEF Consented
  <2> QED BY <2>1, <2>5 DEF OS!OneShotInit
<1>2. ASSUME Inv, [Next]_vars PROVE [OS!OneShotNext]_(OS!vars)
  <2> USE <1>2
  <2> DEFINE Same(q) == Phase(q)' = Phase(q) /\ Consented(q)' = Consented(q)
             Fits(q) == Moves(Phase(q), Consented(q), Phase(q)', Consented(q)')
  <2>1. ASSUME NEW q \in Requests, state'[q] = state[q], outcome'[q] = outcome[q] PROVE Phase(q)' = Phase(q)
    BY <2>1 DEF Phase
  <2>2. ASSUME NEW q \in Requests, binding'[q] = binding[q],
               binding[q] \in Approvals => (status'[binding[q]] = "approved" <=> status[binding[q]] = "approved")
        PROVE  Consented(q)' = Consented(q)
    BY <2>2 DEF Consented, Inv, TypeOK, RowsOK
  <2>3. ASSUME \A q \in Requests : Same(q) PROVE UNCHANGED OS!vars
    BY <2>3 DEF OS!vars
  <2>4. ASSUME UNCHANGED <<state, outcome, binding>>,
               \A a \in Approvals : status'[a] = "approved" <=> status[a] = "approved"
        PROVE  UNCHANGED OS!vars
    BY <2>1, <2>2, <2>3, <2>4
  <2>5. ASSUME NEW r \in Requests, UNCHANGED <<binding, status>>,
               \A q \in Requests \ {r} : state'[q] = state[q] /\ outcome'[q] = outcome[q],
               Moves(Phase(r), Consented(r), Phase(r)', Consented(r))
        PROVE  [OS!OneShotNext]_(OS!vars)
    <3>1. \A q \in Requests : Consented(q)' = Consented(q)
      BY <2>2, <2>5
    <3>2. \A q \in Requests \ {r} : Phase(q)' = Phase(q)
      BY <2>1, <2>5
    <3> QED BY <2>5, <3>1, <3>2, OneMoves
  <2>6. ASSUME NEW r \in Requests, NEW k \in Kinds, NEW a \in Approvals \cup {NoApproval}, Insert(r, k, a),
               state[r] = "absent", UNCHANGED <<outcome, status>>
        PROVE  [OS!OneShotNext]_(OS!vars)
    <3>1. \A q \in Requests \ {r} : Same(q)
      BY <2>1, <2>2, <2>6 DEF Insert, Inv, TypeOK, RowsOK
    <3>2. Phase(r) = "new"
      BY <2>6, ShownValues DEF Phase
    <3>3. /\ state'[r] \in {"invalid", "awaiting_approval", "closed", "validated"}
          /\ state'[r] \in {"closed", "validated"} => binding'[r] = NoApproval
      BY <2>6 DEF Insert, Inv, TypeOK, RowsOK
    <3>4. Phase(r)' \in {"said", "refused", "gated", "open"} /\ (Consented(r)' => Phase(r)' \in {"gated", "refused"})
      BY <3>3, ShownValues DEF Phase, Consented
    <3> QED BY <3>1, <3>2, <3>4, OneMoves DEF Moves
  <2>7. ASSUME NEW h \in Handlers, Step(h) PROVE [OS!OneShotNext]_(OS!vars)
    <3>1. PICK r \in Requests : r = req[h]
      BY <2>7 DEF Inv, TypeOK, CallsOK, Step, RegisterMinted, ResolveReleased, DispatchValidated, DispatchOther,
                  ResumeSettled, ObserveApproval, ActOnApproval, StartEffect, FinishRename, Settle, ClaimTranscript,
                  AppendTurn, Return, Respond
    <3>2. ASSUME NEW from \in {"validated", "awaiting_approval"}, Claim(h, from), UNCHANGED status,
                 from = "awaiting_approval" => Consented(r)
          PROVE  [OS!OneShotNext]_(OS!vars)
      <4>1. Phase(r) \in {"open", "gated"} /\ (Phase(r) = "gated" => from = "awaiting_approval")
        BY <3>1, <3>2, ShownValues DEF Claim, Claimable, Phase
      <4>2. Phase(r)' \in {"refused", "running"}
        BY <3>1, <3>2, ShownValues DEF Claim, Phase, Inv, TypeOK, RowsOK
      <4>3. UNCHANGED binding /\ \A q \in Requests \ {r} : state'[q] = state[q] /\ outcome'[q] = outcome[q]
        BY <3>1, <3>2 DEF Claim, Inv, TypeOK, RowsOK
      <4>4. Moves(Phase(r), Consented(r), Phase(r)', Consented(r))
        BY <3>2, <4>1, <4>2 DEF Moves
      <4> QED BY <2>5, <3>1, <3>2, <4>3, <4>4
    <3>3. ASSUME NEW rep, state[r] = "executing", Finish(h, r, rep), UNCHANGED status
          PROVE  [OS!OneShotNext]_(OS!vars)
      <4>1. Phase(r) = "running"
        BY <3>3, ShownValues DEF Phase
      <4>2. Phase(r)' \in {"ok", "failure"}
        BY <3>1, <3>3, ShownValues DEF Finish, Phase, Inv, TypeOK, RowsOK
      <4>3. UNCHANGED binding /\ \A q \in Requests \ {r} : state'[q] = state[q] /\ outcome'[q] = outcome[q]
        BY <3>3 DEF Finish, Inv, TypeOK, RowsOK
      <4>4. Moves(Phase(r), Consented(r), Phase(r)', Consented(r))
        BY <4>1, <4>2 DEF Moves
      <4> QED BY <2>5, <3>1, <3>3, <4>3, <4>4
    <3>4. CASE RegisterMinted(h)
      <4>1. CASE state[r] = "absent"
        BY <2>6, <3>1, <3>4, <4>1 DEF RegisterMinted, Kinds, Inv, TypeOK, CallsOK
      <4>2. CASE state[r] # "absent"
        BY <3>1, <2>4, <3>4, <4>2 DEF RegisterMinted
      <4> QED BY <4>1, <4>2
    <3>5. CASE ResolveReleased(h)
      <4>1. Phase(r) = "running"
        BY <3>1, <3>5, ShownValues DEF ResolveReleased, Phase
      <4>2. Phase(r)' = "unknown"
        BY <3>1, <3>5, ShownValues DEF ResolveReleased, Phase, Inv, TypeOK, RowsOK
      <4>3. UNCHANGED binding /\ \A q \in Requests \ {r} : state'[q] = state[q] /\ outcome'[q] = outcome[q]
        BY <3>1, <3>5 DEF ResolveReleased, Inv, TypeOK, RowsOK
      <4>4. Moves(Phase(r), Consented(r), Phase(r)', Consented(r))
        BY <4>1, <4>2 DEF Moves
      <4> QED BY <2>5, <3>1, <3>5, <4>3, <4>4 DEF ResolveReleased
    <3>6. CASE DispatchValidated(h)
      BY <2>4, <3>2, <3>6 DEF DispatchValidated
    <3>7. CASE ObserveApproval(h)
      <4>1. binding[r] \in Approvals
        BY <3>1, <3>7 DEF ObserveApproval, Inv, TypeOK, RowsOK, Checks
      <4>2. \A a \in Approvals : status'[a] = "approved" <=> status[a] = "approved"
        BY <3>1, <3>7, <4>1 DEF ObserveApproval, Observed, Lapsed, Inv, TypeOK, ApprovalsOK
      <4> QED BY <2>4, <3>7, <4>2 DEF ObserveApproval
    <3>8. CASE ActOnApproval(h)
      <4>1. binding[r] \in Approvals /\ (seen[h] # "pending" => status[binding[r]] = seen[h])
        BY <3>1, <3>8 DEF ActOnApproval, Inv, Decided, TypeOK, RowsOK
      <4>2. CASE Granted(h) /\ Claim(h, "awaiting_approval")
        <5>1. Consented(r)
          BY <4>1, <4>2, SentinelAssumption DEF Granted, Consented
        <5> QED BY <3>2, <3>8, <4>2, <5>1 DEF ActOnApproval
      <4>3. CASE seen[h] \in Mirrored /\ state[r] = "awaiting_approval" /\ state' = [state EXCEPT ![r] = seen[h]]
                 /\ UNCHANGED <<binding, outcome>>
        <5>1. Phase(r) = "gated" /\ Phase(r)' = "denied" /\ ~Consented(r)
          BY <3>1, <4>1, <4>3, ShownValues DEF Phase, Consented, Mirrored, Inv, TypeOK, RowsOK
        <5>2. UNCHANGED status /\ \A q \in Requests \ {r} : state'[q] = state[q] /\ outcome'[q] = outcome[q]
          BY <3>8, <4>3 DEF ActOnApproval, Inv, TypeOK, RowsOK
        <5>3. Moves(Phase(r), Consented(r), Phase(r)', Consented(r))
          BY <5>1 DEF Moves
        <5> QED BY <2>5, <3>1, <4>3, <5>2, <5>3
      <4>4. CASE UNCHANGED <<state, outcome, binding>>
        BY <2>4, <3>8, <4>4 DEF ActOnApproval
      <4> QED BY <3>1, <3>8, <4>2, <4>3, <4>4 DEF ActOnApproval
    <3>9. CASE FinishRename(h)
      BY <3>1, <2>4, <3>3, <3>9 DEF FinishRename, Storable
    <3>10. ASSUME NEW rep \in Replies, Return(h, rep) PROVE [OS!OneShotNext]_(OS!vars)
      BY <2>4, <3>1, <3>3, <3>10 DEF Return, Storable
    <3>11. CASE UNCHANGED <<state, outcome, binding, status>>
      BY <2>4, <3>11
    <3> QED BY <2>7, <3>4, <3>5, <3>6, <3>7, <3>8, <3>9, <3>10, <3>11
            DEF Step, DispatchOther, ResumeSettled, StartEffect, Settle, ClaimTranscript, AppendTurn, Respond
  <2>8. ASSUME NEW h \in Handlers, NEW r \in Requests, NEW s \in BOOLEAN, Mint(h, r, s) \/ Resume(h, r, s)
        PROVE  [OS!OneShotNext]_(OS!vars)
    <3>1. \A a \in Approvals : status'[a] = "approved" <=> status[a] = "approved"
      BY <2>8 DEF Mint, Resume, Inv, TypeOK, ApprovalsOK
    <3> QED BY <2>4, <2>8, <3>1 DEF Mint, Resume
  <2>9. ASSUME NEW h \in Handlers, NEW r \in Requests, NEW k \in Offered, NEW s \in BOOLEAN, Register(h, r, k, s)
        PROVE  [OS!OneShotNext]_(OS!vars)
    BY <2>4, <2>6, <2>9, BoundAssumption DEF Register
  <2>10. ASSUME NEW a \in Approvals, NEW to \in {"approved", "rejected", "cancelled"}, ResolveApproval(a, to)
         PROVE  [OS!OneShotNext]_(OS!vars)
    <3>1. UNCHANGED <<state, outcome, binding>> /\ status[a] = "pending" /\ \A b \in Approvals \ {a} : status'[b] = status[b]
      BY <2>10 DEF ResolveApproval, Resolvable, Inv, TypeOK, ApprovalsOK
    <3>2. CASE \E r \in Requests : binding[r] = a
      <4>1. PICK r \in Requests : binding[r] = a
        BY <3>2
      <4>2. \A q \in Requests \ {r} : Same(q)
        <5>1. \A q \in Requests \ {r} : binding[q] # a
          BY <4>1, SentinelAssumption DEF Inv, Bound
        <5> QED BY <2>1, <2>2, <3>1, <5>1
      <4>3. Phase(r)' = Phase(r)
        BY <2>1, <3>1
      <4>4. state[r] \in {"awaiting_approval", "invalid"}
        BY <3>1, <4>1, SentinelAssumption DEF Inv, TypeOK, RowsOK, States, Bound, Decided, Ran, Mirrored
      <4>5. Phase(r) \in {"gated", "refused"}
        BY <4>4, ShownValues DEF Phase
      <4>6. ~Consented(r) /\ Consented(r)' \in BOOLEAN
        BY <3>1, <4>1 DEF Consented
      <4> QED BY <4>2, <4>3, <4>5, <4>6, OneMoves DEF Moves, Consented
    <3>3. CASE ~\E r \in Requests : binding[r] = a
      BY <2>1, <2>2, <2>3, <3>1, <3>3
    <3> QED BY <3>2, <3>3
  <2>11. CASE Environment
    <3>1. CASE ListApprovals
      <4>1. \A a \in Approvals : status'[a] = "approved" <=> status[a] = "approved"
        BY <3>1 DEF ListApprovals, Observed, Lapsed
      <4> QED BY <2>4, <3>1, <4>1 DEF ListApprovals
    <3>2. ASSUME NEW a \in Approvals, NEW ttl \in BOOLEAN, CreateApproval(a, ttl) PROVE [OS!OneShotNext]_(OS!vars)
      <4>1. \A b \in Approvals : status'[b] = "approved" <=> status[b] = "approved"
        BY <3>2 DEF CreateApproval, Inv, TypeOK, ApprovalsOK
      <4> QED BY <2>4, <3>2, <4>1 DEF CreateApproval
    <3>3. CASE UNCHANGED <<state, outcome, binding, status>>
      BY <2>4, <3>3
    <3> QED BY <2>10, <2>11, <3>1, <3>2, <3>3 DEF Environment, Lapse, RebuildBridge, ReleaseOwner
  <2>12. CASE Crash \/ UNCHANGED vars
    BY <2>4, <2>12 DEF Crash, vars
  <2>13. ASSUME NEW h \in Handlers, SearchTimeout(h) PROVE [OS!OneShotNext]_(OS!vars)
    BY <2>4, <2>13 DEF SearchTimeout
  <2> QED BY <2>7, <2>8, <2>9, <2>11, <2>12, <2>13 DEF Next, Call
<1> QED BY <1>1, <1>2, Invariance, PTL DEF Spec, ImplementsOneShot, OS!OneShotSpec
=============================================================================
