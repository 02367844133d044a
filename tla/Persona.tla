------------------------------ MODULE Persona -------------------------------
(* The persona of one user: the immutable core read at boot, the evolving   *)
(* records, user facts and relationship, the candidates staged for review,  *)
(* the drift findings raised about them, and the reviewers.                 *)
(*                                                                          *)
(* Every repository call is synchronous, so a handler runs alone until it   *)
(* awaits the embedder, in the middle of an approval that changes a record. *)
(* Each write is committed by itself: the process may die between any two.  *)
EXTENDS Naturals, FiniteSets

CONSTANTS
    Statements,     \* contents of entries, observations and records
    CoreFiles,      \* what the core file may say; nothing when missing or invalid
    Seeds,          \* what a seed file may say
    Observations,   \* what is extracted from turns
    Contradicts,    \* statementsContradict, as a set of pairs
    Similar,        \* tokenOverlap at or above the pressure similarity
    Confident,      \* statements extracted with STRONG_CONFIDENCE
    Slots,          \* ids of the records a seed file writes
    Reviewers,      \* review requests in flight
    Decisions,      \* the outcomes reviewers choose from
    NoStatement, NoSlot, NoCandidate,
    Whole,          \* the subject of findings about the persona as a whole
    PressureCount,  \* candidatePressureCount
    MinCycles,      \* cumulativeMinCycles
    MaxEvents,      \* bound: requests, edits, restarts, elapsed time
    MaxFaults       \* bound: writes that throw, and crashes

Approvals == {"approve_to_identity", "approve_to_user_model", "approve_to_relationship"}
Outcomes == Approvals \cup {"reject", "archive_as_transient", "needs_more_evidence"}

ASSUME PersonaAssumption ==
    /\ CoreFiles \subseteq SUBSET Statements
    /\ Seeds \subseteq Statements /\ Observations \subseteq Statements
    /\ Contradicts \subseteq Statements \X Statements
    /\ Similar \subseteq Statements \X Statements
    /\ Confident \subseteq Statements
    /\ Decisions \subseteq Outcomes
    /\ NoStatement \notin Statements /\ NoSlot \notin Slots
    /\ PressureCount \in Nat /\ MinCycles \in Nat \ {0}
    /\ MaxEvents \in Nat /\ MaxFaults \in Nat

VARIABLES
    file,       \* the statements of the core file; none when missing or invalid
    up,         \* the process is running
    entries,    \* in memory: the core entries
    saved,      \* persona_core_state
    record,     \* persona_records, by seed slot or by the statement hashed into the id
    facts,      \* persona_user_model
    rel,        \* persona_relationship
    cand,       \* persona_candidates
    open,       \* unresolved findings of persona_drift_log
    streak,     \* newest consecutive trends at or above the floor, for each record
    rev,        \* review requests
    audit,      \* drift log entries of reviews and core changes
    applied,    \* history variable: candidates whose approval changed a store
    events, faults

vars == <<file, up, entries, saved, record, facts, rel, cand, open, streak, rev,
          audit, applied, events, faults>>

RecordIds == Slots \cup Statements
\* The id of a candidate hashes its target slot, if any, and its statement.
CandidateIds == (Slots \cup {NoSlot}) \X Statements

Facts == SUBSET Statements
Relationships == [state : {"none", "fresh", "stale"}, developments : SUBSET Statements]
CoreStates == [hash : SUBSET Statements, loaded : BOOLEAN]
Records == [content : Statements \cup {NoStatement}, protected : BOOLEAN,
            source : {"none", "seed", "review"},
            seeded : Statements \cup {NoStatement}]   \* metadata.seedContentHash
NoRecord == [content |-> NoStatement, protected |-> FALSE, source |-> "none",
             seeded |-> NoStatement]

\* A baseline that was changed outside the import and the reviews, which is
\* what canReplaceSeedBaseline looks for: no code of this program writes one.
Touched == {r \in [content : Seeds, protected : BOOLEAN, source : {"seed"},
                   seeded : Seeds \cup {NoStatement}] : r.seeded # r.content}

Candidates == [status : {"none", "pending", "reviewed"}, outcome : Outcomes \cup {"none"}]
NewCandidate == [status |-> "pending", outcome |-> "none"]

Modes == {"core_contradiction", "contradiction", "semantic_drift",
          "cumulative_semantic_drift", "repeated_candidate_pressure",
          "relationship_state_stale", "grounding_score_low"}

Findings == (RecordIds \cup CandidateIds \cup {Whole}) \X Modes
Streaks == [RecordIds -> 0..MinCycles]

Reviews == [pc : {"idle", "refused", "embedding", "measured", "applied", "updated"},
            cand : CandidateIds \cup {NoCandidate}, outcome : Outcomes \cup {"none"},
            drift : BOOLEAN]
NoReview == [pc |-> "idle", cand |-> NoCandidate, outcome |-> "none", drift |-> FALSE]

Init ==
    /\ file \in CoreFiles /\ up = FALSE /\ entries = {}
    /\ saved = [hash |-> {}, loaded |-> FALSE]
    /\ \E b \in [Slots -> {NoRecord} \cup Touched] :
           record = [r \in RecordIds |-> IF r \in Slots THEN b[r] ELSE NoRecord]
    /\ facts = {} /\ rel = [state |-> "none", developments |-> {}]
    /\ cand = [c \in CandidateIds |-> [status |-> "none", outcome |-> "none"]]
    /\ open = {} /\ streak = [r \in RecordIds |-> 0]
    /\ rev = [p \in Reviewers |-> NoReview]
    /\ audit = {} /\ applied = {}
    /\ events = 0 /\ faults = 0

-----------------------------------------------------------------------------

\* Reviews between two awaits that are not the embedder's.
Running == {p \in Reviewers : rev[p].pc \notin {"idle", "embedding"}}

Event ==
    /\ Running = {}
    /\ events < MaxEvents
    /\ events' = events + 1

Existing == {r \in RecordIds : record[r].content # NoStatement}
Pending == {c \in CandidateIds : cand[c].status = "pending"}

-----------------------------------------------------------------------------
(* the writes of the repository *)

CreateRecord(r, x, protected, source, seeded) ==
    record' = [record EXCEPT ![r] = [content |-> x, protected |-> protected,
                                     source |-> source, seeded |-> seeded]]

UpsertUserFact(x) == facts' = facts \cup {x}

UpsertRelationship(x) ==
    rel' = [state |-> "fresh", developments |-> rel.developments \cup {x}]

\* A candidate that was reviewed is not resurrected.
StageCandidate(c) ==
    cand' = [cand EXCEPT ![c] = IF @.status = "none" THEN NewCandidate ELSE @]

\* Mutant: the first decision written is kept.
ReviewOnce(c, outcome) ==
    cand' = [cand EXCEPT ![c] =
        IF @.status = "reviewed" THEN @
        ELSE [status |-> IF outcome = "needs_more_evidence" THEN "pending" ELSE "reviewed",
              outcome |-> outcome]]

UpdateCandidateReview(c, outcome) ==
    cand' = [cand EXCEPT ![c] =
        [status |-> IF outcome = "needs_more_evidence" THEN "pending" ELSE "reviewed",
         outcome |-> outcome]]

LogDrift(entry) == audit' = audit \cup {entry}

\* The newest trend is below the floor, or one more at or above it.
RecordDriftTrend(r, high) ==
    streak' = [streak EXCEPT ![r] = IF ~high THEN 0 ELSE IF @ < MinCycles THEN @ + 1 ELSE @]

SaveCoreState(statements) == saved' = [hash |-> statements, loaded |-> statements # {}]

-----------------------------------------------------------------------------
(* drift findings *)

\* logOnce: one unresolved finding for each subject and mode.
LogOnce(findings) == open' = open \cup findings

\* maxSimilarGroup
Cluster(S) ==
    LET near(c) == {d \in S \ {c} : <<c[2], d[2]>> \in Similar}
    IN  \E c \in S : Cardinality(near(c)) + 1 >= PressureCount

-----------------------------------------------------------------------------
(* the core *)

EditCore(statements) ==
    /\ Event
    /\ file' = statements
    /\ UNCHANGED <<up, entries, saved, record, facts, rel, cand, open, streak, rev,
                   audit, applied, faults>>

\* What reload notes of the difference to the saved state.
CoreChange ==
    IF file = {} /\ saved.loaded THEN {<<NoCandidate, "persona_core_unavailable">>}
    ELSE IF file # {} /\ saved.hash \notin {{}, file}
         THEN {<<NoCandidate, "persona_core_changed">>} ELSE {}

\* onModuleInit: the file is read and its hash saved; a start without a core
\* is refused.
Boot ==
    /\ ~up
    /\ up' = (file # {}) /\ entries' = file
    /\ SaveCoreState(file)
    /\ audit' = audit \cup CoreChange
    /\ UNCHANGED <<file, record, facts, rel, cand, open, streak, rev, applied, events, faults>>

Stop ==
    /\ Event
    /\ up /\ \A p \in Reviewers : rev[p] = NoReview
    /\ up' = FALSE /\ entries' = {}
    /\ UNCHANGED <<file, saved, record, facts, rel, cand, open, streak, rev, audit,
                   applied, faults>>

-----------------------------------------------------------------------------
(* staging *)

ConflictsWithCore(c) == \E e \in entries : <<e, c[2]>> \in Contradicts

\* The records a candidate contradicts or targets.
Contradicted(c) ==
    {r \in Existing : /\ record[r].content # c[2]
                      /\ r = c[1] \/ <<record[r].content, c[2]>> \in Contradicts}

EvaluatePressure(pending) ==
    IF Cluster(pending) THEN {<<Whole, "repeated_candidate_pressure">>} ELSE {}

EvaluateCandidate(c, pending) ==
    LogOnce((IF ConflictsWithCore(c) THEN {<<c, "core_contradiction">>} ELSE {})
            \cup {<<r, "contradiction">> : r \in Contradicted(c)}
            \cup EvaluatePressure(pending))

\* stageFromMemoryCandidates, after a turn. A drift error never blocks staging.
Stage(x, evaluated) ==
    LET c == <<NoSlot, x>> IN
    /\ Event /\ up
    /\ StageCandidate(c)
    /\ \/ /\ evaluated
          /\ EvaluateCandidate(c, {d \in CandidateIds : cand'[d].status = "pending"})
          /\ UNCHANGED faults
       \/ /\ ~evaluated /\ faults < MaxFaults
          /\ faults' = faults + 1
          /\ UNCHANGED open
    /\ UNCHANGED <<file, up, entries, saved, record, facts, rel, streak, rev, audit, applied>>

\* Mutant: a hash that matches is enough, whoever wrote the content.
ReplaceMatching(s) == record[s].seeded = record[s].content

\* canReplaceSeedBaseline: seeded by this file, and not touched since.
CanReplaceSeedBaseline(s) ==
    record[s].source = "seed" /\ record[s].seeded = record[s].content

\* import, for one statement of the seed file. No finding is raised here.
Import(s, x, protected) ==
    /\ Event /\ up
    /\ record[s].content # x
    /\ IF s \in Existing /\ ~CanReplaceSeedBaseline(s)
       THEN StageCandidate(<<s, x>>) /\ UNCHANGED record
       ELSE CreateRecord(s, x, protected, "seed", x) /\ UNCHANGED cand
    /\ UNCHANGED <<file, up, entries, saved, facts, rel, open, streak, rev, audit,
                   applied, faults>>

-----------------------------------------------------------------------------
(* review *)

Step(p) == up /\ Running \subseteq {p}
Goto(p, label) == rev' = [rev EXCEPT ![p].pc = label]

\* What every review checks first.
Review(p, c, outcome) ==
    /\ Event /\ up /\ rev[p] = NoReview
    /\ c \in Pending
    /\ UNCHANGED <<file, up, entries, saved, cand, open, streak, faults>>

Begin(p, c, outcome, label) ==
    rev' = [rev EXCEPT ![p] = [pc |-> label, cand |-> c, outcome |-> outcome, drift |-> FALSE]]

\* The refusal is logged critical before the candidate is closed.
Refuse(p, c, outcome) ==
    /\ Review(p, c, outcome)
    /\ outcome \in Approvals /\ ConflictsWithCore(c)
    /\ LogDrift(<<c, "core_contradiction">>)
    /\ Begin(p, c, outcome, "refused")
    /\ UNCHANGED <<record, facts, rel, applied>>

\* applyIdentity: a seed conflict overwrites its slot and, when that changes
\* the content, awaits the embedder; any other candidate has a record of its own.
ApplyIdentity(p, c) ==
    LET r == IF c[1] = NoSlot THEN c[2] ELSE c[1]
        existing == c[1] # NoSlot /\ record[r].content # NoStatement
    IN  /\ Review(p, c, "approve_to_identity")
        /\ ~ConflictsWithCore(c)
        /\ CreateRecord(r, c[2], existing /\ record[r].protected, "review", record[r].seeded)
        /\ applied' = applied \cup {c}
        /\ Begin(p, c, "approve_to_identity",
                 IF existing /\ record[r].content # c[2] THEN "embedding" ELSE "applied")
        /\ UNCHANGED <<facts, rel, audit>>

ApplyUserModel(p, c) ==
    /\ Review(p, c, "approve_to_user_model")
    /\ ~ConflictsWithCore(c)
    /\ UpsertUserFact(c[2]) /\ applied' = applied \cup {c}
    /\ Begin(p, c, "approve_to_user_model", "applied")
    /\ UNCHANGED <<record, rel, audit>>

ApplyRelationship(p, c) ==
    /\ Review(p, c, "approve_to_relationship")
    /\ ~ConflictsWithCore(c)
    /\ UpsertRelationship(c[2]) /\ applied' = applied \cup {c}
    /\ Begin(p, c, "approve_to_relationship", "applied")
    /\ UNCHANGED <<record, facts, audit>>

\* Any other outcome is recorded and changes no store.
Dispose(p, c, outcome) ==
    /\ Review(p, c, outcome)
    /\ outcome \notin Approvals
    /\ Begin(p, c, outcome, "applied")
    /\ UNCHANGED <<record, facts, rel, audit, applied>>

\* The embedder has answered, or failed closed: recordDriftTrend of a signal at
\* or above the floor, or below it.
RecordTrend(p, high) ==
    /\ Step(p) /\ rev[p].pc = "embedding"
    /\ RecordDriftTrend(rev[p].cand[1], high)
    /\ rev' = [rev EXCEPT ![p].pc = "measured", ![p].drift = high]
    /\ UNCHANGED <<file, up, entries, saved, record, facts, rel, cand, open, audit,
                   applied, events, faults>>

\* Mutant: a streak that is broken does not clear the finding.
DetectCumulativeDriftForGood(r) ==
    IF streak[r] >= MinCycles THEN open \cup {<<r, "cumulative_semantic_drift">>} ELSE open

\* A streak that is long enough is reported; a broken one resolves the finding.
DetectCumulativeDrift(r) ==
    IF streak[r] >= MinCycles THEN open \cup {<<r, "cumulative_semantic_drift">>}
    ELSE IF streak[r] = 0 THEN open \ {<<r, "cumulative_semantic_drift">>}
    ELSE open

\* Then the finding about this change.
EvaluateSemanticChange(p) ==
    LET r == rev[p].cand[1] IN
    /\ Step(p) /\ rev[p].pc = "measured"
    /\ open' = DetectCumulativeDrift(r)
               \cup (IF rev[p].drift THEN {<<r, "semantic_drift">>} ELSE {})
    /\ Goto(p, "applied")
    /\ UNCHANGED <<file, up, entries, saved, record, facts, rel, cand, streak, audit,
                   applied, events, faults>>

CloseCandidate(p) ==
    /\ Step(p) /\ rev[p].pc \in {"applied", "refused"}
    /\ UpdateCandidateReview(rev[p].cand, rev[p].outcome)
    /\ IF rev[p].pc = "refused" THEN rev' = [rev EXCEPT ![p] = NoReview] ELSE Goto(p, "updated")
    /\ UNCHANGED <<file, up, entries, saved, record, facts, rel, open, streak, audit,
                   applied, events, faults>>

LogReview(p) ==
    /\ Step(p) /\ rev[p].pc = "updated"
    /\ LogDrift(<<rev[p].cand, rev[p].outcome>>)
    /\ rev' = [rev EXCEPT ![p] = NoReview]
    /\ UNCHANGED <<file, up, entries, saved, record, facts, rel, cand, open, streak,
                   applied, events, faults>>

-----------------------------------------------------------------------------
(* auditGrounding *)

\* evaluate: 0.4 for the core, 0.2 for each layer that is strong or current;
\* the process runs only with a core, and the threshold is 0.6.
StrongIdentity == \E r \in Existing : record[r].source = "seed" \/ record[r].content \in Confident
UserKnown == facts \cap Confident # {}
ScoreIsLow == ~StrongIdentity /\ ~UserKnown /\ rel.state # "fresh"

\* resolveDrift
Resolve(modes) == {f \in open : f[2] \notin modes}

\* reconcilePressure: a cluster that has dropped below the count is resolved.
ReconcilePressure == IF Cluster(Pending) THEN {} ELSE {"repeated_candidate_pressure"}

\* Findings are raised, or resolved when their condition has cleared.
Audit ==
    LET raised == (IF rel.state = "stale" THEN {"relationship_state_stale"} ELSE {})
                  \cup (IF ScoreIsLow THEN {"grounding_score_low"} ELSE {})
        cleared == {"relationship_state_stale", "grounding_score_low"} \ raised
    IN
    /\ up /\ Running = {}
    /\ open' = Resolve(cleared \cup ReconcilePressure) \cup {<<Whole, m>> : m \in raised}
    /\ UNCHANGED <<file, up, entries, saved, record, facts, rel, cand, streak, rev, audit,
                   applied, events, faults>>

\* The freshness window of the relationship runs out.
TimePasses ==
    /\ Event /\ rel.state = "fresh"
    /\ rel' = [rel EXCEPT !.state = "stale"]
    /\ UNCHANGED <<file, up, entries, saved, record, facts, cand, open, streak, rev, audit,
                   applied, faults>>

-----------------------------------------------------------------------------
(* faults *)

\* recordSemanticChange catches what the drift evaluation throws; what another
\* write throws fails the request.
ReviewThrows(p) ==
    /\ Step(p) /\ rev[p] # NoReview
    /\ faults < MaxFaults /\ faults' = faults + 1
    /\ IF rev[p].pc \in {"embedding", "measured"}
       THEN Goto(p, "applied") ELSE rev' = [rev EXCEPT ![p] = NoReview]
    /\ UNCHANGED <<file, up, entries, saved, record, facts, rel, cand, open, streak, audit,
                   applied, events>>

Crash ==
    /\ up /\ \E p \in Reviewers : rev[p] # NoReview
    /\ faults < MaxFaults /\ faults' = faults + 1
    /\ up' = FALSE /\ entries' = {}
    /\ rev' = [p \in Reviewers |-> NoReview]
    /\ UNCHANGED <<file, saved, record, facts, rel, cand, open, streak, audit, applied, events>>

-----------------------------------------------------------------------------

Requests ==
    \/ \E statements \in CoreFiles : EditCore(statements)
    \/ Stop \/ TimePasses
    \/ \E x \in Observations, evaluated \in BOOLEAN : Stage(x, evaluated)
    \/ \E s \in Slots, x \in Seeds, protected \in BOOLEAN : Import(s, x, protected)
    \/ \E p \in Reviewers, c \in CandidateIds :
           \/ ApplyIdentity(p, c) /\ "approve_to_identity" \in Decisions
           \/ ApplyUserModel(p, c) /\ "approve_to_user_model" \in Decisions
           \/ ApplyRelationship(p, c) /\ "approve_to_relationship" \in Decisions
           \/ \E o \in Decisions : Refuse(p, c, o) \/ Dispose(p, c, o)

ReviewStep(p) ==
    \/ \E high \in BOOLEAN : RecordTrend(p, high)
    \/ EvaluateSemanticChange(p) \/ CloseCandidate(p) \/ LogReview(p)

Next ==
    \/ Requests \/ Boot \/ Audit \/ Crash
    \/ \E p \in Reviewers : ReviewStep(p) \/ ReviewThrows(p)

\* A request runs to its end, the embedder answers or fails, and the operator
\* restarts the process and repeats the audit.
Spec ==
    /\ Init /\ [][Next]_vars
    /\ WF_vars(Boot) /\ WF_vars(Audit) /\ \A p \in Reviewers : WF_vars(ReviewStep(p))

-----------------------------------------------------------------------------

TypeOK ==
    /\ file \subseteq Statements /\ entries \subseteq Statements /\ up \in BOOLEAN
    /\ saved \in CoreStates
    /\ record \in [RecordIds -> Records] /\ facts \in Facts /\ rel \in Relationships
    /\ cand \in [CandidateIds -> Candidates]
    /\ open \subseteq Findings /\ streak \in Streaks
    /\ rev \in [Reviewers -> Reviews]
    /\ applied \subseteq CandidateIds
    /\ events \in 0..MaxEvents /\ faults \in 0..MaxFaults

\* An approval that changed a store has the last word on its candidate and is
\* in the drift log, even when another reviewer decided the same candidate while
\* the approval waited for the embedder. Only a fault in its middle prevents it.
AppliedIsRecorded ==
    faults = 0 =>
        \A c \in applied :
            \/ \E p \in Reviewers : rev[p].cand = c
            \/ /\ cand[c].status = "reviewed" /\ cand[c].outcome \in Approvals
               /\ <<c, cand[c].outcome>> \in audit

\* While no drift evaluation is under way, and none was cut short, a record is
\* reported as drifting if and only if its last MinCycles changes drifted.
CumulativeMatchesStreak ==
    (faults = 0 /\ \A p \in Reviewers : rev[p].pc # "measured") =>
        \A r \in RecordIds :
            /\ streak[r] >= MinCycles => <<r, "cumulative_semantic_drift">> \in open
            /\ <<r, "cumulative_semantic_drift">> \in open => streak[r] >= MinCycles

\* A seed file never takes back a record that a review has changed, whatever
\* the file says later.
ReviewedIsNotReseeded ==
    [][\A s \in Slots : record[s].source = "review" => record'[s].source = "review"]_vars

\* A contradiction is reported until its condition clears: when no candidate
\* that contradicts the record is pending any more, an audit resolves it.
FindingsAreReconciled ==
    \A r \in Slots :
        <<r, "contradiction">> \in open
            ~> \/ <<r, "contradiction">> \notin open
               \/ \E c \in Pending : \/ c[1] = r
                                     \/ <<record[r].content, c[2]>> \in Contradicts
=============================================================================
