----------------------------- MODULE Promotion ------------------------------
(* Promotion of memory candidates to claims, for one subject and predicate: *)
(* the candidates, the promotion journal, the approvals its rows wait for,  *)
(* the claims, and the question parked when claims contest each other.      *)
(*                                                                          *)
(* Proposing and executing an entry await nothing but the database, so they *)
(* run alone; but each write is committed by itself: any of them may be     *)
(* refused, the one that records a refusal included, and the process may    *)
(* die between any two.                                                     *)
EXTENDS Naturals, FiniteSets

CONSTANTS
    Candidates,    \* ids of extracted candidates
    Objects,       \* normalized objects they may name
    NoCandidate,   \* sentinel: nothing is being promoted
    NoKey,         \* sentinel: no claim
    MaxStranded    \* bound: executions that end with their row promoting

ASSUME PromotionAssumption ==
    /\ NoCandidate \notin Candidates
    /\ IsFiniteSet(Objects)
    /\ NoKey \notin Objects \X BOOLEAN
    /\ MaxStranded \in Nat

VARIABLES
    said,       \* the evidence ledger: what each candidate says, once saved
    queue,      \* saved candidates this process has still to propose
    journal,    \* the journal row of each candidate
    approval,   \* the approval minted for each candidate
    claim,      \* the claims, by identity: object and negation marker
    exec,       \* what is being proposed or executed, and the write to follow
    question,   \* the prospective item
    noticed,    \* history: a question was parked, or a warning logged that it was not
    stranded    \* history: how many executions ended with their row promoting

vars == <<said, queue, journal, approval, claim, exec, question, noticed, stranded>>

Keys == Objects \X BOOLEAN

\* "auto": known origin and a kind the configuration admits without review;
\* "reviewed": known origin; "unknown": no known origin.
Classes == {"auto", "reviewed", "unknown", "unsaved"}
Contents == [key : Keys \cup {NoKey}, class : Classes]
Unsaved == [key |-> NoKey, class |-> "unsaved"]

JournalStates == {"none", "proposed", "promoting", "committed", "denied", "failed"}
\* bound: approval_id is set; against: the claim the note says it contradicts.
Rows == [state : JournalStates, bound : BOOLEAN, against : Keys \cup {NoKey}]
NoRow == [state |-> "none", bound |-> FALSE, against |-> NoKey]

ClaimStatuses == {"none", "candidate", "active", "contradicted", "retired"}
\* times: times_observed; seen: the candidates in evidence_json; row: rowid.
Claims == [status : ClaimStatuses, times : Nat, seen : SUBSET Candidates, row : Nat]
NoClaim == [status |-> "none", times |-> 0, seen |-> {}, row |-> 0]

\* contests: contest_count; options: the claims the question lists.
Questions == [open : BOOLEAN, options : SUBSET Keys, contests : Nat]

Labels == {"idle", "minted", "recorded", "claimed", "observed", "settled",
           "created", "activated", "applied"}
Execs == [pc : Labels, cand : Candidates \cup {NoCandidate}, loser : Keys \cup {NoKey}]
Idle == [pc |-> "idle", cand |-> NoCandidate, loser |-> NoKey]

Init ==
    /\ said = [c \in Candidates |-> Unsaved]
    /\ queue = {}
    /\ journal = [c \in Candidates |-> NoRow]
    /\ approval = [c \in Candidates |-> "none"]
    /\ claim = [k \in Keys |-> NoClaim]
    /\ exec = Idle
    /\ question = [open |-> FALSE, options |-> {}, contests |-> 0]
    /\ noticed = FALSE /\ stranded = 0

-----------------------------------------------------------------------------
(* what a candidate meets *)

\* contestable: the claims on the topic that are candidate or active.
Contestable == {k \in Keys : claim[k].status \in {"candidate", "active"}}

\* findByTriple looks at claims of any status.
Exact(c) == claim[said[c].key].status # "none"

\* The same triple with the opposite marker; the identity is unique, so there
\* is one at most.
Denial(c) == <<said[c].key[1], ~said[c].key[2]>>

\* A denial of the triple itself outranks the newest claim.
Newest == CHOOSE k \in Contestable : \A j \in Contestable : claim[j].row <= claim[k].row
Rival(c) == IF Denial(c) \in Contestable THEN Denial(c) ELSE Newest

\* autoEligible: intent NEW, known origin, admitted kind.
AutoEligible(c) == said[c].class = "auto" /\ ~Exact(c) /\ Contestable = {}

Goto(label) == exec' = [exec EXCEPT !.pc = label]

-----------------------------------------------------------------------------
(* proposing *)

Save(c, k, class) ==
    /\ exec = Idle
    /\ said[c] = Unsaved
    /\ said' = [said EXCEPT ![c] = [key |-> k, class |-> class]]
    /\ queue' = queue \cup {c}
    /\ UNCHANGED <<journal, approval, claim, exec, question, noticed, stranded>>

\* proposeOne without review; execution follows at once.
ProposeAuto(c) ==
    /\ exec = Idle /\ c \in queue
    /\ AutoEligible(c)
    /\ journal' = [journal EXCEPT ![c].state = "proposed"]
    /\ queue' = queue \ {c}
    /\ exec' = [Idle EXCEPT !.pc = "recorded", !.cand = c]
    /\ UNCHANGED <<said, approval, claim, question, noticed, stranded>>

\* proposeOne with review: the approval first, then the row bound to it.
MintApproval(c) ==
    /\ exec = Idle /\ c \in queue
    /\ ~AutoEligible(c)
    /\ approval' = [approval EXCEPT ![c] = "pending"]
    /\ queue' = queue \ {c}
    /\ exec' = [Idle EXCEPT !.pc = "minted", !.cand = c]
    /\ UNCHANGED <<said, journal, claim, question, noticed, stranded>>

RecordProposal(c) ==
    /\ exec.pc = "minted" /\ exec.cand = c
    /\ journal' = [journal EXCEPT ![c].state = "proposed", ![c].bound = TRUE]
    /\ exec' = Idle
    /\ UNCHANGED <<said, queue, approval, claim, question, noticed, stranded>>

\* proposeCandidates catches a write that fails, and goes on; the candidate
\* of one that fails before any write stays in queue, never taken.
ProposalFails(c) ==
    /\ exec.pc = "minted" /\ exec.cand = c
    /\ exec' = Idle
    /\ UNCHANGED <<said, queue, journal, approval, claim, question, noticed, stranded>>

Decide(c, decision) ==
    /\ exec = Idle
    /\ approval[c] = "pending"
    /\ approval' = [approval EXCEPT ![c] = decision]
    /\ UNCHANGED <<said, queue, journal, claim, exec, question, noticed, stranded>>

-----------------------------------------------------------------------------
(* executeEntry *)

\* A sweep takes every row that is not terminal; an automatic proposal
\* executes its own.
OpenUnlessDenied(c) == journal[c].state \notin {"none", "denied"}
OpenRow(c) == journal[c].state \in {"proposed", "promoting"}

Entered(c) ==
    /\ exec = Idle \/ (exec.pc = "recorded" /\ exec.cand = c)
    /\ OpenRow(c)

ApprovedUnlessRefused(c) == journal[c].bound => approval[c] # "refused"
Approved(c) == journal[c].bound => approval[c] = "approved"

ExecuteDenied(c) ==
    /\ Entered(c)
    /\ journal[c].bound /\ approval[c] = "refused"
    /\ journal' = [journal EXCEPT ![c].state = "denied"]
    /\ exec' = Idle
    /\ UNCHANGED <<said, queue, approval, claim, question, noticed, stranded>>

ExecuteUnknown(c) ==
    /\ Entered(c)
    /\ Approved(c) /\ said[c].class = "unknown"
    /\ journal' = [journal EXCEPT ![c].state = "failed"]
    /\ exec' = Idle
    /\ UNCHANGED <<said, queue, approval, claim, question, noticed, stranded>>

\* The row is marked before anything is applied.
ExecuteCommitsFirst(c) ==
    /\ Entered(c)
    /\ Approved(c) /\ said[c].class # "unknown"
    /\ journal' = [journal EXCEPT ![c].state = "committed"]
    /\ exec' = [Idle EXCEPT !.pc = "claimed", !.cand = c]
    /\ UNCHANGED <<said, queue, approval, claim, question, noticed, stranded>>
Execute(c) ==
    /\ Entered(c)
    /\ Approved(c) /\ said[c].class # "unknown"
    /\ journal' = [journal EXCEPT ![c].state = "promoting"]
    /\ exec' = [Idle EXCEPT !.pc = "claimed", !.cand = c]
    /\ UNCHANGED <<said, queue, approval, claim, question, noticed, stranded>>

-----------------------------------------------------------------------------
(* apply, one write at a time *)

\* appendEvidence: the candidate is listed once, the observation counts again.
Observe(c) ==
    LET k == said[c].key IN
    /\ exec.pc = "claimed" /\ exec.cand = c
    /\ Exact(c)
    /\ claim' = [claim EXCEPT ![k].times = @ + 1, ![k].seen = @ \cup {c}]
    /\ Goto(IF claim[k].status = "candidate" THEN "observed" ELSE "applied")
    /\ UNCHANGED <<said, queue, journal, approval, question, noticed, stranded>>

\* The status a rival loses to.
LostIfActive(status) == IF status = "candidate" THEN "candidate" ELSE "contradicted"
Lost(status) == IF status = "candidate" THEN "retired" ELSE "contradicted"

Demote(c) ==
    /\ exec.pc = "claimed" /\ exec.cand = c
    /\ ~Exact(c) /\ Contestable # {}
    /\ claim' = [claim EXCEPT ![Rival(c)].status = Lost(@)]
    /\ exec' = [exec EXCEPT !.pc = "settled", !.loser = Rival(c)]
    /\ UNCHANGED <<said, queue, journal, approval, question, noticed, stranded>>

\* createClaim, with status candidate.
Create(c) ==
    LET k == said[c].key IN
    /\ exec.cand = c
    /\ \/ exec.pc = "settled"
       \/ exec.pc = "claimed" /\ ~Exact(c) /\ Contestable = {}
    /\ claim' = [claim EXCEPT
                   ![k] = [status |-> "candidate", times |-> 1, seen |-> {c},
                           row |-> Cardinality({j \in Keys : claim[j].status # "none"}) + 1]]
    /\ Goto("created")
    /\ UNCHANGED <<said, queue, journal, approval, question, noticed, stranded>>

ActivateSilently(c) ==
    /\ exec.pc \in {"created", "observed"} /\ exec.cand = c
    /\ claim' = [claim EXCEPT ![said[c].key].status = "active"]
    /\ Goto("applied")
    /\ UNCHANGED <<said, queue, journal, approval, question, noticed, stranded>>
Activate(c) ==
    /\ exec.pc \in {"created", "observed"} /\ exec.cand = c
    /\ claim' = [claim EXCEPT ![said[c].key].status = "active"]
    /\ Goto(IF exec.loser # NoKey THEN "activated" ELSE "applied")
    /\ UNCHANGED <<said, queue, journal, approval, question, noticed, stranded>>

\* maybeParkQuestion: the loser was weak, or the topic has older scars.
Scarred == {k \in Keys : claim[k].status \in {"contradicted", "retired"}}
Repeated(c) == Scarred \ {exec.loser, said[c].key} # {}

\* mergeContest and create: of one topic at most one item is open.
Merged(options) == [question EXCEPT !.options = @ \cup options, !.contests = @ + 1]
Opened(options, n) == [open |-> TRUE, options |-> options, contests |-> n]

Park(c, weak) ==
    LET fresh == Scarred \cup {exec.loser, said[c].key}
        prior == Cardinality(Scarred \ {exec.loser, said[c].key}) IN
    /\ exec.pc = "activated" /\ exec.cand = c
    /\ \/ /\ Repeated(c) \/ weak
          /\ question' = IF question.open THEN Merged(fresh) ELSE Opened(fresh, prior + 1)
          /\ noticed' = TRUE
       \/ /\ ~(Repeated(c) \/ weak)
          /\ UNCHANGED <<question, noticed>>
       \/ /\ noticed' = TRUE         \* parking fails, with a warning
          /\ UNCHANGED question
    /\ Goto("applied")
    /\ UNCHANGED <<said, queue, journal, approval, claim, stranded>>

CommitWithoutNote(c) ==
    /\ exec.pc = "applied" /\ exec.cand = c
    /\ journal' = [journal EXCEPT ![c].state = "committed"]
    /\ exec' = Idle
    /\ UNCHANGED <<said, queue, approval, claim, question, noticed, stranded>>
Commit(c) ==
    /\ exec.pc = "applied" /\ exec.cand = c
    /\ journal' = [journal EXCEPT ![c].state = "committed", ![c].against = exec.loser]
    /\ exec' = Idle
    /\ UNCHANGED <<said, queue, approval, claim, question, noticed, stranded>>

\* A write of apply, or the commit itself, throws: the row is marked failed,
\* with what was applied so far left in place.
Applying == {"claimed", "observed", "settled", "created", "activated", "applied"}

ApplyFails(c) ==
    /\ exec.pc \in Applying \ {"activated"} /\ exec.cand = c
    /\ journal' = [journal EXCEPT ![c].state = "failed"]
    /\ exec' = Idle
    /\ UNCHANGED <<said, queue, approval, claim, question, noticed, stranded>>

\* Marking is a write too, and may throw in its turn: the row is left promoting,
\* and the next sweep takes it up and applies it from the start.
MarkFails(c) ==
    /\ exec.pc \in Applying \ {"activated"} /\ exec.cand = c
    /\ stranded < MaxStranded
    /\ stranded' = stranded + 1
    /\ exec' = Idle
    /\ UNCHANGED <<said, queue, journal, approval, claim, question, noticed>>

-----------------------------------------------------------------------------
(* the rest of the world *)

\* retireClaim, forced.
Retire(k) ==
    /\ exec = Idle
    /\ claim[k].status \in {"candidate", "active", "contradicted"}
    /\ claim' = [claim EXCEPT ![k].status = "retired"]
    /\ UNCHANGED <<said, queue, journal, approval, exec, question, noticed, stranded>>

\* The question is resolved, whichever way.
Dismiss ==
    /\ exec = Idle /\ question.open
    /\ question' = [open |-> FALSE, options |-> {}, contests |-> 0]
    /\ UNCHANGED <<said, queue, journal, approval, claim, exec, noticed, stranded>>

\* The process dies and boots: what it had in memory is gone, and rows found
\* promoting are queued again.
Crash ==
    /\ \/ /\ exec.pc \in Applying /\ stranded < MaxStranded
          /\ stranded' = stranded + 1
       \/ /\ exec.pc \notin Applying
          /\ UNCHANGED stranded
    /\ exec' = Idle /\ queue' = {}
    /\ journal' = [c \in Candidates |->
                     IF journal[c].state = "promoting"
                       THEN [journal[c] EXCEPT !.state = "proposed"]
                       ELSE journal[c]]
    /\ UNCHANGED <<said, approval, claim, question, noticed>>

Next ==
    \/ \E c \in Candidates :
         \/ \E k \in Keys, class \in Classes \ {"unsaved"} : Save(c, k, class)
         \/ ProposeAuto(c) \/ MintApproval(c) \/ RecordProposal(c) \/ ProposalFails(c)
         \/ \E decision \in {"approved", "refused"} : Decide(c, decision)
         \/ ExecuteDenied(c) \/ ExecuteUnknown(c) \/ Execute(c)
         \/ Observe(c) \/ Demote(c) \/ Create(c) \/ Activate(c)
         \/ Commit(c) \/ ApplyFails(c) \/ MarkFails(c)
         \/ \E weak \in BOOLEAN : Park(c, weak)
    \/ \E k \in Keys : Retire(k)
    \/ Dismiss
    \/ Crash

Spec == Init /\ [][Next]_vars

-----------------------------------------------------------------------------
\* The tables have their types, and a row is promoting only while its entry is
\* being executed or after its failure could not be recorded.
TypeOK ==
    /\ said \in [Candidates -> Contents]
    /\ queue \subseteq Candidates
    /\ journal \in [Candidates -> Rows]
    /\ approval \in [Candidates -> {"none", "pending", "approved", "refused"}]
    /\ claim \in [Keys -> Claims]
    /\ exec \in Execs
    /\ question \in Questions
    /\ noticed \in BOOLEAN /\ stranded \in 0..MaxStranded
    /\ \A c \in Candidates : journal[c].state = "promoting" => exec.cand = c \/ stranded > 0

\* A topic has one head: whatever crashes leave behind, at most one claim is
\* candidate or active, so promotion never makes the active-active pairs that
\* revision exists to resolve.
OneHead == \A j, k \in Contestable : j = k

\* Nothing is believed without authority: every candidate in a claim's
\* evidence says that claim, has a known origin, and was approved or admitted
\* by the configuration.
BeliefsAreAuthorised ==
    \A k \in Keys : \A c \in claim[k].seen :
      /\ said[c].key = k
      /\ said[c].class \in {"auto", "reviewed"}
      /\ IF journal[c].bound THEN approval[c] = "approved" ELSE said[c].class = "auto"

\* A committed promotion is evidence of its claim, wherever a crash hit.
CommittedIsBelieved ==
    \A c \in Candidates :
      journal[c].state = "committed" => c \in claim[said[c].key].seen

\* Each candidate is counted once, but for one recount per execution that ended
\* with its row still promoting: cut off by a crash, or failed in a write and
\* then in the write that marks it.  No other crash, failure, sweep or restart
\* counts an observation twice.
CountedOncePerStranding ==
    \A k \in Keys :
      /\ Cardinality(claim[k].seen) <= claim[k].times
      /\ claim[k].times <= Cardinality(claim[k].seen) + stranded

\* A claim is contradicted by a promotion that says so in its note, which is
\* what maintenance links counterparts from; an execution that fails, or that
\* ends with its row promoting, loses one note at most.
LosersAreExplained ==
    Cardinality({k \in Keys : /\ claim[k].status = "contradicted"
                              /\ k # exec.loser
                              /\ \A c \in Candidates : journal[c].against # k})
      <= stranded + Cardinality({c \in Candidates : journal[c].state = "failed"})

\* The second contest of a topic parks a question, or warns that it could
\* not, whatever happened between.
RepeatedContestIsAsked ==
    Cardinality({c \in Candidates : journal[c].against # NoKey}) >= 2 => noticed

\* ARCHITECTURE.md, of promotion: "a journal that records each proposal exactly
\* once (so a crash can't double-apply it)".  The code counts again what it
\* replays.
CrashAppliesOnce == \A k \in Keys : claim[k].times = Cardinality(claim[k].seen)
=============================================================================
