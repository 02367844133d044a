---------------------------- MODULE Maintenance -----------------------------
(* The background maintenance of the claims of one subject and predicate:   *)
(* suppression from recall traces, compounding, decay, links, gist          *)
(* proposals, revision of rivals, locks, activation and classification.     *)
(*                                                                          *)
(* A pass awaits nothing but the database, so it runs alone; but each write *)
(* is committed by itself: any of them may throw, which ends the turn of    *)
(* one claim, and the process may die between any two.                      *)
EXTENDS Naturals, FiniteSets, Sequences

CONSTANTS
    N,                      \* claims; a claim is its rowid
    Promoted,               \* the claims an operator promoted
    MaxTimes,               \* bound: times_observed
    MaxConfidence,          \* COMPOUND_CEILING, as the highest confidence level
    LOCK_CORROBORATION_BAR,
    LOCK_CONFIDENCE_MIN,
    DIVERGENCE_CONFIDENCE_MAX,
    RETIRE_CONFIDENCE_MAX,
    GIST_FAMILY_SIZE,
    MaxEvents,              \* bound: recalls, evidence, elapsed time, decisions
    MaxFaults               \* bound: writes that throw, and crashes

Rowids == 1..N

ASSUME MaintenanceAssumption ==
    /\ N \in Nat \ {0} /\ Promoted \subseteq Rowids
    /\ MaxTimes \in Nat \ {0} /\ MaxConfidence \in Nat
    /\ LOCK_CORROBORATION_BAR \in Nat /\ LOCK_CONFIDENCE_MIN \in Nat
    /\ DIVERGENCE_CONFIDENCE_MAX \in Nat /\ RETIRE_CONFIDENCE_MAX \in Nat
    /\ GIST_FAMILY_SIZE \in Nat
    /\ MaxEvents \in Nat /\ MaxFaults \in Nat

VARIABLES
    rows,        \* the rows of claims
    history,     \* what the rungs read back of claim_history
    contra,      \* committed CONTRADICT rows of the journal: <<winner, loser>>
    reliability, \* wins and losses of the source of each claim
    parked,      \* an open prospective item for the topic
    traced,      \* in memory: claims a stored trace ranked familiar, not yet suppressed
    pass,        \* the pass in progress
    boosts,      \* history variable: compounding writes to each claim
    events, faults

maintenanceVars == <<rows, history, contra, reliability, parked, traced, pass, boosts, events, faults>>

Statuses == {"none", "active", "contradicted", "retired"}
\* Activation is null until the first touch; silent is 0, loud is at least
\* DIVERGENCE_ACTIVATION_MIN.
Activations == {"null", "silent", "quiet", "loud"}
\* The instant decay counts from: the last decay row, else the last access,
\* else the last update.
Clocks == {"update", "access", "decay"}
ClaimRows ==
    [status : Statuses, times : 0..MaxTimes, confidence : 0..MaxConfidence,
     locked : BOOLEAN, activation : Activations, typed : BOOLEAN,
     related : SUBSET Rowids, clock : Clocks,
     due : BOOLEAN,        \* grace, shield and decay clock let decayStep bill
     accessed : BOOLEAN]   \* last_accessed_at is not the one the last boost answered

\* compound: the times_observed of the latest compound row; gist: the family of
\* the latest proposal; idle: ACTIVATION_MIN_INTERVAL_MS since the activate row.
HistoryRows == [compound : 0..MaxTimes, gist : SUBSET Rowids, idle : BOOLEAN]

Stages == {"idle", "traces", "suppressed", "turn", "record", "revise", "charged",
           "demoted", "linked", "boosted", "faded", "spread", "diverge"}
Passes ==
    [pc : Stages,
     rest : SUBSET Rowids,                     \* claims whose turn is still to come
     snap : [Rowids -> ClaimRows],             \* listClaims at the start
     cur : 0..N,
     todo : SUBSET Rowids,                     \* contenders, or neighbours, still to write
     winner : 0..N]

Absent ==
    [status |-> "none", times |-> 0, confidence |-> 0, locked |-> FALSE,
     activation |-> "null", typed |-> FALSE, related |-> {}, clock |-> "update",
     due |-> FALSE, accessed |-> FALSE]
NoPass ==
    [pc |-> "idle", rest |-> {}, snap |-> [c \in Rowids |-> Absent], cur |-> 0,
     todo |-> {}, winner |-> 0]

Fresh(times, confidence) ==
    [Absent EXCEPT !.status = "active", !.times = times, !.confidence = confidence]

\* Promotion has left some claims active.
MaintenanceInit ==
    /\ \E n \in Rowids, t \in 1..MaxTimes, k \in 0..MaxConfidence :
           rows = [c \in Rowids |-> IF c <= n THEN Fresh(t, k) ELSE Absent]
    /\ history = [c \in Rowids |-> [compound |-> 0, gist |-> {}, idle |-> FALSE]]
    /\ contra = {} /\ reliability = [c \in Rowids |-> [wins |-> 0, losses |-> 0]]
    /\ parked = FALSE /\ traced = {}
    /\ pass = NoPass
    /\ boosts = [c \in Rowids |-> 0]
    /\ events = 0 /\ faults = 0

-----------------------------------------------------------------------------
(* the claims *)

Existing == {c \in Rowids : rows[c].status # "none"}
Active == {c \in Rowids : rows[c].status = "active"}

\* A write stamps updated_at: a claim that was neither read nor decayed is
\* neglected only from now on.
Write(c, row) ==
    rows' = [rows EXCEPT ![c] =
                 [row EXCEPT !.due = IF row.clock = "update" THEN FALSE ELSE @]]

\* addRelated writes only what is new.
AddRelated(c, ids) ==
    IF ids \ {c} \subseteq rows[c].related
    THEN UNCHANGED rows
    ELSE Write(c, [rows[c] EXCEPT !.related = @ \cup (ids \ {c})])

\* pickRevisionWinner: authority, then corroboration. Recency compares the
\* updated_at of any write, equal within a millisecond: any of the best may win.
Outranks(c, d) ==
    IF (c \in Promoted) # (d \in Promoted)
    THEN c \in Promoted
    ELSE rows[c].times > rows[d].times
Winners(S) == {c \in S : \A d \in S : ~Outranks(d, c)}

-----------------------------------------------------------------------------
(* the world between passes *)

Event ==
    /\ pass = NoPass
    /\ events < MaxEvents
    /\ events' = events + 1

\* Promotion creates and activates a claim; times and confidence are what the
\* evidence it was given so far amounts to.
Promote(c, times, confidence) ==
    /\ Event
    /\ rows[c].status = "none" /\ c - 1 \in Existing \cup {0}
    /\ Write(c, Fresh(times, confidence))
    /\ UNCHANGED <<history, contra, reliability, parked, traced, pass, boosts, faults>>

\* A promotion that contradicts: the loser is demoted, the journal keeps the pair.
Contradict(c, loser) ==
    /\ Event
    /\ rows[c].status = "active" /\ rows[loser].status = "active" /\ c # loser
    /\ Write(loser, [rows[loser] EXCEPT !.status = "contradicted"])
    /\ contra' = contra \cup {<<c, loser>>}
    /\ UNCHANGED <<history, reliability, parked, traced, pass, boosts, faults>>

\* appendEvidence
AppendEvidence(c) ==
    /\ Event
    /\ rows[c].status # "none" /\ rows[c].times < MaxTimes
    /\ Write(c, [rows[c] EXCEPT !.times = @ + 1])
    /\ UNCHANGED <<history, contra, reliability, parked, traced, pass, boosts, faults>>

\* recordAccessed of a recalled claim; its trace names the near misses.
Recall(c, familiar) ==
    /\ Event
    /\ rows[c].status # "none"
    /\ Write(c, [rows[c] EXCEPT !.accessed = TRUE, !.due = FALSE,
                    !.clock = IF @ = "update" THEN "access" ELSE @])
    /\ traced' = traced \cup familiar
    /\ UNCHANGED <<history, contra, reliability, parked, pass, boosts, faults>>

\* Neglect and the activation interval run out.
TimePasses ==
    /\ Event
    /\ rows' = [c \in Rowids |-> [rows[c] EXCEPT !.due = rows[c].status # "none"]]
    /\ history' = [c \in Rowids |-> [history[c] EXCEPT !.idle = TRUE]]
    /\ UNCHANGED <<contra, reliability, parked, traced, pass, boosts, faults>>

\* retireEligibility: of little confidence, and unread for as long as it takes.
RetireEligible(c) == ~rows[c].accessed /\ rows[c].confidence <= RETIRE_CONFIDENCE_MAX

RetireClaim(c, force) ==
    /\ Event
    /\ rows[c].status \notin {"none", "retired"}
    /\ force \/ RetireEligible(c)
    /\ Write(c, [rows[c] EXCEPT !.status = "retired"])
    /\ UNCHANGED <<history, contra, reliability, parked, traced, pass, boosts, faults>>

\* The parked question is answered or dismissed.
Answer ==
    /\ Event
    /\ parked
    /\ parked' = FALSE
    /\ UNCHANGED <<rows, history, contra, reliability, traced, pass, boosts, faults>>

-----------------------------------------------------------------------------
(* the ladder: what applies to a claim, by the snapshot of the pass *)

Snap(c) == pass.snap[c]

Compoundable(c) ==
    /\ Snap(c).times > 1
    /\ Snap(c).confidence < MaxConfidence
    /\ history[c].compound < Snap(c).times

Decayable(c) == ~Snap(c).locked /\ Snap(c).due /\ Snap(c).confidence > 0

Unlinked(c) == {d \in Rowids : <<c, d>> \in contra \/ <<d, c>> \in contra} \ Snap(c).related

\* Distinct claims of one topic have distinct evidence: a candidate is evidence
\* for the triple it states.
Siblings(c) == Existing \ {c}
\* Mutant: a family is proposed again in every pass.
AlwaysGeneralizable(c) == Cardinality(Existing) >= GIST_FAMILY_SIZE

Generalizable(c) ==
    Cardinality(Existing) >= GIST_FAMILY_SIZE /\ Siblings(c) # history[c].gist

\* revise reads the claims again.
Contested(c) == c \in Active /\ Active # {c}

Unlockable(c) == Snap(c).locked /\ Snap(c).status = "contradicted"
Lockable(c) ==
    /\ ~Snap(c).locked
    /\ Snap(c).times >= LOCK_CORROBORATION_BAR
    /\ Snap(c).confidence >= LOCK_CONFIDENCE_MIN

Touched(c) == Snap(c).accessed
Fading(c) == ~Touched(c) /\ Snap(c).activation \in {"quiet", "loud"} /\ history[c].idle

Rungs == <<"compound", "decay", "link", "gist", "revise", "lock", "activate",
           "classify", "skip">>
Applies(c, rung) ==
    CASE rung = "compound" -> Compoundable(c)
      [] rung = "decay"    -> Decayable(c)
      [] rung = "link"     -> Unlinked(c) # {}
      [] rung = "gist"     -> Generalizable(c)
      [] rung = "revise"   -> Contested(c)
      [] rung = "lock"     -> Unlockable(c) \/ Lockable(c)
      [] rung = "activate" -> Touched(c) \/ Fading(c)
      [] rung = "classify" -> ~Snap(c).typed
      [] rung = "skip"     -> TRUE
Rung(c, rung) ==
    \E n \in DOMAIN Rungs :
        /\ Rungs[n] = rung /\ Applies(c, rung)
        /\ \A m \in 1 .. n - 1 : ~Applies(c, Rungs[m])

\* maintainOne: the newest claim is next, and takes the first rung that applies.
Turn(c, rung) ==
    /\ pass.pc = "turn"
    /\ c \in pass.rest /\ \A d \in pass.rest : d <= c
    /\ Rung(c, rung)

Enter(label) == pass' = [pass EXCEPT !.pc = label]

NextTurn(c) ==
    pass' = [pass EXCEPT !.pc = "turn", !.rest = @ \ {c}, !.snap[c] = Absent,
                         !.cur = 0, !.todo = {}, !.winner = 0]

-----------------------------------------------------------------------------
(* suppressFromTraces *)

BeginPass ==
    /\ pass = NoPass
    /\ Enter("traces")
    /\ UNCHANGED <<rows, history, contra, reliability, parked, traced, boosts, events, faults>>

Softer(a) == CASE a = "loud" -> {"loud", "quiet"} [] a = "quiet" -> {"quiet", "silent"}
Suppressible == {c \in traced : rows[c].activation \in {"quiet", "loud"}}

Suppress(c, a) ==
    /\ pass.pc = "traces" /\ c \in Suppressible
    /\ a \in Softer(rows[c].activation)
    /\ Write(c, [rows[c] EXCEPT !.activation = a])
    /\ pass' = [pass EXCEPT !.pc = "suppressed", !.cur = c]
    /\ UNCHANGED <<history, contra, reliability, parked, traced, boosts, events, faults>>

\* The row that makes the trace older than the suppression.
RecordSuppress ==
    /\ pass.pc = "suppressed"
    /\ traced' = traced \ {pass.cur}
    /\ pass' = [pass EXCEPT !.pc = "traces", !.cur = 0]
    /\ UNCHANGED <<rows, history, contra, reliability, parked, boosts, events, faults>>

ListClaims ==
    /\ pass.pc = "traces" /\ Suppressible = {}
    /\ pass' = [pass EXCEPT !.pc = "turn", !.snap = rows, !.rest = Existing]
    /\ UNCHANGED <<rows, history, contra, reliability, parked, traced, boosts, events, faults>>

EndPass ==
    /\ pass.pc = "turn" /\ pass.rest = {}
    /\ pass' = NoPass
    /\ UNCHANGED <<rows, history, contra, reliability, parked, traced, boosts, events, faults>>

-----------------------------------------------------------------------------
(* the rungs *)

\* A write of the claim, to be followed by its history row.
Adjust(c, row) ==
    /\ Write(c, row)
    /\ pass' = [pass EXCEPT !.pc = "record", !.cur = c]
    /\ UNCHANGED <<history, contra, reliability, parked, traced, events, faults>>

Compound(c, next) ==
    /\ Turn(c, "compound")
    /\ next > Snap(c).confidence
    /\ boosts' = [boosts EXCEPT ![c] = @ + 1]
    /\ Adjust(c, [rows[c] EXCEPT !.confidence = next])

\* Mutant: the row names the level before this observation.
RecordCompoundBehind(c) ==
    /\ pass.pc = "record" /\ pass.cur = c /\ Compoundable(c)
    /\ history' = [history EXCEPT ![c].compound = Snap(c).times - 1]
    /\ NextTurn(c)
    /\ UNCHANGED <<rows, contra, reliability, parked, traced, boosts, events, faults>>

RecordCompound(c) ==
    /\ pass.pc = "record" /\ pass.cur = c /\ Compoundable(c)
    /\ history' = [history EXCEPT ![c].compound = Snap(c).times]
    /\ NextTurn(c)
    /\ UNCHANGED <<rows, contra, reliability, parked, traced, boosts, events, faults>>

Decay(c, next) ==
    /\ Turn(c, "decay")
    /\ next < Snap(c).confidence
    /\ UNCHANGED boosts
    /\ Adjust(c, [rows[c] EXCEPT !.confidence = next])

\* The decay clock starts from the row.
RecordDecay(c) ==
    /\ pass.pc = "record" /\ pass.cur = c /\ ~Compoundable(c)
    /\ rows' = [rows EXCEPT ![c].clock = "decay", ![c].due = FALSE]
    /\ NextTurn(c)
    /\ UNCHANGED <<history, contra, reliability, parked, traced, boosts, events, faults>>

\* No rung reads the link row.
LinkCounterparts(c) ==
    /\ Turn(c, "link")
    /\ AddRelated(c, Unlinked(c))
    /\ NextTurn(c)
    /\ UNCHANGED <<history, contra, reliability, parked, traced, boosts, events, faults>>

ProposeGist(c) ==
    /\ Turn(c, "gist")
    /\ history' = [history EXCEPT ![c].gist = Siblings(c)]
    /\ NextTurn(c)
    /\ UNCHANGED <<rows, contra, reliability, parked, traced, boosts, events, faults>>

-----------------------------------------------------------------------------
(* revise *)

Revise(c, winner) ==
    /\ Turn(c, "revise")
    /\ winner \in Winners(Active)
    /\ pass' = [pass EXCEPT !.pc = "revise", !.cur = c, !.todo = Active, !.winner = winner]
    /\ UNCHANGED <<rows, history, contra, reliability, parked, traced, boosts, events, faults>>

\* The claim of the turn first, then its rivals, newest first.
Contender(c) ==
    /\ c \in pass.todo
    /\ c = pass.cur \/ (pass.cur \notin pass.todo /\ \A d \in pass.todo : d <= c)

\* Mutant: the winner's branch falls through to the demotion.
AffirmAndDemote(c) ==
    /\ pass.pc = "revise" /\ Contender(c) /\ c = pass.winner
    /\ reliability' = [reliability EXCEPT ![c].wins = @ + 1]
    /\ Enter("charged")
    /\ UNCHANGED <<rows, history, contra, parked, traced, boosts, events, faults>>

\* The win, and a row no rung reads.
AffirmWinner(c) ==
    /\ pass.pc = "revise" /\ Contender(c) /\ c = pass.winner
    /\ reliability' = [reliability EXCEPT ![c].wins = @ + 1]
    /\ pass' = [pass EXCEPT !.todo = @ \ {c}]
    /\ UNCHANGED <<rows, history, contra, parked, traced, boosts, events, faults>>

ChargeLoser(c) ==
    /\ pass.pc = "revise" /\ Contender(c) /\ c # pass.winner
    /\ reliability' = [reliability EXCEPT ![c].losses = @ + 1]
    /\ Enter("charged")
    /\ UNCHANGED <<rows, history, contra, parked, traced, boosts, events, faults>>

DemoteLoser(c) ==
    /\ pass.pc = "charged" /\ Contender(c)
    /\ Write(c, [rows[c] EXCEPT !.status = "contradicted"])
    /\ Enter("demoted")
    /\ UNCHANGED <<history, contra, reliability, parked, traced, boosts, events, faults>>

\* After the row of the loser, which no rung reads.
LinkLoser(c) ==
    /\ pass.pc = "demoted" /\ Contender(c)
    /\ AddRelated(c, {pass.winner})
    /\ Enter("linked")
    /\ UNCHANGED <<history, contra, reliability, parked, traced, boosts, events, faults>>

LinkWinner(c) ==
    /\ pass.pc = "linked" /\ Contender(c)
    /\ AddRelated(pass.winner, {c})
    /\ pass' = [pass EXCEPT !.pc = "revise", !.todo = @ \ {c}]
    /\ UNCHANGED <<history, contra, reliability, parked, traced, boosts, events, faults>>

\* sessionMates: claims whose evidence comes from the same sessions.
AnchorWinner(c, mates) ==
    /\ pass.pc = "revise" /\ pass.cur = c /\ pass.todo = {}
    /\ AddRelated(pass.winner, mates)
    /\ NextTurn(c)
    /\ UNCHANGED <<history, contra, reliability, parked, traced, boosts, events, faults>>

-----------------------------------------------------------------------------
(* locks, activation, classification *)

\* A locked loser is unlocked; a corroborated, confident claim is locked.
MaintainLock(c) ==
    /\ Turn(c, "lock")
    /\ Write(c, [rows[c] EXCEPT !.locked = Lockable(c)])
    /\ NextTurn(c)
    /\ UNCHANGED <<history, contra, reliability, parked, traced, boosts, events, faults>>

\* activationBoost and the spread share: 0.3 at most, from null as from 0.
Louder(a) == IF a \in {"null", "silent"} THEN {"quiet"}
             ELSE IF a = "quiet" THEN {"quiet", "loud"} ELSE {"loud"}

\* The new value is computed from the snapshot.
Boost(c, a) ==
    /\ Turn(c, "activate") /\ Touched(c)
    /\ a \in Louder(Snap(c).activation)
    /\ Write(c, [rows[c] EXCEPT !.activation = a])
    /\ pass' = [pass EXCEPT !.pc = "boosted", !.cur = c]
    /\ UNCHANGED <<history, contra, reliability, parked, traced, boosts, events, faults>>

\* The row names the access it answered.
RecordBoost(c) ==
    /\ pass.pc = "boosted" /\ pass.cur = c
    /\ rows' = [rows EXCEPT ![c].accessed = FALSE]
    /\ history' = [history EXCEPT ![c].idle = FALSE]
    /\ pass' = [pass EXCEPT !.pc = "spread", !.todo = Snap(c).related]
    /\ UNCHANGED <<contra, reliability, parked, traced, boosts, events, faults>>

Spread(c, a) ==
    /\ pass.pc = "spread" /\ c \in pass.todo /\ \A d \in pass.todo : d <= c
    /\ a \in Louder(rows[c].activation)
    /\ Write(c, [rows[c] EXCEPT !.activation = a])
    /\ history' = [history EXCEPT ![c].idle = FALSE]
    /\ pass' = [pass EXCEPT !.todo = @ \ {c}]
    /\ UNCHANGED <<contra, reliability, parked, traced, boosts, events, faults>>

Fade(c, a) ==
    /\ Turn(c, "activate") /\ Fading(c)
    /\ a \in Softer(Snap(c).activation)
    /\ Write(c, [rows[c] EXCEPT !.activation = a])
    /\ pass' = [pass EXCEPT !.pc = "faded", !.cur = c]
    /\ UNCHANGED <<history, contra, reliability, parked, traced, boosts, events, faults>>

RecordFade(c) ==
    /\ pass.pc = "faded" /\ pass.cur = c
    /\ history' = [history EXCEPT ![c].idle = FALSE]
    /\ Enter("diverge")
    /\ UNCHANGED <<rows, contra, reliability, parked, traced, boosts, events, faults>>

\* checkDivergence: loud, active and doubted.
Divergent(c) ==
    /\ rows[c].status = "active" /\ rows[c].activation = "loud"
    /\ rows[c].confidence <= DIVERGENCE_CONFIDENCE_MAX

CheckDivergence(c) ==
    /\ pass.cur = c
    /\ pass.pc = "diverge" \/ (pass.pc = "spread" /\ pass.todo = {})
    /\ parked' = (parked \/ Divergent(c))
    /\ NextTurn(c)
    /\ UNCHANGED <<rows, history, contra, reliability, traced, boosts, events, faults>>

Classify(c) ==
    /\ Turn(c, "classify")
    /\ Write(c, [rows[c] EXCEPT !.typed = TRUE])
    /\ NextTurn(c)
    /\ UNCHANGED <<history, contra, reliability, parked, traced, boosts, events, faults>>

Skip(c) ==
    /\ Turn(c, "skip")
    /\ NextTurn(c)
    /\ UNCHANGED <<rows, history, contra, reliability, parked, traced, boosts, events, faults>>

-----------------------------------------------------------------------------
(* faults *)

Fault == faults < MaxFaults /\ faults' = faults + 1

\* runPass catches what a turn throws, and goes on with the next claim.
TurnThrows(c) ==
    /\ Fault
    /\ pass.pc \notin {"idle", "traces", "suppressed"}
    /\ c \in pass.rest /\ \A d \in pass.rest : d <= c
    /\ NextTurn(c)
    /\ UNCHANGED <<rows, history, contra, reliability, parked, traced, boosts, events>>

\* What suppressFromTraces throws ends the pass.
PassThrows ==
    /\ Fault
    /\ pass.pc \in {"traces", "suppressed"}
    /\ pass' = NoPass
    /\ UNCHANGED <<rows, history, contra, reliability, parked, traced, boosts, events>>

\* The traces are process-local.
ProcessDies ==
    /\ Fault
    /\ pass # NoPass
    /\ pass' = NoPass /\ traced' = {}
    /\ UNCHANGED <<rows, history, contra, reliability, parked, boosts, events>>

-----------------------------------------------------------------------------

Environment ==
    \/ \E c \in Rowids, t \in 1..MaxTimes, k \in 0..MaxConfidence : Promote(c, t, k)
    \/ \E c, d \in Rowids : Contradict(c, d)
    \/ \E c \in Rowids : AppendEvidence(c) \/ RetireClaim(c, TRUE) \/ RetireClaim(c, FALSE)
    \/ \E c \in Rowids, familiar \in SUBSET Existing : Recall(c, familiar \ {c})
    \/ TimePasses \/ Answer

PassStep ==
    \/ BeginPass \/ RecordSuppress \/ ListClaims \/ EndPass
    \/ \E c \in Rowids, a \in Activations :
           Suppress(c, a) \/ Boost(c, a) \/ Spread(c, a) \/ Fade(c, a)
    \/ \E c \in Rowids, k \in 0..MaxConfidence : Compound(c, k) \/ Decay(c, k)
    \/ \E c, w \in Rowids : Revise(c, w)
    \/ \E c \in Rowids, mates \in SUBSET Existing : AnchorWinner(c, mates)
    \/ \E c \in Rowids :
           \/ RecordCompound(c) \/ RecordDecay(c) \/ LinkCounterparts(c) \/ ProposeGist(c)
           \/ AffirmWinner(c) \/ ChargeLoser(c) \/ DemoteLoser(c)
           \/ LinkLoser(c) \/ LinkWinner(c)
           \/ MaintainLock(c) \/ RecordBoost(c) \/ RecordFade(c) \/ CheckDivergence(c)
           \/ Classify(c) \/ Skip(c)

Faults == PassThrows \/ ProcessDies \/ \E c \in Rowids : TurnThrows(c)

MaintenanceNext == Environment \/ PassStep \/ Faults

\* The interval timer starts pass after pass, and a pass runs to its end.
MaintenanceSpec == MaintenanceInit /\ [][MaintenanceNext]_maintenanceVars /\ WF_maintenanceVars(PassStep)

-----------------------------------------------------------------------------

MaintenanceTypeOK ==
    /\ rows \in [Rowids -> ClaimRows]
    /\ history \in [Rowids -> HistoryRows]
    /\ contra \subseteq Rowids \X Rowids
    /\ reliability \in [Rowids -> [wins : Nat, losses : Nat]]
    /\ parked \in BOOLEAN /\ traced \subseteq Rowids
    /\ pass \in Passes
    /\ boosts \in [Rowids -> Nat]
    /\ events \in 0..MaxEvents /\ faults \in 0..MaxFaults

\* Confidence is raised once for each observation after the first, and a source
\* is charged with one lost revision, whatever passes repeat: only a fault
\* between a write and the row that remembers it buys one more.
ReplaysNeedFaults ==
    \A c \in Existing :
        /\ boosts[c] <= rows[c].times - 1 + faults
        /\ reliability[c].losses <= 1 + faults

\* However a pass over rivals is cut short, it never takes the last active
\* claim of the topic: the winner was chosen before the first demotion.
PassKeepsAHead == [][events' = events /\ Active # {} => Active' # {}]_maintenanceVars

\* Rivals that promotion left standing are revised to one head, although
\* compounding, decay, links and gists come first in every turn.
RivalsAreResolved == (Cardinality(Active) > 1) ~> (Cardinality(Active) <= 1)

\* A locked claim that loses is unlocked, for good: once the world is still, no
\* loser is locked. The bar for locking looks at corroboration and confidence
\* only, and a loser keeps both.
LosersUnlock == \A c \in Rowids : <>[](rows[c].status = "contradicted" => ~rows[c].locked)
=============================================================================
