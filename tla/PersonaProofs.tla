--------------------------- MODULE PersonaProofs ----------------------------
(* The persona for any statements, core files, seeds, reviewers and bounds. *)
EXTENDS Persona, TLAPS

Labels == {"idle", "refused", "embedding", "measured", "applied", "updated"}

\* The types of what the reviews and the seed file write.
Typed ==
    /\ entries \subseteq Statements /\ file \subseteq Statements
    /\ record \in [RecordIds -> Records]
    /\ cand \in [CandidateIds -> Candidates]
    /\ streak \in Streaks
    /\ rev \in [Reviewers -> Reviews]
    /\ applied \subseteq CandidateIds
    /\ events \in 0..MaxEvents /\ faults \in 0..MaxFaults

\* The stores no review depends on.
Stored ==
    /\ up \in BOOLEAN /\ saved \in CoreStates
    /\ facts \in Facts /\ rel \in Relationships
    /\ open \subseteq Findings

LEMMA TypeParts == Typed /\ Stored <=> TypeOK
BY DEF Typed, Stored, TypeOK

LEMMA Ids ==
    /\ NoStatement \notin Statements /\ NoSlot \notin Slots
    /\ Slots \subseteq RecordIds /\ Statements \subseteq RecordIds
    /\ \A c \in CandidateIds : /\ c[2] \in Statements /\ c[1] \in Slots \cup {NoSlot}
                               /\ c = <<c[1], c[2]>>
    /\ MinCycles \in Nat /\ MinCycles # 0 /\ MaxEvents \in Nat /\ MaxFaults \in Nat
BY PersonaAssumption DEF RecordIds, CandidateIds

LEMMA InitTyped == Init => Typed
<1> SUFFICES ASSUME Init PROVE Typed
    OBVIOUS
<1>1. entries \subseteq Statements /\ file \subseteq Statements
    BY PersonaAssumption DEF Init
<1>2. record \in [RecordIds -> Records]
  <2>1. PICK b \in [Slots -> {NoRecord} \cup Touched] :
           record = [r \in RecordIds |-> IF r \in Slots THEN b[r] ELSE NoRecord]
    BY DEF Init
  <2>2. NoRecord \in Records
    BY DEF NoRecord, Records
  <2>3. Touched \subseteq Records
    BY PersonaAssumption DEF Touched, Records
  <2>q. QED
    BY <2>1, <2>2, <2>3
<1>3. cand \in [CandidateIds -> Candidates]
    BY DEF Init, Candidates
<1>4. streak \in Streaks
    BY Ids DEF Init, Streaks
<1>5. rev \in [Reviewers -> Reviews]
    BY DEF Init, NoReview, Reviews
<1>q. QED
    BY <1>1, <1>2, <1>3, <1>4, <1>5, Ids DEF Init, Typed

\* A record that is written, and a candidate that is decided.
LEMMA RecordWritten ==
    ASSUME Typed, NEW r \in RecordIds, NEW x \in Statements, NEW p \in BOOLEAN,
           NEW source \in {"seed", "review"}, NEW seeded \in Statements \cup {NoStatement},
           CreateRecord(r, x, p, source, seeded)
    PROVE  /\ record' \in [RecordIds -> Records]
           /\ record'[r].source = source /\ record'[r].content = x
           /\ \A s \in RecordIds : s # r => record'[s] = record[s]
<1> DEFINE n == [content |-> x, protected |-> p, source |-> source, seeded |-> seeded]
<1>1. n \in Records /\ n.source = source /\ n.content = x
    BY DEF Records
<1>2. record' = [record EXCEPT ![r] = n] /\ record \in [RecordIds -> Records]
    BY DEF CreateRecord, Typed
<1> HIDE DEF n
<1>q. QED
    BY <1>1, <1>2

LEMMA StagedCandidate ==
    ASSUME Typed, NEW c \in CandidateIds, StageCandidate(c)
    PROVE  /\ cand' \in [CandidateIds -> Candidates]
           /\ \A d \in CandidateIds : cand[d].status # "none" => cand'[d] = cand[d]
<1>1. NewCandidate \in Candidates
    BY DEF NewCandidate, Candidates
<1>2. cand \in [CandidateIds -> Candidates]
    BY DEF Typed
<1>3. cand'[c] \in {cand[c], NewCandidate} /\ (cand[c].status # "none" => cand'[c] = cand[c])
    BY <1>2 DEF StageCandidate
<1>4. cand' = [d \in CandidateIds |-> IF d = c THEN cand'[c] ELSE cand[d]]
    BY <1>2 DEF StageCandidate
<1>q. QED
    BY <1>1, <1>2, <1>3, <1>4

LEMMA DecidedCandidate ==
    ASSUME Typed, NEW c \in CandidateIds, NEW o \in Outcomes \cup {"none"}, UpdateCandidateReview(c, o)
    PROVE  /\ cand' \in [CandidateIds -> Candidates]
           /\ cand'[c].outcome = o
           /\ o # "needs_more_evidence" => cand'[c].status = "reviewed"
           /\ \A d \in CandidateIds : d # c => cand'[d] = cand[d]
<1> DEFINE n == [status |-> IF o = "needs_more_evidence" THEN "pending" ELSE "reviewed", outcome |-> o]
<1>1. n \in Candidates /\ n.outcome = o /\ (o # "needs_more_evidence" => n.status = "reviewed")
    BY DEF Candidates
<1>2. cand' = [cand EXCEPT ![c] = n] /\ cand \in [CandidateIds -> Candidates]
    BY DEF UpdateCandidateReview, Typed
<1> HIDE DEF n
<1>q. QED
    BY <1>1, <1>2

\* A review that begins.
LEMMA ReviewBegun ==
    ASSUME Typed, NEW p \in Reviewers, NEW c \in CandidateIds, NEW o \in Outcomes, NEW label \in Labels,
           Begin(p, c, o, label)
    PROVE  /\ rev' \in [Reviewers -> Reviews]
           /\ rev'[p].pc = label /\ rev'[p].cand = c /\ rev'[p].outcome = o
           /\ \A q \in Reviewers : q # p => rev'[q] = rev[q]
<1> DEFINE n == [pc |-> label, cand |-> c, outcome |-> o, drift |-> FALSE]
<1>1. n \in Reviews /\ n.pc = label /\ n.cand = c /\ n.outcome = o
    BY DEF Reviews, Labels
<1>2. rev' = [rev EXCEPT ![p] = n] /\ rev \in [Reviewers -> Reviews]
    BY DEF Begin, Typed
<1> HIDE DEF n
<1>q. QED
    BY <1>1, <1>2

LEMMA ReviewGoesOn ==
    ASSUME Typed, NEW p \in Reviewers, NEW label \in Labels, Goto(p, label)
    PROVE  /\ rev' \in [Reviewers -> Reviews]
           /\ rev'[p].pc = label /\ rev'[p].cand = rev[p].cand /\ rev'[p].outcome = rev[p].outcome
           /\ \A q \in Reviewers : q # p => rev'[q] = rev[q]
<1> DEFINE n == [rev[p] EXCEPT !.pc = label]
<1>1. rev[p] \in Reviews /\ rev \in [Reviewers -> Reviews]
    BY DEF Typed
<1>2. n \in Reviews /\ n.pc = label /\ n.cand = rev[p].cand /\ n.outcome = rev[p].outcome
    BY <1>1 DEF Reviews, Labels
<1>3. rev' = [rev EXCEPT ![p] = n]
    BY <1>1 DEF Goto
<1> HIDE DEF n
<1>q. QED
    BY <1>1, <1>2, <1>3

LEMMA ReviewOver ==
    ASSUME Typed, NEW p \in Reviewers, rev' = [rev EXCEPT ![p] = NoReview]
    PROVE  /\ rev' \in [Reviewers -> Reviews] /\ rev'[p] = NoReview
           /\ \A q \in Reviewers : q # p => rev'[q] = rev[q]
<1>1. NoReview \in Reviews
    BY DEF NoReview, Reviews
<1>q. QED
    BY <1>1 DEF Typed

\* A trend that is recorded breaks the streak, or makes it one longer.
LEMMA TrendRecorded ==
    ASSUME Typed, NEW r \in RecordIds, NEW high \in BOOLEAN, RecordDriftTrend(r, high)
    PROVE  /\ streak' \in Streaks
           /\ \A s \in RecordIds : s # r => streak'[s] = streak[s]
           /\ \/ streak'[r] = 0
              \/ streak[r] >= MinCycles /\ streak'[r] = streak[r]
              \/ streak[r] < MinCycles /\ streak'[r] = streak[r] + 1
<1> DEFINE n == IF ~high THEN 0 ELSE IF streak[r] < MinCycles THEN streak[r] + 1 ELSE streak[r]
<1>1. streak \in [RecordIds -> 0..MinCycles] /\ streak[r] \in 0..MinCycles /\ MinCycles \in Nat
    BY Ids DEF Typed, Streaks
<1>2. streak' = [streak EXCEPT ![r] = n]
    BY DEF RecordDriftTrend
<1>3. /\ n \in 0..MinCycles
      /\ n = 0 \/ (streak[r] >= MinCycles /\ n = streak[r]) \/ (streak[r] < MinCycles /\ n = streak[r] + 1)
    BY <1>1
<1> HIDE DEF n
<1>q. QED
    BY <1>1, <1>2, <1>3 DEF Streaks

-----------------------------------------------------------------------------
(* the reviews under way                                                    *)

\* What a review works on: one that waits for the embedder has replaced the
\* content of a slot, against no entry of the core.
Sound(p) ==
    LET r == rev[p] IN
    /\ r.pc = "idle" <=> r = NoReview
    /\ r.pc # "idle" => up /\ r.cand \in CandidateIds /\ r.outcome \in Outcomes
    /\ r.pc = "refused" => r.outcome \in Approvals
    /\ r.pc \in {"embedding", "measured"} => r.outcome = "approve_to_identity" /\ r.cand[1] \in Slots
    /\ r.pc = "embedding" => ~ConflictsWithCore(r.cand)

\* Between two awaits a review has the process to itself.
Alone == \A p, q \in Running : p = q

\* What a review wrote into a record is there.
Filled == \A r \in RecordIds : record[r].source = "review" => record[r].content # NoStatement

Inv == Typed /\ Alone /\ Filled /\ \A p \in Reviewers : Sound(p)

\* The bounds are kept.
LEMMA Counted ==
    ASSUME Typed,
           events' = events \/ (events < MaxEvents /\ events' = events + 1),
           faults' = faults \/ (faults < MaxFaults /\ faults' = faults + 1)
    PROVE  events' \in 0..MaxEvents /\ faults' \in 0..MaxFaults
BY Ids DEF Typed

LEMMA SameReviews ==
    ASSUME Inv, UNCHANGED <<rev, up, entries>>
    PROVE  Alone' /\ \A p \in Reviewers : Sound(p)'
BY DEF Inv, Alone, Running, Sound, ConflictsWithCore

\* One review moves while no other runs.
LEMMA OneReview ==
    ASSUME Inv, UNCHANGED <<up, entries>>, NEW p \in Reviewers, Running \subseteq {p},
           \A q \in Reviewers : q # p => rev'[q] = rev[q], Sound(p)'
    PROVE  Alone' /\ \A q \in Reviewers : Sound(q)'
<1>1. Running' \subseteq {p}
    BY DEF Running
<1>2. ASSUME NEW q \in Reviewers, q # p PROVE Sound(q)'
    BY <1>2 DEF Inv, Sound, ConflictsWithCore
<1>q. QED
    BY <1>1, <1>2 DEF Alone

LEMMA RequestsKeep ==
    ASSUME Inv,
           \/ \E statements \in CoreFiles : EditCore(statements)
           \/ TimePasses \/ Audit
           \/ \E x \in Observations, evaluated \in BOOLEAN : Stage(x, evaluated)
           \/ \E s \in Slots, x \in Seeds, protected \in BOOLEAN : Import(s, x, protected)
    PROVE  Inv'
<1>1. UNCHANGED <<rev, up, entries, streak, applied>>
    BY DEF EditCore, TimePasses, Audit, Stage, Import
<1>2. file' \subseteq Statements
    BY PersonaAssumption DEF EditCore, TimePasses, Audit, Stage, Import, Inv, Typed
<1>3. events' \in 0..MaxEvents /\ faults' \in 0..MaxFaults
  <2>1. /\ events' = events \/ (events < MaxEvents /\ events' = events + 1)
        /\ faults' = faults \/ (faults < MaxFaults /\ faults' = faults + 1)
    BY DEF EditCore, TimePasses, Audit, Stage, Import, Event
  <2>q. QED
    BY <2>1, Counted DEF Inv
<1>4. record' \in [RecordIds -> Records] /\ Filled' /\ cand' \in [CandidateIds -> Candidates]
  <2>1. CASE UNCHANGED <<record, cand>>
    BY <2>1 DEF Inv, Typed, Filled
  <2>2. ASSUME NEW x \in Observations, NEW evaluated \in BOOLEAN, Stage(x, evaluated)
        PROVE  record' \in [RecordIds -> Records] /\ Filled' /\ cand' \in [CandidateIds -> Candidates]
    <3>1. <<NoSlot, x>> \in CandidateIds
      BY PersonaAssumption DEF CandidateIds
    <3>2. StageCandidate(<<NoSlot, x>>) /\ record' = record
      BY <2>2 DEF Stage
    <3>q. QED
      BY <3>1, <3>2, StagedCandidate DEF Inv, Typed, Filled
  <2>3. ASSUME NEW s \in Slots, NEW x \in Seeds, NEW protected \in BOOLEAN, Import(s, x, protected)
        PROVE  record' \in [RecordIds -> Records] /\ Filled' /\ cand' \in [CandidateIds -> Candidates]
    <3>1. <<s, x>> \in CandidateIds /\ x \in Statements /\ s \in RecordIds
      BY PersonaAssumption DEF CandidateIds, RecordIds
    <3>2. CASE StageCandidate(<<s, x>>) /\ UNCHANGED record
      BY <3>1, <3>2, StagedCandidate DEF Inv, Typed, Filled
    <3>3. CASE CreateRecord(s, x, protected, "seed", x) /\ UNCHANGED cand
      BY <3>1, <3>3, RecordWritten DEF Inv, Typed, Filled
    <3>q. QED
      BY <2>3, <3>2, <3>3 DEF Import
  <2>4. CASE \/ \E statements \in CoreFiles : EditCore(statements)
             \/ TimePasses \/ Audit
    BY <2>1, <2>4 DEF EditCore, TimePasses, Audit
  <2>q. QED
    BY <2>2, <2>3, <2>4
<1>q. QED
  <2>1. Alone' /\ \A p \in Reviewers : Sound(p)'
    BY <1>1, SameReviews
  <2>2. Typed'
    BY <1>1, <1>2, <1>3, <1>4 DEF Inv, Typed
  <2>q. QED
    BY <1>4, <2>1, <2>2 DEF Inv

LEMMA StartsKeep ==
    ASSUME Inv, Boot \/ Stop \/ Crash
    PROVE  Inv'
<1>1. UNCHANGED <<file, record, cand, streak, applied>> /\ entries' \in {file, {}}
    BY DEF Boot, Stop, Crash
<1>2. \A p \in Reviewers : rev'[p] = NoReview
  <2>1. CASE Boot
    <3>1. \A p \in Reviewers : rev[p] = NoReview
      BY <2>1 DEF Boot, Inv, Sound
    <3>q. QED
      BY <2>1, <3>1 DEF Boot
  <2>2. CASE Stop
    BY <2>2 DEF Stop
  <2>3. CASE Crash
    BY <2>3 DEF Crash
  <2>q. QED
    BY <2>1, <2>2, <2>3
<1>3. rev' \in [Reviewers -> Reviews]
  <2>1. NoReview \in Reviews
    BY DEF NoReview, Reviews
  <2>q. QED
    BY <2>1 DEF Boot, Stop, Crash, Inv, Typed
<1>4. events' \in 0..MaxEvents /\ faults' \in 0..MaxFaults
  <2>1. /\ events' = events \/ (events < MaxEvents /\ events' = events + 1)
        /\ faults' = faults \/ (faults < MaxFaults /\ faults' = faults + 1)
    BY DEF Boot, Stop, Crash, Event
  <2>q. QED
    BY <2>1, Counted DEF Inv
<1>5. Alone' /\ \A p \in Reviewers : Sound(p)'
  <2>1. \A p \in Reviewers : rev'[p].pc = "idle"
    BY <1>2 DEF NoReview
  <2>q. QED
    BY <1>2, <2>1 DEF Alone, Running, Sound
<1>6. Typed'
    BY <1>1, <1>3, <1>4 DEF Inv, Typed
<1>q. QED
    BY <1>1, <1>5, <1>6 DEF Inv, Filled

LEMMA BeginsKeep ==
    ASSUME Inv, NEW p \in Reviewers, NEW c \in CandidateIds,
           \/ ApplyIdentity(p, c) \/ ApplyUserModel(p, c) \/ ApplyRelationship(p, c)
           \/ \E o \in Decisions : Refuse(p, c, o) \/ Dispose(p, c, o)
    PROVE  /\ Inv' /\ rev[p] = NoReview /\ c \in Pending /\ Running = {}
           /\ \A q \in Reviewers : q # p => rev'[q] = rev[q]
           /\ rev'[p].cand = c
           /\ UNCHANGED <<entries, cand, open, streak, faults>>
           /\ \/ /\ rev'[p].pc = "refused" /\ ConflictsWithCore(c) /\ applied' = applied
              \/ /\ rev'[p].pc \in {"embedding", "applied"} /\ rev'[p].outcome \in Approvals
                 /\ applied' = applied \cup {c}
              \/ /\ rev'[p].pc = "applied" /\ rev'[p].outcome \notin Approvals /\ applied' = applied
<1>1. /\ Event /\ up /\ rev[p] = NoReview /\ c \in Pending /\ Running = {}
      /\ UNCHANGED <<file, up, entries, saved, cand, open, streak, faults>>
    BY DEF ApplyIdentity, ApplyUserModel, ApplyRelationship, Refuse, Dispose, Review, Event
<1>2. PICK o \in Outcomes, label \in {"refused", "embedding", "applied"} :
        /\ Begin(p, c, o, label)
        /\ label = "embedding" => o = "approve_to_identity" /\ ~ConflictsWithCore(c) /\ c[1] # NoSlot
        /\ \/ label = "refused" /\ ConflictsWithCore(c) /\ applied' = applied /\ o \in Approvals
           \/ label \in {"embedding", "applied"} /\ o \in Approvals /\ applied' = applied \cup {c}
           \/ label = "applied" /\ o \notin Approvals /\ applied' = applied
  <2>1. CASE ApplyIdentity(p, c)
    <3> DEFINE r == IF c[1] = NoSlot THEN c[2] ELSE c[1]
               existing == c[1] # NoSlot /\ record[r].content # NoStatement
               label == IF existing /\ record[r].content # c[2] THEN "embedding" ELSE "applied"
    <3>1. /\ Begin(p, c, "approve_to_identity", label) /\ applied' = applied \cup {c}
          /\ ~ConflictsWithCore(c)
      BY <2>1 DEF ApplyIdentity
    <3>2. label \in {"embedding", "applied"} /\ (label = "embedding" => c[1] # NoSlot)
      OBVIOUS
    <3>3. "approve_to_identity" \in Approvals /\ Approvals \subseteq Outcomes
      BY DEF Outcomes, Approvals
    <3> HIDE DEF label
    <3>q. QED
      BY <3>1, <3>2, <3>3
  <2>2. CASE ApplyUserModel(p, c)
    BY <2>2 DEF ApplyUserModel, Outcomes, Approvals
  <2>3. CASE ApplyRelationship(p, c)
    BY <2>3 DEF ApplyRelationship, Outcomes, Approvals
  <2>4. ASSUME NEW o \in Decisions, Refuse(p, c, o)
        PROVE  /\ Begin(p, c, o, "refused") /\ ConflictsWithCore(c) /\ applied' = applied
               /\ o \in Approvals /\ o \in Outcomes
    BY <2>4 DEF Refuse, Outcomes
  <2>5. ASSUME NEW o \in Decisions, Dispose(p, c, o)
        PROVE  /\ Begin(p, c, o, "applied") /\ applied' = applied
               /\ o \notin Approvals /\ o \in Outcomes
    BY <2>5, PersonaAssumption DEF Dispose
  <2>q. QED
    BY <2>1, <2>2, <2>3, <2>4, <2>5
<1>3. /\ rev' \in [Reviewers -> Reviews]
      /\ rev'[p].pc = label /\ rev'[p].cand = c /\ rev'[p].outcome = o
      /\ \A q \in Reviewers : q # p => rev'[q] = rev[q]
  <2>1. Typed /\ label \in Labels
    BY DEF Inv, Labels
  <2>q. QED
    BY <1>2, <2>1, ReviewBegun
<1>4. record' \in [RecordIds -> Records] /\ Filled'
  <2>1. CASE record' = record
    BY <2>1 DEF Inv, Typed, Filled
  <2>2. CASE ApplyIdentity(p, c)
    <3>1. PICK r \in RecordIds : r = IF c[1] = NoSlot THEN c[2] ELSE c[1]
      BY Ids
    <3>2. PICK protected \in BOOLEAN : CreateRecord(r, c[2], protected, "review", record[r].seeded)
      <4> DEFINE e == (c[1] # NoSlot /\ record[r].content # NoStatement) /\ record[r].protected
      <4>1. CreateRecord(r, c[2], e, "review", record[r].seeded)
        BY <2>2, <3>1 DEF ApplyIdentity
      <4>2. record[r] \in Records
        BY DEF Inv, Typed
      <4>3. e \in BOOLEAN
        BY <4>2 DEF Records
      <4> HIDE DEF e
      <4>q. QED
        BY <4>1, <4>3
    <3>3. record[r].seeded \in Statements \cup {NoStatement} /\ c[2] \in Statements /\ c[2] # NoStatement
      <4>1. record[r] \in Records
        BY DEF Inv, Typed
      <4>q. QED
        BY <4>1, Ids DEF Records
    <3>4. /\ record' \in [RecordIds -> Records]
          /\ record'[r].content = c[2]
          /\ \A s \in RecordIds : s # r => record'[s] = record[s]
      BY <3>2, <3>3, RecordWritten DEF Inv
    <3>q. QED
      BY <3>3, <3>4 DEF Inv, Filled
  <2>q. QED
    BY <2>1, <2>2 DEF ApplyUserModel, ApplyRelationship, Refuse, Dispose
<1>5. Sound(p)'
  <2>1. rev'[p] # NoReview
    BY <1>3 DEF NoReview
  <2>2. label = "embedding" => c[1] \in Slots
    BY <1>2, Ids
  <2>q. QED
    BY <1>1, <1>2, <1>3, <2>1, <2>2 DEF Sound, ConflictsWithCore
<1>6. Alone' /\ \A q \in Reviewers : Sound(q)'
    BY <1>1, <1>3, <1>5, OneReview
<1>7. Typed'
  <2>1. events' \in 0..MaxEvents
    BY <1>1, Ids DEF Event, Inv, Typed
  <2>q. QED
    BY <1>1, <1>2, <1>3, <1>4, <2>1 DEF Inv, Typed
<1>q. QED
    BY <1>1, <1>2, <1>3, <1>4, <1>6, <1>7 DEF Inv

LEMMA StepsKeep ==
    ASSUME Inv, NEW p \in Reviewers, ReviewStep(p) \/ ReviewThrows(p)
    PROVE  Inv'
<1>1. /\ Running \subseteq {p} /\ rev[p] \in Reviews /\ Sound(p)
      /\ UNCHANGED <<file, up, entries, record, applied, events>>
    BY DEF Inv, Typed, ReviewStep, ReviewThrows, RecordTrend, EvaluateSemanticChange, CloseCandidate,
           LogReview, Step
<1>2. faults' \in 0..MaxFaults
  <2>1. faults' = faults \/ (faults < MaxFaults /\ faults' = faults + 1)
    BY DEF ReviewStep, ReviewThrows, RecordTrend, EvaluateSemanticChange, CloseCandidate, LogReview
  <2>q. QED
    BY <1>1, <2>1, Counted DEF Inv
<1>3. ASSUME rev' = [rev EXCEPT ![p] = NoReview], streak' = streak,
             cand' \in [CandidateIds -> Candidates]
      PROVE  Inv'
  <2>1. /\ rev' \in [Reviewers -> Reviews] /\ rev'[p] = NoReview
        /\ \A q \in Reviewers : q # p => rev'[q] = rev[q]
    BY <1>3, ReviewOver DEF Inv
  <2>2. rev'[p].pc = "idle"
    BY <2>1 DEF NoReview
  <2>3. Sound(p)'
    BY <2>1, <2>2 DEF Sound
  <2>q. QED
    BY <1>1, <1>2, <1>3, <2>1, <2>3, OneReview DEF Inv, Typed, Filled
<1>4. ASSUME NEW label \in {"applied", "updated"}, Goto(p, label), streak' = streak,
             rev[p].pc # "idle", cand' \in [CandidateIds -> Candidates]
      PROVE  Inv'
  <2>1. /\ rev' \in [Reviewers -> Reviews]
        /\ rev'[p].pc = label /\ rev'[p].cand = rev[p].cand /\ rev'[p].outcome = rev[p].outcome
        /\ \A q \in Reviewers : q # p => rev'[q] = rev[q]
    BY <1>4, ReviewGoesOn DEF Inv, Labels
  <2>2. rev'[p] # NoReview
    BY <2>1 DEF NoReview
  <2>3. Sound(p)'
    BY <1>1, <1>4, <2>1, <2>2 DEF Sound
  <2>q. QED
    BY <1>1, <1>2, <1>4, <2>1, <2>3, OneReview DEF Inv, Typed, Filled
<1>5. cand \in [CandidateIds -> Candidates]
    BY DEF Inv, Typed
<1>6. ASSUME NEW high \in BOOLEAN, RecordTrend(p, high) PROVE Inv'
  <2> DEFINE n == [rev[p] EXCEPT !.pc = "measured", !.drift = high]
  <2>1. /\ n \in Reviews /\ n.pc = "measured" /\ n.cand = rev[p].cand /\ n.outcome = rev[p].outcome
    BY <1>1 DEF Reviews
  <2>2. rev' = [rev EXCEPT ![p] = n] /\ rev \in [Reviewers -> Reviews] /\ rev[p].pc = "embedding"
    BY <1>6 DEF RecordTrend, Inv, Typed
  <2> HIDE DEF n
  <2>3. /\ rev' \in [Reviewers -> Reviews]
        /\ rev'[p].pc = "measured" /\ rev'[p].cand = rev[p].cand /\ rev'[p].outcome = rev[p].outcome
        /\ \A q \in Reviewers : q # p => rev'[q] = rev[q]
    BY <2>1, <2>2
  <2>4. rev'[p] # NoReview
    BY <2>3 DEF NoReview
  <2>5. Sound(p)'
    BY <1>1, <2>2, <2>3, <2>4 DEF Sound
  <2>6. streak' \in Streaks /\ cand' = cand
    <3>1. rev[p].cand[1] \in RecordIds
      BY <1>1, <2>2, Ids DEF Sound
    <3>2. RecordDriftTrend(rev[p].cand[1], high) /\ cand' = cand
      BY <1>6 DEF RecordTrend
    <3>q. QED
      BY <3>1, <3>2, TrendRecorded DEF Inv
  <2>q. QED
    BY <1>1, <1>2, <2>3, <2>5, <2>6, OneReview DEF Inv, Typed, Filled
<1>7. CASE EvaluateSemanticChange(p)
    BY <1>4, <1>5, <1>7 DEF EvaluateSemanticChange
<1>8. CASE CloseCandidate(p)
  <2>1. rev[p].cand \in CandidateIds /\ rev[p].outcome \in Outcomes
    BY <1>1, <1>8 DEF CloseCandidate, Sound
  <2>2. cand' \in [CandidateIds -> Candidates]
    BY <1>8, <2>1, DecidedCandidate DEF CloseCandidate, Inv
  <2>q. QED
    BY <1>3, <1>4, <1>8, <2>2 DEF CloseCandidate
<1>9. CASE LogReview(p)
    BY <1>3, <1>5, <1>9 DEF LogReview
<1>10. CASE ReviewThrows(p)
    BY <1>3, <1>4, <1>5, <1>10 DEF ReviewThrows
<1>q. QED
    BY <1>6, <1>7, <1>8, <1>9, <1>10 DEF ReviewStep

LEMMA InvInit == Init => Inv
<1> SUFFICES ASSUME Init PROVE Inv
    OBVIOUS
<1>1. \A p \in Reviewers : rev[p] = NoReview /\ rev[p].pc = "idle"
    BY DEF Init, NoReview
<1>2. Alone /\ \A p \in Reviewers : Sound(p)
    BY <1>1 DEF Alone, Running, Sound
<1>3. Filled
  <2>1. PICK b \in [Slots -> {NoRecord} \cup Touched] :
           record = [r \in RecordIds |-> IF r \in Slots THEN b[r] ELSE NoRecord]
    BY DEF Init
  <2>2. \A r \in {NoRecord} \cup Touched : r.source # "review"
    BY DEF NoRecord, Touched
  <2>q. QED
    BY <2>1, <2>2 DEF Filled
<1>q. QED
    BY <1>2, <1>3, InitTyped DEF Inv

LEMMA InvNext == Inv /\ [Next]_vars => Inv'
<1> SUFFICES ASSUME Inv, [Next]_vars PROVE Inv'
    OBVIOUS
<1>1. CASE Requests
    BY <1>1, RequestsKeep, StartsKeep, BeginsKeep DEF Requests
<1>2. CASE Boot \/ Audit \/ Crash
    BY <1>2, RequestsKeep, StartsKeep
<1>3. ASSUME NEW p \in Reviewers, ReviewStep(p) \/ ReviewThrows(p) PROVE Inv'
    BY <1>3, StepsKeep
<1>4. CASE UNCHANGED vars
  <2>1. Typed' /\ Filled'
    BY <1>4 DEF vars, Inv, Typed, Filled
  <2>q. QED
    BY <1>4, <2>1, SameReviews DEF vars, Inv
<1>q. QED
    BY <1>1, <1>2, <1>3, <1>4 DEF Next

LEMMA Invariance == Spec => []Inv
BY InvInit, InvNext, PTL DEF Spec

\* A seed file never takes back what a review wrote: once a slot holds a
\* reviewed record no import replaces it, for any files, edits and crashes.
THEOREM ReviewsOutlastSeeds == Spec => ReviewedIsNotReseeded
<1>1. Inv /\ [Next]_vars => [\A s \in Slots : record[s].source = "review" => record'[s].source = "review"]_vars
  <2> SUFFICES ASSUME Inv, Next, NEW s \in Slots, record[s].source = "review"
               PROVE  record'[s].source = "review"
    OBVIOUS
  <2>1. s \in RecordIds /\ record[s].content # NoStatement
    BY Ids DEF Inv, Filled
  <2>2. ASSUME NEW j \in Slots, NEW x \in Seeds, NEW protected \in BOOLEAN, Import(j, x, protected)
        PROVE  record'[s].source = "review"
    <3>1. CASE record' = record
      BY <3>1
    <3>2. CASE CreateRecord(j, x, protected, "seed", x) /\ ~(j \in Existing /\ ~CanReplaceSeedBaseline(j))
      <4>1. j # s
        BY <2>1, <3>2 DEF Existing, CanReplaceSeedBaseline
      <4>2. j \in RecordIds /\ x \in Statements
        BY PersonaAssumption, Ids
      <4>q. QED
        BY <2>1, <3>2, <4>1, <4>2, RecordWritten DEF Inv
    <3>q. QED
      BY <2>2, <3>1, <3>2 DEF Import
  <2>3. ASSUME NEW p \in Reviewers, NEW c \in CandidateIds, ApplyIdentity(p, c)
        PROVE  record'[s].source = "review"
    <3>1. PICK r \in RecordIds : r = IF c[1] = NoSlot THEN c[2] ELSE c[1]
      BY Ids
    <3>2. \E e : CreateRecord(r, c[2], e, "review", record[r].seeded)
      BY <2>3, <3>1 DEF ApplyIdentity
    <3>3. record' = [record EXCEPT ![r] = record'[r]] /\ record'[r].source = "review"
      BY <3>2 DEF CreateRecord, Inv, Typed
    <3>q. QED
      BY <2>1, <3>3 DEF Inv, Typed
  <2>4. CASE record' = record
    BY <2>4
  <2>5. CASE Requests
    BY <2>2, <2>3, <2>4, <2>5 DEF Requests, EditCore, Stop, TimePasses, Stage, ApplyUserModel, ApplyRelationship,
       Refuse, Dispose
  <2>6. CASE Boot \/ Audit \/ Crash
    BY <2>4, <2>6 DEF Boot, Audit, Crash
  <2>7. ASSUME NEW p \in Reviewers, ReviewStep(p) \/ ReviewThrows(p) PROVE record' = record
    BY <2>7 DEF ReviewStep, ReviewThrows, RecordTrend, EvaluateSemanticChange, CloseCandidate, LogReview
  <2>q. QED
    BY <2>4, <2>5, <2>6, <2>7 DEF Next
<1>q. QED
    BY <1>1, Invariance, PTL DEF Spec, ReviewedIsNotReseeded

-----------------------------------------------------------------------------
(* approvals that changed a store                                           *)

\* An approval of c that has not closed the candidate yet.
Underway(c) ==
    \E p \in Reviewers :
      /\ rev[p].cand = c /\ rev[p].outcome \in Approvals
      /\ rev[p].pc \in {"embedding", "measured", "applied"}

\* c was approved last, and the log has the approval or is about to have it.
Decided(c) ==
    /\ cand[c].status = "reviewed" /\ cand[c].outcome \in Approvals
    /\ \/ <<c, cand[c].outcome>> \in audit
       \/ \E p \in Reviewers : /\ rev[p].pc = "updated" /\ rev[p].cand = c
                               /\ rev[p].outcome = cand[c].outcome

\* A review that changes no store found its candidate pending; one that the
\* core refused found it unapplied.
Unchanging(p) ==
    /\ rev[p].pc = "refused" => cand[rev[p].cand].status = "pending" /\ rev[p].cand \notin applied
    /\ rev[p].pc = "applied" /\ rev[p].outcome \notin Approvals => cand[rev[p].cand].status = "pending"

Accounted == (\A c \in applied : Underway(c) \/ Decided(c)) /\ \A p \in Reviewers : Unchanging(p)

\* What does not touch the reviews, the log, or a candidate somebody decided.
LEMMA AccountKept ==
    ASSUME Inv, Accounted, rev' = rev, applied' = applied, audit \subseteq audit',
           \A c \in CandidateIds : cand[c].status # "none" => cand'[c] = cand[c]
    PROVE  Accounted'
<1>1. ASSUME NEW c \in applied PROVE Underway(c)' \/ Decided(c)'
  <2>1. CASE Underway(c)
    BY <2>1 DEF Underway
  <2>2. CASE Decided(c)
    <3>1. c \in CandidateIds
      BY DEF Inv, Typed
    <3>2. cand'[c] = cand[c]
      BY <2>2, <3>1 DEF Decided
    <3>q. QED
      BY <2>2, <3>2 DEF Decided
  <2>q. QED
    BY <2>1, <2>2 DEF Accounted
<1>2. ASSUME NEW p \in Reviewers PROVE Unchanging(p)'
  <2>1. CASE rev[p].pc \in {"refused", "applied"}
    <3>1. rev[p].cand \in CandidateIds
      BY <2>1 DEF Inv, Sound
    <3>q. QED
      BY <2>1, <3>1 DEF Accounted, Unchanging
  <2>2. CASE rev[p].pc \notin {"refused", "applied"}
    BY <2>2 DEF Unchanging
  <2>q. QED
    BY <2>1, <2>2
<1>q. QED
    BY <1>1, <1>2 DEF Accounted

LEMMA RequestsAccount ==
    ASSUME Inv, Accounted,
           \/ \E statements \in CoreFiles : EditCore(statements)
           \/ TimePasses \/ Audit
           \/ \E x \in Observations, evaluated \in BOOLEAN : Stage(x, evaluated)
           \/ \E s \in Slots, x \in Seeds, protected \in BOOLEAN : Import(s, x, protected)
    PROVE  Accounted'
<1>1. rev' = rev /\ applied' = applied /\ audit' = audit
    BY DEF EditCore, TimePasses, Audit, Stage, Import
<1>2. \A c \in CandidateIds : cand[c].status # "none" => cand'[c] = cand[c]
  <2>1. ASSUME NEW x \in Observations, NEW evaluated \in BOOLEAN, Stage(x, evaluated)
        PROVE  \A c \in CandidateIds : cand[c].status # "none" => cand'[c] = cand[c]
    <3>1. <<NoSlot, x>> \in CandidateIds
      BY PersonaAssumption DEF CandidateIds
    <3>q. QED
      BY <2>1, <3>1, StagedCandidate DEF Stage, Inv
  <2>2. ASSUME NEW s \in Slots, NEW x \in Seeds, NEW protected \in BOOLEAN, Import(s, x, protected)
        PROVE  \A c \in CandidateIds : cand[c].status # "none" => cand'[c] = cand[c]
    <3>1. <<s, x>> \in CandidateIds
      BY PersonaAssumption DEF CandidateIds
    <3>2. StageCandidate(<<s, x>>) \/ cand' = cand
      BY <2>2 DEF Import
    <3>q. QED
      BY <3>1, <3>2, StagedCandidate DEF Inv
  <2>q. QED
    BY <2>1, <2>2 DEF EditCore, TimePasses, Audit
<1>q. QED
    BY <1>1, <1>2, AccountKept

LEMMA StartsAccount ==
    ASSUME Inv, Accounted, Boot \/ Stop
    PROVE  Accounted'
<1>1. rev' = rev /\ applied' = applied /\ cand' = cand /\ audit \subseteq audit'
    BY DEF Boot, Stop
<1>q. QED
    BY <1>1, AccountKept

LEMMA BeginsAccount ==
    ASSUME Inv, Accounted, NEW p \in Reviewers, NEW c \in CandidateIds,
           \/ ApplyIdentity(p, c) \/ ApplyUserModel(p, c) \/ ApplyRelationship(p, c)
           \/ \E o \in Decisions : Refuse(p, c, o) \/ Dispose(p, c, o)
    PROVE  Accounted'
<1>1. /\ rev[p] = NoReview /\ cand[c].status = "pending" /\ Running = {}
      /\ \A q \in Reviewers : q # p => rev'[q] = rev[q]
      /\ rev'[p].cand = c /\ cand' = cand /\ audit \subseteq audit'
      /\ \/ /\ rev'[p].pc = "refused" /\ ConflictsWithCore(c) /\ applied' = applied
         \/ /\ rev'[p].pc \in {"embedding", "applied"} /\ rev'[p].outcome \in Approvals
            /\ applied' = applied \cup {c}
         \/ /\ rev'[p].pc = "applied" /\ rev'[p].outcome \notin Approvals /\ applied' = applied
  <2>1. audit \subseteq audit'
    BY DEF ApplyIdentity, ApplyUserModel, ApplyRelationship, Refuse, Dispose, LogDrift
  <2>q. QED
    BY <2>1, BeginsKeep DEF Pending
<1>2. ASSUME NEW d \in CandidateIds, Underway(d) \/ Decided(d) PROVE Underway(d)' \/ Decided(d)'
  <2>1. \A q \in Reviewers : rev[q].pc # "idle" => rev'[q] = rev[q]
    BY <1>1 DEF NoReview
  <2>2. CASE Underway(d)
    BY <2>1, <2>2 DEF Underway
  <2>3. CASE Decided(d)
    BY <1>1, <2>1, <2>3 DEF Decided
  <2>q. QED
    BY <1>2, <2>2, <2>3
<1>3. \A d \in applied' : Underway(d)' \/ Decided(d)'
  <2>1. applied \subseteq CandidateIds
    BY DEF Inv, Typed
  <2>2. CASE applied' = applied
    BY <1>2, <2>1, <2>2 DEF Accounted
  <2>3. CASE rev'[p].pc \in {"embedding", "applied"} /\ rev'[p].outcome \in Approvals /\ applied' = applied \cup {c}
    <3>1. Underway(c)'
      BY <1>1, <2>3 DEF Underway
    <3>q. QED
      BY <1>2, <2>1, <2>3, <3>1 DEF Accounted
  <2>q. QED
    BY <1>1, <2>2, <2>3
<1>4. ASSUME NEW q \in Reviewers, q # p PROVE Unchanging(q)'
  <2>1. rev'[q] = rev[q] /\ rev[q].pc \notin {"refused", "applied"}
    BY <1>1, <1>4 DEF Running
  <2>q. QED
    BY <2>1 DEF Unchanging
<1>5. Unchanging(p)'
  <2>1. ConflictsWithCore(c) => c \notin applied
    <3> SUFFICES ASSUME ConflictsWithCore(c), c \in applied PROVE FALSE
      OBVIOUS
    <3>1. Underway(c)
      BY <1>1 DEF Accounted, Decided
    <3>2. PICK q \in Reviewers : rev[q].cand = c /\ rev[q].pc \in {"embedding", "measured", "applied"}
      BY <3>1 DEF Underway
    <3>3. rev[q].pc = "embedding"
      BY <1>1, <3>2 DEF Running
    <3>q. QED
      BY <3>2, <3>3 DEF Inv, Sound
  <2>q. QED
    BY <1>1, <2>1 DEF Unchanging
<1>q. QED
    BY <1>3, <1>4, <1>5 DEF Accounted

\* A step of a review that leaves the candidates and the log alone.
LEMMA StepsAccount ==
    ASSUME Inv, Accounted, NEW p \in Reviewers,
           EvaluateSemanticChange(p) \/ \E high \in BOOLEAN : RecordTrend(p, high)
    PROVE  Accounted'
<1>1. /\ rev[p] \in Reviews /\ Sound(p) /\ rev \in [Reviewers -> Reviews]
      /\ rev[p].pc \in {"embedding", "measured"}
      /\ UNCHANGED <<applied, cand, audit>>
    BY DEF Inv, Typed, EvaluateSemanticChange, RecordTrend
<1>2. /\ rev'[p].cand = rev[p].cand /\ rev'[p].outcome = rev[p].outcome
      /\ rev'[p].pc \in {"measured", "applied"}
      /\ \A q \in Reviewers : q # p => rev'[q] = rev[q]
    BY <1>1 DEF EvaluateSemanticChange, RecordTrend, Goto, Reviews
<1>3. rev[p].outcome \in Approvals
    BY <1>1 DEF Sound, Approvals
<1>4. ASSUME NEW c \in applied PROVE Underway(c)' \/ Decided(c)'
  <2>1. CASE Underway(c)
    BY <1>2, <1>3, <2>1 DEF Underway
  <2>2. CASE Decided(c)
    BY <1>1, <1>2, <2>2 DEF Decided
  <2>q. QED
    BY <2>1, <2>2 DEF Accounted
<1>5. ASSUME NEW q \in Reviewers PROVE Unchanging(q)'
  <2>1. CASE q = p
    BY <1>2, <1>3, <2>1 DEF Unchanging
  <2>2. CASE q # p
    BY <1>1, <1>2, <2>2 DEF Accounted, Unchanging
  <2>q. QED
    BY <2>1, <2>2
<1>q. QED
    BY <1>1, <1>4, <1>5 DEF Accounted

LEMMA CloseAccounts ==
    ASSUME Inv, Accounted, NEW p \in Reviewers, CloseCandidate(p)
    PROVE  Accounted'
<1>1. /\ Running = {p} /\ Sound(p) /\ rev[p] \in Reviews /\ Unchanging(p)
      /\ rev[p].pc \in {"applied", "refused"} /\ UNCHANGED <<applied, audit>>
    BY DEF Inv, Typed, CloseCandidate, Step, Running, Accounted
<1>2. PICK c \in CandidateIds, o \in Outcomes : c = rev[p].cand /\ o = rev[p].outcome
    BY <1>1 DEF Sound
<1>3. /\ cand'[c].outcome = o /\ (o # "needs_more_evidence" => cand'[c].status = "reviewed")
      /\ \A d \in CandidateIds : d # c => cand'[d] = cand[d]
    BY <1>2, DecidedCandidate DEF CloseCandidate, Inv
<1>4. /\ \A q \in Reviewers : q # p => rev'[q] = rev[q]
      /\ rev[p].pc = "refused" => rev'[p] = NoReview
      /\ rev[p].pc = "applied" => rev'[p].pc = "updated" /\ rev'[p].cand = c /\ rev'[p].outcome = o
  <2>1. CASE rev[p].pc = "refused"
    BY <2>1, ReviewOver DEF CloseCandidate, Inv
  <2>2. CASE rev[p].pc = "applied"
    BY <1>2, <2>2, ReviewGoesOn DEF CloseCandidate, Inv, Labels
  <2>q. QED
    BY <1>1, <2>1, <2>2
<1>5. ASSUME NEW d \in applied PROVE Underway(d)' \/ Decided(d)'
  <2>1. d \in CandidateIds /\ (Underway(d) \/ Decided(d))
    BY DEF Accounted, Inv, Typed
  <2>2. CASE d # c
    <3>1. CASE Underway(d)
      BY <1>2, <1>4, <2>2, <3>1 DEF Underway
    <3>2. CASE Decided(d)
      BY <1>1, <1>2, <1>3, <1>4, <2>1, <2>2, <3>2 DEF Decided
    <3>q. QED
      BY <2>1, <3>1, <3>2
  <2>3. CASE d = c
    <3>1. rev[p].pc = "applied"
      BY <1>1, <1>2, <2>3 DEF Unchanging
    <3>2. CASE o \in Approvals
      <4>1. cand'[c].status = "reviewed" /\ cand'[c].outcome \in Approvals
        BY <1>3, <3>2 DEF Approvals
      <4>q. QED
        BY <1>3, <1>4, <2>3, <3>1, <4>1 DEF Decided
    <3>3. CASE o \notin Approvals
      <4>1. Underway(c)
        BY <1>1, <1>2, <2>1, <2>3, <3>1, <3>3 DEF Unchanging, Decided
      <4>q. QED
        BY <1>2, <1>4, <2>3, <3>3, <4>1 DEF Underway
    <3>q. QED
      BY <3>2, <3>3
  <2>q. QED
    BY <2>2, <2>3
<1>6. ASSUME NEW q \in Reviewers PROVE Unchanging(q)'
  <2>1. CASE q = p
    BY <1>1, <1>4, <2>1 DEF Unchanging, NoReview
  <2>2. CASE q # p
    <3>1. rev'[q] = rev[q] /\ rev[q].pc \notin {"refused", "applied"}
      BY <1>1, <1>4, <2>2 DEF Running
    <3>q. QED
      BY <3>1 DEF Unchanging
  <2>q. QED
    BY <2>1, <2>2
<1>q. QED
    BY <1>1, <1>5, <1>6 DEF Accounted

LEMMA LogAccounts ==
    ASSUME Inv, Accounted, NEW p \in Reviewers, LogReview(p)
    PROVE  Accounted'
<1>1. /\ rev[p].pc = "updated" /\ UNCHANGED <<applied, cand>>
      /\ audit' = audit \cup {<<rev[p].cand, rev[p].outcome>>}
    BY DEF LogReview, LogDrift
<1>2. rev'[p] = NoReview /\ \A q \in Reviewers : q # p => rev'[q] = rev[q]
    BY ReviewOver DEF LogReview, Inv
<1>3. ASSUME NEW c \in applied PROVE Underway(c)' \/ Decided(c)'
  <2>1. CASE Underway(c)
    BY <1>1, <1>2, <2>1 DEF Underway
  <2>2. CASE Decided(c)
    BY <1>1, <1>2, <2>2 DEF Decided
  <2>q. QED
    BY <2>1, <2>2 DEF Accounted
<1>4. ASSUME NEW q \in Reviewers PROVE Unchanging(q)'
  <2>1. CASE q = p
    BY <1>2, <2>1 DEF Unchanging, NoReview
  <2>2. CASE q # p
    BY <1>1, <1>2, <2>2 DEF Accounted, Unchanging
  <2>q. QED
    BY <2>1, <2>2
<1>q. QED
    BY <1>1, <1>3, <1>4 DEF Accounted

\* A fault ends the account.
LEMMA FaultsCount ==
    ASSUME Inv, Crash \/ \E p \in Reviewers : ReviewThrows(p)
    PROVE  faults' # 0
<1>1. faults' = faults + 1
    BY DEF Crash, ReviewThrows
<1>2. faults \in Nat
    BY Ids DEF Inv, Typed
<1>q. QED
    BY <1>1, <1>2

\* No fault is taken back.
LEMMA FaultsStay ==
    ASSUME Inv, [Next]_vars, faults' = 0
    PROVE  faults = 0
<1>1. faults' = faults \/ faults' = faults + 1
    BY ZenonT(40) DEF Next, Requests, EditCore, Stop, TimePasses, Stage, Import, ApplyIdentity, ApplyUserModel,
           ApplyRelationship, Refuse, Dispose, Review, Boot, Audit, Crash, ReviewStep, RecordTrend,
           EvaluateSemanticChange, CloseCandidate, LogReview, ReviewThrows, vars
<1>2. faults \in Nat
    BY Ids DEF Inv, Typed
<1>q. QED
    BY <1>1, <1>2

LEMMA AccountedStep ==
    ASSUME Inv, faults = 0 => Accounted, [Next]_vars
    PROVE  (faults = 0 => Accounted)'
<1> SUFFICES ASSUME faults' = 0 PROVE Accounted'
    OBVIOUS
<1>1. Accounted
    BY FaultsStay
<1>2. CASE Requests
    BY <1>1, <1>2, RequestsAccount, StartsAccount, BeginsAccount DEF Requests
<1>3. CASE Boot \/ Audit \/ Crash
    BY <1>1, <1>3, RequestsAccount, StartsAccount, FaultsCount
<1>4. ASSUME NEW p \in Reviewers, ReviewStep(p) PROVE Accounted'
    BY <1>1, <1>4, StepsAccount, CloseAccounts, LogAccounts DEF ReviewStep
<1>5. CASE UNCHANGED vars
  <2>1. rev' = rev /\ applied' = applied /\ cand' = cand /\ audit \subseteq audit'
    BY <1>5 DEF vars
  <2>q. QED
    BY <1>1, <2>1, AccountKept
<1>q. QED
    BY <1>2, <1>3, <1>4, <1>5, FaultsCount DEF Next

\* An approval that changed a store has the last word on its candidate and is
\* logged, whoever else decides the candidate while it waits.
THEOREM ApprovalsAreRecorded == Spec => []AppliedIsRecorded
<1>1. Init => Accounted
    BY DEF Init, Accounted, Unchanging, NoReview
<1>2. Inv /\ (faults = 0 => Accounted) /\ [Next]_vars => (faults = 0 => Accounted)'
    BY AccountedStep
<1>3. (faults = 0 => Accounted) => AppliedIsRecorded
    BY DEF Accounted, Underway, Decided, AppliedIsRecorded
<1>q. QED
    BY <1>1, <1>2, <1>3, Invariance, PTL DEF Spec


-----------------------------------------------------------------------------
(* drifting records                                                         *)

Drifting(r) == <<r, "cumulative_semantic_drift">>

\* A drift evaluation of r that has recorded the trend and not judged it yet.
Measured(r) == \E p \in Reviewers : rev[p].pc = "measured" /\ rev[p].cand[1] = r

\* The finding agrees with the streak, up to the evaluation under way. A streak
\* that has begun again was zero, and judged, before.
Reported(r) ==
    /\ streak[r] >= MinCycles => Drifting(r) \in open \/ Measured(r)
    /\ Drifting(r) \in open => streak[r] >= MinCycles \/ (streak[r] = 0 /\ Measured(r))

AllReported == \A r \in RecordIds : Reported(r)

\* What neither measures nor judges a drift.
LEMMA ReportKept ==
    ASSUME AllReported, streak' = streak,
           \A r \in RecordIds : Drifting(r) \in open' <=> Drifting(r) \in open,
           \A p \in Reviewers : rev[p].pc = "measured" => rev'[p] = rev[p]
    PROVE  AllReported'
<1> SUFFICES ASSUME NEW r \in RecordIds PROVE Reported(r)'
    BY DEF AllReported
<1>1. Measured(r) => Measured(r)'
    BY DEF Measured
<1>2. Drifting(r)' = Drifting(r)
    BY DEF Drifting
<1>q. QED
    BY <1>1, <1>2 DEF AllReported, Reported

\* Findings of other modes come and go without touching those of drift.
LEMMA OtherFindings ==
    ASSUME \/ \E x \in Observations, evaluated \in BOOLEAN : Stage(x, evaluated)
           \/ Audit
    PROVE  \A r \in RecordIds : Drifting(r) \in open' <=> Drifting(r) \in open
<1> SUFFICES ASSUME NEW r \in RecordIds PROVE Drifting(r) \in open' <=> Drifting(r) \in open
    OBVIOUS
<1>1. ASSUME NEW x \in Observations, NEW evaluated \in BOOLEAN, Stage(x, evaluated)
      PROVE  Drifting(r) \in open' <=> Drifting(r) \in open
  <2>1. CASE open' = open
    BY <2>1
  <2>2. CASE EvaluateCandidate(<<NoSlot, x>>, {d \in CandidateIds : cand'[d].status = "pending"})
    <3> DEFINE c == <<NoSlot, x>>
               pending == {d \in CandidateIds : cand'[d].status = "pending"}
               core == IF ConflictsWithCore(c) THEN {<<c, "core_contradiction">>} ELSE {}
               records == {<<s, "contradiction">> : s \in Contradicted(c)}
               pressure == EvaluatePressure(pending)
    <3>1. open' = open \cup (core \cup records \cup pressure)
      BY <2>2 DEF EvaluateCandidate, LogOnce
    <3>2. Drifting(r) \notin core
      BY DEF Drifting
    <3>3. Drifting(r) \notin records
      BY DEF Drifting
    <3>4. Drifting(r) \notin pressure
      BY DEF Drifting, EvaluatePressure
    <3> HIDE DEF core, records, pressure
    <3>q. QED
      BY <3>1, <3>2, <3>3, <3>4
  <2>q. QED
    BY <1>1, <2>1, <2>2 DEF Stage
<1>2. CASE Audit
  <2> DEFINE raised == (IF rel.state = "stale" THEN {"relationship_state_stale"} ELSE {})
                       \cup (IF ScoreIsLow THEN {"grounding_score_low"} ELSE {})
             modes == ({"relationship_state_stale", "grounding_score_low"} \ raised) \cup ReconcilePressure
             found == {<<Whole, m>> : m \in raised}
  <2>1. open' = {f \in open : f[2] \notin modes} \cup found
    BY <1>2 DEF Audit, Resolve
  <2>2. "cumulative_semantic_drift" \notin modes
    BY DEF ReconcilePressure
  <2>3. Drifting(r) \notin found
    BY DEF Drifting
  <2>4. Drifting(r)[2] = "cumulative_semantic_drift"
    BY DEF Drifting
  <2> HIDE DEF modes, found
  <2>q. QED
    BY <2>1, <2>2, <2>3, <2>4
<1>q. QED
    BY <1>1, <1>2

\* The requests, and the reviews that begin or end.
LEMMA RequestsReport ==
    ASSUME Inv, AllReported, Requests \/ Boot \/ Audit
    PROVE  AllReported'
<1>1. streak' = streak
    BY ZenonT(40) DEF Requests, Boot, Audit, EditCore, Stop, TimePasses, Stage, Import, ApplyIdentity, ApplyUserModel,
           ApplyRelationship, Refuse, Dispose, Review
<1>2. \A r \in RecordIds : Drifting(r) \in open' <=> Drifting(r) \in open
  <2>1. CASE open' = open
    BY <2>1
  <2>q. QED
    BY <2>1, OtherFindings, ZenonT(40) DEF Requests, Boot, EditCore, Stop, TimePasses, Import, ApplyIdentity, ApplyUserModel,
           ApplyRelationship, Refuse, Dispose, Review
<1>3. rev' = rev \/ Running = {}
    BY ZenonT(40) DEF Requests, Boot, Audit, EditCore, Stop, TimePasses, Stage, Import, ApplyIdentity, ApplyUserModel,
           ApplyRelationship, Refuse, Dispose, Review, Event
<1>4. \A p \in Reviewers : rev[p].pc = "measured" => rev'[p] = rev[p]
    BY <1>3 DEF Running
<1>q. QED
    BY <1>1, <1>2, <1>4, ReportKept

LEMMA ClosingReports ==
    ASSUME Inv, AllReported, NEW p \in Reviewers, CloseCandidate(p) \/ LogReview(p)
    PROVE  AllReported'
<1>1. streak' = streak /\ open' = open /\ rev[p].pc # "measured"
    BY DEF CloseCandidate, LogReview
<1>2. \A q \in Reviewers : q # p => rev'[q] = rev[q]
    BY DEF CloseCandidate, LogReview, Goto, Inv, Typed
<1>3. \A q \in Reviewers : rev[q].pc = "measured" => rev'[q] = rev[q]
    BY <1>1, <1>2
<1>q. QED
    BY <1>1, <1>3, ReportKept

\* The trend of r is recorded when no other drift is being evaluated.
LEMMA TrendReports ==
    ASSUME Inv, AllReported, NEW p \in Reviewers, NEW high \in BOOLEAN, RecordTrend(p, high)
    PROVE  AllReported'
<1>1. rev[p] \in Reviews /\ rev \in [Reviewers -> Reviews] /\ rev[p].pc = "embedding" /\ rev[p].cand[1] \in RecordIds
    BY Ids DEF RecordTrend, Inv, Typed, Sound
<1>2. PICK k \in RecordIds : k = rev[p].cand[1]
    BY <1>1
<1>3. \A r \in RecordIds : ~Measured(r)
    BY <1>1 DEF RecordTrend, Step, Running, Measured
<1>4. Measured(k)'
  <2>1. rev' = [rev EXCEPT ![p].pc = "measured", ![p].drift = high]
    BY DEF RecordTrend
  <2>2. rev'[p].pc = "measured" /\ rev'[p].cand = rev[p].cand
    BY <1>1, <2>1 DEF Reviews
  <2>q. QED
    BY <1>2, <2>2 DEF Measured
<1>5. RecordDriftTrend(k, high) /\ open' = open
    BY <1>2 DEF RecordTrend
<1>6. /\ \A s \in RecordIds : s # k => streak'[s] = streak[s]
      /\ \/ streak'[k] = 0
         \/ streak[k] >= MinCycles /\ streak'[k] = streak[k]
         \/ streak[k] < MinCycles /\ streak'[k] = streak[k] + 1
    BY <1>5, TrendRecorded DEF Inv
<1> SUFFICES ASSUME NEW r \in RecordIds PROVE Reported(r)'
    BY DEF AllReported
<1>7. /\ streak[r] >= MinCycles => Drifting(r) \in open
      /\ Drifting(r) \in open => streak[r] >= MinCycles
    BY <1>3 DEF AllReported, Reported
<1>8. Drifting(r)' = Drifting(r)
    BY DEF Drifting
<1>9. streak[k] \in Nat /\ MinCycles \in Nat
    BY Ids DEF Inv, Typed, Streaks
<1>10. CASE r = k
  <2>1. Drifting(k) \in open => ~(streak[k] < MinCycles)
    BY <1>7, <1>9, <1>10
  <2>q. QED
    BY <1>4, <1>5, <1>6, <1>8, <1>10, <2>1, <1>7 DEF Reported
<1>11. CASE r # k
  <2>1. streak'[r] = streak[r]
    BY <1>6, <1>11
  <2>q. QED
    BY <1>5, <1>7, <1>8, <2>1 DEF Reported
<1>q. QED
    BY <1>10, <1>11

\* Then it is judged, and the finding agrees with the streak again.
LEMMA ChangeReports ==
    ASSUME Inv, AllReported, NEW p \in Reviewers, EvaluateSemanticChange(p)
    PROVE  AllReported'
<1>1. rev[p].pc = "measured" /\ rev[p].cand[1] \in RecordIds
    BY Ids DEF EvaluateSemanticChange, Inv, Sound
<1>2. PICK k \in RecordIds : k = rev[p].cand[1]
    BY <1>1
<1>3. \A r \in RecordIds : Measured(r) => r = k
    BY <1>1, <1>2 DEF EvaluateSemanticChange, Step, Running, Measured
<1>4. PICK raised : /\ open' = DetectCumulativeDrift(k) \cup raised
                    /\ raised \in {{}, {<<k, "semantic_drift">>}}
    BY <1>2 DEF EvaluateSemanticChange
<1>5. streak' = streak
    BY DEF EvaluateSemanticChange
<1> SUFFICES ASSUME NEW r \in RecordIds PROVE Reported(r)'
    BY DEF AllReported
<1>6. Drifting(r)' = Drifting(r) /\ Drifting(r) \notin raised
    BY <1>4 DEF Drifting
<1>7. streak[r] \in Nat /\ MinCycles \in Nat /\ MinCycles # 0
    BY Ids DEF Inv, Typed, Streaks
<1>8. CASE r = k
  <2>1. streak[k] >= MinCycles => Drifting(k) \in DetectCumulativeDrift(k)
    BY DEF DetectCumulativeDrift, Drifting
  <2>2. Drifting(k) \in DetectCumulativeDrift(k) => streak[k] >= MinCycles
    <3>1. Drifting(k) \in open => streak[k] >= MinCycles \/ streak[k] = 0
      BY DEF AllReported, Reported
    <3>q. QED
      BY <3>1, <1>7, <1>8 DEF DetectCumulativeDrift, Drifting
  <2>q. QED
    BY <1>4, <1>5, <1>6, <1>8, <2>1, <2>2 DEF Reported
<1>9. CASE r # k
  <2>1. Drifting(r) \in DetectCumulativeDrift(k) <=> Drifting(r) \in open
    BY <1>9 DEF DetectCumulativeDrift, Drifting
  <2>2. /\ streak[r] >= MinCycles => Drifting(r) \in open
        /\ Drifting(r) \in open => streak[r] >= MinCycles
    BY <1>3, <1>9 DEF AllReported, Reported
  <2>q. QED
    BY <1>4, <1>5, <1>6, <2>1, <2>2 DEF Reported
<1>q. QED
    BY <1>8, <1>9

LEMMA ReportedStep ==
    ASSUME Inv, faults = 0 => AllReported, [Next]_vars
    PROVE  (faults = 0 => AllReported)'
<1> SUFFICES ASSUME faults' = 0 PROVE AllReported'
    OBVIOUS
<1>1. AllReported
    BY FaultsStay
<1>2. CASE Requests \/ Boot \/ Audit
    BY <1>1, <1>2, RequestsReport
<1>3. ASSUME NEW p \in Reviewers, ReviewStep(p) PROVE AllReported'
    BY <1>1, <1>3, TrendReports, ChangeReports, ClosingReports DEF ReviewStep
<1>4. CASE UNCHANGED vars
  <2>1. streak' = streak /\ open' = open /\ rev' = rev
    BY <1>4 DEF vars
  <2>q. QED
    BY <1>1, <2>1, ReportKept
<1>q. QED
    BY <1>2, <1>3, <1>4, FaultsCount DEF Next

\* Between two drift evaluations none of which was cut short, a record is
\* reported as drifting exactly when its streak is long enough.
THEOREM DriftMatchesStreak == Spec => []CumulativeMatchesStreak
<1>1. Init => AllReported
  <2> SUFFICES ASSUME Init, NEW r \in RecordIds PROVE Reported(r)
    BY DEF AllReported
  <2>1. open = {} /\ streak[r] = 0
    BY DEF Init
  <2>q. QED
    BY <2>1, Ids DEF Reported
<1>2. Inv /\ (faults = 0 => AllReported) /\ [Next]_vars => (faults = 0 => AllReported)'
    BY ReportedStep
<1>3. (faults = 0 => AllReported) => CumulativeMatchesStreak
    BY DEF AllReported, Reported, Measured, Drifting, CumulativeMatchesStreak
<1>q. QED
    BY <1>1, <1>2, <1>3, Invariance, PTL DEF Spec

-----------------------------------------------------------------------------
(* the types                                                                *)

\* A finding is about a record, a candidate or the whole persona.
LEMMA FindingsTyped ==
    ASSUME Inv, open \subseteq Findings, [Next]_vars
    PROVE  open' \subseteq Findings
<1>1. \A r \in RecordIds : {<<r, "cumulative_semantic_drift">>, <<r, "semantic_drift">>, <<r, "contradiction">>} \subseteq Findings
    BY DEF Findings, Modes
<1>2. \A c \in CandidateIds : <<c, "core_contradiction">> \in Findings
    BY DEF Findings, Modes
<1>3. \A m \in Modes : <<Whole, m>> \in Findings
    BY DEF Findings
<1>4. CASE open' = open
    BY <1>4
<1>5. ASSUME NEW x \in Observations, NEW evaluated \in BOOLEAN, Stage(x, evaluated)
      PROVE  open' \subseteq Findings
  <2>1. CASE EvaluateCandidate(<<NoSlot, x>>, {d \in CandidateIds : cand'[d].status = "pending"})
    <3> DEFINE c == <<NoSlot, x>>
               pending == {d \in CandidateIds : cand'[d].status = "pending"}
               core == IF ConflictsWithCore(c) THEN {<<c, "core_contradiction">>} ELSE {}
               records == {<<s, "contradiction">> : s \in Contradicted(c)}
               pressure == EvaluatePressure(pending)
    <3>1. open' = open \cup (core \cup records \cup pressure)
      BY <2>1 DEF EvaluateCandidate, LogOnce
    <3>2. core \subseteq Findings
      <4>1. c \in CandidateIds
        BY PersonaAssumption DEF CandidateIds
      <4> HIDE DEF c
      <4>q. QED
        BY <1>2, <4>1
    <3>3. records \subseteq Findings
      BY <1>1 DEF Contradicted, Existing
    <3>4. pressure \subseteq Findings
      BY <1>3 DEF EvaluatePressure, Modes
    <3> HIDE DEF core, records, pressure
    <3>q. QED
      BY <3>1, <3>2, <3>3, <3>4
  <2>q. QED
    BY <1>4, <1>5, <2>1 DEF Stage
<1>6. CASE Audit
  <2> DEFINE raised == (IF rel.state = "stale" THEN {"relationship_state_stale"} ELSE {})
                       \cup (IF ScoreIsLow THEN {"grounding_score_low"} ELSE {})
             modes == ({"relationship_state_stale", "grounding_score_low"} \ raised) \cup ReconcilePressure
             found == {<<Whole, m>> : m \in raised}
  <2>1. open' = {f \in open : f[2] \notin modes} \cup found
    BY <1>6 DEF Audit, Resolve
  <2>2. found \subseteq Findings
    BY <1>3 DEF Modes
  <2> HIDE DEF modes, found
  <2>q. QED
    BY <2>1, <2>2
<1>7. ASSUME NEW p \in Reviewers, EvaluateSemanticChange(p) PROVE open' \subseteq Findings
  <2>1. PICK k \in RecordIds : k = rev[p].cand[1]
    BY <1>7, Ids DEF EvaluateSemanticChange, Inv, Sound
  <2>2. DetectCumulativeDrift(k) \subseteq Findings
    BY <1>1 DEF DetectCumulativeDrift
  <2>q. QED
    BY <1>1, <1>7, <2>1, <2>2 DEF EvaluateSemanticChange
<1>8. CASE Requests
    BY <1>4, <1>5, <1>8, ZenonT(40) DEF Requests, EditCore, Stop, TimePasses, Import, ApplyIdentity, ApplyUserModel,
       ApplyRelationship, Refuse, Dispose, Review
<1>q. QED
    BY <1>4, <1>6, <1>7, <1>8 DEF Next, Boot, Crash, ReviewStep, RecordTrend, CloseCandidate, LogReview,
       ReviewThrows, vars

LEMMA RelationshipTyped ==
    ASSUME Inv, rel \in Relationships, [Next]_vars
    PROVE  rel' \in Relationships
<1>1. CASE rel' = rel
    BY <1>1
<1>2. CASE TimePasses
    BY <1>2 DEF TimePasses, Relationships
<1>3. ASSUME NEW p \in Reviewers, NEW c \in CandidateIds, ApplyRelationship(p, c)
      PROVE  rel' \in Relationships
  <2>1. c[2] \in Statements
    BY Ids
  <2>q. QED
    BY <1>3, <2>1 DEF ApplyRelationship, UpsertRelationship, Relationships
<1>4. CASE Requests
    BY <1>1, <1>2, <1>3, <1>4 DEF Requests, EditCore, Stop, Stage, Import, ApplyIdentity, ApplyUserModel,
       Refuse, Dispose
<1>q. QED
    BY <1>1, <1>4 DEF Next, Boot, Audit, Crash, ReviewStep, RecordTrend, EvaluateSemanticChange, CloseCandidate,
       LogReview, ReviewThrows, vars

LEMMA FactsTyped ==
    ASSUME Inv, facts \in Facts, [Next]_vars
    PROVE  facts' \in Facts
<1>1. CASE facts' = facts
    BY <1>1
<1>2. ASSUME NEW p \in Reviewers, NEW c \in CandidateIds, ApplyUserModel(p, c)
      PROVE  facts' \in Facts
  <2>1. c[2] \in Statements
    BY Ids
  <2>q. QED
    BY <1>2, <2>1 DEF ApplyUserModel, UpsertUserFact, Facts
<1>3. CASE Requests
    BY <1>1, <1>2, <1>3 DEF Requests, EditCore, Stop, TimePasses, Stage, Import, ApplyIdentity, ApplyRelationship,
       Refuse, Dispose
<1>q. QED
    BY <1>1, <1>3 DEF Next, Boot, Audit, Crash, ReviewStep, RecordTrend, EvaluateSemanticChange, CloseCandidate,
       LogReview, ReviewThrows, vars

LEMMA CoreTyped ==
    ASSUME Inv, up \in BOOLEAN, saved \in CoreStates, [Next]_vars
    PROVE  up' \in BOOLEAN /\ saved' \in CoreStates
<1>1. CASE Boot
  <2>1. file \subseteq Statements
    BY DEF Inv, Typed
  <2>2. saved' = [hash |-> file, loaded |-> file # {}] /\ up' = (file # {})
    BY <1>1 DEF Boot, SaveCoreState
  <2>q. QED
    BY <2>1, <2>2 DEF CoreStates
<1>2. CASE saved' = saved /\ up' \in {up, FALSE}
    BY <1>2
<1>q. QED
    BY <1>1, <1>2, ZenonT(40) DEF Next, Requests, EditCore, Stop, TimePasses, Stage, Import, ApplyIdentity, ApplyUserModel,
       ApplyRelationship, Refuse, Dispose, Review, Audit, Crash, ReviewStep, RecordTrend, EvaluateSemanticChange,
       CloseCandidate, LogReview, ReviewThrows, vars

\* Every store of the persona keeps its shape.
THEOREM TypeCorrect == Spec => []TypeOK
<1>1. Init => Stored
  <2> SUFFICES ASSUME Init PROVE Stored
    OBVIOUS
  <2>1. up \in BOOLEAN /\ facts \in Facts /\ open \subseteq Findings
    BY DEF Init, Facts
  <2>2. saved \in CoreStates
    BY DEF Init, CoreStates
  <2>3. rel \in Relationships
    BY DEF Init, Relationships
  <2>q. QED
    BY <2>1, <2>2, <2>3 DEF Stored
<1>2. Inv /\ Stored /\ [Next]_vars => Stored'
    BY FindingsTyped, RelationshipTyped, FactsTyped, CoreTyped DEF Stored
<1>3. Inv /\ Stored => TypeOK
    BY TypeParts DEF Inv
<1>q. QED
    BY <1>1, <1>2, <1>3, Invariance, PTL DEF Spec
=============================================================================
