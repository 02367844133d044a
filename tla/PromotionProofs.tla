-------------------------- MODULE PromotionProofs ---------------------------
(* Safety of promotion, for any set of candidates, any finite set of       *)
(* objects and any number of crashes and failed writes; and of the passes   *)
(* that maintain the claims afterwards.  The two specifications share no   *)
(* variable.                                                               *)
EXTENDS Promotion, Maintenance, FiniteSetTheorems, TLAPS

\* A claim that does not exist has no evidence, and evidence was proposed.
Grounded ==
    /\ \A k \in Keys : claim[k].status = "none" => claim[k].seen = {}
    /\ \A k \in Keys : \A c \in claim[k].seen : journal[c].state # "none"

\* What a candidate's row says about how it was proposed.
Proposed ==
    \A c \in Candidates :
      /\ said[c].class # "unsaved" => said[c].key \in Keys
      /\ c \in queue => journal[c].state = "none" /\ said[c].class # "unsaved"
      /\ journal[c].state = "none" => ~journal[c].bound
      /\ journal[c].state # "none" => said[c].class # "unsaved"
      /\ (journal[c].state # "none" /\ ~journal[c].bound) => said[c].class = "auto"

\* What the entry in execution has done, and may rely on.
Executing ==
    /\ exec.pc = "idle" => exec = Idle
    /\ exec.pc # "idle" =>
         /\ exec.cand \in Candidates
         /\ said[exec.cand].class # "unsaved"
         /\ exec.cand \notin queue
    /\ exec.pc = "minted" => journal[exec.cand].state = "none"
    /\ exec.pc \in Applying =>
         /\ journal[exec.cand].state = "promoting"
         /\ said[exec.cand].class # "unknown"
         /\ Approved(exec.cand)
    /\ exec.pc = "settled" => Contestable = {} /\ ~Exact(exec.cand)
    /\ exec.pc = "activated" => exec.loser # NoKey
    /\ exec.pc \in {"created", "observed"} => claim[said[exec.cand].key].status = "candidate"
    /\ exec.pc \in {"observed", "created", "activated", "applied"} =>
         exec.cand \in claim[said[exec.cand].key].seen

\* The inductive invariant.
Inv ==
    /\ TypeOK /\ OneHead /\ BeliefsAreAuthorised /\ CommittedIsBelieved
    /\ Grounded /\ Proposed /\ Executing

\* There are finitely many claims, so any set of them has a cardinality.
LEMMA KeysAreFinite ==
    \A S \in SUBSET Keys : IsFiniteSet(S) /\ Cardinality(S) \in Nat
<1>1. IsFiniteSet(BOOLEAN)
  <2>1. IsFiniteSet({TRUE} \cup {FALSE})
    BY FS_Singleton, FS_AddElement
  <2>2. BOOLEAN = {TRUE} \cup {FALSE}
    BY Zenon
  <2>q. QED
    BY <2>1, <2>2, Zenon
<1>2. IsFiniteSet(Keys)
    BY <1>1, PromotionAssumption, FS_Product DEF Keys
<1>q. QED
    BY <1>2, FS_Subset, FS_CardinalityType

\* The entry in execution is of a candidate that was saved, with a key.
LEMMA ExecutedHasKey ==
    ASSUME Inv, exec.pc # "idle"
    PROVE  exec.cand \in Candidates /\ said[exec.cand].key \in Keys
BY DEF Inv, Executing, Proposed

\* Under one head, the rival apply picks is that head: Newest does not have
\* to break a tie.
LEMMA RivalIsHead ==
    ASSUME Inv, NEW c \in Candidates, Contestable # {}
    PROVE  Rival(c) \in Contestable /\ Contestable = {Rival(c)}
<1>1. PICK h \in Contestable : TRUE
    OBVIOUS
<1>2. claim[h].row \in Nat
    BY <1>1 DEF Inv, TypeOK, Claims, Contestable
<1>3. \A j \in Contestable : claim[j].row <= claim[h].row
    BY <1>1, <1>2 DEF Inv, OneHead
<1>4. Newest \in Contestable
    BY <1>1, <1>3 DEF Newest
<1>5. Rival(c) \in Contestable
    BY <1>4 DEF Rival
<1>q. QED
    BY <1>5 DEF Inv, OneHead


\* Saving a candidate touches no row, no approval and no claim.
LEMMA SaveStep ==
    ASSUME Inv, NEW c \in Candidates, NEW k \in Keys, NEW class \in Classes \ {"unsaved"},
           Save(c, k, class)
    PROVE  Inv'
<1>1. TypeOK'
    BY DEF Inv, Save, Unsaved, TypeOK, Contents, Rows, Claims, Execs, Executing, Applying
<1>2. OneHead'
    BY DEF Inv, Save, Unsaved, OneHead, Contestable
<1>3. BeliefsAreAuthorised'
    BY DEF Inv, Save, Unsaved, BeliefsAreAuthorised
<1>4. CommittedIsBelieved'
    BY DEF Inv, Save, Unsaved, CommittedIsBelieved, TypeOK, Contents, Rows, Claims,
           Execs, Executing, Applying, Proposed, Grounded
<1>5. Grounded'
    BY DEF Inv, Save, Unsaved, Grounded
<1>6. Proposed'
    BY DEF Inv, Save, Unsaved, Proposed, TypeOK, Rows, Claims, Execs
<1>7. Executing'
    BY DEF Inv, Save, Unsaved, Executing, Applying, Approved, Contestable, Exact
<1>q. QED
    BY <1>1, <1>2, <1>3, <1>4, <1>5, <1>6, <1>7 DEF Inv

\* An automatic proposal is unbound, and its candidate is admitted.
LEMMA ProposeAutoStep ==
    ASSUME Inv, NEW c \in Candidates, ProposeAuto(c)
    PROVE  Inv'
<1>1. TypeOK'
  <2>1. journal' \in [Candidates -> Rows]
    BY DEF Inv, ProposeAuto, AutoEligible, Idle, TypeOK, Rows, JournalStates
  <2>2. exec' \in Execs
    BY DEF Inv, ProposeAuto, AutoEligible, Idle, TypeOK, Execs, Labels
  <2>3. \A x \in Candidates : journal'[x].state = "promoting" => exec'.cand = x \/ stranded' > 0
    BY PromotionAssumption
    DEF Inv, ProposeAuto, AutoEligible, Idle, TypeOK, Rows, Execs, Claims
  <2>q. QED
    BY <2>1, <2>2, <2>3 DEF Inv, ProposeAuto, AutoEligible, Idle, TypeOK
<1>2. OneHead'
    BY DEF Inv, ProposeAuto, AutoEligible, Idle, OneHead, Contestable
<1>3. BeliefsAreAuthorised'
    BY DEF Inv, ProposeAuto, AutoEligible, Idle, BeliefsAreAuthorised
<1>4. CommittedIsBelieved'
    BY DEF Inv, ProposeAuto, AutoEligible, Idle, CommittedIsBelieved
<1>5. Grounded'
    BY DEF Inv, ProposeAuto, AutoEligible, Idle, Grounded
<1>6. Proposed'
    BY DEF Inv, ProposeAuto, AutoEligible, Idle, Proposed
<1>7. Executing'
    BY DEF Inv, ProposeAuto, AutoEligible, Idle, Executing, Applying, Approved,
           Contestable, Exact
<1>q. QED
    BY <1>1, <1>2, <1>3, <1>4, <1>5, <1>6, <1>7 DEF Inv

\* An approval minted for a candidate that has no row yet.
LEMMA MintApprovalStep ==
    ASSUME Inv, NEW c \in Candidates, MintApproval(c)
    PROVE  Inv'
<1>1. TypeOK'
  <2>1. exec' \in Execs
    BY DEF Inv, MintApproval, Idle, TypeOK, Execs, Labels
  <2>2. \A x \in Candidates : journal'[x].state = "promoting" => exec'.cand = x \/ stranded' > 0
    BY PromotionAssumption DEF Inv, MintApproval, Idle, TypeOK, Rows, Execs, Claims
  <2>q. QED
    BY <2>1, <2>2 DEF Inv, MintApproval, Idle, TypeOK
<1>2. OneHead'
    BY DEF Inv, MintApproval, Idle, OneHead, Contestable
<1>3. BeliefsAreAuthorised'
    BY DEF Inv, MintApproval, Idle, BeliefsAreAuthorised, TypeOK, Contents, Rows,
           Claims, Execs, Executing, Applying, Proposed, Grounded
<1>4. CommittedIsBelieved'
    BY DEF Inv, MintApproval, Idle, CommittedIsBelieved
<1>5. Grounded'
    BY DEF Inv, MintApproval, Idle, Grounded
<1>6. Proposed'
    BY DEF Inv, MintApproval, Idle, Proposed
<1>7. Executing'
    BY DEF Inv, MintApproval, Idle, Executing, Applying, Approved, Contestable, Exact,
           TypeOK, Contents, Rows, Claims, Execs, Proposed, Grounded
<1>q. QED
    BY <1>1, <1>2, <1>3, <1>4, <1>5, <1>6, <1>7 DEF Inv

\* The row becomes bound before it can be evidence of anything.
LEMMA RecordProposalStep ==
    ASSUME Inv, NEW c \in Candidates, RecordProposal(c)
    PROVE  Inv'
<1>1. TypeOK'
  <2>1. journal' \in [Candidates -> Rows]
    <3>1. journal[c] \in Rows
      BY DEF Inv, TypeOK
    <3>2. [journal[c] EXCEPT !.state = "proposed", !.bound = TRUE] \in Rows
      BY <3>1 DEF Rows, JournalStates
    <3>q. QED
      BY <3>2 DEF Inv, TypeOK, RecordProposal
  <2>2. exec' \in Execs
    BY DEF Inv, RecordProposal, Idle, TypeOK, Execs, Labels
  <2>3. \A x \in Candidates : journal'[x].state = "promoting" => exec'.cand = x \/ stranded' > 0
    BY DEF Inv, RecordProposal, Idle, TypeOK, Rows, Execs
  <2>q. QED
    BY <2>1, <2>2, <2>3 DEF Inv, RecordProposal, Idle, TypeOK
<1>2. OneHead'
    BY DEF Inv, RecordProposal, Idle, OneHead, Contestable
<1>3. BeliefsAreAuthorised'
    BY DEF Inv, RecordProposal, Idle, BeliefsAreAuthorised, TypeOK, Rows, Claims, Execs
<1>4. CommittedIsBelieved'
    BY DEF Inv, RecordProposal, Idle, CommittedIsBelieved, TypeOK, Rows, Claims, Execs
<1>5. Grounded'
    BY DEF Inv, RecordProposal, Idle, Grounded, TypeOK, Rows, Claims, Execs
<1>6. Proposed'
    BY DEF Inv, RecordProposal, Idle, Proposed, TypeOK, Rows, Claims, Execs
<1>7. Executing'
    BY DEF Inv, RecordProposal, Idle, Executing, Applying, Approved, Contestable, Exact
<1>q. QED
    BY <1>1, <1>2, <1>3, <1>4, <1>5, <1>6, <1>7 DEF Inv

\* A decision changes a pending approval, which backs no evidence yet.
LEMMA DecideStep ==
    ASSUME Inv, NEW c \in Candidates, NEW d \in {"approved", "refused"}, Decide(c, d)
    PROVE  Inv'
<1>1. TypeOK'
    BY DEF Inv, Decide, Idle, TypeOK
<1>2. OneHead'
    BY DEF Inv, Decide, Idle, OneHead, Contestable
<1>3. BeliefsAreAuthorised'
    BY DEF Inv, Decide, Idle, BeliefsAreAuthorised
<1>4. CommittedIsBelieved'
    BY DEF Inv, Decide, Idle, CommittedIsBelieved
<1>5. Grounded'
    BY DEF Inv, Decide, Idle, Grounded
<1>6. Proposed'
    BY DEF Inv, Decide, Idle, Proposed
<1>7. Executing'
    BY DEF Inv, Decide, Idle, Executing, Applying, Approved, Contestable, Exact
<1>q. QED
    BY <1>1, <1>2, <1>3, <1>4, <1>5, <1>6, <1>7 DEF Inv

\* A refused entry ends without touching a claim.
LEMMA ExecuteDeniedStep ==
    ASSUME Inv, NEW c \in Candidates, ExecuteDenied(c)
    PROVE  Inv'
<1>1. TypeOK'
  <2>1. journal' \in [Candidates -> Rows]
    BY DEF Inv, ExecuteDenied, Entered, OpenRow, Idle, TypeOK, Rows, JournalStates
  <2>2. exec' \in Execs
    BY DEF Inv, ExecuteDenied, Entered, OpenRow, Idle, TypeOK, Execs, Labels
  <2>3. \A x \in Candidates : journal'[x].state = "promoting" => exec'.cand = x \/ stranded' > 0
    BY DEF Inv, ExecuteDenied, Entered, OpenRow, Idle, TypeOK, Rows, Execs
  <2>q. QED
    BY <2>1, <2>2, <2>3 DEF Inv, ExecuteDenied, Entered, OpenRow, Idle, TypeOK
<1>2. OneHead'
    BY DEF Inv, ExecuteDenied, Entered, OpenRow, Idle, OneHead, Contestable
<1>3. BeliefsAreAuthorised'
    BY DEF Inv, ExecuteDenied, Entered, OpenRow, Idle, BeliefsAreAuthorised
<1>4. CommittedIsBelieved'
    BY DEF Inv, ExecuteDenied, Entered, OpenRow, Idle, CommittedIsBelieved
<1>5. Grounded'
    BY DEF Inv, ExecuteDenied, Entered, OpenRow, Idle, Grounded
<1>6. Proposed'
    BY DEF Inv, ExecuteDenied, Entered, OpenRow, Idle, Proposed
<1>7. Executing'
    BY DEF Inv, ExecuteDenied, Entered, OpenRow, Idle, Executing, Applying, Approved,
           Contestable, Exact
<1>q. QED
    BY <1>1, <1>2, <1>3, <1>4, <1>5, <1>6, <1>7 DEF Inv

\* An entry of unknown origin ends without touching a claim.
LEMMA ExecuteUnknownStep ==
    ASSUME Inv, NEW c \in Candidates, ExecuteUnknown(c)
    PROVE  Inv'
<1>1. TypeOK'
  <2>1. journal' \in [Candidates -> Rows]
    BY DEF Inv, ExecuteUnknown, Entered, OpenRow, Idle, TypeOK, Rows, JournalStates
  <2>2. exec' \in Execs
    BY DEF Inv, ExecuteUnknown, Entered, OpenRow, Idle, TypeOK, Execs, Labels
  <2>3. \A x \in Candidates : journal'[x].state = "promoting" => exec'.cand = x \/ stranded' > 0
    BY DEF Inv, ExecuteUnknown, Entered, OpenRow, Idle, TypeOK, Rows, Execs
  <2>q. QED
    BY <2>1, <2>2, <2>3 DEF Inv, ExecuteUnknown, Entered, OpenRow, Idle, TypeOK
<1>2. OneHead'
    BY DEF Inv, ExecuteUnknown, Entered, OpenRow, Idle, OneHead, Contestable
<1>3. BeliefsAreAuthorised'
    BY DEF Inv, ExecuteUnknown, Entered, OpenRow, Idle, BeliefsAreAuthorised
<1>4. CommittedIsBelieved'
    BY DEF Inv, ExecuteUnknown, Entered, OpenRow, Idle, CommittedIsBelieved
<1>5. Grounded'
    BY DEF Inv, ExecuteUnknown, Entered, OpenRow, Idle, Grounded
<1>6. Proposed'
    BY DEF Inv, ExecuteUnknown, Entered, OpenRow, Idle, Proposed
<1>7. Executing'
    BY DEF Inv, ExecuteUnknown, Entered, OpenRow, Idle, Executing, Applying, Approved,
           Contestable, Exact
<1>q. QED
    BY <1>1, <1>2, <1>3, <1>4, <1>5, <1>6, <1>7 DEF Inv

\* An entry is taken for execution only with its authority established.
LEMMA ExecuteStep ==
    ASSUME Inv, NEW c \in Candidates, Execute(c)
    PROVE  Inv'
<1>1. TypeOK'
  <2>1. journal' \in [Candidates -> Rows]
    BY DEF Inv, Execute, Entered, OpenRow, Approved, Idle, TypeOK, Rows, JournalStates
  <2>2. exec' \in Execs
    BY DEF Inv, Execute, Entered, OpenRow, Approved, Idle, TypeOK, Execs, Labels
  <2>3. \A x \in Candidates : journal'[x].state = "promoting" => exec'.cand = x \/ stranded' > 0
    BY PromotionAssumption
    DEF Inv, Execute, Entered, OpenRow, Approved, Idle, TypeOK, Rows, Execs, Claims
  <2>q. QED
    BY <2>1, <2>2, <2>3 DEF Inv, Execute, Entered, OpenRow, Approved, Idle, TypeOK
<1>2. OneHead'
    BY DEF Inv, Execute, Entered, OpenRow, Approved, Idle, OneHead, Contestable
<1>3. BeliefsAreAuthorised'
    BY DEF Inv, Execute, Entered, OpenRow, Approved, Idle, BeliefsAreAuthorised
<1>4. CommittedIsBelieved'
    BY DEF Inv, Execute, Entered, OpenRow, Approved, Idle, CommittedIsBelieved
<1>5. Grounded'
    BY DEF Inv, Execute, Entered, OpenRow, Approved, Idle, Grounded
<1>6. Proposed'
    BY DEF Inv, Execute, Entered, OpenRow, Approved, Idle, Proposed
<1>7. Executing'
    BY DEF Inv, Execute, Entered, OpenRow, Approved, Idle, Executing, Applying,
           Contestable, Exact, TypeOK, Contents, Rows, Claims, Execs, Proposed, Grounded
<1>q. QED
    BY <1>1, <1>2, <1>3, <1>4, <1>5, <1>6, <1>7 DEF Inv

\* appendEvidence adds an authorised candidate and changes no status.
LEMMA ObserveStep ==
    ASSUME Inv, NEW c \in Candidates, Observe(c)
    PROVE  Inv'
<1>1. TypeOK'
  <2>1. claim' \in [Keys -> Claims]
    <3>1. said[c].key \in Keys
      BY ExecutedHasKey DEF Observe
    <3>2. claim[said[c].key] \in Claims
      BY <3>1 DEF Inv, TypeOK
    <3>3. [claim[said[c].key] EXCEPT !.times = @ + 1, !.seen = @ \cup {c}] \in Claims
      <4> DEFINE r == claim[said[c].key]
      <4>1. r.times + 1 \in Nat /\ (r.seen \cup {c}) \in SUBSET Candidates
        BY <3>2 DEF Claims
      <4> HIDE DEF r
      <4>2. ASSUME NEW t \in Nat, NEW s \in SUBSET Candidates, r \in Claims
            PROVE  [r EXCEPT !.times = t, !.seen = s] \in Claims
        BY <4>2 DEF Claims
      <4>q. QED
        BY <3>2, <4>1, <4>2 DEF r
    <3>4. claim' = [claim EXCEPT ![said[c].key] =
                      [claim[said[c].key] EXCEPT !.times = @ + 1, !.seen = @ \cup {c}]]
      BY <3>1, <3>2, Zenon DEF Inv, TypeOK, Observe
    <3>q. QED
      BY <3>1, <3>3, <3>4 DEF Inv, TypeOK
  <2>2. exec' \in Execs
    BY DEF Inv, Observe, Exact, Goto, TypeOK, Execs, Labels
  <2>q. QED
    BY <2>1, <2>2 DEF Inv, Observe, Exact, Goto, TypeOK
<1>2. OneHead'
    BY DEF Inv, Observe, Exact, Goto, OneHead, Contestable, TypeOK, Rows, Claims, Execs
<1>3. BeliefsAreAuthorised'
  <2>1. /\ exec.pc = "claimed" /\ exec.cand = c /\ said[c].key \in Keys
        /\ UNCHANGED <<said, journal, approval>>
    BY ExecutedHasKey DEF Observe
  <2>2. /\ said[c].class \in {"auto", "reviewed"}
        /\ IF journal[c].bound THEN approval[c] = "approved" ELSE said[c].class = "auto"
    BY <2>1 DEF Inv, Executing, Applying, Approved, Proposed, TypeOK, Contents, Classes
  <2>3. \A k \in Keys :
          claim'[k].seen = IF k = said[c].key THEN claim[k].seen \cup {c} ELSE claim[k].seen
    <3>1. claim \in [Keys -> Claims]
      BY DEF Inv, TypeOK
    <3>q. QED
      BY <2>1, <3>1 DEF Observe, Claims
  <2>q. QED
    <3> SUFFICES ASSUME NEW k \in Keys, NEW x \in claim'[k].seen
                 PROVE  /\ said[x].key = k
                        /\ said[x].class \in {"auto", "reviewed"}
                        /\ IF journal[x].bound THEN approval[x] = "approved"
                           ELSE said[x].class = "auto"
      BY <2>1 DEF BeliefsAreAuthorised
    <3>1. CASE x \in claim[k].seen
      BY <3>1 DEF Inv, BeliefsAreAuthorised
    <3>2. CASE x = c /\ k = said[c].key
      BY <2>2, <3>2
    <3>q. QED
      BY <2>3, <3>1, <3>2
<1>4. CommittedIsBelieved'
    BY DEF Inv, Observe, Exact, Goto, CommittedIsBelieved, TypeOK, Contents, Rows,
           Claims, Execs, Executing, Applying, Proposed, Grounded
<1>5. Grounded'
    BY SMTT(30) DEF Inv, Observe, Exact, Goto, Grounded, TypeOK, Contents, Rows, Claims, Execs,
           Executing, Applying
<1>6. Proposed'
    BY DEF Inv, Observe, Exact, Goto, Proposed
<1>7. Executing'
  <2>1. /\ exec.pc = "claimed" /\ exec.cand = c /\ said[c].key \in Keys
        /\ exec \in Execs /\ claim \in [Keys -> Claims] /\ claim[said[c].key] \in Claims
    BY ExecutedHasKey DEF Observe, Inv, TypeOK
  <2>2. /\ exec'.pc \in {"observed", "applied"}
        /\ exec'.pc = "observed" => claim[said[c].key].status = "candidate"
        /\ exec'.cand = c /\ exec'.loser = exec.loser
    BY <2>1 DEF Observe, Goto, Execs
  <2>3. claim'[said[c].key].status = claim[said[c].key].status /\ c \in claim'[said[c].key].seen
    BY <2>1 DEF Observe, Claims
  <2>4. UNCHANGED <<said, queue, journal, approval>>
    BY DEF Observe
  <2>q. QED
    BY <2>1, <2>2, <2>3, <2>4 DEF Inv, Executing, Applying, Approved
<1>q. QED
    BY <1>1, <1>2, <1>3, <1>4, <1>5, <1>6, <1>7 DEF Inv

\* The only head of the topic loses, which leaves it without one.
LEMMA DemoteStep ==
    ASSUME Inv, NEW c \in Candidates, Demote(c)
    PROVE  Inv'
<1>a. Rival(c) \in Contestable /\ Contestable = {Rival(c)}
    BY RivalIsHead DEF Demote
<1>b. Rival(c) \in Keys /\ said[c].key \in Keys /\ Rival(c) # said[c].key
    BY <1>a, ExecutedHasKey DEF Demote, Contestable, Exact
<1>c. claim' = [claim EXCEPT ![Rival(c)] = [@ EXCEPT !.status = Lost(claim[Rival(c)].status)]]
    BY <1>b DEF Demote, Inv, TypeOK
<1>1. TypeOK'
  <2>1. claim' \in [Keys -> Claims]
    <3>1. claim[Rival(c)] \in Claims
      BY <1>b DEF Inv, TypeOK
    <3>2. [claim[Rival(c)] EXCEPT !.status = Lost(claim[Rival(c)].status)] \in Claims
      BY <3>1 DEF Claims, ClaimStatuses, Lost
    <3>q. QED
      BY <1>b, <1>c, <3>2 DEF Inv, TypeOK
  <2>2. exec' \in Execs
    BY <1>a, <1>b, <1>c DEF Inv, Demote, TypeOK, Execs, Labels, Rows, Claims
  <2>q. QED
    BY <2>1, <2>2 DEF Inv, Demote, TypeOK
<1>2. OneHead'
    BY <1>a, <1>b, <1>c DEF Inv, Demote, OneHead, Contestable, TypeOK, Rows, Claims, Execs
<1>3. BeliefsAreAuthorised'
    BY <1>a, <1>b, <1>c DEF Inv, Demote, BeliefsAreAuthorised
<1>4. CommittedIsBelieved'
    BY <1>a, <1>b, <1>c DEF Inv, Demote, CommittedIsBelieved
<1>5. Grounded'
  <2>1. \A k \in Keys : claim'[k].seen = claim[k].seen
    BY <1>b, <1>c DEF Inv, TypeOK, Claims
  <2>2. \A k \in Keys : claim'[k].status = "none" => claim[k].status = "none"
    BY <1>b, <1>c DEF Inv, TypeOK, Claims, Lost
  <2>q. QED
    BY <2>1, <2>2 DEF Inv, Grounded, Demote
<1>6. Proposed'
    BY <1>a, <1>b, <1>c DEF Inv, Demote, Proposed
<1>7. Executing'
  <2>1. \A k \in Keys : k # Rival(c) => claim'[k] = claim[k]
    BY <1>b, <1>c DEF Inv, TypeOK
  <2>2. claim'[Rival(c)].status \in {"retired", "contradicted"}
    BY <1>b, <1>c DEF Inv, TypeOK, Claims, Lost
  <2>3. Contestable' = {}
    BY <1>a, <2>1, <2>2 DEF Contestable
  <2>4. ~Exact(c)'
    BY <1>b, <2>1 DEF Demote, Exact
  <2>q. QED
    BY <2>3, <2>4 DEF Inv, Executing, Applying, Approved, Demote, TypeOK, Execs, Idle
<1>q. QED
    BY <1>1, <1>2, <1>3, <1>4, <1>5, <1>6, <1>7 DEF Inv

\* A claim is created where there was none, on a topic without a head.
LEMMA CreateStep ==
    ASSUME Inv, NEW c \in Candidates, Create(c)
    PROVE  Inv'
<1>1. TypeOK'
  <2>1. claim' \in [Keys -> Claims]
    <3>1. said[c].key \in Keys
      BY ExecutedHasKey DEF Create
    <3>2. Cardinality({j \in Keys : claim[j].status # "none"}) + 1 \in Nat
      BY KeysAreFinite
    <3>q. QED
      BY <3>1, <3>2 DEF Inv, TypeOK, Create, Claims, ClaimStatuses
  <2>2. exec' \in Execs
    BY DEF Inv, Create, Exact, Goto, TypeOK, Execs, Labels
  <2>q. QED
    BY <2>1, <2>2 DEF Inv, Create, Exact, Goto, TypeOK
<1>2. OneHead'
    BY DEF Inv, Create, Exact, Goto, OneHead, Contestable, TypeOK, Contents, Rows,
           Claims, Execs, Executing, Applying
<1>3. BeliefsAreAuthorised'
    BY DEF Inv, Create, Exact, Goto, BeliefsAreAuthorised, TypeOK, Contents, Rows,
           Claims, Execs, Executing, Applying, Proposed, Grounded, Approved,
           CommittedIsBelieved, Idle, Classes
<1>4. CommittedIsBelieved'
    BY DEF Inv, Create, Exact, Goto, CommittedIsBelieved, TypeOK, Contents, Rows,
           Claims, Execs, Executing, Applying, Proposed, Grounded
<1>5. Grounded'
    BY DEF Inv, Create, Exact, Goto, Grounded, TypeOK, Contents, Rows, Claims, Execs,
           Executing, Applying
<1>6. Proposed'
    BY DEF Inv, Create, Exact, Goto, Proposed
<1>7. Executing'
    BY DEF Inv, Create, Exact, Goto, Executing, Applying, Approved, Contestable, TypeOK,
           Contents, Rows, Claims, Execs, Proposed, Grounded
<1>q. QED
    BY <1>1, <1>2, <1>3, <1>4, <1>5, <1>6, <1>7 DEF Inv

\* The claim just created or observed was the head and stays it.
LEMMA ActivateStep ==
    ASSUME Inv, NEW c \in Candidates, Activate(c)
    PROVE  Inv'
<1>1. TypeOK'
  <2>1. claim' \in [Keys -> Claims]
    <3>1. said[c].key \in Keys
      BY ExecutedHasKey DEF Activate
    <3>2. claim[said[c].key] \in Claims
      BY <3>1 DEF Inv, TypeOK
    <3>3. [claim[said[c].key] EXCEPT !.status = "active"] \in Claims
      BY <3>2 DEF Claims, ClaimStatuses
    <3>q. QED
      BY <3>1, <3>3 DEF Inv, TypeOK, Activate
  <2>2. exec' \in Execs
    BY DEF Inv, Activate, Goto, TypeOK, Execs, Labels
  <2>q. QED
    BY <2>1, <2>2 DEF Inv, Activate, Goto, TypeOK
<1>2. OneHead'
    BY DEF Inv, Activate, Goto, OneHead, Contestable, TypeOK, Contents, Rows, Claims,
           Execs, Executing, Applying
<1>3. BeliefsAreAuthorised'
    BY DEF Inv, Activate, Goto, BeliefsAreAuthorised
<1>4. CommittedIsBelieved'
    BY DEF Inv, Activate, Goto, CommittedIsBelieved
<1>5. Grounded'
    BY DEF Inv, Activate, Goto, Grounded
<1>6. Proposed'
    BY DEF Inv, Activate, Goto, Proposed
<1>7. Executing'
    BY DEF Inv, Activate, Goto, Executing, Applying, Approved, Contestable, Exact
<1>q. QED
    BY <1>1, <1>2, <1>3, <1>4, <1>5, <1>6, <1>7 DEF Inv

\* Parking a question touches neither rows nor claims.
LEMMA ParkStep ==
    ASSUME Inv, NEW c \in Candidates, NEW weak \in BOOLEAN, Park(c, weak)
    PROVE  Inv'
<1>1. TypeOK'
  <2>1. question' \in Questions
    <3> DEFINE fresh == Scarred \cup {exec.loser, said[c].key}
               prior == Cardinality(Scarred \ {exec.loser, said[c].key})
    <3>1. said[c].key \in Keys
      BY ExecutedHasKey DEF Park
    <3>2. exec.loser \in Keys
      BY DEF Inv, TypeOK, Execs, Executing, Park
    <3>3. fresh \in SUBSET Keys /\ prior \in Nat
      BY <3>1, <3>2, KeysAreFinite DEF Scarred
    <3>4. question \in Questions
      BY DEF Inv, TypeOK
    <3> HIDE DEF fresh, prior
    <3>5. Merged(fresh) \in Questions
      <4>1. (question.options \cup fresh) \in SUBSET Keys /\ question.contests + 1 \in Nat
        BY <3>3, <3>4 DEF Questions
      <4>2. ASSUME NEW o \in SUBSET Keys, NEW n \in Nat
            PROVE  [question EXCEPT !.options = o, !.contests = n] \in Questions
        BY <3>4 DEF Questions
      <4>q. QED
        BY <4>1, <4>2 DEF Merged
    <3>6. Opened(fresh, prior + 1) \in Questions
      BY <3>3 DEF Opened, Questions
    <3>7. \/ question' = question
          \/ question' = Merged(fresh)
          \/ question' = Opened(fresh, prior + 1)
      BY Zenon DEF Park, fresh, prior
    <3>q. QED
      BY <3>4, <3>5, <3>6, <3>7, Zenon
  <2>2. exec' \in Execs
    BY DEF Inv, Park, Goto, TypeOK, Execs, Labels
  <2>q. QED
    BY <2>1, <2>2 DEF Inv, Park, Goto, TypeOK, Rows, Claims, Execs
<1>2. OneHead'
    BY DEF Inv, Park, Goto, OneHead, Contestable
<1>3. BeliefsAreAuthorised'
    BY DEF Inv, Park, Goto, BeliefsAreAuthorised
<1>4. CommittedIsBelieved'
    BY DEF Inv, Park, Goto, CommittedIsBelieved
<1>5. Grounded'
    BY DEF Inv, Park, Goto, Grounded
<1>6. Proposed'
    BY DEF Inv, Park, Goto, Proposed
<1>7. Executing'
    BY DEF Inv, Park, Goto, Executing, Applying, Approved, Contestable, Exact
<1>q. QED
    BY <1>1, <1>2, <1>3, <1>4, <1>5, <1>6, <1>7 DEF Inv

\* An entry is committed after its candidate became evidence.
LEMMA CommitStep ==
    ASSUME Inv, NEW c \in Candidates, Commit(c)
    PROVE  Inv'
<1>1. TypeOK'
  <2>1. journal' \in [Candidates -> Rows]
    <3>1. exec.loser \in Keys \cup {NoKey}
      BY DEF Inv, TypeOK, Execs
    <3>2. journal[c] \in Rows
      BY DEF Inv, TypeOK
    <3>3. [journal[c] EXCEPT !.state = "committed", !.against = exec.loser] \in Rows
      BY <3>1, <3>2 DEF Rows, JournalStates
    <3>q. QED
      BY <3>3 DEF Inv, TypeOK, Commit
  <2>2. exec' \in Execs
    BY DEF Inv, Commit, Idle, TypeOK, Execs, Labels
  <2>3. \A x \in Candidates : journal'[x].state = "promoting" => exec'.cand = x \/ stranded' > 0
    BY DEF Inv, Commit, Idle, TypeOK, Rows, Execs
  <2>q. QED
    BY <2>1, <2>2, <2>3 DEF Inv, Commit, Idle, TypeOK
<1>2. OneHead'
    BY DEF Inv, Commit, Idle, OneHead, Contestable
<1>3. BeliefsAreAuthorised'
    BY DEF Inv, Commit, Idle, BeliefsAreAuthorised, TypeOK, Rows, Claims, Execs
<1>4. CommittedIsBelieved'
    BY DEF Inv, Commit, Idle, CommittedIsBelieved, TypeOK, Contents, Rows, Claims,
           Execs, Executing, Applying
<1>5. Grounded'
    BY DEF Inv, Commit, Idle, Grounded, TypeOK, Rows, Claims, Execs
<1>6. Proposed'
    BY DEF Inv, Commit, Idle, Proposed, TypeOK, Contents, Rows, Claims, Execs,
           Executing, Applying
<1>7. Executing'
    BY DEF Inv, Commit, Idle, Executing, Applying, Approved, Contestable, Exact
<1>q. QED
    BY <1>1, <1>2, <1>3, <1>4, <1>5, <1>6, <1>7 DEF Inv

\* A proposal that fails leaves at most an approval nothing waits for.
LEMMA ProposalFailsStep ==
    ASSUME Inv, NEW c \in Candidates, ProposalFails(c)
    PROVE  Inv'
<1>1. TypeOK'
  <2>1. queue' \subseteq Candidates /\ journal' = journal
    BY DEF Inv, ProposalFails, TypeOK
  <2>2. exec' \in Execs
    BY DEF Inv, ProposalFails, Idle, TypeOK, Execs, Labels
  <2>3. \A x \in Candidates : journal'[x].state = "promoting" => exec'.cand = x \/ stranded' > 0
    BY DEF Inv, ProposalFails, Idle, Executing, TypeOK, Rows, Execs
  <2>q. QED
    BY <2>1, <2>2, <2>3 DEF Inv, ProposalFails, Idle, TypeOK
<1>2. OneHead'
    BY DEF Inv, ProposalFails, Idle, OneHead, Contestable
<1>3. BeliefsAreAuthorised'
    BY DEF Inv, ProposalFails, Idle, BeliefsAreAuthorised
<1>4. CommittedIsBelieved'
    BY DEF Inv, ProposalFails, Idle, CommittedIsBelieved
<1>5. Grounded'
    BY DEF Inv, ProposalFails, Idle, Grounded
<1>6. Proposed'
    BY DEF Inv, ProposalFails, Idle, Proposed
<1>7. Executing'
    BY DEF Inv, ProposalFails, Idle, Executing, Applying, Approved,
           Contestable, Exact
<1>q. QED
    BY <1>1, <1>2, <1>3, <1>4, <1>5, <1>6, <1>7 DEF Inv

\* A failed entry leaves its evidence, which was authorised.
LEMMA ApplyFailsStep ==
    ASSUME Inv, NEW c \in Candidates, ApplyFails(c)
    PROVE  Inv'
<1>1. TypeOK'
  <2>1. journal' \in [Candidates -> Rows]
    BY DEF Inv, ApplyFails, Idle, TypeOK, Rows, JournalStates
  <2>2. exec' \in Execs
    BY DEF Inv, ApplyFails, Idle, TypeOK, Execs, Labels
  <2>3. \A x \in Candidates : journal'[x].state = "promoting" => exec'.cand = x \/ stranded' > 0
    BY DEF Inv, ApplyFails, Idle, TypeOK, Rows, Execs
  <2>q. QED
    BY <2>1, <2>2, <2>3 DEF Inv, ApplyFails, Idle, TypeOK
<1>2. OneHead'
    BY DEF Inv, ApplyFails, Idle, OneHead, Contestable
<1>3. BeliefsAreAuthorised'
    BY DEF Inv, ApplyFails, Idle, BeliefsAreAuthorised
<1>4. CommittedIsBelieved'
    BY DEF Inv, ApplyFails, Idle, CommittedIsBelieved
<1>5. Grounded'
    BY DEF Inv, ApplyFails, Idle, Grounded
<1>6. Proposed'
  <2>1. journal[c].state = "promoting"
    BY DEF Inv, ApplyFails, Executing
  <2>2. \A x \in Candidates :
          /\ journal'[x].bound = journal[x].bound
          /\ (journal'[x].state = "none") <=> (journal[x].state = "none")
    BY <2>1 DEF Inv, ApplyFails, TypeOK, Rows
  <2>q. QED
    BY <2>2 DEF Inv, ApplyFails, Idle, Proposed
<1>7. Executing'
    BY DEF Inv, ApplyFails, Idle, Executing, Applying, Approved,
           Contestable, Exact
<1>q. QED
    BY <1>1, <1>2, <1>3, <1>4, <1>5, <1>6, <1>7 DEF Inv

\* An entry whose failure could not be recorded stays promoting.
LEMMA MarkFailsStep ==
    ASSUME Inv, NEW c \in Candidates, MarkFails(c)
    PROVE  Inv'
<1>1. TypeOK'
  <2>1. stranded' \in 0..MaxStranded /\ stranded' > 0
    BY PromotionAssumption DEF Inv, MarkFails, TypeOK
  <2>2. exec' \in Execs
    BY DEF MarkFails, Idle, Execs, Labels
  <2>q. QED
    BY <2>1, <2>2 DEF Inv, MarkFails, TypeOK
<1>2. OneHead'
    BY DEF Inv, MarkFails, OneHead, Contestable
<1>3. BeliefsAreAuthorised'
    BY DEF Inv, MarkFails, BeliefsAreAuthorised
<1>4. CommittedIsBelieved'
    BY DEF Inv, MarkFails, CommittedIsBelieved
<1>5. Grounded'
    BY DEF Inv, MarkFails, Grounded
<1>6. Proposed'
    BY DEF Inv, MarkFails, Proposed
<1>7. Executing'
    BY DEF MarkFails, Idle, Executing, Applying
<1>q. QED
    BY <1>1, <1>2, <1>3, <1>4, <1>5, <1>6, <1>7 DEF Inv

\* Retiring a claim takes a head away and keeps its evidence.
LEMMA RetireStep ==
    ASSUME Inv, NEW k \in Keys, Retire(k)
    PROVE  Inv'
<1>1. TypeOK'
  <2>1. claim' \in [Keys -> Claims]
    BY DEF Inv, Retire, Idle, TypeOK, Claims, ClaimStatuses
  <2>q. QED
    BY <2>1 DEF Inv, Retire, Idle, TypeOK
<1>2. OneHead'
    BY DEF Inv, Retire, Idle, OneHead, Contestable
<1>3. BeliefsAreAuthorised'
    BY DEF Inv, Retire, Idle, BeliefsAreAuthorised
<1>4. CommittedIsBelieved'
    BY DEF Inv, Retire, Idle, CommittedIsBelieved
<1>5. Grounded'
    BY DEF Inv, Retire, Idle, Grounded
<1>6. Proposed'
    BY DEF Inv, Retire, Idle, Proposed
<1>7. Executing'
    BY DEF Inv, Retire, Idle, Executing, Applying, Approved, Contestable, Exact
<1>q. QED
    BY <1>1, <1>2, <1>3, <1>4, <1>5, <1>6, <1>7 DEF Inv

\* Resolving a question touches neither rows nor claims.
LEMMA DismissStep ==
    ASSUME Inv, Dismiss
    PROVE  Inv'
<1>1. TypeOK'
    BY DEF Inv, Dismiss, Idle, TypeOK, Questions
<1>2. OneHead'
    BY DEF Inv, Dismiss, Idle, OneHead, Contestable
<1>3. BeliefsAreAuthorised'
    BY DEF Inv, Dismiss, Idle, BeliefsAreAuthorised
<1>4. CommittedIsBelieved'
    BY DEF Inv, Dismiss, Idle, CommittedIsBelieved
<1>5. Grounded'
    BY DEF Inv, Dismiss, Idle, Grounded
<1>6. Proposed'
    BY DEF Inv, Dismiss, Idle, Proposed
<1>7. Executing'
    BY DEF Inv, Dismiss, Idle, Executing, Applying, Approved, Contestable, Exact
<1>q. QED
    BY <1>1, <1>2, <1>3, <1>4, <1>5, <1>6, <1>7 DEF Inv

\* A crash forgets the execution, and its row is proposed again.
LEMMA CrashStep ==
    ASSUME Inv, Crash
    PROVE  Inv'
<1>1. TypeOK'
  <2>1. journal' \in [Candidates -> Rows]
    BY DEF Inv, Crash, Idle, TypeOK, Rows, JournalStates
  <2>2. exec' \in Execs
    BY DEF Inv, Crash, Idle, TypeOK, Execs, Labels
  <2>3. \A x \in Candidates : journal'[x].state # "promoting"
    BY DEF Inv, Crash, TypeOK, Rows
  <2>4. stranded' \in 0..MaxStranded
    BY PromotionAssumption DEF Inv, Crash, TypeOK
  <2>5. queue' = {} /\ UNCHANGED <<said, approval, claim, question, noticed>>
    BY DEF Crash
  <2>q. QED
    BY <2>1, <2>2, <2>3, <2>4, <2>5 DEF Inv, TypeOK
<1>2. OneHead'
    BY DEF Inv, Crash, Idle, OneHead, Contestable
<1>3. BeliefsAreAuthorised'
    BY DEF Inv, Crash, Idle, BeliefsAreAuthorised, TypeOK, Rows, Claims, Execs
<1>4. CommittedIsBelieved'
    BY DEF Inv, Crash, Idle, CommittedIsBelieved
<1>5. Grounded'
    BY DEF Inv, Crash, Idle, Grounded, TypeOK, Rows, Claims, Execs
<1>6. Proposed'
    BY DEF Inv, Crash, Idle, Proposed
<1>7. Executing'
    BY DEF Inv, Crash, Idle, Executing, Applying, Approved, Contestable, Exact
<1>q. QED
    BY <1>1, <1>2, <1>3, <1>4, <1>5, <1>6, <1>7 DEF Inv

\* The empty tables satisfy the invariant.
LEMMA InitInv == Init => Inv
<1> SUFFICES ASSUME Init
             PROVE  Inv
    OBVIOUS
<1>1. TypeOK
  <2>1. said \in [Candidates -> Contents] /\ journal \in [Candidates -> Rows]
    BY DEF Init, Contents, Unsaved, Classes, Rows, NoRow, JournalStates
  <2>2. claim \in [Keys -> Claims] /\ exec \in Execs
    BY DEF Init, Claims, NoClaim, ClaimStatuses, Execs, Idle, Labels
  <2>3. question \in Questions
    BY DEF Init, Questions
  <2>4. stranded \in 0..MaxStranded
    BY PromotionAssumption DEF Init
  <2>5. noticed \in BOOLEAN
    BY Zenon DEF Init
  <2>6. queue \subseteq Candidates
        /\ approval \in [Candidates -> {"none", "pending", "approved", "refused"}]
    BY DEF Init
  <2>7. \A c \in Candidates : journal[c].state = "promoting" => exec.cand = c \/ stranded > 0
    BY DEF Init, NoRow
  <2>q. QED
    BY <2>1, <2>2, <2>3, <2>4, <2>5, <2>6, <2>7 DEF TypeOK
<1>2. OneHead
    BY DEF Init, OneHead, Contestable, NoClaim
<1>3. BeliefsAreAuthorised
    BY DEF Init, BeliefsAreAuthorised, NoClaim
<1>4. CommittedIsBelieved
    BY DEF Init, CommittedIsBelieved, NoRow
<1>5. Grounded
    BY DEF Init, Grounded, NoClaim
<1>6. Proposed
    BY DEF Init, Proposed, Unsaved, NoRow
<1>7. Executing
    BY DEF Init, Executing, Applying, Idle
<1>q. QED
    BY <1>1, <1>2, <1>3, <1>4, <1>5, <1>6, <1>7 DEF Inv

\* Every step, and stuttering, preserves the invariant.
LEMMA NextInv == Inv /\ [Next]_vars => Inv'
<1> SUFFICES ASSUME Inv, [Next]_vars
             PROVE  Inv'
    OBVIOUS
<1>1. ASSUME NEW c \in Candidates, NEW k \in Keys, NEW class \in Classes \ {"unsaved"},
             Save(c, k, class)
      PROVE  Inv'
    BY <1>1, SaveStep
<1>2. ASSUME NEW c \in Candidates,
             ProposeAuto(c) \/ MintApproval(c) \/ RecordProposal(c) \/ ProposalFails(c)
      PROVE  Inv'
    BY <1>2, ProposeAutoStep, MintApprovalStep, RecordProposalStep, ProposalFailsStep
<1>3. ASSUME NEW c \in Candidates, NEW decision \in {"approved", "refused"},
             Decide(c, decision)
      PROVE  Inv'
    BY <1>3, DecideStep
<1>4. ASSUME NEW c \in Candidates,
             ExecuteDenied(c) \/ ExecuteUnknown(c) \/ Execute(c)
      PROVE  Inv'
    BY <1>4, ExecuteDeniedStep, ExecuteUnknownStep, ExecuteStep
<1>5. ASSUME NEW c \in Candidates,
             \/ Observe(c) \/ Demote(c) \/ Create(c) \/ Activate(c) \/ Commit(c)
             \/ ApplyFails(c) \/ MarkFails(c)
      PROVE  Inv'
    BY <1>5, ObserveStep, DemoteStep, CreateStep, ActivateStep, CommitStep, ApplyFailsStep,
       MarkFailsStep
<1>6. ASSUME NEW c \in Candidates, NEW weak \in BOOLEAN, Park(c, weak)
      PROVE  Inv'
    BY <1>6, ParkStep
<1>7. ASSUME NEW k \in Keys, Retire(k)
      PROVE  Inv'
    BY <1>7, RetireStep
<1>8. CASE Dismiss \/ Crash
    BY <1>8, DismissStep, CrashStep
<1>9. CASE UNCHANGED vars
    BY <1>9 DEF vars, Inv, TypeOK, OneHead, Contestable, BeliefsAreAuthorised,
                CommittedIsBelieved, Grounded, Proposed, Executing, Approved, Exact
<1>q. QED
    BY <1>1, <1>2, <1>3, <1>4, <1>5, <1>6, <1>7, <1>8, <1>9, Zenon DEF Next

\* The invariant holds in every reachable state.
LEMMA Invariance == Spec => []Inv
<1>1. Init => Inv
    BY InitInv
<1>2. Inv /\ [Next]_vars => Inv'
    BY NextInv
<1>q. QED
    BY <1>1, <1>2, PTL DEF Spec

\* The tables stay typed, and only an execution whose failure could not be
\* recorded leaves its row promoting.
THEOREM TablesAreTyped == Spec => []TypeOK
<1>1. Inv => TypeOK
    BY DEF Inv
<1>q. QED
    BY <1>1, Invariance, PTL

\* At most one claim of a topic is candidate or active, for any number of
\* candidates, objects, crashes and failed writes.
THEOREM TopicHasOneHead == Spec => []OneHead
<1>1. Inv => OneHead
    BY DEF Inv
<1>q. QED
    BY <1>1, Invariance, PTL

\* Every piece of evidence says its claim, has a known origin, and was
\* approved or admitted by the configuration.
THEOREM EvidenceIsAuthorised == Spec => []BeliefsAreAuthorised
<1>1. Inv => BeliefsAreAuthorised
    BY DEF Inv
<1>q. QED
    BY <1>1, Invariance, PTL

\* A committed promotion is evidence of its claim, wherever a crash or a failed
\* write hit.
THEOREM CommitsAreBelieved == Spec => []CommittedIsBelieved
<1>1. Inv => CommittedIsBelieved
    BY DEF Inv
<1>q. QED
    BY <1>1, Invariance, PTL

-----------------------------------------------------------------------------
(* The accounts: what is counted, what the notes say, and who was asked.   *)

\* c is being executed, its row taken and the evidence perhaps applied.
InHand(c) == exec.pc \in Applying /\ exec.cand = c

\* The observation c makes is still to come, for the first time or again.
Recounts(c) ==
    \/ journal[c].state = "proposed"
    \/ journal[c].state = "promoting" /\ ~InHand(c)
    \/ exec.pc = "claimed" /\ exec.cand = c

\* Whatever a claim was counted too often, or still will be, an execution that
\* ended with its row promoting paid for.
Counted(k) ==
    /\ IsFiniteSet(claim[k].seen)
    /\ Cardinality(claim[k].seen) <= claim[k].times
    /\ claim[k].times + Cardinality({c \in claim[k].seen : Recounts(c)})
         <= Cardinality(claim[k].seen) + stranded
Counts == \A k \in Keys : Counted(k)

\* A step that observes nothing, and queues no observation that was made.
LEMMA NothingCounted ==
    ASSUME Inv, Counts, stranded' = stranded,
           \A k \in Keys : claim'[k].seen = claim[k].seen /\ claim'[k].times = claim[k].times,
           \A k \in Keys : \A c \in claim[k].seen : Recounts(c)' => Recounts(c)
    PROVE  \A k \in Keys : Counted(k)'
<1> SUFFICES ASSUME NEW k \in Keys PROVE Counted(k)'
    OBVIOUS
<1>0. claim[k] \in Claims /\ stranded \in Nat
    BY PromotionAssumption DEF Inv, TypeOK
<1>1. claim[k].times \in Nat /\ stranded \in Nat /\ IsFiniteSet(claim[k].seen)
    BY <1>0 DEF Claims, Counts, Counted
<1>2. {c \in claim'[k].seen : Recounts(c)'} \subseteq {c \in claim[k].seen : Recounts(c)}
    OBVIOUS
<1>3. {c \in claim[k].seen : Recounts(c)} \subseteq claim[k].seen
    OBVIOUS
<1>4. /\ Cardinality({c \in claim'[k].seen : Recounts(c)'}) \in Nat
      /\ Cardinality({c \in claim[k].seen : Recounts(c)}) \in Nat
      /\ Cardinality(claim[k].seen) \in Nat
      /\ Cardinality({c \in claim'[k].seen : Recounts(c)'})
           <= Cardinality({c \in claim[k].seen : Recounts(c)})
    BY <1>1, <1>2, <1>3, FS_Subset, FS_CardinalityType
<1> DEFINE new == Cardinality({c \in claim'[k].seen : Recounts(c)'})
           old == Cardinality({c \in claim[k].seen : Recounts(c)})
<1>5. claim[k].times + old <= Cardinality(claim[k].seen) + stranded
    BY DEF Counts, Counted
<1>6. Cardinality(claim[k].seen) <= claim[k].times
    BY DEF Counts, Counted
<1>7. new \in Nat /\ old \in Nat /\ new <= old
    BY <1>4
<1> HIDE DEF new, old
<1>8. claim[k].times + new <= Cardinality(claim[k].seen) + stranded
    BY <1>1, <1>4, <1>5, <1>7
<1>q. QED
    BY <1>1, <1>6, <1>8 DEF Counted, new

\* The empty tables count nothing.
LEMMA CountsInit == ASSUME Init PROVE Counts
<1>1. IsFiniteSet({}) /\ Cardinality({}) = 0
    BY FS_EmptySet
<1>2. ASSUME NEW k \in Keys PROVE Counted(k)
  <2>1. claim[k].times = 0 /\ claim[k].seen = {} /\ stranded = 0
    BY DEF Init, NoClaim
  <2>2. {c \in claim[k].seen : Recounts(c)} = {}
    BY <2>1
  <2>q. QED
    BY <1>1, <2>1, <2>2 DEF Counted
<1>q. QED
    BY <1>2 DEF Counts

\* A candidate is counted, and then not again unless its row is executed again.
LEMMA ObserveCounts ==
    ASSUME Inv, Counts, NEW c \in Candidates, Observe(c)
    PROVE  \A k \in Keys : Counted(k)'
<1> DEFINE key == said[c].key
<1>1. key \in Keys
    BY ExecutedHasKey DEF Observe
<1>2. claim' = [claim EXCEPT ![key].times = @ + 1, ![key].seen = @ \cup {c}]
    BY DEF Observe
<1>3. /\ exec.pc = "claimed" /\ exec.cand = c /\ journal[c].state = "promoting"
      /\ exec'.pc \in {"observed", "applied"} /\ exec'.cand = c
      /\ UNCHANGED <<journal, stranded>>
    BY DEF Observe, Goto, Inv, Executing, Applying, TypeOK, Execs
<1>4. Recounts(c) /\ ~Recounts(c)' /\ \A d \in Candidates : Recounts(d)' => Recounts(d)
    BY <1>3 DEF Recounts, InHand, Applying
<1>5. claim \in [Keys -> Claims] /\ stranded \in Nat
    BY PromotionAssumption DEF Inv, TypeOK
<1> HIDE DEF key
<1>6. ASSUME NEW k \in Keys PROVE Counted(k)'
  <2> DEFINE S == claim[k].seen
             R == {d \in S : Recounts(d)}
             T == claim'[k].seen
             Q == {d \in T : Recounts(d)'}
  <2>1. /\ IsFiniteSet(S) /\ Cardinality(S) <= claim[k].times
        /\ claim[k].times + Cardinality(R) <= Cardinality(S) + stranded
    BY DEF Counts, Counted
  <2>2. claim[k].times \in Nat /\ S \subseteq Candidates
    BY <1>5 DEF Claims
  <2>3. IsFiniteSet(R) /\ Cardinality(R) \in Nat /\ Cardinality(S) \in Nat
    BY <2>1, FS_Subset, FS_CardinalityType
  <2>4. CASE k # key
    <3>1. claim'[k] = claim[k]
      BY <1>2, <1>5, <2>4
    <3>2. Q \subseteq R
      BY <1>4, <2>2, <3>1
    <3>3. Cardinality(Q) \in Nat /\ Cardinality(Q) <= Cardinality(R)
      BY <2>3, <3>2, FS_Subset, FS_CardinalityType
    <3> HIDE DEF Q, R
    <3>q. QED
      BY <1>3, <1>5, <2>1, <2>2, <2>3, <3>1, <3>3 DEF Counted, Q
  <2>5. CASE k = key
    <3>1. claim'[k].times = claim[k].times + 1 /\ T = S \cup {c}
      BY <1>1, <1>2, <1>5, <2>5 DEF Claims
    <3>2. Q \subseteq R \ {c}
      BY <1>4, <2>2, <3>1
    <3>3. /\ IsFiniteSet(T)
          /\ Cardinality(T) = IF c \in S THEN Cardinality(S) ELSE Cardinality(S) + 1
      <4>1. /\ IsFiniteSet(S \cup {c})
            /\ Cardinality(S \cup {c}) = IF c \in S THEN Cardinality(S) ELSE Cardinality(S) + 1
        <5>1. IsFiniteSet(S)
          BY <2>1
        <5> HIDE DEF S
        <5>q. QED
          BY <5>1, FS_AddElement
      <4>2. T = S \cup {c}
        BY <3>1
      <4> HIDE DEF S, T
      <4>q. QED
        BY <4>1, <4>2
    <3>4. /\ IsFiniteSet(R \ {c})
          /\ Cardinality(R \ {c}) = IF c \in R THEN Cardinality(R) - 1 ELSE Cardinality(R)
      BY <2>3, FS_RemoveElement
    <3>5. c \in S => c \in R
      BY <1>4
    <3>6. IsFiniteSet(Q) /\ Cardinality(Q) <= Cardinality(R \ {c})
      BY <3>2, <3>4, FS_Subset
    <3>7. Cardinality(Q) \in Nat
      BY <3>6, FS_CardinalityType
    <3> HIDE DEF Q, R, S, T
    <3>8. claim'[k].times + Cardinality(Q) <= Cardinality(T) + stranded
      BY <1>5, <2>1, <2>2, <2>3, <3>1, <3>3, <3>4, <3>5, <3>6, <3>7
    <3>9. Cardinality(T) <= claim'[k].times
      BY <2>1, <2>2, <2>3, <3>1, <3>3
    <3>q. QED
      BY <1>3, <3>3, <3>8, <3>9 DEF Counted, Q, T
  <2>q. QED
    BY <2>4, <2>5
<1>q. QED
    BY <1>6

\* A new claim has one observation.
LEMMA CreateCounts ==
    ASSUME Inv, Counts, NEW c \in Candidates, Create(c)
    PROVE  \A k \in Keys : Counted(k)'
<1> DEFINE key == said[c].key
<1>1. key \in Keys
    BY ExecutedHasKey DEF Create
<1>2. /\ claim'[key].times = 1 /\ claim'[key].seen = {c}
      /\ \A k \in Keys \ {key} : claim'[k] = claim[k]
    BY <1>1 DEF Create, Inv, TypeOK
<1>3. /\ exec.cand = c /\ journal[c].state = "promoting" /\ exec'.pc = "created"
      /\ exec'.cand = c
      /\ UNCHANGED <<journal, stranded>>
    BY DEF Create, Goto, Inv, Executing, Applying, TypeOK, Execs
<1>4. ~Recounts(c)' /\ \A d \in Candidates : Recounts(d)' => Recounts(d)
    BY <1>3 DEF Recounts, InHand, Applying
<1>5. claim \in [Keys -> Claims] /\ stranded \in Nat
    BY PromotionAssumption DEF Inv, TypeOK
<1> HIDE DEF key
<1>6. ASSUME NEW k \in Keys, k # key PROVE Counted(k)'
  <2> DEFINE S == claim[k].seen
             R == {d \in S : Recounts(d)}
             Q == {d \in S : Recounts(d)'}
  <2>1. /\ IsFiniteSet(S) /\ Cardinality(S) <= claim[k].times
        /\ claim[k].times + Cardinality(R) <= Cardinality(S) + stranded
    BY DEF Counts, Counted
  <2>2. claim[k].times \in Nat /\ S \subseteq Candidates
    BY <1>5 DEF Claims
  <2>3. IsFiniteSet(R) /\ Cardinality(R) \in Nat /\ Cardinality(S) \in Nat
    BY <2>1, FS_Subset, FS_CardinalityType
  <2>4. Q \subseteq R
    BY <1>4, <2>2
  <2>5. Cardinality(Q) \in Nat /\ Cardinality(Q) <= Cardinality(R)
    BY <2>3, <2>4, FS_Subset, FS_CardinalityType
  <2>6. claim'[k] = claim[k]
    BY <1>2, <1>6
  <2> HIDE DEF Q, R
  <2>q. QED
    BY <1>3, <1>5, <2>1, <2>2, <2>3, <2>5, <2>6 DEF Counted, Q
<1>7. ASSUME NEW k \in Keys, k = key PROVE Counted(k)'
  <2> DEFINE Q == {d \in claim'[k].seen : Recounts(d)'}
  <2>1. Q = {}
    BY <1>2, <1>4, <1>7
  <2>2. /\ IsFiniteSet({c}) /\ Cardinality({c}) = 1
        /\ Cardinality({}) = 0
    BY FS_Singleton, FS_EmptySet
  <2>3. claim'[k].times = 1 /\ claim'[k].seen = {c}
    BY <1>2, <1>7
  <2>4. stranded' = stranded
    BY <1>3
  <2> HIDE DEF Q
  <2>5. Cardinality(Q) = 0
    BY <2>1, <2>2
  <2>6. 1 + Cardinality(Q) <= 1 + stranded
    BY <1>5, <2>5
  <2>q. QED
    BY <2>2, <2>3, <2>4, <2>6 DEF Counted, Q
<1>q. QED
    BY <1>6, <1>7

\* What leaves a row promoting makes one observation due again at most, and
\* pays for it.
LEMMA StrandingCounts ==
    ASSUME Inv, Counts, claim' = claim, stranded' = stranded + 1,
           \A d \in Candidates : Recounts(d)' /\ d # exec.cand => Recounts(d)
    PROVE  \A k \in Keys : Counted(k)'
<1>1. stranded \in Nat
    BY PromotionAssumption DEF Inv, TypeOK
<1>3. ASSUME NEW k \in Keys PROVE Counted(k)'
  <2> DEFINE S == claim[k].seen
             R == {d \in S : Recounts(d)}
             Q == {d \in S : Recounts(d)'}
  <2>1. /\ IsFiniteSet(S) /\ Cardinality(S) <= claim[k].times
        /\ claim[k].times + Cardinality(R) <= Cardinality(S) + stranded
    BY DEF Counts, Counted
  <2>2. claim[k].times \in Nat /\ S \subseteq Candidates
    BY DEF Inv, TypeOK, Claims
  <2>3. IsFiniteSet(R) /\ Cardinality(R) \in Nat /\ Cardinality(S) \in Nat
    BY <2>1, FS_Subset, FS_CardinalityType
  <2>4. Q \subseteq R \cup {exec.cand}
    BY <2>2
  <2>5. /\ IsFiniteSet(R \cup {exec.cand})
        /\ Cardinality(R \cup {exec.cand}) = IF exec.cand \in R THEN Cardinality(R) ELSE Cardinality(R) + 1
    BY <2>3, FS_AddElement
  <2>6. IsFiniteSet(Q) /\ Cardinality(Q) <= Cardinality(R \cup {exec.cand})
    BY <2>4, <2>5, FS_Subset
  <2>7. Cardinality(Q) \in Nat
    BY <2>6, FS_CardinalityType
  <2> HIDE DEF Q, R
  <2>q. QED
    BY <1>1, <2>1, <2>2, <2>3, <2>5, <2>6, <2>7 DEF Counted, Q
<1>q. QED
    BY <1>3

\* A crash queues the rows found promoting again: that is due already, but for
\* the one in hand.
LEMMA CrashCounts ==
    ASSUME Inv, Counts, Crash
    PROVE  \A k \in Keys : Counted(k)'
<1>1. /\ claim' = claim /\ exec' = Idle
      /\ \A d \in Candidates :
           /\ journal'[d].state # "promoting"
           /\ journal'[d].state = "proposed" => journal[d].state \in {"proposed", "promoting"}
    BY DEF Crash, Inv, TypeOK, Rows
<1>2. \A d \in Candidates : Recounts(d)' /\ ~InHand(d) => Recounts(d)
    BY <1>1 DEF Recounts, Idle
<1>3. CASE exec.pc \in Applying
  <2>1. stranded' = stranded + 1
    BY <1>3 DEF Crash
  <2>2. \A d \in Candidates : Recounts(d)' /\ d # exec.cand => Recounts(d)
    BY <1>2 DEF InHand
  <2>q. QED
    BY <1>1, <2>1, <2>2, StrandingCounts
<1>4. CASE exec.pc \notin Applying
  <2>1. stranded' = stranded
    BY <1>4 DEF Crash
  <2>2. \A d \in Candidates : Recounts(d)' => Recounts(d)
    BY <1>2, <1>4 DEF InHand
  <2>3. \A k \in Keys : claim[k].seen \subseteq Candidates
    BY DEF Inv, TypeOK, Claims
  <2>q. QED
    BY <1>1, <2>1, <2>2, <2>3, NothingCounted
<1>q. QED
    BY <1>3, <1>4

\* An entry whose failure could not be recorded is due again.
LEMMA MarkFailsCounts ==
    ASSUME Inv, Counts, NEW c \in Candidates, MarkFails(c)
    PROVE  \A k \in Keys : Counted(k)'
<1>1. /\ claim' = claim /\ journal' = journal /\ exec' = Idle
      /\ stranded' = stranded + 1
    BY DEF MarkFails
<1>2. \A d \in Candidates : Recounts(d)' /\ d # exec.cand => Recounts(d)
    BY <1>1 DEF Recounts, InHand, Idle
<1>q. QED
    BY <1>1, <1>2, StrandingCounts

\* Every step keeps the counts.
LEMMA CountsStep ==
    ASSUME Inv, Counts, [Next]_vars
    PROVE  Counts'
<1>1. ASSUME NEW c \in Candidates, Execute(c)
      PROVE  \A d \in Candidates : Recounts(d)' => Recounts(d)
  <2>1. journal[c].state \in {"proposed", "promoting"} /\ exec.pc \notin Applying
    BY <1>1 DEF Execute, Entered, OpenRow, Idle, Applying
  <2>2. /\ journal' = [journal EXCEPT ![c].state = "promoting"]
        /\ exec' = [Idle EXCEPT !.pc = "claimed", !.cand = c]
    BY <1>1 DEF Execute
  <2>q. QED
    BY <2>1, <2>2 DEF Recounts, InHand, Applying, Idle, Inv, TypeOK, Rows
<1>2. ASSUME NEW c \in Candidates, ProposeAuto(c) \/ RecordProposal(c)
      PROVE  \A k \in Keys : \A d \in claim[k].seen : Recounts(d)' => Recounts(d)
  <2>1. journal[c].state = "none"
    BY <1>2 DEF ProposeAuto, RecordProposal, Inv, Executing, Proposed
  <2>2. \A k \in Keys : c \notin claim[k].seen /\ claim[k].seen \subseteq Candidates
    BY <2>1 DEF Inv, Grounded, TypeOK, Claims
  <2>3. /\ \A d \in Candidates \ {c} : journal'[d] = journal[d]
        /\ exec'.pc # "claimed"
    <3>1. CASE ProposeAuto(c)
      BY <3>1 DEF ProposeAuto, Idle, Inv, TypeOK
    <3>2. CASE RecordProposal(c)
      <4>1. /\ journal' = [journal EXCEPT ![c].state = "proposed", ![c].bound = TRUE]
            /\ exec' = Idle
        BY <3>2 DEF RecordProposal
      <4>q. QED
        BY <4>1 DEF Idle, Inv, TypeOK
    <3>q. QED
      BY <1>2, <3>1, <3>2
  <2>4. exec.pc \notin Applying
    BY <1>2 DEF ProposeAuto, RecordProposal, Idle, Applying
  <2>q. QED
    BY <2>2, <2>3, <2>4 DEF Recounts, InHand
<1>3. ASSUME NEW c \in Candidates,
             \/ MintApproval(c) \/ ProposalFails(c) \/ ExecuteDenied(c) \/ ExecuteUnknown(c)
             \/ Commit(c) \/ ApplyFails(c)
      PROVE  /\ UNCHANGED <<claim, stranded>>
             /\ \A d \in Candidates : Recounts(d)' => Recounts(d)
  <2>1. /\ UNCHANGED <<claim, stranded>>
        /\ exec'.pc # "claimed"
    <3>1. UNCHANGED <<claim, stranded>>
      BY <1>3 DEF MintApproval, ProposalFails, ExecuteDenied, ExecuteUnknown, Commit, ApplyFails
    <3>2. exec' = Idle \/ exec' = [Idle EXCEPT !.pc = "minted", !.cand = c]
      BY <1>3 DEF MintApproval, ProposalFails, ExecuteDenied, ExecuteUnknown, Commit, ApplyFails
    <3>3. exec'.pc # "claimed"
      <4>1. CASE exec' = Idle
        BY <4>1 DEF Idle
      <4>2. CASE exec' = [Idle EXCEPT !.pc = "minted", !.cand = c]
        BY <4>2 DEF Idle
      <4>q. QED
        BY <3>2, <4>1, <4>2
    <3>q. QED
      BY <3>1, <3>3
  <2>2. \A d \in Candidates : journal'[d].state = "proposed" => journal[d].state = "proposed"
    <3> USE DEF Inv, TypeOK, Rows
    <3>1. CASE MintApproval(c) \/ ProposalFails(c)
      BY <3>1 DEF MintApproval, ProposalFails
    <3>2. CASE ExecuteDenied(c)
      BY <3>2 DEF ExecuteDenied
    <3>3. CASE ExecuteUnknown(c)
      BY <3>3 DEF ExecuteUnknown
    <3>4. CASE ApplyFails(c)
      BY <3>4 DEF ApplyFails
    <3>5. CASE Commit(c)
      <4>1. journal' = [journal EXCEPT ![c].state = "committed", ![c].against = exec.loser]
        BY <3>5 DEF Commit
      <4>q. QED
        BY <4>1
    <3>q. QED
      BY <1>3, <3>1, <3>2, <3>3, <3>4, <3>5
  <2>3. \A d \in Candidates :
          journal'[d].state = "promoting" => journal[d].state = "promoting" /\ ~InHand(d)
    <3>1. CASE \/ MintApproval(c) \/ ProposalFails(c) \/ ExecuteDenied(c) \/ ExecuteUnknown(c)
      <4>1. exec.pc \notin Applying
        BY <3>1 DEF MintApproval, ProposalFails, ExecuteDenied, ExecuteUnknown, Entered, Idle, Applying
      <4>2. \/ journal' = journal
            \/ journal' = [journal EXCEPT ![c].state = "denied"]
            \/ journal' = [journal EXCEPT ![c].state = "failed"]
        BY <3>1 DEF MintApproval, ProposalFails, ExecuteDenied, ExecuteUnknown
      <4>q. QED
        BY <4>1, <4>2 DEF InHand, Inv, TypeOK, Rows
    <3>2. CASE Commit(c) \/ ApplyFails(c)
      <4>1. exec.cand = c /\ \A d \in Candidates \ {c} : journal'[d] = journal[d]
        BY <3>2 DEF Commit, ApplyFails, Inv, TypeOK
      <4>2. journal'[c].state \in {"committed", "failed"}
        <5>1. CASE Commit(c)
          <6>1. journal' = [journal EXCEPT ![c].state = "committed", ![c].against = exec.loser]
            BY <5>1 DEF Commit
          <6>q. QED
            BY <6>1 DEF Inv, TypeOK, Rows
        <5>2. CASE ApplyFails(c)
          BY <5>2 DEF ApplyFails, Inv, TypeOK, Rows
        <5>q. QED
          BY <3>2, <5>1, <5>2
      <4>q. QED
        BY <4>1, <4>2 DEF InHand
    <3>q. QED
      BY <1>3, <3>1, <3>2
  <2>q. QED
    BY <2>1, <2>2, <2>3 DEF Recounts
<1>4. ASSUME NEW c \in Candidates,
             \/ Demote(c) \/ Activate(c) \/ \E weak \in BOOLEAN : Park(c, weak)
      PROVE  /\ UNCHANGED stranded
             /\ \A k \in Keys : claim'[k].seen = claim[k].seen /\ claim'[k].times = claim[k].times
             /\ \A d \in Candidates : Recounts(d)' => Recounts(d)
  <2>1. /\ exec'.pc # "claimed" /\ UNCHANGED <<journal, stranded>>
        /\ exec.pc \in Applying /\ exec'.pc \in Applying /\ exec'.cand = exec.cand
    BY <1>4 DEF Demote, Activate, Park, Goto, Applying, Inv, TypeOK, Execs
  <2>2. \A k \in Keys : claim'[k].seen = claim[k].seen /\ claim'[k].times = claim[k].times
    BY <1>4 DEF Demote, Activate, Park, Inv, TypeOK, Claims
  <2>q. QED
    BY <2>1, <2>2 DEF Recounts, InHand
<1>5. ASSUME NEW k \in Keys, Retire(k)
      PROVE  /\ UNCHANGED <<journal, exec, stranded>>
             /\ \A j \in Keys : claim'[j].seen = claim[j].seen /\ claim'[j].times = claim[j].times
    BY <1>5 DEF Retire, Inv, TypeOK, Claims
<1>6. \A k \in Keys : claim[k].seen \subseteq Candidates
    BY DEF Inv, TypeOK, Claims
<1>7. \A k \in Keys : Counted(k)'
  <2>1. ASSUME NEW c \in Candidates, Execute(c) PROVE \A k \in Keys : Counted(k)'
    BY <1>1, <1>6, <2>1, NothingCounted DEF Execute
  <2>2. ASSUME NEW c \in Candidates, ProposeAuto(c) \/ RecordProposal(c)
        PROVE  \A k \in Keys : Counted(k)'
    BY <1>2, <2>2, NothingCounted DEF ProposeAuto, RecordProposal
  <2>3. ASSUME NEW c \in Candidates,
               \/ MintApproval(c) \/ ProposalFails(c) \/ ExecuteDenied(c) \/ ExecuteUnknown(c)
               \/ Commit(c) \/ ApplyFails(c)
        PROVE  \A k \in Keys : Counted(k)'
    BY <1>3, <1>6, <2>3, NothingCounted
  <2>4. ASSUME NEW c \in Candidates,
               \/ Demote(c) \/ Activate(c) \/ \E weak \in BOOLEAN : Park(c, weak)
        PROVE  \A k \in Keys : Counted(k)'
    BY <1>4, <1>6, <2>4, NothingCounted
  <2>5. ASSUME NEW k \in Keys, Retire(k) PROVE \A j \in Keys : Counted(j)'
    BY <1>5, <2>5, NothingCounted DEF Recounts, InHand
  <2>6. ASSUME UNCHANGED <<claim, stranded, journal, exec>> PROVE \A k \in Keys : Counted(k)'
    BY <2>6, NothingCounted DEF Recounts, InHand
  <2>q. QED
    BY <2>1, <2>2, <2>3, <2>4, <2>5, <2>6, ObserveCounts, CreateCounts, CrashCounts,
       MarkFailsCounts
      DEF Next, vars, Save, Decide, Dismiss
<1>q. QED
    BY <1>7 DEF Counts

\* A candidate is counted once, and once more at most for each execution that
\* ended with its row promoting.
THEOREM StrandingsPayForRecounts == Spec => []CountedOncePerStranding
<1>1. Init => Counts
    BY CountsInit
<1>2. Inv /\ Counts /\ [Next]_vars => Counts'
    BY CountsStep
<1>3. Inv /\ Counts => CountedOncePerStranding
  <2> SUFFICES ASSUME Inv, Counts, NEW k \in Keys
               PROVE  /\ Cardinality(claim[k].seen) <= claim[k].times
                      /\ claim[k].times <= Cardinality(claim[k].seen) + stranded
    BY DEF CountedOncePerStranding
  <2> DEFINE R == {c \in claim[k].seen : Recounts(c)}
  <2>1. /\ IsFiniteSet(claim[k].seen) /\ Cardinality(claim[k].seen) <= claim[k].times
        /\ claim[k].times + Cardinality(R) <= Cardinality(claim[k].seen) + stranded
    BY DEF Counts, Counted
  <2>2. Cardinality(R) \in Nat /\ Cardinality(claim[k].seen) \in Nat
    BY <2>1, FS_Subset, FS_CardinalityType
  <2>3. claim[k].times \in Nat /\ stranded \in Nat
    BY PromotionAssumption DEF Inv, TypeOK, Claims
  <2> HIDE DEF R
  <2>q. QED
    BY <2>1, <2>2, <2>3
<1>q. QED
    BY <1>1, <1>2, <1>3, Invariance, PTL DEF Spec

\* A note says a claim that lost, and the loser of the entry in execution is
\* in no note yet.
Notes ==
    /\ \A c \in Candidates : journal[c].against # NoKey =>
         journal[c].state = "committed" /\ journal[c].against \in Scarred
    /\ exec.loser # NoKey =>
         /\ exec.pc \in {"settled", "created", "activated", "applied"}
         /\ exec.loser \in Scarred
         /\ said[exec.cand].key \notin Scarred
         /\ \A c \in Candidates : journal[c].against # exec.loser

\* Whoever wrote the second note, or is about to, parked a question before.
Asked ==
    /\ \A c, d \in Candidates :
         c # d /\ journal[c].against # NoKey /\ journal[d].against # NoKey => noticed
    /\ exec.pc = "applied" /\ exec.loser # NoKey =>
         \A c \in Candidates : journal[c].against # NoKey => noticed

Failed == {c \in Candidates : journal[c].state = "failed"}
Unexplained ==
    {k \in Keys : /\ claim[k].status = "contradicted"
                  /\ k # exec.loser
                  /\ \A c \in Candidates : journal[c].against # k}
Explained == IsFiniteSet(Failed) /\ Cardinality(Unexplained) <= stranded + Cardinality(Failed)

\* An entry is cut off before its commit.
CutOff ==
    /\ exec.pc \in Applying
    /\ Crash \/ \E c \in Candidates : ApplyFails(c) \/ MarkFails(c)

\* A claim that lost stays lost.
LEMMA ScarsStay ==
    ASSUME Inv, [Next]_vars
    PROVE  \A k \in Scarred : k \in Scarred'
<1>1. ASSUME NEW k \in Scarred, NEW c \in Candidates, Observe(c)
      PROVE  claim'[k].status = claim[k].status
    BY <1>1 DEF Observe, Inv, TypeOK, Claims, Scarred
<1>2. ASSUME NEW k \in Scarred, NEW c \in Candidates, Demote(c)
      PROVE  claim'[k].status = claim[k].status
  <2>1. Rival(c) \in Contestable
    BY <1>2, RivalIsHead DEF Demote
  <2>2. k # Rival(c)
    BY <2>1 DEF Scarred, Contestable
  <2>q. QED
    BY <1>2, <2>2 DEF Demote, Inv, TypeOK, Scarred
<1>3. ASSUME NEW k \in Scarred, NEW c \in Candidates, Create(c)
      PROVE  claim'[k].status = claim[k].status
  <2>1. claim[said[c].key].status = "none"
    BY <1>3 DEF Create, Exact, Inv, Executing
  <2>q. QED
    BY <1>3, <2>1 DEF Create, Scarred, Inv, TypeOK
<1>4. ASSUME NEW k \in Scarred, NEW c \in Candidates, Activate(c)
      PROVE  claim'[k].status = claim[k].status
  <2>1. claim[said[c].key].status = "candidate"
    BY <1>4 DEF Activate, Inv, Executing
  <2>q. QED
    BY <1>4, <2>1 DEF Activate, Scarred, Inv, TypeOK
<1>5. ASSUME NEW k \in Scarred, NEW j \in Keys, Retire(j)
      PROVE  claim'[k].status \in {"retired", claim[k].status}
    BY <1>5 DEF Retire, Scarred, Inv, TypeOK, Claims
<1>6. ASSUME UNCHANGED claim, NEW k \in Scarred PROVE claim'[k].status = claim[k].status
    BY <1>6
<1>q. QED
    BY <1>1, <1>2, <1>3, <1>4, <1>5, <1>6
      DEF Next, vars, Scarred, Save, ProposeAuto, MintApproval, RecordProposal, ProposalFails, Decide,
          ExecuteDenied, ExecuteUnknown, Execute, Commit, ApplyFails, MarkFails, Park, Dismiss, Crash

\* A row that is committed or failed is never written again.
LEMMA ClosedRowsStay ==
    ASSUME Inv, [Next]_vars, NEW c \in Candidates, journal[c].state \in {"committed", "failed"}
    PROVE  journal'[c] = journal[c]
<1>1. ASSUME NEW d \in Candidates, ProposeAuto(d) \/ RecordProposal(d)
      PROVE  journal'[c] = journal[c]
  <2>1. journal[d].state = "none"
    BY <1>1 DEF ProposeAuto, RecordProposal, Inv, Executing, Proposed
  <2>2. \E r : journal' = [journal EXCEPT ![d] = r]
    BY <1>1 DEF ProposeAuto, RecordProposal
  <2>q. QED
    BY <2>1, <2>2 DEF Inv, TypeOK
<1>2. ASSUME NEW d \in Candidates, ExecuteDenied(d) \/ ExecuteUnknown(d) \/ Execute(d)
      PROVE  journal'[c] = journal[c]
  <2>1. journal[d].state \in {"proposed", "promoting"}
    BY <1>2 DEF ExecuteDenied, ExecuteUnknown, Execute, Entered, OpenRow
  <2>2. \E r : journal' = [journal EXCEPT ![d] = r]
    BY <1>2 DEF ExecuteDenied, ExecuteUnknown, Execute
  <2>q. QED
    BY <2>1, <2>2 DEF Inv, TypeOK
<1>3. ASSUME NEW d \in Candidates, Commit(d) \/ ApplyFails(d)
      PROVE  journal'[c] = journal[c]
  <2>1. journal[d].state = "promoting"
    BY <1>3 DEF Commit, ApplyFails, Applying, Inv, Executing
  <2>2. \E r : journal' = [journal EXCEPT ![d] = r]
    BY <1>3 DEF Commit, ApplyFails
  <2>q. QED
    BY <2>1, <2>2 DEF Inv, TypeOK
<1>4. ASSUME Crash PROVE journal'[c] = journal[c]
    BY <1>4 DEF Crash
<1>5. ASSUME UNCHANGED journal PROVE journal'[c] = journal[c]
    BY <1>5
<1>q. QED
    BY <1>1, <1>2, <1>3, <1>4, <1>5
      DEF Next, vars, Save, MintApproval, ProposalFails, Decide, Observe, Demote, Create, Activate,
          Park, MarkFails, Retire, Dismiss

\* Only a commit writes a note.
LEMMA OnlyCommitNotes ==
    ASSUME Inv, [Next]_vars, NEW c \in Candidates
    PROVE  \/ journal'[c].against = journal[c].against
           \/ Commit(c) /\ journal'[c].state = "committed" /\ journal'[c].against = exec.loser
<1>1. ASSUME NEW d \in Candidates, NEW s,
             \/ journal' = [journal EXCEPT ![d].state = s]
             \/ journal' = [journal EXCEPT ![d].state = s, ![d].bound = TRUE]
      PROVE  journal'[c].against = journal[c].against
  <2>1. CASE journal' = [journal EXCEPT ![d].state = s]
    BY <2>1 DEF Inv, TypeOK, Rows
  <2>2. CASE journal' = [journal EXCEPT ![d].state = s, ![d].bound = TRUE]
    BY <2>2 DEF Inv, TypeOK, Rows
  <2>q. QED
    BY <1>1, <2>1, <2>2
<1>2. ASSUME NEW d \in Candidates, Commit(d)
      PROVE  \/ journal'[c].against = journal[c].against
             \/ Commit(c) /\ journal'[c].state = "committed" /\ journal'[c].against = exec.loser
  <2>1. journal' = [journal EXCEPT ![d].state = "committed", ![d].against = exec.loser]
    BY <1>2 DEF Commit
  <2>2. CASE d = c
    BY <1>2, <2>1, <2>2 DEF Inv, TypeOK, Rows
  <2>3. CASE d # c
    BY <2>1, <2>3 DEF Inv, TypeOK
  <2>q. QED
    BY <2>2, <2>3
<1>3. ASSUME Crash PROVE journal'[c].against = journal[c].against
    BY <1>3 DEF Crash, Inv, TypeOK, Rows
<1>4. ASSUME UNCHANGED journal PROVE journal'[c].against = journal[c].against
    BY <1>4
<1>5. ASSUME NEW d \in Candidates,
             \/ ProposeAuto(d) \/ RecordProposal(d) \/ ExecuteDenied(d) \/ ExecuteUnknown(d)
             \/ Execute(d) \/ ApplyFails(d)
      PROVE  journal'[c].against = journal[c].against
    BY <1>1, <1>5 DEF ProposeAuto, RecordProposal, ExecuteDenied, ExecuteUnknown, Execute, ApplyFails
<1>q. QED
    BY <1>2, <1>3, <1>4, <1>5
      DEF Next, vars, Save, MintApproval, ProposalFails, Decide, Observe, Demote, Create, Activate,
          Park, MarkFails, Retire, Dismiss

\* The loser of an entry is set when it is demoted, and forgotten when the
\* entry ends.
LEMMA LoserIsDemoted ==
    ASSUME Inv, Notes, [Next]_vars, exec'.loser # NoKey,
           \A c \in Candidates : ~Demote(c)
    PROVE  /\ \/ \E c \in Candidates : Create(c) \/ Activate(c)
              \/ \E c \in Candidates, weak \in BOOLEAN : Park(c, weak)
              \/ UNCHANGED vars
           /\ exec'.loser = exec.loser /\ exec'.cand = exec.cand
           /\ exec'.pc \in {"settled", "created", "activated", "applied"}
           /\ said' = said /\ journal' = journal
<1>1. ASSUME NEW c \in Candidates, ~Demote(c)
      PROVE  ~(\/ ProposeAuto(c) \/ MintApproval(c) \/ RecordProposal(c) \/ ProposalFails(c)
               \/ ExecuteDenied(c) \/ ExecuteUnknown(c) \/ Execute(c) \/ Commit(c) \/ ApplyFails(c)
               \/ MarkFails(c))
  <2>1. exec' # Idle
    BY DEF Idle
  <2>2. /\ exec' # [Idle EXCEPT !.pc = "recorded", !.cand = c]
        /\ exec' # [Idle EXCEPT !.pc = "minted", !.cand = c]
        /\ exec' # [Idle EXCEPT !.pc = "claimed", !.cand = c]
    BY DEF Idle
  <2>q. QED
    BY <2>1, <2>2 DEF ProposeAuto, MintApproval, RecordProposal, ProposalFails, ExecuteDenied,
                      ExecuteUnknown, Execute, Commit, ApplyFails, MarkFails
<1>2. ~Crash
    BY DEF Crash, Idle
<1>3. ASSUME NEW c \in Candidates PROVE ~Observe(c)
    BY DEF Observe, Goto, Notes, Inv, TypeOK, Execs
<1>4. ASSUME UNCHANGED exec PROVE exec # Idle
    BY <1>4 DEF Idle
<1>5. \/ \E c \in Candidates : Create(c) \/ Activate(c)
      \/ \E c \in Candidates, weak \in BOOLEAN : Park(c, weak)
      \/ UNCHANGED vars
    BY <1>1, <1>2, <1>3, <1>4 DEF Next, Save, Decide, Retire, Dismiss
<1>6. exec'.loser = exec.loser /\ exec'.cand = exec.cand
    BY <1>5 DEF Create, Activate, Park, Goto, vars, Inv, TypeOK, Execs
<1>7. exec'.pc \in {"settled", "created", "activated", "applied"}
  <2>1. ASSUME UNCHANGED exec PROVE exec'.pc \in {"settled", "created", "activated", "applied"}
    BY <1>6, <2>1 DEF Notes
  <2>q. QED
    BY <1>5, <2>1 DEF Create, Activate, Park, Goto, vars, Inv, TypeOK, Execs
<1>8. said' = said /\ journal' = journal
    BY <1>5 DEF Create, Activate, Park, vars
<1>q. QED
    BY <1>5, <1>6, <1>7, <1>8

\* Every step keeps the notes.
LEMMA NotesStep ==
    ASSUME Inv, Notes, [Next]_vars
    PROVE  Notes'
<1>1. ASSUME NEW c \in Candidates, journal'[c].against # NoKey
      PROVE  journal'[c].state = "committed" /\ journal'[c].against \in Scarred'
  <2>1. CASE journal'[c].against = journal[c].against
    BY <1>1, <2>1, ScarsStay, ClosedRowsStay DEF Notes
  <2>2. CASE Commit(c) /\ journal'[c].state = "committed" /\ journal'[c].against = exec.loser
    BY <1>1, <2>2, ScarsStay DEF Notes
  <2>q. QED
    BY <2>1, <2>2, OnlyCommitNotes
<1> DEFINE Loser ==
      exec.loser # NoKey =>
         /\ exec.pc \in {"settled", "created", "activated", "applied"}
         /\ exec.loser \in Scarred
         /\ said[exec.cand].key \notin Scarred
         /\ \A c \in Candidates : journal[c].against # exec.loser
<1>2. ASSUME NEW c \in Candidates, Demote(c) PROVE Loser'
  <2> DEFINE r == Rival(c)
  <2>1. r \in Contestable /\ r \in Keys
    BY <1>2, RivalIsHead DEF Demote, Contestable
  <2>2. /\ exec'.pc = "settled" /\ exec'.loser = r /\ exec'.cand = c
        /\ said' = said /\ journal' = journal
    BY <1>2 DEF Demote, Inv, TypeOK, Execs
  <2>3. claim' = [claim EXCEPT ![r].status = Lost(@)]
    BY <1>2 DEF Demote
  <2> HIDE DEF r
  <2>4. r \in Scarred'
    BY <2>1, <2>3 DEF Lost, Scarred, Inv, TypeOK, Claims
  <2>5. said[c].key \notin Scarred'
    <3>1. claim[said[c].key].status = "none" /\ said[c].key \in Keys
      BY <1>2, ExecutedHasKey DEF Demote, Exact
    <3>2. said[c].key # r
      BY <2>1, <3>1 DEF Contestable
    <3>q. QED
      BY <2>3, <3>1, <3>2 DEF Scarred, Inv, TypeOK
  <2>6. r \notin Scarred
    BY <2>1 DEF Scarred, Contestable
  <2>7. r # NoKey
    BY <2>1, PromotionAssumption DEF Keys
  <2>q. QED
    BY <2>2, <2>4, <2>5, <2>6, <2>7 DEF Notes
<1>3. ASSUME \A c \in Candidates : ~Demote(c) PROVE Loser'
  <2> SUFFICES ASSUME exec'.loser # NoKey PROVE Loser'
    OBVIOUS
  <2>1. /\ \/ \E c \in Candidates : Create(c) \/ Activate(c)
           \/ \E c \in Candidates, weak \in BOOLEAN : Park(c, weak)
           \/ UNCHANGED vars
        /\ exec'.loser = exec.loser /\ exec'.cand = exec.cand
        /\ exec'.pc \in {"settled", "created", "activated", "applied"}
        /\ said' = said /\ journal' = journal
    BY <1>3, LoserIsDemoted
  <2>2. exec.loser \in Scarred' /\ \A c \in Candidates : journal'[c].against # exec'.loser
    BY <2>1, ScarsStay DEF Notes
  <2>3. said[exec.cand].key \notin Scarred
    BY <2>1 DEF Notes
  <2>4. said[exec.cand].key \notin Scarred'
    <3>1. CASE \E c \in Candidates : Create(c) \/ Activate(c)
      <4>1. claim'[said[exec.cand].key].status \in {"candidate", "active"}
        BY <3>1, ExecutedHasKey DEF Create, Activate, Inv, TypeOK, Claims
      <4>q. QED
        BY <4>1 DEF Scarred
    <3>2. CASE UNCHANGED claim
      BY <2>3, <3>2 DEF Scarred
    <3>q. QED
      BY <2>1, <3>1, <3>2 DEF Park, vars
  <2>q. QED
    BY <2>1, <2>2, <2>4
<1> HIDE DEF Loser
<1>4. Loser'
    BY <1>2, <1>3
<1>q. QED
    BY <1>1, <1>4 DEF Notes, Loser

\* Every step keeps the account of who was asked.
LEMMA AskedStep ==
    ASSUME Inv, Notes, Asked, [Next]_vars
    PROVE  Asked'
<1>1. noticed => noticed'
  <2>1. ASSUME NEW c \in Candidates, NEW weak \in BOOLEAN, Park(c, weak), noticed
        PROVE  noticed'
    BY <2>1 DEF Park
  <2>q. QED
    BY <2>1 DEF Next, vars, Save, ProposeAuto, MintApproval, RecordProposal, ProposalFails, Decide,
                ExecuteDenied, ExecuteUnknown, Execute, Observe, Demote, Create, Activate, Commit,
                ApplyFails, MarkFails, Retire, Dismiss, Crash
<1>2. ASSUME NEW c \in Candidates, NEW d \in Candidates, c # d,
             journal'[c].against # NoKey, journal'[d].against # NoKey
      PROVE  noticed'
  <2>1. CASE journal'[c].against = journal[c].against /\ journal'[d].against = journal[d].against
    BY <1>1, <1>2, <2>1 DEF Asked
  <2>2. ASSUME NEW x \in Candidates, NEW y \in Candidates, x # y, Commit(x),
               journal'[x].against = exec.loser,
               journal'[x].against # NoKey, journal'[y].against # NoKey
        PROVE  noticed'
    <3>1. exec.pc = "applied" /\ exec.loser # NoKey /\ exec.cand = x
      BY <2>2 DEF Commit
    <3>2. journal[y].against # NoKey
      BY <2>2, <3>1, OnlyCommitNotes DEF Commit
    <3>q. QED
      BY <1>1, <3>1, <3>2 DEF Asked
  <2>q. QED
    BY <1>2, <2>1, <2>2, OnlyCommitNotes
<1>3. ASSUME exec'.pc = "applied", exec'.loser # NoKey,
             NEW c \in Candidates, journal'[c].against # NoKey
      PROVE  noticed'
  <2>1. \A d \in Candidates : ~Demote(d)
    BY <1>3 DEF Demote, Inv, TypeOK, Execs
  <2>2. /\ \/ \E d \in Candidates : Create(d) \/ Activate(d)
           \/ \E d \in Candidates, weak \in BOOLEAN : Park(d, weak)
           \/ UNCHANGED vars
        /\ exec'.loser = exec.loser /\ exec'.cand = exec.cand
        /\ said' = said /\ journal' = journal
    BY <1>3, <2>1, LoserIsDemoted
  <2>3. \A d \in Candidates : ~Create(d) /\ ~Activate(d)
    BY <1>3, <2>2 DEF Create, Activate, Goto, Inv, TypeOK, Execs
  <2>4. ASSUME NEW d \in Candidates, NEW weak \in BOOLEAN, Park(d, weak)
        PROVE  noticed'
    <3>1. journal[c].against \in Scarred \ {exec.loser, said[d].key}
      <4>1. exec.cand = d
        BY <2>4 DEF Park
      <4>q. QED
        BY <1>3, <2>2, <4>1 DEF Notes
    <3>2. Repeated(d)
      BY <3>1 DEF Repeated
    <3>q. QED
      BY <2>4, <3>2 DEF Park
  <2>5. CASE UNCHANGED vars
    BY <1>1, <1>3, <2>5 DEF vars, Asked
  <2>q. QED
    BY <2>2, <2>3, <2>4, <2>5
<1>q. QED
    BY <1>2, <1>3 DEF Asked

\* A claim is contradicted by the demotion of an entry whose loser it is; it
\* loses its explanation only when that entry ends without its note.
LEMMA ExplanationsStay ==
    ASSUME Inv, Notes, [Next]_vars, NEW k \in Unexplained'
    PROVE  \/ k \in Unexplained
           \/ k = exec.loser /\ CutOff
<1>1. /\ k \in Keys /\ claim'[k].status = "contradicted" /\ k # exec'.loser
      /\ \A c \in Candidates : journal'[c].against # k
    BY DEF Unexplained
<1>2. k # NoKey
    BY <1>1, PromotionAssumption DEF Keys
<1>3. \A c \in Candidates : journal[c].against # k
  <2> SUFFICES ASSUME NEW c \in Candidates, journal[c].against = k PROVE FALSE
    OBVIOUS
  <2>1. journal[c].state = "committed"
    BY <1>2 DEF Notes
  <2>q. QED
    BY <1>1, <2>1, ClosedRowsStay
<1>4. claim[k].status = "contradicted"
  <2>1. ASSUME NEW c \in Candidates, Demote(c) PROVE claim[k].status = "contradicted"
    <3> DEFINE r == Rival(c)
    <3>1. exec'.loser = r /\ claim' = [claim EXCEPT ![r].status = Lost(@)]
      BY <2>1 DEF Demote, Inv, TypeOK, Execs
    <3> HIDE DEF r
    <3>q. QED
      BY <1>1, <3>1 DEF Inv, TypeOK
  <2>2. ASSUME NEW c \in Candidates, Observe(c) PROVE claim[k].status = "contradicted"
    BY <1>1, <2>2 DEF Observe, Inv, TypeOK, Claims
  <2>3. ASSUME NEW c \in Candidates, Create(c) \/ Activate(c)
        PROVE  claim[k].status = "contradicted"
    BY <1>1, <2>3 DEF Create, Activate, Inv, TypeOK, Claims
  <2>4. ASSUME NEW j \in Keys, Retire(j) PROVE claim[k].status = "contradicted"
    BY <1>1, <2>4 DEF Retire, Inv, TypeOK, Claims
  <2>5. CASE UNCHANGED claim
    BY <1>1, <2>5
  <2>q. QED
    BY <2>1, <2>2, <2>3, <2>4, <2>5
      DEF Next, vars, Save, ProposeAuto, MintApproval, RecordProposal, ProposalFails, Decide,
          ExecuteDenied, ExecuteUnknown, Execute, Commit, ApplyFails, MarkFails, Park, Dismiss, Crash
<1>5. CASE k # exec.loser
    BY <1>1, <1>3, <1>4, <1>5 DEF Unexplained
<1>6. CASE k = exec.loser
  <2>1. exec.pc \in {"settled", "created", "activated", "applied"}
    BY <1>2, <1>6 DEF Notes
  <2>2. exec # Idle
    BY <2>1 DEF Idle
  <2>3. ASSUME NEW c \in Candidates
        PROVE  ~(\/ ProposeAuto(c) \/ MintApproval(c) \/ RecordProposal(c) \/ ProposalFails(c)
                 \/ ExecuteDenied(c) \/ ExecuteUnknown(c) \/ Execute(c) \/ Observe(c) \/ Demote(c))
    BY <2>1, <2>2 DEF ProposeAuto, MintApproval, RecordProposal, ProposalFails, ExecuteDenied,
                      ExecuteUnknown, Execute, Entered, Observe, Demote
  <2>4. ASSUME NEW c \in Candidates, Commit(c) PROVE FALSE
    <3>1. journal' = [journal EXCEPT ![c].state = "committed", ![c].against = exec.loser]
      BY <2>4 DEF Commit
    <3>2. journal'[c].against = k
      BY <1>6, <3>1 DEF Inv, TypeOK, Rows
    <3>q. QED
      BY <1>1, <3>2
  <2>5. ASSUME NEW c \in Candidates, Create(c) \/ Activate(c) PROVE exec'.loser = exec.loser
    BY <2>5 DEF Create, Activate, Goto, Inv, TypeOK, Execs
  <2>6. ASSUME NEW c \in Candidates, NEW weak \in BOOLEAN, Park(c, weak)
        PROVE  exec'.loser = exec.loser
    BY <2>6 DEF Park, Goto, Inv, TypeOK, Execs
  <2>7. exec' # exec
    BY <1>1, <1>6
  <2>q. QED
    BY <1>1, <1>6, <2>1, <2>2, <2>3, <2>4, <2>5, <2>6, <2>7
      DEF Next, vars, Save, Decide, Retire, Dismiss, CutOff, Applying
<1>q. QED
    BY <1>5, <1>6

\* Whoever loses an explanation pays for it with a crash, or a failure
\* recorded or not.
LEMMA OneMorePaid ==
    \A u, v, f, g, n, m \in Nat :
      u <= n + f /\ n <= m /\ f <= g =>
        /\ v <= u => v <= m + g
        /\ v <= u + 1 /\ (n + 1 <= m \/ f + 1 <= g) => v <= m + g
OBVIOUS

\* Every step keeps the account of the explanations.
LEMMA ExplainedStep ==
    ASSUME Inv, Notes, Explained, [Next]_vars
    PROVE  Explained'
<1> DEFINE u == Cardinality(Unexplained)
           v == Cardinality(Unexplained')
           f == Cardinality(Failed)
           g == Cardinality(Failed')
<1>1. /\ IsFiniteSet(Failed) /\ f \in Nat /\ u <= stranded + f
      /\ IsFiniteSet(Unexplained) /\ u \in Nat /\ v \in Nat
      /\ IsFiniteSet(Unexplained')
  <2>2. Unexplained \subseteq Keys /\ Unexplained' \subseteq Keys
    BY DEF Unexplained
  <2>q. QED
    BY <2>2, KeysAreFinite, FS_CardinalityType DEF Explained
<1>2. stranded \in Nat /\ stranded' \in {stranded, stranded + 1}
  <2>1. stranded \in Nat
    BY PromotionAssumption DEF Inv, TypeOK
  <2>2. stranded' = stranded \/ stranded' = stranded + 1
    BY DEF Next, vars, Save, ProposeAuto, MintApproval, RecordProposal, ProposalFails, Decide,
           ExecuteDenied, ExecuteUnknown, Execute, Observe, Demote, Create, Activate, Commit,
           ApplyFails, MarkFails, Park, Retire, Dismiss, Crash
  <2>q. QED
    BY <2>1, <2>2
<1>3. \E x : Failed' \subseteq Failed \cup {x}
  <2>1. ASSUME NEW x \in Candidates, NEW r, journal' = [journal EXCEPT ![x] = r]
        PROVE  Failed' \subseteq Failed \cup {x}
    BY <2>1 DEF Failed, Inv, TypeOK
  <2>2. ASSUME NEW x \in Candidates,
               \/ ProposeAuto(x) \/ RecordProposal(x) \/ ExecuteDenied(x) \/ ExecuteUnknown(x)
               \/ Execute(x) \/ Commit(x) \/ ApplyFails(x)
        PROVE  \E r : journal' = [journal EXCEPT ![x] = r]
    BY <2>2 DEF ProposeAuto, RecordProposal, ExecuteDenied, ExecuteUnknown, Execute, Commit, ApplyFails
  <2>3. ASSUME Crash PROVE Failed' \subseteq Failed
    BY <2>3 DEF Crash, Failed, Inv, TypeOK, Rows
  <2>4. ASSUME UNCHANGED journal PROVE Failed' \subseteq Failed
    BY <2>4 DEF Failed
  <2>5. \/ \E x \in Candidates :
             \/ ProposeAuto(x) \/ RecordProposal(x) \/ ExecuteDenied(x) \/ ExecuteUnknown(x)
             \/ Execute(x) \/ Commit(x) \/ ApplyFails(x)
        \/ Crash \/ UNCHANGED journal
    BY DEF Next, vars, Save, MintApproval, ProposalFails, Decide, Observe, Demote, Create, Activate,
           Park, MarkFails, Retire, Dismiss
  <2>q. QED
    BY <2>1, <2>2, <2>3, <2>4, <2>5
<1>4. IsFiniteSet(Failed') /\ g \in Nat
  <2>1. PICK x : Failed' \subseteq Failed \cup {x}
    BY <1>3
  <2>2. IsFiniteSet(Failed \cup {x})
    BY <1>1, FS_AddElement
  <2>q. QED
    BY <2>1, <2>2, FS_Subset, FS_CardinalityType
<1>5. Failed \subseteq Failed'
    BY ClosedRowsStay DEF Failed
<1>6. f <= g
    BY <1>4, <1>5, FS_Subset
<1>7. /\ stranded' \in Nat /\ stranded <= stranded'
      /\ Crash /\ exec.pc \in Applying => stranded' = stranded + 1
      /\ \A c \in Candidates : MarkFails(c) => stranded' = stranded + 1
    BY <1>2 DEF Crash, MarkFails
<1>8. ASSUME NEW c \in Candidates, ApplyFails(c) PROVE f + 1 <= g
  <2>1. journal[c].state = "promoting"
    BY <1>8 DEF ApplyFails, Applying, Inv, Executing
  <2>2. c \notin Failed
    BY <2>1 DEF Failed
  <2>3. c \in Failed'
    BY <1>8 DEF ApplyFails, Failed, Inv, TypeOK, Rows
  <2>4. Failed \cup {c} \subseteq Failed'
    BY <1>5, <2>3
  <2>5. Cardinality(Failed \cup {c}) = f + 1
    BY <1>1, <2>2, FS_AddElement
  <2>q. QED
    BY <1>4, <2>4, <2>5, FS_Subset
<1>9. \/ Unexplained' \subseteq Unexplained
      \/ /\ Unexplained' \subseteq Unexplained \cup {exec.loser}
         /\ CutOff
    BY ExplanationsStay
<1>10. CASE Unexplained' \subseteq Unexplained
  <2>1. v <= u
    BY <1>1, <1>10, FS_Subset
  <2> HIDE DEF u, v, f, g
  <2>q. QED
    BY <1>1, <1>2, <1>4, <1>6, <1>7, <2>1 DEF Explained, v, g
<1>11. CASE /\ Unexplained' \subseteq Unexplained \cup {exec.loser}
            /\ CutOff
  <2>1. IsFiniteSet(Unexplained \cup {exec.loser}) /\ Cardinality(Unexplained \cup {exec.loser}) <= u + 1
    <3>1. /\ IsFiniteSet(Unexplained \cup {exec.loser})
          /\ Cardinality(Unexplained \cup {exec.loser})
               = IF exec.loser \in Unexplained THEN u ELSE u + 1
      BY <1>1, FS_AddElement
    <3> HIDE DEF u
    <3>q. QED
      BY <1>1, <3>1
  <2>2. /\ v <= Cardinality(Unexplained \cup {exec.loser})
        /\ Cardinality(Unexplained \cup {exec.loser}) \in Nat
    BY <1>11, <2>1, FS_Subset, FS_CardinalityType
  <2> HIDE DEF u, v, f, g
  <2>3. v <= u + 1
    <3> DEFINE w == Cardinality(Unexplained \cup {exec.loser})
    <3>1. w \in Nat /\ w <= u + 1 /\ v <= w
      BY <2>1, <2>2
    <3> HIDE DEF w
    <3>q. QED
      BY <1>1, <3>1
  <2>4. stranded + 1 <= stranded' \/ f + 1 <= g
    BY <1>2, <1>7, <1>8, <1>11 DEF CutOff
  <2>5. v <= stranded' + g
    BY <1>1, <1>2, <1>4, <1>6, <1>7, <2>3, <2>4, OneMorePaid
  <2>q. QED
    BY <1>4, <2>5 DEF Explained, v, g
<1>q. QED
    BY <1>9, <1>10, <1>11

\* The empty tables hold no note.
LEMMA NotesInit == ASSUME Init PROVE Notes /\ Asked /\ Explained
<1>1. Notes /\ Asked
    BY DEF Init, Notes, Asked, NoRow, Idle
<1>2. Failed = {} /\ Unexplained = {}
    BY DEF Init, Failed, Unexplained, NoRow, NoClaim
<1>3. IsFiniteSet({}) /\ Cardinality({}) = 0
    BY FS_EmptySet
<1>4. stranded = 0
    BY DEF Init
<1>5. Explained
    BY <1>2, <1>3, <1>4 DEF Explained
<1>q. QED
    BY <1>1, <1>5

\* Wherever crashes and failures hit, the claims contradicted without a note
\* are no more than they are.
THEOREM LosersAreNoted == Spec => []LosersAreExplained
<1>1. Init => Notes /\ Explained
    BY NotesInit
<1>2. Inv /\ Notes /\ Explained /\ [Next]_vars => Notes' /\ Explained'
    BY NotesStep, ExplainedStep
<1>3. Explained => LosersAreExplained
    BY DEF Explained, LosersAreExplained, Unexplained, Failed
<1>q. QED
    BY <1>1, <1>2, <1>3, Invariance, PTL DEF Spec

\* Two notes on a topic are not written without asking.
THEOREM RepeatedContestsAreAsked == Spec => []RepeatedContestIsAsked
<1>1. Init => Notes /\ Asked
    BY NotesInit
<1>2. Inv /\ Notes /\ Asked /\ [Next]_vars => Notes' /\ Asked'
    BY NotesStep, AskedStep
<1>3. Asked => RepeatedContestIsAsked
  <2> DEFINE S == {c \in Candidates : journal[c].against # NoKey}
  <2> SUFFICES ASSUME Asked, Cardinality(S) >= 2 PROVE noticed
    BY DEF RepeatedContestIsAsked
  <2>1. S # {}
    BY FS_EmptySet
  <2>2. PICK c \in S : TRUE
    BY <2>1
  <2>3. S # {c}
    <3>1. Cardinality({c}) = 1
      BY FS_Singleton
    <3> HIDE DEF S
    <3>q. QED
      BY <3>1
  <2>4. PICK d \in S : d # c
    BY <2>2, <2>3
  <2>q. QED
    BY <2>2, <2>4 DEF Asked
<1>q. QED
    BY <1>1, <1>2, <1>3, Invariance, PTL DEF Spec

-----------------------------------------------------------------------------
(* Maintenance: a topic keeps its head, and nothing is counted again          *)

\* While rivals are revised, the winner is active, and so is every rival whose
\* turn is still to come: only the one being demoted is not, and it is not the
\* winner.
Revising == {"revise", "charged", "demoted", "linked"}
HeadInv ==
    /\ pass.pc \in Revising =>
          /\ pass.winner \in Active
          /\ \A d \in pass.todo :
                d \in Active \/ (pass.pc \in {"demoted", "linked"} /\ Contender(d))
    /\ pass.pc \in {"charged", "demoted", "linked"} => ~Contender(pass.winner)

\* The observations after the first that a compound row answers.
Answered(c) == IF history[c].compound = 0 THEN 0 ELSE history[c].compound - 1
\* A boost whose row, a loss whose demotion is still to be written.
Boosting(c) == IF pass.pc = "record" /\ pass.cur = c /\ Compoundable(c) THEN 1 ELSE 0
Charging(c) == IF pass.pc = "charged" /\ Contender(c) THEN 1 ELSE 0
Demoted(c) == IF rows[c].status \in {"none", "active"} THEN 0 ELSE 1

\* A boost is answered by its row, is about to be, or was paid for by a fault; a
\* loss by the demotion.
CountInv ==
    \A c \in Rowids :
        /\ history[c].compound # 1 /\ history[c].compound <= rows[c].times
        /\ rows[c].status = "none" <=> rows[c].times = 0
        /\ pass.snap[c].times <= rows[c].times
        /\ boosts[c] <= Answered(c) + Boosting(c) + faults
        /\ reliability[c].losses <= Demoted(c) + Charging(c) + faults

-----------------------------------------------------------------------------
(* Maintenance: the types *)

\* A write of one claim changes that row only, and of it what was written.
LEMMA Written ==
    ASSUME rows \in [Rowids -> ClaimRows], NEW c, NEW row, c \in Rowids => row \in ClaimRows,
           Write(c, row)
    PROVE  /\ rows' \in [Rowids -> ClaimRows]
           /\ \A d \in Rowids : d # c => rows'[d] = rows[d]
           /\ c \in Rowids => /\ rows'[c].status = row.status /\ rows'[c].times = row.times
<1>. DEFINE stamped == [row EXCEPT !.due = IF row.clock = "update" THEN FALSE ELSE @]
<1>1. rows' = [rows EXCEPT ![c] = stamped]
  BY DEF Write
<1>2. c \in Rowids => stamped \in ClaimRows /\ stamped.status = row.status /\ stamped.times = row.times
  BY DEF ClaimRows
<1>. HIDE DEF stamped
<1>. QED BY <1>1, <1>2

\* What the pass's bookkeeping leaves of a claim: whether it counts, and how often it was seen.
SameStanding ==
    \A d \in Rowids : rows'[d].status = rows[d].status /\ rows'[d].times = rows[d].times

LEMMA Related ==
    ASSUME rows \in [Rowids -> ClaimRows], NEW c, NEW ids \in SUBSET Rowids, AddRelated(c, ids)
    PROVE  rows' \in [Rowids -> ClaimRows] /\ SameStanding
<1>1. CASE rows' = rows
  BY <1>1 DEF SameStanding
<1>2. CASE Write(c, [rows[c] EXCEPT !.related = @ \cup (ids \ {c})])
  <2>1. c \in Rowids =>
          /\ [rows[c] EXCEPT !.related = @ \cup (ids \ {c})] \in ClaimRows
          /\ [rows[c] EXCEPT !.related = @ \cup (ids \ {c})].status = rows[c].status
          /\ [rows[c] EXCEPT !.related = @ \cup (ids \ {c})].times = rows[c].times
    BY DEF ClaimRows
  <2>. HIDE DEF AddRelated
  <2>. QED BY <1>2, <2>1, Written DEF SameStanding
<1>. QED BY <1>1, <1>2 DEF AddRelated

\* The pass and the rest of the memory stay typed.
LEMMA PassTurns ==
    ASSUME pass \in Passes, NEW c, NextTurn(c)
    PROVE  pass' \in Passes /\ pass'.pc = "turn"
<1>1. Absent \in ClaimRows
  BY MaintenanceAssumption DEF Absent, ClaimRows, Statuses, Activations, Clocks
<1>. HIDE DEF Absent, ClaimRows
<1>2. [pass.snap EXCEPT ![c] = Absent] \in [Rowids -> ClaimRows]
  BY <1>1 DEF Passes
<1>3. pass' = [pc |-> "turn", rest |-> pass.rest \ {c}, snap |-> [pass.snap EXCEPT ![c] = Absent],
               cur |-> 0, todo |-> {}, winner |-> 0]
  BY DEF NextTurn, Passes
<1>. QED BY <1>2, <1>3, MaintenanceAssumption DEF Passes, Stages

LEMMA NoPassIsTyped == NoPass \in Passes
<1>1. Absent \in ClaimRows
  BY MaintenanceAssumption DEF Absent, ClaimRows, Statuses, Activations, Clocks
<1>. QED BY <1>1, MaintenanceAssumption DEF NoPass, Passes, Stages

LEMMA FreshIsTyped ==
    ASSUME NEW t \in 1..MaxTimes, NEW k \in 0..MaxConfidence
    PROVE  Fresh(t, k) \in ClaimRows
<1>1. Absent \in ClaimRows
  BY MaintenanceAssumption DEF Absent, ClaimRows, Statuses, Activations, Clocks
<1>2. t \in 0..MaxTimes
  BY MaintenanceAssumption
<1>3. "active" \in Statuses
  BY DEF Statuses
<1>. HIDE DEF Absent, Statuses
<1>. QED BY <1>1, <1>2, <1>3 DEF Fresh, ClaimRows

LEMMA TypesHoldFirst == MaintenanceInit => MaintenanceTypeOK
<1>. SUFFICES ASSUME MaintenanceInit PROVE MaintenanceTypeOK
  OBVIOUS
<1>. USE MaintenanceAssumption
<1>1. rows \in [Rowids -> ClaimRows]
  <2>1. PICK n \in Rowids, t \in 1..MaxTimes, k \in 0..MaxConfidence :
           rows = [c \in Rowids |-> IF c <= n THEN Fresh(t, k) ELSE Absent]
    BY DEF MaintenanceInit
  <2>2. Absent \in ClaimRows
    BY DEF Absent, ClaimRows, Statuses, Activations, Clocks
  <2>3. Fresh(t, k) \in ClaimRows
    BY FreshIsTyped
  <2>. HIDE DEF ClaimRows
  <2>. QED BY <2>1, <2>2, <2>3
<1>2. pass \in Passes
  BY NoPassIsTyped DEF MaintenanceInit
<1>3. history \in [Rowids -> HistoryRows] /\ boosts \in [Rowids -> Nat]
  BY DEF MaintenanceInit, HistoryRows
<1>4. reliability \in [Rowids -> [wins : Nat, losses : Nat]]
  BY DEF MaintenanceInit
<1>5. contra \subseteq Rowids \X Rowids /\ parked \in BOOLEAN /\ traced \subseteq Rowids
  BY Zenon DEF MaintenanceInit
<1>6. events \in 0..MaxEvents /\ faults \in 0..MaxFaults
  BY DEF MaintenanceInit
<1>. QED BY <1>1, <1>2, <1>3, <1>4, <1>5, <1>6 DEF MaintenanceTypeOK

\* A row that is changed in one field stays a row.
LEMMA Edited ==
    ASSUME NEW row \in ClaimRows
    PROVE  /\ \A v \in Statuses : [row EXCEPT !.status = v] \in ClaimRows
           /\ \A v \in 0..MaxTimes : [row EXCEPT !.times = v] \in ClaimRows
           /\ \A v \in 0..MaxConfidence : [row EXCEPT !.confidence = v] \in ClaimRows
           /\ \A v \in Activations : [row EXCEPT !.activation = v] \in ClaimRows
           /\ \A v \in BOOLEAN : [row EXCEPT !.locked = v] \in ClaimRows
           /\ [row EXCEPT !.typed = TRUE] \in ClaimRows
           /\ [row EXCEPT !.accessed = FALSE] \in ClaimRows
           /\ [row EXCEPT !.accessed = TRUE, !.due = FALSE,
                          !.clock = IF @ = "update" THEN "access" ELSE @] \in ClaimRows
           /\ [row EXCEPT !.clock = "decay", !.due = FALSE] \in ClaimRows
           /\ \A v \in BOOLEAN : [row EXCEPT !.due = v] \in ClaimRows
<1>. HIDE DEF Statuses, Activations
<1>. QED BY DEF ClaimRows, Clocks

LEMMA HistoryEdited ==
    ASSUME NEW row \in HistoryRows
    PROVE  /\ \A v \in 0..MaxTimes : [row EXCEPT !.compound = v] \in HistoryRows
           /\ \A v \in SUBSET Rowids : [row EXCEPT !.gist = v] \in HistoryRows
           /\ \A v \in BOOLEAN : [row EXCEPT !.idle = v] \in HistoryRows
  BY DEF HistoryRows

\* What happens between passes.
LEMMA WorldIsTyped ==
    ASSUME MaintenanceTypeOK, Environment
    PROVE  MaintenanceTypeOK' /\ pass' = NoPass /\ pass = NoPass
<1>. USE MaintenanceAssumption
<1>1. ASSUME Event PROVE events' \in 0..MaxEvents /\ pass = NoPass
  BY <1>1 DEF Event, MaintenanceTypeOK
<1>2. ASSUME NEW c \in Rowids, NEW t \in 1..MaxTimes, NEW k \in 0..MaxConfidence, Promote(c, t, k)
      PROVE  MaintenanceTypeOK' /\ pass' = NoPass /\ pass = NoPass
  <2>1. Fresh(t, k) \in ClaimRows
    BY FreshIsTyped
  <2>2. rows' \in [Rowids -> ClaimRows]
    BY <1>2, <2>1, Written DEF Promote, MaintenanceTypeOK
  <2>. QED BY <1>1, <1>2, <2>2 DEF Promote, MaintenanceTypeOK
<1>3. ASSUME NEW c \in Rowids, NEW d \in Rowids, Contradict(c, d)
      PROVE  MaintenanceTypeOK' /\ pass' = NoPass /\ pass = NoPass
  <2>1. [rows[d] EXCEPT !.status = "contradicted"] \in ClaimRows
    BY Edited DEF MaintenanceTypeOK, Statuses
  <2>2. rows' \in [Rowids -> ClaimRows]
    BY <1>3, <2>1, Written DEF Contradict, MaintenanceTypeOK
  <2>3. contra' \subseteq Rowids \X Rowids
    BY <1>3 DEF Contradict, MaintenanceTypeOK
  <2>. QED BY <1>1, <1>3, <2>2, <2>3 DEF Contradict, MaintenanceTypeOK
<1>4. ASSUME NEW c \in Rowids, AppendEvidence(c)
      PROVE  MaintenanceTypeOK' /\ pass' = NoPass /\ pass = NoPass
  <2>0. rows[c] \in ClaimRows /\ rows[c].times + 1 \in 0..MaxTimes
    BY <1>4 DEF AppendEvidence, MaintenanceTypeOK, ClaimRows
  <2>1. [rows[c] EXCEPT !.times = @ + 1] \in ClaimRows
    BY <2>0, Edited
  <2>2. rows' \in [Rowids -> ClaimRows]
    BY <1>4, <2>1, Written DEF AppendEvidence, MaintenanceTypeOK
  <2>. QED BY <1>1, <1>4, <2>2 DEF AppendEvidence, MaintenanceTypeOK
<1>5. ASSUME NEW c \in Rowids, NEW force \in BOOLEAN, RetireClaim(c, force)
      PROVE  MaintenanceTypeOK' /\ pass' = NoPass /\ pass = NoPass
  <2>1. [rows[c] EXCEPT !.status = "retired"] \in ClaimRows
    BY Edited DEF MaintenanceTypeOK, Statuses
  <2>2. rows' \in [Rowids -> ClaimRows]
    BY <1>5, <2>1, Written DEF RetireClaim, MaintenanceTypeOK
  <2>. QED BY <1>1, <1>5, <2>2 DEF RetireClaim, MaintenanceTypeOK
<1>6. ASSUME NEW c \in Rowids, NEW familiar \in SUBSET Rowids, Recall(c, familiar)
      PROVE  MaintenanceTypeOK' /\ pass' = NoPass /\ pass = NoPass
  <2>1. [rows[c] EXCEPT !.accessed = TRUE, !.due = FALSE,
                        !.clock = IF @ = "update" THEN "access" ELSE @] \in ClaimRows
    BY Edited DEF MaintenanceTypeOK
  <2>2. rows' \in [Rowids -> ClaimRows]
    BY <1>6, <2>1, Written DEF Recall, MaintenanceTypeOK
  <2>3. traced' \subseteq Rowids
    BY <1>6 DEF Recall, MaintenanceTypeOK
  <2>. QED BY <1>1, <1>6, <2>2, <2>3 DEF Recall, MaintenanceTypeOK
<1>7. ASSUME TimePasses
      PROVE  MaintenanceTypeOK' /\ pass' = NoPass /\ pass = NoPass
  <2>1. \A c \in Rowids : [rows[c] EXCEPT !.due = rows[c].status # "none"] \in ClaimRows
    BY Edited DEF MaintenanceTypeOK
  <2>2. rows' \in [Rowids -> ClaimRows]
    BY <1>7, <2>1 DEF TimePasses
  <2>3. \A c \in Rowids : [history[c] EXCEPT !.idle = TRUE] \in HistoryRows
    BY HistoryEdited DEF MaintenanceTypeOK
  <2>4. history' \in [Rowids -> HistoryRows]
    BY <1>7, <2>3 DEF TimePasses
  <2>. QED BY <1>1, <1>7, <2>2, <2>4 DEF TimePasses, MaintenanceTypeOK
<1>8. ASSUME Answer
      PROVE  MaintenanceTypeOK' /\ pass' = NoPass /\ pass = NoPass
  BY <1>1, <1>8 DEF Answer, MaintenanceTypeOK
<1>. QED BY <1>2, <1>3, <1>4, <1>5, <1>6, <1>7, <1>8 DEF Environment, Existing

\* The pass with its bookkeeping changed in a field or two.
LEMMA PassEdited ==
    ASSUME pass \in Passes
    PROVE  /\ \A l \in Stages : [pass EXCEPT !.pc = l] \in Passes
           /\ \A l \in Stages, c \in Rowids \cup {0} : [pass EXCEPT !.pc = l, !.cur = c] \in Passes
           /\ \A l \in Stages, S \in SUBSET Rowids : [pass EXCEPT !.pc = l, !.todo = S] \in Passes
           /\ \A S \in SUBSET Rowids : [pass EXCEPT !.todo = S] \in Passes
           /\ \A S \in [Rowids -> ClaimRows], R \in SUBSET Rowids :
                 [pass EXCEPT !.pc = "turn", !.snap = S, !.rest = R] \in Passes
           /\ \A c, w \in Rowids, S \in SUBSET Rowids :
                 [pass EXCEPT !.pc = "revise", !.cur = c, !.todo = S, !.winner = w] \in Passes
<1>1. Rowids \cup {0} = 0..N /\ Rowids \subseteq 0..N
  BY MaintenanceAssumption DEF Rowids
<1>2. "turn" \in Stages /\ "revise" \in Stages
  BY DEF Stages
<1>. HIDE DEF Stages, ClaimRows, Rowids
<1>. QED BY <1>1, <1>2 DEF Passes

LEMMA StageNames ==
    {"idle", "traces", "suppressed", "turn", "record", "revise", "charged", "demoted",
     "linked", "boosted", "faded", "spread", "diverge"} \subseteq Stages
  BY DEF Stages

\* The steps that write a claim.
LEMMA WritesAreTyped ==
    ASSUME MaintenanceTypeOK, NEW c \in Rowids, NEW row, Write(c, row),
           \/ \E v \in Activations : row = [rows[c] EXCEPT !.activation = v]
           \/ \E v \in 0..MaxConfidence : row = [rows[c] EXCEPT !.confidence = v]
           \/ \E v \in BOOLEAN : row = [rows[c] EXCEPT !.locked = v]
           \/ row = [rows[c] EXCEPT !.typed = TRUE]
    PROVE  rows' \in [Rowids -> ClaimRows] /\ SameStanding
<1>1. rows[c] \in ClaimRows
  BY DEF MaintenanceTypeOK
<1>2. row \in ClaimRows
  BY <1>1, Edited
<1>3. row.status = rows[c].status /\ row.times = rows[c].times
  BY <1>1 DEF ClaimRows
<1>. QED BY <1>2, <1>3, Written DEF MaintenanceTypeOK, SameStanding

\* The steps that change one row of the history.
LEMMA HistoryIsTyped ==
    ASSUME MaintenanceTypeOK, NEW c \in Rowids,
           \/ \E v \in 0..MaxTimes : history' = [history EXCEPT ![c].compound = v]
           \/ \E v \in SUBSET Rowids : history' = [history EXCEPT ![c].gist = v]
           \/ \E v \in BOOLEAN : history' = [history EXCEPT ![c].idle = v]
    PROVE  history' \in [Rowids -> HistoryRows]
<1>1. history[c] \in HistoryRows /\ history \in [Rowids -> HistoryRows]
  BY DEF MaintenanceTypeOK
<1>2. /\ \A v \in 0..MaxTimes : [history[c] EXCEPT !.compound = v] \in HistoryRows
      /\ \A v \in SUBSET Rowids : [history[c] EXCEPT !.gist = v] \in HistoryRows
      /\ \A v \in BOOLEAN : [history[c] EXCEPT !.idle = v] \in HistoryRows
  BY <1>1, HistoryEdited
<1>3. CASE \E v \in 0..MaxTimes : history' = [history EXCEPT ![c].compound = v]
  BY <1>1, <1>2, <1>3
<1>4. CASE \E v \in SUBSET Rowids : history' = [history EXCEPT ![c].gist = v]
  BY <1>1, <1>2, <1>4
<1>5. CASE \E v \in BOOLEAN : history' = [history EXCEPT ![c].idle = v]
  BY <1>1, <1>2, <1>5
<1>. QED BY <1>3, <1>4, <1>5

\* The steps that charge or reward a source.
LEMMA SourcesAreTyped ==
    ASSUME MaintenanceTypeOK, NEW c \in Rowids,
           \/ reliability' = [reliability EXCEPT ![c].wins = @ + 1]
           \/ reliability' = [reliability EXCEPT ![c].losses = @ + 1]
    PROVE  reliability' \in [Rowids -> [wins : Nat, losses : Nat]]
<1>1. reliability \in [Rowids -> [wins : Nat, losses : Nat]]
  BY DEF MaintenanceTypeOK
<1>. QED BY <1>1

\* What a pass does keeps the types, and no step but a demotion changes whether
\* a claim counts or how often it was seen.
LEMMA TracesAreTyped ==
    ASSUME MaintenanceTypeOK,
           \/ BeginPass \/ RecordSuppress \/ ListClaims \/ EndPass
           \/ \E c \in Rowids, a \in Activations : Suppress(c, a)
    PROVE  MaintenanceTypeOK' /\ SameStanding
<1>. USE StageNames
<1>1. pass \in Passes /\ rows \in [Rowids -> ClaimRows]
  BY DEF MaintenanceTypeOK
<1>2. CASE BeginPass
  <2>1. pass' \in Passes
    BY <1>1, <1>2, PassEdited DEF BeginPass, Enter
  <2>. QED BY <1>2, <2>1 DEF BeginPass, MaintenanceTypeOK, SameStanding
<1>3. CASE RecordSuppress
  <2>1. pass' \in Passes
    BY <1>1, <1>3, PassEdited DEF RecordSuppress
  <2>2. traced' \subseteq Rowids
    BY <1>3 DEF RecordSuppress, MaintenanceTypeOK
  <2>. QED BY <1>3, <2>1, <2>2 DEF RecordSuppress, MaintenanceTypeOK, SameStanding
<1>4. CASE ListClaims
  <2>1. Existing \in SUBSET Rowids
    BY DEF Existing
  <2>2. pass' \in Passes
    BY <1>1, <1>4, <2>1, PassEdited DEF ListClaims
  <2>. QED BY <1>4, <2>2 DEF ListClaims, MaintenanceTypeOK, SameStanding
<1>5. CASE EndPass
  BY <1>5, NoPassIsTyped DEF EndPass, MaintenanceTypeOK, SameStanding
<1>6. ASSUME NEW c \in Rowids, NEW a \in Activations, Suppress(c, a)
      PROVE  MaintenanceTypeOK' /\ SameStanding
  <2>1. rows' \in [Rowids -> ClaimRows] /\ SameStanding
    BY <1>6, WritesAreTyped DEF Suppress
  <2>2. pass' \in Passes
    BY <1>1, <1>6, PassEdited DEF Suppress
  <2>. QED BY <1>6, <2>1, <2>2 DEF Suppress, MaintenanceTypeOK
<1>. QED BY <1>2, <1>3, <1>4, <1>5, <1>6

LEMMA RungsAreTyped ==
    ASSUME MaintenanceTypeOK, NEW c \in Rowids, NEW k \in 0..MaxConfidence,
           \/ Compound(c, k) \/ RecordCompound(c) \/ Decay(c, k) \/ RecordDecay(c)
           \/ LinkCounterparts(c) \/ ProposeGist(c)
           \/ MaintainLock(c) \/ Classify(c) \/ Skip(c)
    PROVE  MaintenanceTypeOK' /\ SameStanding
<1>. USE StageNames
<1>1. pass \in Passes /\ rows \in [Rowids -> ClaimRows]
  BY DEF MaintenanceTypeOK
<1>2. CASE Compound(c, k)
  <2>1. rows' \in [Rowids -> ClaimRows] /\ SameStanding
    BY <1>2, WritesAreTyped DEF Compound, Adjust
  <2>2. pass' \in Passes
    BY <1>1, <1>2, PassEdited DEF Compound, Adjust
  <2>3. boosts' \in [Rowids -> Nat]
    BY <1>2 DEF Compound, MaintenanceTypeOK
  <2>. QED BY <1>2, <2>1, <2>2, <2>3 DEF Compound, Adjust, MaintenanceTypeOK
<1>3. CASE RecordCompound(c)
  <2>1. Snap(c).times \in 0..MaxTimes
    BY <1>1 DEF Snap, Passes, ClaimRows
  <2>2. history' \in [Rowids -> HistoryRows]
    BY <1>3, <2>1, HistoryIsTyped DEF RecordCompound
  <2>. QED BY <1>1, <1>3, <2>2, PassTurns DEF RecordCompound, MaintenanceTypeOK, SameStanding
<1>4. CASE Decay(c, k)
  <2>1. rows' \in [Rowids -> ClaimRows] /\ SameStanding
    BY <1>4, WritesAreTyped DEF Decay, Adjust
  <2>2. pass' \in Passes
    BY <1>1, <1>4, PassEdited DEF Decay, Adjust
  <2>. QED BY <1>4, <2>1, <2>2 DEF Decay, Adjust, MaintenanceTypeOK
<1>5. CASE RecordDecay(c)
  <2>1. rows' = [rows EXCEPT ![c] = [rows[c] EXCEPT !.clock = "decay", !.due = FALSE]]
    BY <1>1, <1>5 DEF RecordDecay
  <2>2. [rows[c] EXCEPT !.clock = "decay", !.due = FALSE] \in ClaimRows
    BY <1>1, Edited
  <2>3. /\ [rows[c] EXCEPT !.clock = "decay", !.due = FALSE].status = rows[c].status
        /\ [rows[c] EXCEPT !.clock = "decay", !.due = FALSE].times = rows[c].times
    BY <1>1 DEF ClaimRows
  <2>4. rows' \in [Rowids -> ClaimRows] /\ SameStanding
    BY <1>1, <2>1, <2>2, <2>3 DEF SameStanding
  <2>. QED BY <1>1, <1>5, <2>4, PassTurns DEF RecordDecay, MaintenanceTypeOK
<1>6. CASE LinkCounterparts(c)
  <2>1. Unlinked(c) \in SUBSET Rowids
    BY DEF Unlinked
  <2>2. rows' \in [Rowids -> ClaimRows] /\ SameStanding
    BY <1>1, <1>6, <2>1, Related DEF LinkCounterparts
  <2>. QED BY <1>1, <1>6, <2>2, PassTurns DEF LinkCounterparts, MaintenanceTypeOK
<1>7. CASE ProposeGist(c)
  <2>1. Siblings(c) \in SUBSET Rowids
    BY DEF Siblings, Existing
  <2>2. history' \in [Rowids -> HistoryRows]
    BY <1>7, <2>1, HistoryIsTyped DEF ProposeGist
  <2>. QED BY <1>1, <1>7, <2>2, PassTurns DEF ProposeGist, MaintenanceTypeOK, SameStanding
<1>8. CASE MaintainLock(c)
  <2>1. Lockable(c) \in BOOLEAN
    BY DEF Lockable
  <2>2. rows' \in [Rowids -> ClaimRows] /\ SameStanding
    BY <1>8, <2>1, WritesAreTyped DEF MaintainLock
  <2>. QED BY <1>1, <1>8, <2>2, PassTurns DEF MaintainLock, MaintenanceTypeOK
<1>9. CASE Classify(c)
  <2>1. rows' \in [Rowids -> ClaimRows] /\ SameStanding
    BY <1>9, WritesAreTyped DEF Classify
  <2>. QED BY <1>1, <1>9, <2>1, PassTurns DEF Classify, MaintenanceTypeOK
<1>10. CASE Skip(c)
  BY <1>1, <1>10, PassTurns DEF Skip, MaintenanceTypeOK, SameStanding
<1>. QED BY <1>2, <1>3, <1>4, <1>5, <1>6, <1>7, <1>8, <1>9, <1>10

LEMMA RevisionIsTyped ==
    ASSUME MaintenanceTypeOK, HeadInv, NEW c \in Rowids, NEW w \in Rowids, NEW mates \in SUBSET Rowids,
           \/ Revise(c, w) \/ AffirmWinner(c) \/ ChargeLoser(c) \/ DemoteLoser(c)
           \/ LinkLoser(c) \/ LinkWinner(c) \/ AnchorWinner(c, mates)
    PROVE  MaintenanceTypeOK' /\ (SameStanding \/ DemoteLoser(c))
<1>. USE StageNames
<1>1. /\ pass \in Passes /\ rows \in [Rowids -> ClaimRows]
      /\ pass.todo \in SUBSET Rowids /\ pass.todo \ {c} \in SUBSET Rowids
  BY DEF MaintenanceTypeOK, Passes
<1>2. CASE Revise(c, w)
  <2>1. Active \in SUBSET Rowids
    BY DEF Active
  <2>2. pass' \in Passes
    BY <1>1, <1>2, <2>1, PassEdited DEF Revise
  <2>. QED BY <1>2, <2>2 DEF Revise, MaintenanceTypeOK, SameStanding
<1>3. CASE AffirmWinner(c)
  <2>1. pass' \in Passes
    BY <1>1, <1>3, PassEdited DEF AffirmWinner
  <2>2. reliability' \in [Rowids -> [wins : Nat, losses : Nat]]
    BY <1>3, SourcesAreTyped DEF AffirmWinner
  <2>. QED BY <1>3, <2>1, <2>2 DEF AffirmWinner, MaintenanceTypeOK, SameStanding
<1>4. CASE ChargeLoser(c)
  <2>1. pass' \in Passes
    BY <1>1, <1>4, PassEdited DEF ChargeLoser, Enter
  <2>2. reliability' \in [Rowids -> [wins : Nat, losses : Nat]]
    BY <1>4, SourcesAreTyped DEF ChargeLoser
  <2>. QED BY <1>4, <2>1, <2>2 DEF ChargeLoser, MaintenanceTypeOK, SameStanding
<1>5. CASE DemoteLoser(c)
  <2>1. [rows[c] EXCEPT !.status = "contradicted"] \in ClaimRows
    BY <1>1, Edited DEF Statuses
  <2>2. rows' \in [Rowids -> ClaimRows]
    BY <1>1, <1>5, <2>1, Written DEF DemoteLoser
  <2>3. pass' \in Passes
    BY <1>1, <1>5, PassEdited DEF DemoteLoser, Enter
  <2>. QED BY <1>5, <2>2, <2>3 DEF DemoteLoser, MaintenanceTypeOK
<1>6. CASE LinkLoser(c)
  <2>1. {pass.winner} \in SUBSET Rowids
    BY <1>6 DEF LinkLoser, HeadInv, Revising, Active
  <2>2. rows' \in [Rowids -> ClaimRows] /\ SameStanding
    BY <1>1, <1>6, <2>1, Related DEF LinkLoser
  <2>3. pass' \in Passes
    BY <1>1, <1>6, PassEdited DEF LinkLoser, Enter
  <2>. QED BY <1>6, <2>2, <2>3 DEF LinkLoser, MaintenanceTypeOK
<1>7. CASE LinkWinner(c)
  <2>1. rows' \in [Rowids -> ClaimRows] /\ SameStanding
    BY <1>1, <1>7, Related DEF LinkWinner
  <2>2. pass' \in Passes
    BY <1>1, <1>7, PassEdited DEF LinkWinner
  <2>. QED BY <1>7, <2>1, <2>2 DEF LinkWinner, MaintenanceTypeOK
<1>8. CASE AnchorWinner(c, mates)
  <2>1. rows' \in [Rowids -> ClaimRows] /\ SameStanding
    BY <1>1, <1>8, Related DEF AnchorWinner
  <2>. QED BY <1>1, <1>8, <2>1, PassTurns DEF AnchorWinner, MaintenanceTypeOK
<1>. QED BY <1>2, <1>3, <1>4, <1>5, <1>6, <1>7, <1>8

LEMMA ActivationIsTyped ==
    ASSUME MaintenanceTypeOK, NEW c \in Rowids, NEW a \in Activations,
           \/ Boost(c, a) \/ RecordBoost(c) \/ Spread(c, a) \/ Fade(c, a) \/ RecordFade(c)
           \/ CheckDivergence(c)
    PROVE  MaintenanceTypeOK' /\ SameStanding
<1>. USE StageNames
<1>1. /\ pass \in Passes /\ rows \in [Rowids -> ClaimRows]
      /\ pass.todo \in SUBSET Rowids /\ pass.todo \ {c} \in SUBSET Rowids
  BY DEF MaintenanceTypeOK, Passes
<1>2. CASE Boost(c, a)
  <2>1. rows' \in [Rowids -> ClaimRows] /\ SameStanding
    BY <1>2, WritesAreTyped DEF Boost
  <2>2. pass' \in Passes
    BY <1>1, <1>2, PassEdited DEF Boost
  <2>. QED BY <1>2, <2>1, <2>2 DEF Boost, MaintenanceTypeOK
<1>3. CASE RecordBoost(c)
  <2>1. rows' = [rows EXCEPT ![c] = [rows[c] EXCEPT !.accessed = FALSE]]
    BY <1>1, <1>3 DEF RecordBoost
  <2>2. [rows[c] EXCEPT !.accessed = FALSE] \in ClaimRows
    BY <1>1, Edited
  <2>3. /\ [rows[c] EXCEPT !.accessed = FALSE].status = rows[c].status
        /\ [rows[c] EXCEPT !.accessed = FALSE].times = rows[c].times
    BY <1>1 DEF ClaimRows
  <2>4. rows' \in [Rowids -> ClaimRows] /\ SameStanding
    BY <1>1, <2>1, <2>2, <2>3 DEF SameStanding
  <2>5. history' \in [Rowids -> HistoryRows]
    BY <1>3, HistoryIsTyped DEF RecordBoost
  <2>6. Snap(c).related \in SUBSET Rowids
    BY <1>1 DEF Snap, Passes, ClaimRows
  <2>7. pass' \in Passes
    BY <1>1, <1>3, <2>6, PassEdited DEF RecordBoost
  <2>. QED BY <1>3, <2>4, <2>5, <2>7 DEF RecordBoost, MaintenanceTypeOK
<1>4. CASE Spread(c, a)
  <2>1. rows' \in [Rowids -> ClaimRows] /\ SameStanding
    BY <1>4, WritesAreTyped DEF Spread
  <2>2. history' \in [Rowids -> HistoryRows]
    BY <1>4, HistoryIsTyped DEF Spread
  <2>3. pass' \in Passes
    BY <1>1, <1>4, PassEdited DEF Spread
  <2>. QED BY <1>4, <2>1, <2>2, <2>3 DEF Spread, MaintenanceTypeOK
<1>5. CASE Fade(c, a)
  <2>1. rows' \in [Rowids -> ClaimRows] /\ SameStanding
    BY <1>5, WritesAreTyped DEF Fade
  <2>2. pass' \in Passes
    BY <1>1, <1>5, PassEdited DEF Fade
  <2>. QED BY <1>5, <2>1, <2>2 DEF Fade, MaintenanceTypeOK
<1>6. CASE RecordFade(c)
  <2>1. history' \in [Rowids -> HistoryRows]
    BY <1>6, HistoryIsTyped DEF RecordFade
  <2>2. pass' \in Passes
    BY <1>1, <1>6, PassEdited DEF RecordFade, Enter
  <2>. QED BY <1>6, <2>1, <2>2 DEF RecordFade, MaintenanceTypeOK, SameStanding
<1>7. CASE CheckDivergence(c)
  <2>1. parked' \in BOOLEAN
    BY <1>7, Zenon DEF CheckDivergence, Divergent, MaintenanceTypeOK
  <2>. QED BY <1>1, <1>7, <2>1, PassTurns DEF CheckDivergence, MaintenanceTypeOK, SameStanding
<1>. QED BY <1>2, <1>3, <1>4, <1>5, <1>6, <1>7

\* A write that throws ends a turn or the pass, a crash the pass.
LEMMA FaultsAreTyped ==
    ASSUME MaintenanceTypeOK, Faults
    PROVE  MaintenanceTypeOK' /\ SameStanding
<1>. USE MaintenanceAssumption
<1>1. pass \in Passes
  BY DEF MaintenanceTypeOK
<1>2. faults' \in 0..MaxFaults
  BY DEF Faults, PassThrows, ProcessDies, TurnThrows, Fault, MaintenanceTypeOK
<1>3. CASE PassThrows
  BY <1>2, <1>3, NoPassIsTyped DEF PassThrows, MaintenanceTypeOK, SameStanding
<1>4. CASE ProcessDies
  BY <1>2, <1>4, NoPassIsTyped DEF ProcessDies, MaintenanceTypeOK, SameStanding
<1>5. ASSUME NEW c \in Rowids, TurnThrows(c) PROVE MaintenanceTypeOK' /\ SameStanding
  BY <1>1, <1>2, <1>5, PassTurns DEF TurnThrows, MaintenanceTypeOK, SameStanding
<1>. QED BY <1>3, <1>4, <1>5 DEF Faults

LEMMA PassIsTyped ==
    ASSUME MaintenanceTypeOK, HeadInv, PassStep
    PROVE  MaintenanceTypeOK' /\ (SameStanding \/ \E c \in Rowids : DemoteLoser(c))
<1>1. Existing \subseteq Rowids
  BY DEF Existing
<1>2. 0 \in 0..MaxConfidence /\ "null" \in Activations
  BY MaintenanceAssumption DEF Activations
<1>3. CASE \/ BeginPass \/ RecordSuppress \/ ListClaims \/ EndPass
           \/ \E c \in Rowids, a \in Activations : Suppress(c, a)
  BY <1>3, TracesAreTyped
<1>4. CASE \E c \in Rowids, a \in Activations :
              \/ Boost(c, a) \/ Spread(c, a) \/ Fade(c, a)
              \/ RecordBoost(c) \/ RecordFade(c) \/ CheckDivergence(c)
  BY <1>4, ActivationIsTyped
<1>5. CASE \E c \in Rowids, k \in 0..MaxConfidence :
              \/ Compound(c, k) \/ Decay(c, k) \/ RecordCompound(c) \/ RecordDecay(c)
              \/ LinkCounterparts(c) \/ ProposeGist(c) \/ MaintainLock(c) \/ Classify(c) \/ Skip(c)
  BY <1>5, RungsAreTyped
<1>6. CASE \E c \in Rowids, w \in Rowids, mates \in SUBSET Rowids :
              \/ Revise(c, w) \/ AffirmWinner(c) \/ ChargeLoser(c) \/ DemoteLoser(c)
              \/ LinkLoser(c) \/ LinkWinner(c) \/ AnchorWinner(c, mates)
  BY <1>6, RevisionIsTyped
<1>. QED BY <1>1, <1>2, <1>3, <1>4, <1>5, <1>6 DEF PassStep

LEMMA OneContender ==
    ASSUME pass \in Passes, NEW c, NEW d, Contender(c), Contender(d)
    PROVE  c = d
<1>1. \A a, b \in Rowids : a <= b /\ b <= a => a = b
  BY MaintenanceAssumption DEF Rowids
<1>. HIDE DEF Rowids
<1>2. c \in pass.todo /\ d \in pass.todo /\ pass.todo \subseteq Rowids
  BY DEF Contender, Passes
<1>. QED BY <1>1, <1>2 DEF Contender

LEMMA StandingKeepsActive == SameStanding => Active' = Active
  BY DEF SameStanding, Active

\* The steps at which nobody is being revised afterwards.
LEMMA Elsewhere ==
    ASSUME pass'.pc \notin Revising
    PROVE  HeadInv'
  BY DEF HeadInv, Revising

LEMMA QuietStages ==
    ASSUME pass \in Passes, NEW c \in Rowids, NEW a \in Activations, NEW k \in 0..MaxConfidence,
           \/ BeginPass \/ RecordSuppress \/ ListClaims \/ EndPass \/ Suppress(c, a)
           \/ Boost(c, a) \/ RecordBoost(c) \/ Spread(c, a) \/ Fade(c, a) \/ RecordFade(c)
           \/ CheckDivergence(c)
           \/ Compound(c, k) \/ RecordCompound(c) \/ Decay(c, k) \/ RecordDecay(c)
           \/ LinkCounterparts(c) \/ ProposeGist(c) \/ MaintainLock(c) \/ Classify(c) \/ Skip(c)
    PROVE  pass'.pc \notin Revising
<1>1. CASE BeginPass \/ RecordSuppress \/ ListClaims \/ EndPass \/ Suppress(c, a)
  <2>1. CASE BeginPass
    BY <2>1 DEF BeginPass, Enter, Passes, Revising
  <2>2. CASE RecordSuppress
    BY <2>2 DEF RecordSuppress, Passes, Revising
  <2>3. CASE ListClaims
    BY <2>3 DEF ListClaims, Passes, Revising
  <2>4. CASE EndPass
    BY <2>4 DEF EndPass, NoPass, Revising
  <2>5. CASE Suppress(c, a)
    BY <2>5 DEF Suppress, Passes, Revising
  <2>. QED BY <1>1, <2>1, <2>2, <2>3, <2>4, <2>5
<1>2. CASE \/ Boost(c, a) \/ RecordBoost(c) \/ Spread(c, a) \/ Fade(c, a) \/ RecordFade(c)
  <2>1. CASE Boost(c, a)
    BY <2>1 DEF Boost, Passes, Revising
  <2>2. CASE RecordBoost(c)
    BY <2>2 DEF RecordBoost, Passes, Revising
  <2>3. CASE Spread(c, a)
    BY <2>3 DEF Spread, Passes, Revising
  <2>4. CASE Fade(c, a)
    BY <2>4 DEF Fade, Passes, Revising
  <2>5. CASE RecordFade(c)
    BY <2>5 DEF RecordFade, Enter, Passes, Revising
  <2>. QED BY <1>2, <2>1, <2>2, <2>3, <2>4, <2>5
<1>3. CASE Compound(c, k) \/ Decay(c, k)
  BY <1>3 DEF Compound, Decay, Adjust, Passes, Revising
<1>4. CASE \/ CheckDivergence(c) \/ RecordCompound(c) \/ RecordDecay(c)
           \/ LinkCounterparts(c) \/ ProposeGist(c) \/ MaintainLock(c) \/ Classify(c) \/ Skip(c)
  <2>1. NextTurn(c)
    BY <1>4 DEF CheckDivergence, RecordCompound, RecordDecay, LinkCounterparts, ProposeGist,
                MaintainLock, Classify, Skip
  <2>. QED BY <2>1, PassTurns DEF Revising
<1>. QED BY <1>1, <1>2, <1>3, <1>4

LEMMA RevisionKeepsAHead ==
    ASSUME MaintenanceTypeOK, HeadInv, NEW c \in Rowids, NEW w \in Rowids, NEW mates \in SUBSET Rowids,
           \/ Revise(c, w) \/ AffirmWinner(c) \/ ChargeLoser(c) \/ DemoteLoser(c)
           \/ LinkLoser(c) \/ LinkWinner(c) \/ AnchorWinner(c, mates)
    PROVE  HeadInv' /\ (Active # {} => Active' # {})
<1>. USE DEF Revising
<1>1. /\ pass \in Passes /\ rows \in [Rowids -> ClaimRows]
      /\ SameStanding \/ DemoteLoser(c)
  BY RevisionIsTyped DEF MaintenanceTypeOK
<1>2. SameStanding => Active' = Active
  BY StandingKeepsActive
<1>3. CASE Revise(c, w)
  <2>1. SameStanding /\ w \in Active
    BY <1>3 DEF Revise, SameStanding, Winners
  <2>2. pass'.pc = "revise" /\ pass'.todo = Active /\ pass'.winner = w
    BY <1>1, <1>3 DEF Revise, Passes
  <2>. QED BY <1>2, <2>1, <2>2 DEF HeadInv
<1>4. CASE AffirmWinner(c)
  <2>1. SameStanding
    BY <1>4 DEF AffirmWinner, SameStanding
  <2>2. pass.pc = "revise" /\ pass'.pc = "revise" /\ pass'.todo = pass.todo \ {c} /\ pass'.winner = pass.winner
    BY <1>1, <1>4 DEF AffirmWinner, Passes
  <2>. QED BY <1>2, <2>1, <2>2 DEF HeadInv
<1>5. CASE ChargeLoser(c)
  <2>1. SameStanding
    BY <1>5 DEF ChargeLoser, SameStanding
  <2>2. /\ pass.pc = "revise" /\ pass'.pc = "charged" /\ pass'.todo = pass.todo
        /\ pass'.winner = pass.winner /\ pass'.cur = pass.cur
    BY <1>1, <1>5 DEF ChargeLoser, Enter, Passes
  <2>3. ~Contender(pass.winner)
    BY <1>1, <1>5, OneContender DEF ChargeLoser
  <2>4. \A d : Contender(d)' <=> Contender(d)
    BY <2>2 DEF Contender
  <2>. QED BY <1>2, <2>1, <2>2, <2>3, <2>4 DEF HeadInv
<1>6. CASE DemoteLoser(c)
  <2>1. /\ pass.pc = "charged" /\ pass'.pc = "demoted" /\ pass'.todo = pass.todo
        /\ pass'.winner = pass.winner /\ pass'.cur = pass.cur
    BY <1>1, <1>6 DEF DemoteLoser, Enter, Passes
  <2>2. [rows[c] EXCEPT !.status = "contradicted"] \in ClaimRows
    BY <1>1, Edited DEF Statuses
  <2>3. \A d \in Rowids : d # c => rows'[d] = rows[d]
    BY <1>1, <1>6, <2>2, Written DEF DemoteLoser
  <2>4. \A d \in Active : d # c => d \in Active'
    BY <2>3 DEF Active
  <2>5. \A d : Contender(d)' <=> Contender(d)
    BY <2>1 DEF Contender
  <2>6. Contender(c) /\ pass.winner # c
    BY <1>6, <2>1 DEF DemoteLoser, HeadInv
  <2>. QED BY <2>1, <2>4, <2>5, <2>6 DEF HeadInv
<1>7. CASE LinkLoser(c)
  <2>1. ~DemoteLoser(c)
    BY <1>7 DEF LinkLoser, DemoteLoser
  <2>2. /\ pass.pc = "demoted" /\ pass'.pc = "linked" /\ pass'.todo = pass.todo
        /\ pass'.winner = pass.winner /\ pass'.cur = pass.cur
    BY <1>1, <1>7 DEF LinkLoser, Enter, Passes
  <2>3. \A d : Contender(d)' <=> Contender(d)
    BY <2>2 DEF Contender
  <2>. QED BY <1>1, <1>2, <2>1, <2>2, <2>3 DEF HeadInv
<1>8. CASE LinkWinner(c)
  <2>1. ~DemoteLoser(c)
    BY <1>8 DEF LinkWinner, DemoteLoser
  <2>2. /\ pass.pc = "linked" /\ pass'.pc = "revise" /\ pass'.todo = pass.todo \ {c}
        /\ pass'.winner = pass.winner
    BY <1>1, <1>8 DEF LinkWinner, Passes
  <2>3. \A d \in pass.todo \ {c} : ~Contender(d)
    BY <1>1, <1>8, OneContender DEF LinkWinner
  <2>. QED BY <1>1, <1>2, <2>1, <2>2, <2>3 DEF HeadInv
<1>9. CASE AnchorWinner(c, mates)
  <2>1. ~DemoteLoser(c)
    BY <1>9 DEF AnchorWinner, DemoteLoser
  <2>2. pass'.pc = "turn"
    BY <1>1, <1>9, PassTurns DEF AnchorWinner
  <2>. QED BY <1>1, <1>2, <2>1, <2>2, Elsewhere
<1>. QED BY <1>3, <1>4, <1>5, <1>6, <1>7, <1>8, <1>9

LEMMA HeadStep ==
    ASSUME MaintenanceTypeOK, HeadInv, MaintenanceNext
    PROVE  /\ MaintenanceTypeOK' /\ HeadInv'
           /\ events' = events /\ Active # {} => Active' # {}
<1>. USE MaintenanceAssumption
<1>1. pass \in Passes /\ events \in Nat
  BY DEF MaintenanceTypeOK
<1>2. CASE Environment
  <2>1. MaintenanceTypeOK' /\ pass' = NoPass
    BY <1>2, WorldIsTyped
  <2>2. HeadInv'
    BY <2>1, Elsewhere DEF NoPass, Revising
  <2>3. events' = events + 1
    BY <1>2 DEF Environment, Promote, Contradict, AppendEvidence, RetireClaim, Recall, TimePasses,
                Answer, Event
  <2>. QED BY <1>1, <2>1, <2>2, <2>3
<1>3. CASE Faults
  <2>1. pass'.pc \notin Revising
    BY <1>1, <1>3, PassTurns DEF Faults, PassThrows, ProcessDies, TurnThrows, NoPass, Revising
  <2>. QED BY <1>3, <2>1, FaultsAreTyped, Elsewhere, StandingKeepsActive
<1>4. CASE PassStep
  <2>1. MaintenanceTypeOK' /\ (SameStanding \/ \E c \in Rowids : DemoteLoser(c))
    BY <1>4, PassIsTyped
  <2>2. CASE \E c \in Rowids, w \in Rowids, mates \in SUBSET Rowids :
                \/ Revise(c, w) \/ AffirmWinner(c) \/ ChargeLoser(c) \/ DemoteLoser(c)
                \/ LinkLoser(c) \/ LinkWinner(c) \/ AnchorWinner(c, mates)
    BY <2>1, <2>2, RevisionKeepsAHead
  <2>3. CASE \E c \in Rowids, a \in Activations, k \in 0..MaxConfidence :
           \/ BeginPass \/ RecordSuppress \/ ListClaims \/ EndPass \/ Suppress(c, a)
           \/ Boost(c, a) \/ RecordBoost(c) \/ Spread(c, a) \/ Fade(c, a) \/ RecordFade(c)
           \/ CheckDivergence(c)
           \/ Compound(c, k) \/ RecordCompound(c) \/ Decay(c, k) \/ RecordDecay(c)
           \/ LinkCounterparts(c) \/ ProposeGist(c) \/ MaintainLock(c) \/ Classify(c) \/ Skip(c)
    <3>1. HeadInv'
      BY <1>1, <2>3, QuietStages, Elsewhere
    <3>2. SameStanding
      BY <2>3, TracesAreTyped, ActivationIsTyped, RungsAreTyped
    <3>. QED BY <2>1, <3>1, <3>2, StandingKeepsActive
  <2>4. /\ Existing \subseteq Rowids /\ 0 \in 0..MaxConfidence /\ "null" \in Activations
        /\ 1 \in Rowids
    BY DEF Existing, Activations, Rowids
  <2>. QED BY <1>4, <2>2, <2>3, <2>4 DEF PassStep
<1>. QED BY <1>2, <1>3, <1>4 DEF MaintenanceNext

LEMMA HeadStutter ==
    ASSUME MaintenanceTypeOK, HeadInv, UNCHANGED maintenanceVars
    PROVE  /\ MaintenanceTypeOK' /\ HeadInv'
           /\ events' = events /\ Active # {} => Active' # {}
<1>. USE DEF maintenanceVars
<1>1. MaintenanceTypeOK'
  BY DEF MaintenanceTypeOK
<1>2. Active' = Active
  BY DEF Active
<1>3. \A d : Contender(d)' <=> Contender(d)
  BY DEF Contender
<1>. QED BY <1>1, <1>2, <1>3 DEF HeadInv

LEMMA HeadHoldsFirst == MaintenanceInit => HeadInv
  BY DEF MaintenanceInit, HeadInv, NoPass, Revising

\* The tables and the pass keep their types, for any number of claims, any
\* thresholds and any number of events and faults.
THEOREM MaintenanceIsTyped == MaintenanceSpec => []MaintenanceTypeOK
<1>1. MaintenanceInit => MaintenanceTypeOK /\ HeadInv
  BY TypesHoldFirst, HeadHoldsFirst
<1>2. MaintenanceTypeOK /\ HeadInv /\ [MaintenanceNext]_maintenanceVars
      => (MaintenanceTypeOK /\ HeadInv)'
  BY HeadStep, HeadStutter
<1>. QED BY <1>1, <1>2, PTL DEF MaintenanceSpec

\* Wherever a pass over rivals is cut short, by a write that throws or a crash,
\* the topic keeps an active claim if it had one.
THEOREM HeadsSurvivePasses == MaintenanceSpec => PassKeepsAHead
<1>1. MaintenanceInit => MaintenanceTypeOK /\ HeadInv
  BY TypesHoldFirst, HeadHoldsFirst
<1>2. MaintenanceTypeOK /\ HeadInv /\ [MaintenanceNext]_maintenanceVars
      => (MaintenanceTypeOK /\ HeadInv)'
  BY HeadStep, HeadStutter
<1>3. MaintenanceTypeOK /\ HeadInv /\ [MaintenanceNext]_maintenanceVars
      => [events' = events /\ Active # {} => Active' # {}]_maintenanceVars
  BY HeadStep, HeadStutter
<1>. QED BY <1>1, <1>2, <1>3, PTL DEF MaintenanceSpec, PassKeepsAHead

\* What the counts are made of.
LEMMA CountsAreTyped ==
    ASSUME MaintenanceTypeOK
    PROVE  /\ faults \in Nat
           /\ \A c \in Rowids :
                 /\ history[c].compound \in Nat /\ rows[c].times \in Nat
                 /\ pass.snap[c].times \in Nat /\ boosts[c] \in Nat
                 /\ reliability[c].losses \in Nat /\ Answered(c) \in Nat
                 /\ Boosting(c) \in 0..1 /\ Charging(c) \in 0..1 /\ Demoted(c) \in 0..1
<1>. USE MaintenanceAssumption
<1>1. faults \in Nat
  BY DEF MaintenanceTypeOK
<1>2. ASSUME NEW c \in Rowids
      PROVE  /\ history[c].compound \in Nat /\ rows[c].times \in Nat
             /\ pass.snap[c].times \in Nat /\ boosts[c] \in Nat
             /\ reliability[c].losses \in Nat
  <2>1. /\ history[c] \in HistoryRows /\ rows[c] \in ClaimRows /\ pass.snap[c] \in ClaimRows
        /\ boosts[c] \in Nat /\ reliability[c] \in [wins : Nat, losses : Nat]
    BY DEF MaintenanceTypeOK, Passes
  <2>. QED BY <2>1 DEF HistoryRows, ClaimRows
<1>3. ASSUME NEW c \in Rowids PROVE Answered(c) \in Nat
  BY <1>2 DEF Answered
<1>4. ASSUME NEW c \in Rowids
      PROVE  Boosting(c) \in 0..1 /\ Charging(c) \in 0..1 /\ Demoted(c) \in 0..1
  BY DEF Boosting, Charging, Demoted
<1>. QED BY <1>1, <1>2, <1>3, <1>4

\* A step that counts nothing and finishes nothing, unless a fault pays for it.
LEMMA CountedByNone ==
    ASSUME MaintenanceTypeOK, MaintenanceTypeOK', CountInv, SameStanding, boosts' = boosts,
           faults' >= faults,
           \A c \in Rowids :
              /\ history'[c].compound = history[c].compound
              /\ reliability'[c].losses = reliability[c].losses
              /\ pass'.snap[c] \in {pass.snap[c], rows[c], Absent}
              /\ faults' = faults => Boosting(c) = 0 /\ Charging(c) = 0
    PROVE  CountInv'
<1>1. SUFFICES ASSUME NEW c \in Rowids
               PROVE  /\ (history[c].compound)' # 1 /\ (history[c].compound)' <= (rows[c].times)'
                      /\ (rows[c].status)' = "none" <=> (rows[c].times)' = 0
                      /\ (pass.snap[c].times)' <= (rows[c].times)'
                      /\ (boosts[c])' <= Answered(c)' + Boosting(c)' + faults'
                      /\ (reliability[c].losses)' <= Demoted(c)' + Charging(c)' + faults'
  BY DEF CountInv
<1>2. /\ history'[c].compound = history[c].compound /\ rows'[c].times = rows[c].times
      /\ rows'[c].status = rows[c].status /\ reliability'[c].losses = reliability[c].losses
      /\ boosts'[c] = boosts[c] /\ Answered(c)' = Answered(c) /\ Demoted(c)' = Demoted(c)
  BY DEF SameStanding, Answered, Demoted
<1>3. pass'.snap[c].times <= rows[c].times
  <2>1. Absent.times = 0
    BY DEF Absent
  <2>. QED BY <2>1, CountsAreTyped DEF CountInv
<1>4. /\ faults \in Nat /\ faults' \in Nat
      /\ boosts[c] \in Nat /\ reliability[c].losses \in Nat /\ Answered(c) \in Nat
      /\ Boosting(c) \in 0..1 /\ Charging(c) \in 0..1 /\ Demoted(c) \in 0..1
      /\ Boosting(c)' \in 0..1 /\ Charging(c)' \in 0..1
  <2>1. faults' \in Nat
    BY MaintenanceAssumption DEF MaintenanceTypeOK
  <2>2. Boosting(c)' \in 0..1 /\ Charging(c)' \in 0..1
    BY DEF Boosting, Charging
  <2>. QED BY <2>1, <2>2, CountsAreTyped
<1>5. /\ history[c].compound # 1 /\ history[c].compound <= rows[c].times
      /\ rows[c].status = "none" <=> rows[c].times = 0
      /\ boosts[c] <= Answered(c) + Boosting(c) + faults
      /\ reliability[c].losses <= Demoted(c) + Charging(c) + faults
  BY DEF CountInv
<1>6. /\ Boosting(c) + faults <= Boosting(c)' + faults'
      /\ Charging(c) + faults <= Charging(c)' + faults'
  <2>1. CASE faults' = faults
    BY <2>1, <1>4
  <2>2. CASE faults' # faults
    BY <2>2, <1>4
  <2>. QED BY <2>1, <2>2
<1>. HIDE DEF Boosting, Charging, Answered, Demoted
<1>. QED BY <1>2, <1>3, <1>4, <1>5, <1>6

LEMMA CountHoldsFirst == MaintenanceInit => CountInv
<1>. SUFFICES ASSUME MaintenanceInit, NEW c \in Rowids
              PROVE  /\ history[c].compound = 0 /\ 0 <= rows[c].times
                     /\ rows[c].status = "none" <=> rows[c].times = 0
                     /\ pass.snap[c].times = 0 /\ boosts[c] = 0 /\ reliability[c].losses = 0
                     /\ pass.pc = "idle" /\ faults = 0
  <2>1. \A c \in Rowids : history[c].compound = 0 => Answered(c) = 0
    BY DEF Answered
  <2>2. \A c \in Rowids : Boosting(c) \in 0..1 /\ Charging(c) \in 0..1 /\ Demoted(c) \in 0..1
    BY DEF Boosting, Charging, Demoted
  <2>. QED BY <2>1, <2>2 DEF CountInv
<1>1. PICK n \in Rowids, t \in 1..MaxTimes, k \in 0..MaxConfidence :
         rows = [d \in Rowids |-> IF d <= n THEN Fresh(t, k) ELSE Absent]
  BY DEF MaintenanceInit
<1>2. /\ Fresh(t, k).times = t /\ Fresh(t, k).status = "active"
      /\ Absent.times = 0 /\ Absent.status = "none"
  BY DEF Fresh, Absent
<1>3. /\ 0 <= rows[c].times
      /\ rows[c].status = "none" <=> rows[c].times = 0
  BY <1>1, <1>2, MaintenanceAssumption
<1>4. pass.snap[c].times = 0 /\ pass.pc = "idle"
  BY <1>2 DEF MaintenanceInit, NoPass
<1>. QED BY <1>3, <1>4 DEF MaintenanceInit

\* Between passes nothing is about to be written: evidence makes room, a
\* contradiction or a retirement demotes.
LEMMA WorldCounts ==
    ASSUME MaintenanceTypeOK, CountInv, Environment
    PROVE  CountInv'
<1>. USE MaintenanceAssumption
<1>0. /\ MaintenanceTypeOK' /\ pass' = NoPass /\ pass = NoPass
      /\ rows \in [Rowids -> ClaimRows]
  BY WorldIsTyped DEF MaintenanceTypeOK
<1>1. /\ boosts' = boosts /\ reliability' = reliability /\ faults' = faults
      /\ \A c \in Rowids : history'[c].compound = history[c].compound
  <2>1. CASE TimePasses
    <3>1. \A c \in Rowids : history[c] \in HistoryRows
      BY DEF MaintenanceTypeOK
    <3>2. \A c \in Rowids : history'[c] = [history[c] EXCEPT !.idle = TRUE]
      BY <2>1 DEF TimePasses
    <3>3. \A c \in Rowids : history'[c].compound = history[c].compound
      BY <3>1, <3>2 DEF HistoryRows
    <3>. QED BY <2>1, <3>3 DEF TimePasses
  <2>2. CASE ~TimePasses
    BY <2>2 DEF Environment, Promote, Contradict, AppendEvidence, RetireClaim, Recall, Answer
  <2>. QED BY <2>1, <2>2
<1>2. \A c \in Rowids : Boosting(c)' = Boosting(c) /\ Charging(c)' = Charging(c)
  BY <1>0 DEF Boosting, Charging, NoPass
<1>3. \A c \in Rowids : Answered(c)' = Answered(c)
  BY <1>1 DEF Answered
<1>4. \A c \in Rowids : pass'.snap[c].times = 0
  BY <1>0 DEF NoPass, Absent
\* A row that is promoted, grows, or is demoted.
<1>5. ASSUME NEW c \in Rowids
      PROVE  \/ rows'[c].status = rows[c].status /\ rows'[c].times = rows[c].times
             \/ rows[c].status = "none" /\ rows'[c].status = "active" /\ rows'[c].times >= 1
             \/ rows[c].status # "none" /\ rows'[c].status = rows[c].status
                   /\ rows'[c].times = rows[c].times + 1
             \/ /\ rows[c].status # "none" /\ rows'[c].status \in {"contradicted", "retired"}
                /\ rows'[c].times = rows[c].times
  <2>1. ASSUME NEW d \in Rowids, NEW t \in 1..MaxTimes, NEW k \in 0..MaxConfidence, Promote(d, t, k)
        PROVE  \/ rows'[c] = rows[c]
               \/ rows[c].status = "none" /\ rows'[c].status = "active" /\ rows'[c].times >= 1
    <3>1. Fresh(t, k).times = t /\ Fresh(t, k).status = "active" /\ Fresh(t, k) \in ClaimRows
      BY FreshIsTyped DEF Fresh, Absent
    <3>2. /\ rows'[d].status = "active" /\ rows'[d].times = t
          /\ c # d => rows'[c] = rows[c]
      BY <1>0, <2>1, <3>1, Written DEF Promote
    <3>. QED BY <2>1, <3>2 DEF Promote
  <2>2. ASSUME NEW d \in Rowids, NEW e \in Rowids, Contradict(d, e)
        PROVE  \/ rows'[c] = rows[c]
               \/ /\ rows[c].status # "none" /\ rows'[c].status \in {"contradicted", "retired"}
                  /\ rows'[c].times = rows[c].times
    <3>1. /\ [rows[e] EXCEPT !.status = "contradicted"] \in ClaimRows
          /\ [rows[e] EXCEPT !.status = "contradicted"].status = "contradicted"
          /\ [rows[e] EXCEPT !.status = "contradicted"].times = rows[e].times
      BY <1>0 DEF ClaimRows, Statuses
    <3>2. /\ rows'[e].status = "contradicted" /\ rows'[e].times = rows[e].times
          /\ c # e => rows'[c] = rows[c]
      BY <1>0, <2>2, <3>1, Written DEF Contradict
    <3>. QED BY <2>2, <3>2 DEF Contradict
  <2>3. ASSUME NEW d \in Rowids, AppendEvidence(d)
        PROVE  \/ rows'[c] = rows[c]
               \/ rows[c].status # "none" /\ rows'[c].status = rows[c].status
                     /\ rows'[c].times = rows[c].times + 1
    <3>1. rows[d] \in ClaimRows /\ rows[d].times + 1 \in 0..MaxTimes
      BY <1>0, <2>3 DEF AppendEvidence, ClaimRows
    <3>2. /\ [rows[d] EXCEPT !.times = @ + 1] \in ClaimRows
          /\ [rows[d] EXCEPT !.times = @ + 1].status = rows[d].status
          /\ [rows[d] EXCEPT !.times = @ + 1].times = rows[d].times + 1
      BY <3>1 DEF ClaimRows
    <3>3. /\ rows'[d].status = rows[d].status /\ rows'[d].times = rows[d].times + 1
          /\ c # d => rows'[c] = rows[c]
      BY <1>0, <2>3, <3>2, Written DEF AppendEvidence
    <3>. QED BY <2>3, <3>3 DEF AppendEvidence
  <2>4. ASSUME NEW d \in Rowids, NEW force \in BOOLEAN, RetireClaim(d, force)
        PROVE  \/ rows'[c] = rows[c]
               \/ /\ rows[c].status # "none" /\ rows'[c].status \in {"contradicted", "retired"}
                  /\ rows'[c].times = rows[c].times
    <3>1. /\ [rows[d] EXCEPT !.status = "retired"] \in ClaimRows
          /\ [rows[d] EXCEPT !.status = "retired"].status = "retired"
          /\ [rows[d] EXCEPT !.status = "retired"].times = rows[d].times
      BY <1>0 DEF ClaimRows, Statuses
    <3>2. /\ rows'[d].status = "retired" /\ rows'[d].times = rows[d].times
          /\ c # d => rows'[c] = rows[c]
      BY <1>0, <2>4, <3>1, Written DEF RetireClaim
    <3>. QED BY <2>4, <3>2 DEF RetireClaim
  <2>5. ASSUME NEW d \in Rowids, NEW familiar \in SUBSET Rowids, Recall(d, familiar)
        PROVE  rows'[c].status = rows[c].status /\ rows'[c].times = rows[c].times
    <3>. DEFINE seen == [rows[d] EXCEPT !.accessed = TRUE, !.due = FALSE,
                                       !.clock = IF @ = "update" THEN "access" ELSE @]
    <3>1. seen \in ClaimRows /\ seen.status = rows[d].status /\ seen.times = rows[d].times
      <4>1. seen \in ClaimRows
        BY <1>0, Edited
      <4>. QED BY <1>0, <4>1 DEF ClaimRows
    <3>2. Write(d, seen)
      BY <2>5 DEF Recall
    <3>. HIDE DEF seen
    <3>. QED BY <1>0, <3>1, <3>2, Written
  <2>6. CASE TimePasses
    <3>1. rows'[c] = [rows[c] EXCEPT !.due = rows[c].status # "none"]
      BY <2>6 DEF TimePasses
    <3>. QED BY <1>0, <3>1 DEF ClaimRows
  <2>7. CASE Answer
    BY <2>7 DEF Answer
  <2>. QED BY <2>1, <2>2, <2>3, <2>4, <2>5, <2>6, <2>7 DEF Environment, Existing
<1>6. SUFFICES ASSUME NEW c \in Rowids
               PROVE  /\ (history[c].compound)' # 1 /\ (history[c].compound)' <= (rows[c].times)'
                      /\ (rows[c].status)' = "none" <=> (rows[c].times)' = 0
                      /\ (pass.snap[c].times)' <= (rows[c].times)'
                      /\ (boosts[c])' <= Answered(c)' + Boosting(c)' + faults'
                      /\ (reliability[c].losses)' <= Demoted(c)' + Charging(c)' + faults'
  BY DEF CountInv
<1>7. /\ faults \in Nat /\ history[c].compound \in Nat /\ rows[c].times \in Nat
      /\ rows'[c].times \in Nat /\ boosts[c] \in Nat /\ reliability[c].losses \in Nat
      /\ Answered(c) \in Nat /\ Boosting(c) \in 0..1 /\ Charging(c) \in 0..1
      /\ Demoted(c) \in 0..1 /\ Demoted(c)' \in 0..1
  <2>1. rows'[c].times \in Nat
    <3>1. rows'[c] \in ClaimRows
      BY <1>0 DEF MaintenanceTypeOK
    <3>. QED BY <3>1 DEF ClaimRows
  <2>2. Demoted(c)' \in 0..1
    BY DEF Demoted
  <2>. QED BY <2>1, <2>2, CountsAreTyped
<1>8. /\ history[c].compound # 1 /\ history[c].compound <= rows[c].times
      /\ rows[c].status = "none" <=> rows[c].times = 0
      /\ boosts[c] <= Answered(c) + Boosting(c) + faults
      /\ reliability[c].losses <= Demoted(c) + Charging(c) + faults
  BY DEF CountInv
<1>9. Demoted(c) <= Demoted(c)'
  BY <1>5 DEF Demoted
<1>10. /\ history[c].compound <= rows'[c].times
       /\ rows'[c].status = "none" <=> rows'[c].times = 0
  BY <1>5, <1>7, <1>8
<1>. HIDE DEF Boosting, Charging, Answered, Demoted
<1>. QED BY <1>1, <1>2, <1>3, <1>4, <1>7, <1>8, <1>9, <1>10

LEMMA CompoundTurns ==
    ASSUME NEW c, Turn(c, "compound")
    PROVE  pass.pc = "turn" /\ Compoundable(c)
<1>1. Applies(c, "compound")
  BY DEF Turn, Rung
<1>2. Applies(c, "compound") => Compoundable(c)
  BY DEF Applies
<1>. QED BY <1>1, <1>2 DEF Turn

\* What the quiet steps of a pass leave as it was.
LEMMA QuietBooks ==
    ASSUME MaintenanceTypeOK, NEW c \in Rowids, NEW w \in Rowids, NEW a \in Activations,
           NEW k \in 0..MaxConfidence, NEW mates \in SUBSET Rowids,
           \/ BeginPass \/ RecordSuppress \/ ListClaims \/ EndPass \/ Suppress(c, a)
           \/ Boost(c, a) \/ RecordBoost(c) \/ Spread(c, a) \/ Fade(c, a) \/ RecordFade(c)
           \/ CheckDivergence(c) \/ Decay(c, k) \/ LinkCounterparts(c) \/ ProposeGist(c)
           \/ MaintainLock(c) \/ Classify(c) \/ Skip(c)
           \/ Revise(c, w) \/ AffirmWinner(c) \/ LinkLoser(c) \/ LinkWinner(c)
           \/ AnchorWinner(c, mates)
    PROVE  /\ boosts' = boosts /\ faults' = faults
           /\ pass.pc \notin {"record", "charged"}
           /\ \A d \in Rowids :
                 /\ history'[d].compound = history[d].compound
                 /\ reliability'[d].losses = reliability[d].losses
<1>1. boosts' = boosts /\ faults' = faults
  BY DEF BeginPass, RecordSuppress, ListClaims, EndPass, Suppress, Boost, RecordBoost, Spread, Fade,
         RecordFade, CheckDivergence, Decay, Adjust, LinkCounterparts, ProposeGist, MaintainLock,
         Classify, Skip, Revise, AffirmWinner, LinkLoser, LinkWinner, AnchorWinner
<1>2. pass.pc \notin {"record", "charged"}
  <2>1. CASE EndPass \/ BeginPass
    BY <2>1 DEF EndPass, BeginPass, NoPass
  <2>2. CASE ~(EndPass \/ BeginPass)
    BY <2>2 DEF RecordSuppress, ListClaims, Suppress, Boost, RecordBoost, Spread, Fade,
         RecordFade, CheckDivergence, Decay, LinkCounterparts, ProposeGist, MaintainLock,
         Classify, Skip, Revise, AffirmWinner, LinkLoser, LinkWinner, AnchorWinner, Turn
  <2>. QED BY <2>1, <2>2
<1>3. \A d \in Rowids : history'[d].compound = history[d].compound
  <2>1. \A d \in Rowids : history[d] \in HistoryRows
    BY DEF MaintenanceTypeOK
  <2>2. \/ history' = history
        \/ \E v : history' = [history EXCEPT ![c].gist = v]
        \/ \E v : history' = [history EXCEPT ![c].idle = v]
    <3>1. CASE RecordBoost(c) \/ Spread(c, a) \/ RecordFade(c) \/ ProposeGist(c)
      BY <3>1 DEF RecordBoost, Spread, RecordFade, ProposeGist
    <3>2. CASE ~(RecordBoost(c) \/ Spread(c, a) \/ RecordFade(c) \/ ProposeGist(c))
      BY <3>2 DEF BeginPass, RecordSuppress, ListClaims, EndPass, Suppress, Boost, Fade,
         CheckDivergence, Decay, Adjust, LinkCounterparts, MaintainLock,
         Classify, Skip, Revise, AffirmWinner, LinkLoser, LinkWinner, AnchorWinner
    <3>. QED BY <3>1, <3>2
  <2>3. CASE \E v : history' = [history EXCEPT ![c].gist = v]
    BY <2>1, <2>3 DEF HistoryRows, MaintenanceTypeOK
  <2>4. CASE \E v : history' = [history EXCEPT ![c].idle = v]
    BY <2>1, <2>4 DEF HistoryRows, MaintenanceTypeOK
  <2>. QED BY <2>2, <2>3, <2>4
<1>4. \A d \in Rowids : reliability'[d].losses = reliability[d].losses
  <2>1. CASE AffirmWinner(c)
    BY <2>1 DEF AffirmWinner, MaintenanceTypeOK
  <2>2. CASE ~AffirmWinner(c)
    BY <2>2 DEF BeginPass, RecordSuppress, ListClaims, EndPass, Suppress, Boost, RecordBoost, Spread,
         Fade, RecordFade, CheckDivergence, Decay, Adjust, LinkCounterparts, ProposeGist,
         MaintainLock, Classify, Skip, Revise, LinkLoser, LinkWinner, AnchorWinner
  <2>. QED BY <2>1, <2>2
<1>. QED BY <1>1, <1>2, <1>3, <1>4

\* The snapshot of a claim is kept, is dropped, or is taken.
LEMMA NextTurnSnap ==
    ASSUME pass \in Passes, NEW c, NextTurn(c)
    PROVE  \A d \in Rowids : pass'.snap[d] \in {pass.snap[d], Absent}
<1>. HIDE DEF Absent
<1>1. pass'.snap = [pass.snap EXCEPT ![c] = Absent]
  BY DEF NextTurn, Passes
<1>2. DOMAIN pass.snap = Rowids
  BY DEF Passes
<1>. QED BY <1>1, <1>2

LEMMA QuietSnaps ==
    ASSUME pass \in Passes, NEW c \in Rowids, NEW w \in Rowids, NEW a \in Activations,
           NEW k \in 0..MaxConfidence, NEW mates \in SUBSET Rowids,
           \/ BeginPass \/ RecordSuppress \/ ListClaims \/ EndPass \/ Suppress(c, a)
           \/ Boost(c, a) \/ RecordBoost(c) \/ Spread(c, a) \/ Fade(c, a) \/ RecordFade(c)
           \/ CheckDivergence(c) \/ Decay(c, k) \/ LinkCounterparts(c) \/ ProposeGist(c)
           \/ MaintainLock(c) \/ Classify(c) \/ Skip(c)
           \/ Revise(c, w) \/ AffirmWinner(c) \/ LinkLoser(c) \/ LinkWinner(c)
           \/ AnchorWinner(c, mates)
    PROVE  \A d \in Rowids : pass'.snap[d] \in {pass.snap[d], rows[d], Absent}
<1>. HIDE DEF Absent
<1>1. CASE NextTurn(c)
  BY <1>1, NextTurnSnap
<1>2. CASE ListClaims
  <2>1. pass'.snap = rows
    BY <1>2 DEF ListClaims, Passes
  <2>. QED BY <2>1
<1>3. CASE EndPass
  BY <1>3 DEF EndPass, NoPass
<1>5. CASE BeginPass \/ RecordSuppress \/ Suppress(c, a) \/ Boost(c, a) \/ RecordBoost(c)
  <2>1. pass'.snap = pass.snap
    BY <1>5 DEF BeginPass, RecordSuppress, Suppress, Boost, RecordBoost, Enter, Passes
  <2>. QED BY <2>1
<1>6. CASE Spread(c, a) \/ Fade(c, a) \/ RecordFade(c) \/ Decay(c, k)
  <2>1. pass'.snap = pass.snap
    BY <1>6 DEF Spread, Fade, RecordFade, Decay, Adjust, Enter, Passes
  <2>. QED BY <2>1
<1>7. CASE Revise(c, w) \/ AffirmWinner(c) \/ LinkLoser(c) \/ LinkWinner(c)
  <2>1. pass'.snap = pass.snap
    BY <1>7 DEF Revise, AffirmWinner, LinkLoser, LinkWinner, Enter, Passes
  <2>. QED BY <2>1
<1>8. CASE \/ CheckDivergence(c) \/ LinkCounterparts(c) \/ ProposeGist(c) \/ MaintainLock(c)
           \/ Classify(c) \/ Skip(c) \/ AnchorWinner(c, mates)
  BY <1>1, <1>8 DEF CheckDivergence, LinkCounterparts, ProposeGist, MaintainLock, Classify, Skip,
                    AnchorWinner
<1>. QED BY <1>2, <1>3, <1>5, <1>6, <1>7, <1>8

\* A step under which what is owed grows by as much as what is counted.
LEMMA CountedInBalance ==
    ASSUME MaintenanceTypeOK, MaintenanceTypeOK', CountInv, faults' = faults,
           \A c \in Rowids :
              /\ rows'[c].times = rows[c].times
              /\ rows'[c].status = "none" <=> rows[c].status = "none"
              /\ pass'.snap[c] \in {pass.snap[c], Absent}
              /\ history'[c].compound \in {history[c].compound, pass.snap[c].times}
              /\ history'[c].compound # 1
              /\ boosts'[c] + Answered(c) + Boosting(c) <= boosts[c] + Answered(c)' + Boosting(c)'
              /\ reliability'[c].losses + Demoted(c) + Charging(c)
                    <= reliability[c].losses + Demoted(c)' + Charging(c)'
    PROVE  CountInv'
<1>1. SUFFICES ASSUME NEW c \in Rowids
               PROVE  /\ (history[c].compound)' # 1 /\ (history[c].compound)' <= (rows[c].times)'
                      /\ (rows[c].status)' = "none" <=> (rows[c].times)' = 0
                      /\ (pass.snap[c].times)' <= (rows[c].times)'
                      /\ (boosts[c])' <= Answered(c)' + Boosting(c)' + faults'
                      /\ (reliability[c].losses)' <= Demoted(c)' + Charging(c)' + faults'
  BY DEF CountInv
<1>2. /\ faults \in Nat /\ boosts[c] \in Nat /\ reliability[c].losses \in Nat
      /\ Answered(c) \in Nat /\ Boosting(c) \in 0..1 /\ Charging(c) \in 0..1 /\ Demoted(c) \in 0..1
  BY CountsAreTyped
<1>3. /\ faults' \in Nat /\ boosts'[c] \in Nat /\ reliability'[c].losses \in Nat
      /\ Answered(c)' \in Nat /\ Boosting(c)' \in 0..1 /\ Charging(c)' \in 0..1
      /\ Demoted(c)' \in 0..1
  <2>1. /\ history'[c] \in HistoryRows /\ boosts'[c] \in Nat
        /\ reliability'[c] \in [wins : Nat, losses : Nat] /\ faults' \in 0..MaxFaults
    BY DEF MaintenanceTypeOK
  <2>2. history'[c].compound \in Nat
    BY <2>1, MaintenanceAssumption DEF HistoryRows
  <2>3. Answered(c)' \in Nat
    BY <2>2 DEF Answered
  <2>4. Boosting(c)' \in 0..1 /\ Charging(c)' \in 0..1 /\ Demoted(c)' \in 0..1
    BY DEF Boosting, Charging, Demoted
  <2>. QED BY <2>1, <2>3, <2>4, MaintenanceAssumption
<1>4. /\ history[c].compound <= rows[c].times /\ pass.snap[c].times <= rows[c].times
      /\ rows[c].status = "none" <=> rows[c].times = 0
      /\ boosts[c] <= Answered(c) + Boosting(c) + faults
      /\ reliability[c].losses <= Demoted(c) + Charging(c) + faults
  BY DEF CountInv
<1>5. Absent.times = 0 /\ rows[c].times \in Nat
  BY CountsAreTyped DEF Absent
<1>. HIDE DEF Boosting, Charging, Answered, Demoted
<1>6. /\ (boosts[c])' <= Answered(c)' + Boosting(c)' + faults'
      /\ (reliability[c].losses)' <= Demoted(c)' + Charging(c)' + faults'
  BY <1>2, <1>3, <1>4
<1>. QED BY <1>4, <1>5, <1>6

\* The steps that count, or write what pays for a count.
LEMMA CompoundCounts ==
    ASSUME MaintenanceTypeOK, MaintenanceTypeOK', SameStanding, CountInv, NEW c \in Rowids,
           NEW k \in 0..MaxConfidence, Compound(c, k)
    PROVE  CountInv'
<1>1. /\ pass.pc = "turn" /\ Compoundable(c)
      /\ history' = history /\ reliability' = reliability /\ faults' = faults
  BY CompoundTurns DEF Compound, Adjust
<1>2. pass'.pc = "record" /\ pass'.cur = c /\ pass'.snap = pass.snap
  BY DEF Compound, Adjust, MaintenanceTypeOK, Passes
<1>3. /\ boosts'[c] = boosts[c] + 1
      /\ \A d \in Rowids : d # c => boosts'[d] = boosts[d]
  BY DEF Compound, MaintenanceTypeOK
<1>4. Boosting(c)' = 1
  BY <1>1, <1>2 DEF Boosting, Compoundable, Snap
<1>5. ASSUME NEW d \in Rowids
      PROVE  /\ Boosting(d) = 0 /\ Charging(d) = 0 /\ Charging(d)' = 0
             /\ Demoted(d)' = Demoted(d) /\ Answered(d)' = Answered(d)
             /\ Boosting(d)' \in 0..1
  BY <1>1, <1>2 DEF Boosting, Charging, Demoted, Answered, SameStanding
<1>6. \A d \in Rowids : /\ boosts[d] \in Nat /\ reliability[d].losses \in Nat /\ Answered(d) \in Nat
                        /\ Demoted(d) \in 0..1
  BY CountsAreTyped
<1>7. \A d \in Rowids : boosts'[d] + Answered(d) + Boosting(d) <= boosts[d] + Answered(d)' + Boosting(d)'
  <2>. HIDE DEF Boosting, Answered
  <2>. QED BY <1>3, <1>4, <1>5, <1>6
<1>8. \A d \in Rowids : reliability'[d].losses + Demoted(d) + Charging(d)
                           <= reliability[d].losses + Demoted(d)' + Charging(d)'
  <2>. HIDE DEF Charging, Demoted
  <2>. QED BY <1>1, <1>5, <1>6
<1>9. \A d \in Rowids : history'[d].compound # 1
  BY <1>1 DEF CountInv
<1>. HIDE DEF Boosting, Charging, Answered, Demoted, CountInv
<1>. QED BY <1>1, <1>2, <1>7, <1>8, <1>9, CountedInBalance DEF SameStanding

LEMMA RecordCounts ==
    ASSUME MaintenanceTypeOK, MaintenanceTypeOK', SameStanding, CountInv, NEW c \in Rowids,
           RecordCompound(c) \/ RecordDecay(c)
    PROVE  CountInv'
<1>1. /\ pass.pc = "record" /\ pass.cur = c /\ NextTurn(c)
      /\ reliability' = reliability /\ faults' = faults /\ boosts' = boosts
  BY DEF RecordCompound, RecordDecay
<1>2. /\ pass'.pc = "turn"
      /\ \A d \in Rowids : pass'.snap[d] \in {pass.snap[d], Absent}
  BY <1>1, PassTurns, NextTurnSnap DEF MaintenanceTypeOK
<1>3. ASSUME NEW d \in Rowids
      PROVE  /\ Charging(d) = 0 /\ Charging(d)' = 0 /\ Boosting(d)' = 0
             /\ Demoted(d)' = Demoted(d)
             /\ d # c => Boosting(d) = 0
             /\ Boosting(d) \in 0..1
  BY <1>1, <1>2 DEF Boosting, Charging, Demoted, SameStanding
<1>4. \A d \in Rowids : /\ boosts[d] \in Nat /\ reliability[d].losses \in Nat /\ Answered(d) \in Nat
                        /\ Demoted(d) \in 0..1 /\ history[d].compound \in Nat
                        /\ pass.snap[d].times \in Nat
  BY CountsAreTyped
\* The row answers the observation that the boost counted.
<1>5. ASSUME NEW d \in Rowids
      PROVE  /\ history'[d].compound \in {history[d].compound, pass.snap[d].times}
             /\ history'[d].compound # 1
             /\ Answered(d)' \in Nat /\ Answered(d) + Boosting(d) <= Answered(d)'
  <2>1. CASE RecordDecay(c)
    <3>1. history' = history /\ ~Compoundable(c)
      BY <2>1 DEF RecordDecay
    <3>2. Boosting(d) = 0 /\ Answered(d)' = Answered(d)
      <4>1. Boosting(c) = 0
        BY <3>1 DEF Boosting
      <4>2. Answered(d)' = Answered(d)
        BY <3>1 DEF Answered
      <4>. QED BY <1>3, <4>1, <4>2
    <3>3. history[d].compound # 1
      BY DEF CountInv
    <3>. QED BY <1>4, <3>1, <3>2, <3>3
  <2>2. CASE RecordCompound(c)
    <3>1. /\ pass.snap[c].times > 1 /\ history[c].compound < pass.snap[c].times
          /\ history' = [history EXCEPT ![c].compound = pass.snap[c].times]
      BY <2>2 DEF RecordCompound, Compoundable, Snap
    <3>2. /\ history'[c].compound = pass.snap[c].times
          /\ d # c => history'[d] = history[d]
      BY <3>1 DEF MaintenanceTypeOK, HistoryRows
    <3>3. CASE d = c
      <4>1. history'[d].compound = pass.snap[d].times /\ pass.snap[d].times > 1
        BY <3>1, <3>2, <3>3
      <4>2. Answered(d)' = pass.snap[d].times - 1
        BY <1>4, <4>1 DEF Answered
      <4>3. Answered(d) <= pass.snap[d].times - 2
        BY <1>4, <3>1, <3>3 DEF Answered
      <4>. HIDE DEF Answered, Boosting
      <4>. QED BY <1>3, <1>4, <4>1, <4>2, <4>3
    <3>4. CASE d # c
      <4>1. Boosting(d) = 0 /\ Answered(d)' = Answered(d) /\ history[d].compound # 1
        BY <1>3, <3>2, <3>4 DEF Answered, CountInv
      <4>. QED BY <1>4, <3>2, <3>4, <4>1
    <3>. QED BY <3>3, <3>4
  <2>. QED BY <2>1, <2>2
<1>6. \A d \in Rowids : boosts'[d] + Answered(d) + Boosting(d) <= boosts[d] + Answered(d)' + Boosting(d)'
  <2>. HIDE DEF Boosting, Answered
  <2>. QED BY <1>1, <1>3, <1>4, <1>5
<1>7. \A d \in Rowids : reliability'[d].losses + Demoted(d) + Charging(d)
                           <= reliability[d].losses + Demoted(d)' + Charging(d)'
  <2>. HIDE DEF Charging, Demoted
  <2>. QED BY <1>1, <1>3, <1>4
<1>. HIDE DEF Boosting, Charging, Answered, Demoted, CountInv
<1>. QED BY <1>1, <1>2, <1>5, <1>6, <1>7, CountedInBalance DEF SameStanding

\* A loser is charged while it is active, and demoted next.
LEMMA LosersCount ==
    ASSUME MaintenanceTypeOK, MaintenanceTypeOK', HeadInv, CountInv, NEW c \in Rowids,
           ChargeLoser(c) \/ DemoteLoser(c)
    PROVE  CountInv'
<1>1. /\ Contender(c) /\ history' = history /\ faults' = faults /\ boosts' = boosts
      /\ pass \in Passes
  BY DEF ChargeLoser, DemoteLoser, MaintenanceTypeOK
<1>2. /\ pass'.snap = pass.snap /\ pass'.cur = pass.cur /\ pass'.todo = pass.todo
      /\ ChargeLoser(c) => pass.pc = "revise" /\ pass'.pc = "charged"
      /\ DemoteLoser(c) => pass.pc = "charged" /\ pass'.pc = "demoted"
  BY <1>1 DEF ChargeLoser, DemoteLoser, Enter, Passes
<1>3. ASSUME NEW d \in Rowids
      PROVE  /\ rows'[d].times = rows[d].times
             /\ rows'[d].status = "none" <=> rows[d].status = "none"
             /\ d # c \/ ChargeLoser(c) => rows'[d].status = rows[d].status
             /\ DemoteLoser(c) => rows[c].status = "active" /\ rows'[c].status = "contradicted"
  <2>1. CASE ChargeLoser(c)
    <3>1. ~DemoteLoser(c)
      BY <1>2, <2>1
    <3>. QED BY <2>1, <3>1 DEF ChargeLoser
  <2>2. CASE DemoteLoser(c)
    <3>1. c \in pass.todo /\ pass.pc = "charged" /\ ~ChargeLoser(c)
      BY <1>1, <1>2, <2>2 DEF Contender
    <3>2. rows[c].status = "active"
      BY <3>1 DEF HeadInv, Revising, Active
    <3>3. rows \in [Rowids -> ClaimRows] /\ rows[c] \in ClaimRows
      BY DEF MaintenanceTypeOK
    <3>4. /\ [rows[c] EXCEPT !.status = "contradicted"] \in ClaimRows
          /\ [rows[c] EXCEPT !.status = "contradicted"].status = "contradicted"
          /\ [rows[c] EXCEPT !.status = "contradicted"].times = rows[c].times
      BY <3>3 DEF ClaimRows, Statuses
    <3>5. /\ rows'[c].status = "contradicted" /\ rows'[c].times = rows[c].times
          /\ d # c => rows'[d] = rows[d]
      BY <2>2, <3>3, <3>4, Written DEF DemoteLoser
    <3>. QED BY <3>1, <3>2, <3>5
  <2>. QED BY <2>1, <2>2
<1>4. \A d \in Rowids : /\ boosts[d] \in Nat /\ reliability[d].losses \in Nat /\ Answered(d) \in Nat
                        /\ Demoted(d) \in 0..1
  BY CountsAreTyped
<1>5. ASSUME NEW d \in Rowids
      PROVE  /\ Boosting(d) = 0 /\ Boosting(d)' = 0 /\ Answered(d)' = Answered(d)
             /\ history'[d].compound = history[d].compound /\ history[d].compound # 1
  BY <1>1, <1>2 DEF Boosting, Answered, CountInv
<1>6. ASSUME NEW d \in Rowids
      PROVE  reliability'[d].losses + Demoted(d) + Charging(d)
                <= reliability[d].losses + Demoted(d)' + Charging(d)'
  <2>1. CASE ChargeLoser(c)
    <3>1. /\ reliability'[c].losses = reliability[c].losses + 1
          /\ d # c => reliability'[d] = reliability[d]
      BY <2>1 DEF ChargeLoser, MaintenanceTypeOK
    <3>2. Charging(d) = 0 /\ Charging(d)' \in 0..1 /\ Charging(c)' = 1 /\ Demoted(d)' = Demoted(d)
      BY <1>1, <1>2, <1>3, <2>1 DEF Charging, Contender, Demoted
    <3>. HIDE DEF Charging, Demoted
    <3>. QED BY <1>4, <3>1, <3>2
  <2>2. CASE DemoteLoser(c)
    <3>1. reliability' = reliability /\ Charging(d)' = 0 /\ Charging(d) \in 0..1
      BY <1>2, <2>2 DEF DemoteLoser, Charging
    <3>2. Demoted(c) = 0 /\ Demoted(c)' = 1
      BY <1>3, <2>2 DEF Demoted
    <3>3. d # c => Charging(d) = 0 /\ Demoted(d)' = Demoted(d)
      BY <1>1, <1>3, OneContender DEF Charging, Demoted
    <3>. HIDE DEF Charging, Demoted
    <3>. QED BY <1>4, <3>1, <3>2, <3>3
  <2>. QED BY <2>1, <2>2
<1>7. \A d \in Rowids : boosts'[d] + Answered(d) + Boosting(d) <= boosts[d] + Answered(d)' + Boosting(d)'
  <2>. HIDE DEF Boosting, Answered
  <2>. QED BY <1>1, <1>4, <1>5
<1>. HIDE DEF Boosting, Charging, Answered, Demoted, CountInv
<1>. QED BY <1>1, <1>2, <1>3, <1>5, <1>6, <1>7, CountedInBalance

LEMMA FaultsCount ==
    ASSUME MaintenanceTypeOK, MaintenanceTypeOK', SameStanding, CountInv, Faults
    PROVE  CountInv'
<1>1. /\ boosts' = boosts /\ history' = history /\ reliability' = reliability
      /\ faults' = faults + 1
  BY DEF Faults, PassThrows, ProcessDies, TurnThrows, Fault
<1>2. faults' # faults /\ faults' >= faults
  BY <1>1, CountsAreTyped
<1>3. \A d \in Rowids : pass'.snap[d] \in {pass.snap[d], rows[d], Absent}
  <2>1. CASE pass' = NoPass
    BY <2>1 DEF NoPass
  <2>2. ASSUME NEW c \in Rowids, TurnThrows(c)
        PROVE  \A d \in Rowids : pass'.snap[d] \in {pass.snap[d], Absent}
    BY <2>2, NextTurnSnap DEF TurnThrows, MaintenanceTypeOK
  <2>. HIDE DEF Absent
  <2>. QED BY <2>1, <2>2 DEF Faults, PassThrows, ProcessDies
<1>. HIDE DEF Absent, CountInv
<1>. QED BY <1>1, <1>2, <1>3, CountedByNone

LEMMA PassCounts ==
    ASSUME MaintenanceTypeOK, MaintenanceTypeOK', HeadInv, CountInv, PassStep
    PROVE  CountInv'
<1>1. ASSUME NEW c \in Rowids, NEW w \in Rowids, NEW a \in Activations,
             NEW k \in 0..MaxConfidence, NEW mates \in SUBSET Rowids,
             \/ BeginPass \/ RecordSuppress \/ ListClaims \/ EndPass \/ Suppress(c, a)
             \/ Boost(c, a) \/ RecordBoost(c) \/ Spread(c, a) \/ Fade(c, a) \/ RecordFade(c)
             \/ CheckDivergence(c) \/ Decay(c, k) \/ LinkCounterparts(c) \/ ProposeGist(c)
             \/ MaintainLock(c) \/ Classify(c) \/ Skip(c)
             \/ Revise(c, w) \/ AffirmWinner(c) \/ LinkLoser(c) \/ LinkWinner(c)
             \/ AnchorWinner(c, mates)
      PROVE  CountInv'
  <2>1. /\ boosts' = boosts /\ faults' = faults
        /\ pass.pc \notin {"record", "charged"}
        /\ \A d \in Rowids : /\ history'[d].compound = history[d].compound
                             /\ reliability'[d].losses = reliability[d].losses
    BY <1>1, QuietBooks
  <2>2. \A d \in Rowids : pass'.snap[d] \in {pass.snap[d], rows[d], Absent}
    BY <1>1, QuietSnaps DEF MaintenanceTypeOK
  <2>3. ~DemoteLoser(c)
    BY <2>1 DEF DemoteLoser
  <2>4. SameStanding
    BY <1>1, <2>3, TracesAreTyped, ActivationIsTyped, RungsAreTyped, RevisionIsTyped
  <2>5. \A d \in Rowids : Boosting(d) = 0 /\ Charging(d) = 0
    BY <2>1 DEF Boosting, Charging
  <2>6. faults' >= faults
    BY <2>1, CountsAreTyped
  <2>. HIDE DEF Absent, CountInv, Boosting, Charging
  <2>. QED BY <2>1, <2>2, <2>4, <2>5, <2>6, CountedByNone
<1>2. ASSUME NEW c \in Rowids, NEW k \in 0..MaxConfidence, Compound(c, k) PROVE CountInv'
  BY <1>2, CompoundCounts, RungsAreTyped
<1>3. ASSUME NEW c \in Rowids, RecordCompound(c) \/ RecordDecay(c) PROVE CountInv'
  <2>1. 0 \in 0..MaxConfidence
    BY MaintenanceAssumption
  <2>. QED BY <1>3, <2>1, RecordCounts, RungsAreTyped
<1>4. ASSUME NEW c \in Rowids, ChargeLoser(c) \/ DemoteLoser(c) PROVE CountInv'
  BY <1>4, LosersCount
<1>5. /\ Existing \subseteq Rowids /\ 0 \in 0..MaxConfidence /\ "null" \in Activations
      /\ 1 \in Rowids
  BY MaintenanceAssumption DEF Existing, Activations, Rowids
<1>6. CASE \/ BeginPass \/ RecordSuppress \/ ListClaims \/ EndPass
           \/ \E c \in Rowids, a \in Activations :
                 Suppress(c, a) \/ Boost(c, a) \/ Spread(c, a) \/ Fade(c, a)
  BY <1>1, <1>5, <1>6
<1>7. CASE \E c \in Rowids, k \in 0..MaxConfidence : Compound(c, k) \/ Decay(c, k)
  BY <1>1, <1>2, <1>5, <1>7
<1>8. CASE \/ \E c, w \in Rowids : Revise(c, w)
           \/ \E c \in Rowids, mates \in SUBSET Existing : AnchorWinner(c, mates)
  BY <1>1, <1>5, <1>8
<1>9. CASE \E c \in Rowids :
              \/ RecordCompound(c) \/ RecordDecay(c) \/ LinkCounterparts(c) \/ ProposeGist(c)
              \/ AffirmWinner(c) \/ ChargeLoser(c) \/ DemoteLoser(c)
              \/ LinkLoser(c) \/ LinkWinner(c)
              \/ MaintainLock(c) \/ RecordBoost(c) \/ RecordFade(c) \/ CheckDivergence(c)
              \/ Classify(c) \/ Skip(c)
  BY <1>1, <1>3, <1>4, <1>5, <1>9
<1>. QED BY <1>6, <1>7, <1>8, <1>9 DEF PassStep

LEMMA CountStep ==
    ASSUME MaintenanceTypeOK, HeadInv, CountInv, [MaintenanceNext]_maintenanceVars
    PROVE  CountInv'
<1>1. MaintenanceTypeOK'
  BY HeadStep, HeadStutter
<1>2. CASE Environment
  BY <1>2, WorldCounts
<1>3. CASE PassStep
  BY <1>1, <1>3, PassCounts
<1>4. CASE Faults
  BY <1>1, <1>4, FaultsAreTyped, FaultsCount
<1>5. CASE UNCHANGED maintenanceVars
  BY <1>5 DEF maintenanceVars, CountInv, Answered, Boosting, Charging, Demoted, Compoundable,
              Contender, Snap
<1>. QED BY <1>2, <1>3, <1>4, <1>5 DEF MaintenanceNext

\* What is owed is at most what the property allows: a compound row answers an
\* observation that the snapshot held, and a claim about to be demoted is active.
LEMMA CountsBound ==
    ASSUME MaintenanceTypeOK, HeadInv, CountInv
    PROVE  ReplaysNeedFaults
<1>1. SUFFICES ASSUME NEW c \in Rowids, rows[c].status # "none"
               PROVE  /\ boosts[c] <= rows[c].times - 1 + faults
                      /\ reliability[c].losses <= 1 + faults
  BY DEF ReplaysNeedFaults, Existing
<1>2. /\ faults \in Nat /\ history[c].compound \in Nat /\ rows[c].times \in Nat
      /\ pass.snap[c].times \in Nat /\ boosts[c] \in Nat /\ reliability[c].losses \in Nat
      /\ Charging(c) \in 0..1 /\ Demoted(c) \in 0..1 /\ Answered(c) \in Nat /\ Boosting(c) \in 0..1
  BY CountsAreTyped
<1>3. /\ history[c].compound # 1 /\ history[c].compound <= rows[c].times
      /\ rows[c].times # 0 /\ pass.snap[c].times <= rows[c].times
      /\ boosts[c] <= Answered(c) + Boosting(c) + faults
      /\ reliability[c].losses <= Demoted(c) + Charging(c) + faults
  BY <1>1 DEF CountInv
<1>4. Answered(c) + Boosting(c) <= rows[c].times - 1
  <2>1. CASE Boosting(c) = 0
    BY <1>2, <1>3, <2>1 DEF Answered
  <2>2. CASE Boosting(c) # 0
    <3>1. Boosting(c) = 1 /\ pass.snap[c].times > 1 /\ history[c].compound < pass.snap[c].times
      BY <2>2 DEF Boosting, Compoundable, Snap
    <3>2. Answered(c) <= pass.snap[c].times - 2
      BY <1>2, <3>1 DEF Answered
    <3>. HIDE DEF Answered, Boosting
    <3>. QED BY <1>2, <1>3, <3>1, <3>2
  <2>. QED BY <2>1, <2>2
<1>5. Demoted(c) + Charging(c) <= 1
  <2>1. CASE Charging(c) = 0
    BY <1>2, <2>1
  <2>2. CASE Charging(c) # 0
    <3>1. pass.pc = "charged" /\ c \in pass.todo
      BY <2>2 DEF Charging, Contender
    <3>2. Demoted(c) = 0
      BY <3>1 DEF Demoted, HeadInv, Revising, Active
    <3>. QED BY <1>2, <3>2
  <2>. QED BY <2>1, <2>2
<1>. HIDE DEF Answered, Boosting, Charging, Demoted
<1>. QED BY <1>2, <1>3, <1>4, <1>5

\* However passes are repeated, cut short or resumed after a crash, confidence is
\* raised once for each observation after the first and a source charged with one
\* lost revision, and each fault buys at most one more of either.
THEOREM RecountsNeedFaults == MaintenanceSpec => []ReplaysNeedFaults
<1>1. MaintenanceInit => MaintenanceTypeOK /\ HeadInv /\ CountInv
  BY TypesHoldFirst, HeadHoldsFirst, CountHoldsFirst
<1>2. MaintenanceTypeOK /\ HeadInv /\ CountInv /\ [MaintenanceNext]_maintenanceVars
      => (MaintenanceTypeOK /\ HeadInv /\ CountInv)'
  BY HeadStep, HeadStutter, CountStep
<1>3. MaintenanceTypeOK /\ HeadInv /\ CountInv => ReplaysNeedFaults
  BY CountsBound
<1>. QED BY <1>1, <1>2, <1>3, PTL DEF MaintenanceSpec
===============================================================================
