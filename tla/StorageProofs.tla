---------------------------- MODULE StorageProofs ----------------------------
(* No boot loses a row, and a core that listens has current files: the       *)
(* proofs for files of any release and any number of crashes, errors and     *)
(* writes.                                                                   *)
EXTENDS Storage, SequenceTheorems, TLAPS

IsRow(r) == r = [of |-> r.of, from |-> r.from, was |-> r.was, is |-> r.is]

\* What the files and the single file hold are rows.
HoldRows == (\A r \in rows : IsRow(r)) /\ (\A r \in legacy : IsRow(r))

\* A step that keeps a row, or records a run as failed or a claim's norms.
Keeps(r, k) ==
    /\ <<k.of, k.from, k.was>> = <<r.of, r.from, r.was>>
    /\ k.is = r.is \/ <<r.is, k.is>> \in {<<"running", "failed">>, <<"blank", "normed">>}

\* Row makes rows.
LEMMA MadeRows == \A of, from, state : IsRow(Row(of, from, state))
BY DEF Row, IsRow

\* A migration that changes what a row is now keeps what it was and where from.
LEMMA ChangedRows ==
    ASSUME NEW r, IsRow(r), NEW now
    PROVE  LET k == [r EXCEPT !.is = now]
           IN  IsRow(k) /\ <<k.of, k.from, k.was>> = <<r.of, r.from, r.was>> /\ k.is = now
BY DEF IsRow

\* What any release left in the files, and the single file before them, are rows.
LEMMA RowsInit == ASSUME Init PROVE HoldRows
<1>1. \A r \in LegacyRows : IsRow(r)
  BY MadeRows DEF LegacyRows
<1>2. ASSUME NEW f \in Files, NEW e PROVE \A r \in OldRows(f, e) : IsRow(r)
  BY MadeRows DEF OldRows, Files
<1>3. \A r \in rows : IsRow(r)
  BY <1>2 DEF Init
<1>. QED BY <1>1, <1>3 DEF Init, HoldRows

\* Every statement of a boot, wherever it stops, keeps the rows it finds, but
\* for parks that cannot be authorised.
LEMMA RowsStep ==
    ASSUME HoldRows, [Next]_vars
    PROVE  /\ HoldRows'
           /\ \A r \in rows : ~Actionable(r) \/ \E k \in rows' : Keeps(r, k)
<1>1. ASSUME rows \subseteq rows', \A r \in rows' : IsRow(r), UNCHANGED legacy
      PROVE  HoldRows' /\ \A r \in rows : \E k \in rows' : Keeps(r, k)
  BY <1>1 DEF HoldRows, Keeps
<1>2. CASE RebuildRequests
  <2>1. UNCHANGED legacy
    BY <1>2 DEF RebuildRequests, Held, Stays
  <2>2. rows' \subseteq rows /\ \A r \in rows : Actionable(r) => r \in rows'
    BY <1>2 DEF RebuildRequests
  <2>. QED BY <2>1, <2>2 DEF HoldRows, Keeps
<1>3. CASE RebuildRuns
  <2>1. UNCHANGED legacy /\ (UNCHANGED rows \/ rows' = Carried(rows))
    BY <1>3 DEF RebuildRuns, Held, Stays
  <2>2. ASSUME rows' = Carried(rows)
        PROVE  (\A r \in rows' : IsRow(r)) /\ \A r \in rows : \E k \in rows' : Keeps(r, k)
    <3>1. ASSUME NEW r \in rows
          PROVE  LET k == IF r.is = "running" THEN [r EXCEPT !.is = "failed"] ELSE r
                 IN  IsRow(k) /\ Keeps(r, k)
      BY ChangedRows DEF HoldRows, Keeps
    <3>. QED BY <2>2, <3>1 DEF Carried
  <2>. QED BY <1>1, <2>1, <2>2 DEF HoldRows
<1>4. CASE BackfillClaimNorms
  <2>1. ASSUME NEW r \in rows
        PROVE  LET k == IF r.is = "blank" THEN [r EXCEPT !.is = "normed"] ELSE r
               IN  IsRow(k) /\ Keeps(r, k)
    BY ChangedRows DEF HoldRows, Keeps
  <2>. QED BY <1>4, <2>1 DEF BackfillClaimNorms, Held, Stays, HoldRows
<1>5. CASE Copy
  <2>1. rows' = rows \cup {r \in legacy : r.of = On} /\ UNCHANGED legacy
    BY <1>5 DEF Copy, Held, Stays
  <2>. QED BY <1>1, <2>1 DEF HoldRows
<1>6. CASE Write
  <2>1. PICK r \in {Row("message", "new", "plain"), Row("request", "new", "parked"),
                    Row("run", "new", "reasoning"), Row("claim", "new", "normed")} :
            rows' = rows \cup {r}
    BY <1>6 DEF Write
  <2>2. IsRow(r)
    BY MadeRows
  <2>. QED BY <1>1, <1>6, <2>1, <2>2 DEF Write, HoldRows
<1>7. CASE UNCHANGED <<rows, legacy>>
  BY <1>1, <1>7 DEF HoldRows
<1>8. CASE Proceed
  BY <1>2, <1>3, <1>4, <1>5, <1>7, <1>8
    DEF Proceed, Boot, Listen, Split, Open, Define, AddColumnIfMissing, DropOld, CreateNew,
        RebuildHistory, Reindex, VerifySchema, Refused, Held, Stays, Disk
<1>. QED BY <1>6, <1>7, <1>8 DEF Next, StatementThrows, Crash, vars

\* No boot, rebuild or crash loses a row, however many releases old the files are
\* and however often a boot stopped.
THEOREM NoRowIsLost == Spec => RowsSurvive
<1>1. Init => HoldRows
  BY RowsInit
<1>2. HoldRows /\ [Next]_vars => HoldRows'
  BY RowsStep
<1>3. HoldRows /\ [Next]_vars =>
        [\A r \in rows :
          \/ ~Actionable(r)
          \/ \E k \in rows' :
                /\ <<k.of, k.from, k.was>> = <<r.of, r.from, r.was>>
                /\ k.is = r.is \/ <<r.is, k.is>> \in {<<"running", "failed">>, <<"blank", "normed">>}]_vars
  BY RowsStep DEF Keeps
<1>. QED BY <1>1, <1>2, <1>3, PTL DEF Spec, RowsSurvive

-----------------------------------------------------------------------------

(***************************************************************************)
(* A core that listens has current files.  A boot still has ahead of it    *)
(* whatever its files still need: the statements of the service that owns  *)
(* a file, which no copy of the single file replaces.                      *)
(***************************************************************************)
Guard == "tool_requests_identity_immutable"

\* Which statement brings a part of an older form to the present one.
Mender ==
    [requests |-> "rebuildRequests", guard |-> "create", runs |-> "rebuildRuns",
     title |-> "addColumn", excluded |-> "addColumn", transcript |-> "addColumn",
     source_role |-> "addColumn", denied |-> "addColumn", negated |-> "addColumn",
     identity |-> "create", resolution |-> "addColumn", resolved_at |-> "addColumn",
     history |-> "rebuildHistory",
     subject_norm |-> "addColumn", predicate_norm |-> "addColumn"]
Mended == DOMAIN Mender

Mend(p) == Statement(Parts[p].file, Mender[p], p)
OpenFile(f) == Statement(f, "open", "file")
Verify(f) == Statement(f, "verify", "file")
Defines(p) == Statement(Parts[p].file, "define", Parts[p].table)
Norms == Statement("memories", "backfill", "claims")
Lexicon == Statement("memories", "reindex", "claims_fts")

\* What is still ahead of a boot when a part is missing: the index over the norms
\* and the one of the runs are created by the schema, a part that is dropped to be
\* replaced is created by its migration, and any other is missed by the
\* verification.
Ahead(p) == CASE p \in {"norm_index", "runs_index"} -> Defines(p)
              [] p \in {"guard", "identity"} -> Mend(p)
              [] OTHER -> Verify(Parts[p].file)

\* What the owner of a file does after it opened it.
Needed(f) ==
    {Verify(f)} \cup {Mend(p) : p \in {q \in Mended : Parts[q].file = f}}
    \cup {Defines(p) : p \in {q \in {"norm_index", "runs_index"} : Parts[q].file = f}}
    \cup (IF f = "memories" THEN {Norms, Lexicon} ELSE {})

Holds(q, s) == \E i \in DOMAIN q : q[i] = s
After(q, j, s) == \E i \in DOMAIN q : i > j /\ q[i] = s

\* The owner of f has its whole program in q.
Opens(q, f) == \E i \in DOMAIN q : q[i] = OpenFile(f) /\ \A s \in Needed(f) : After(q, i, s)

\* What drops a part is followed by what creates it again, what creates the narrower
\* trigger by the wider one; two files come from the single one, and
\* one statement is about the runs.
Ordered(q) ==
    \A j \in DOMAIN q :
        /\ q[j].do = "split" => q[j].file \in {"sessions", "memories"}
        /\ q[j].on = "runs" => q[j].do = "rebuildRuns"
        /\ q[j].do = "rebuildRequests" => After(q, j, Mend("guard"))
        /\ q[j].do = "drop" => After(q, j, Ahead(q[j].on))
        /\ q[j].do = "define" /\ q[j].on = Guard => After(q, j, Mend("guard"))

IsSequence(q) == \E S : q \in Seq(S)

LEMMA Sequences ==
    ASSUME NEW q, IsSequence(q)
    PROVE  Len(q) \in Nat /\ DOMAIN q = 1..Len(q)
<1>1. PICK S : q \in Seq(S)
  BY DEF IsSequence
<1>. QED BY <1>1

\* What two programs run one after the other hold, and where.
LEMMA Joined ==
    ASSUME NEW p, IsSequence(p), NEW q, IsSequence(q)
    PROVE  /\ IsSequence(p \o q)
           /\ Len(p \o q) = Len(p) + Len(q)
           /\ \A i \in DOMAIN p : i \in DOMAIN (p \o q) /\ (p \o q)[i] = p[i]
           /\ \A i \in DOMAIN q : i + Len(p) \in DOMAIN (p \o q) /\ (p \o q)[i + Len(p)] = q[i]
           /\ \A i \in DOMAIN (p \o q) : \/ i \in DOMAIN p
                                         \/ i - Len(p) \in DOMAIN q
<1>1. PICK S, T : p \in Seq(S) /\ q \in Seq(T)
  BY DEF IsSequence
<1>2. p \in Seq(S \cup T)
  BY <1>1, SeqMonotonic
<1>3. q \in Seq(S \cup T)
  BY <1>1, SeqMonotonic
<1>4. /\ p \o q \in Seq(S \cup T)
      /\ Len(p \o q) = Len(p) + Len(q)
      /\ \A i \in 1..(Len(p) + Len(q)) :
            (p \o q)[i] = IF i <= Len(p) THEN p[i] ELSE q[i - Len(p)]
  BY <1>2, <1>3, ConcatProperties
<1>5. IsSequence(p \o q)
  BY <1>4 DEF IsSequence
<1>6. /\ Len(p) \in Nat /\ DOMAIN p = 1..Len(p)
      /\ Len(q) \in Nat /\ DOMAIN q = 1..Len(q)
      /\ DOMAIN (p \o q) = 1..Len(p \o q)
  BY <1>5, Sequences
<1>. HIDE DEF IsSequence
<1>. DEFINE pq == p \o q
<1>7. /\ Len(pq) = Len(p) + Len(q) /\ DOMAIN pq = 1..Len(pq)
      /\ \A i \in 1..(Len(p) + Len(q)) : pq[i] = IF i <= Len(p) THEN p[i] ELSE q[i - Len(p)]
  BY <1>4, <1>6
<1>. HIDE DEF pq
<1>8. /\ \A i \in DOMAIN p : i \in DOMAIN pq /\ pq[i] = p[i]
      /\ \A i \in DOMAIN pq : i \in DOMAIN p \/ i - Len(p) \in DOMAIN q
  BY <1>6, <1>7
<1>9. ASSUME NEW i \in DOMAIN q PROVE i + Len(p) \in DOMAIN pq /\ pq[i + Len(p)] = q[i]
  <2>1. i + Len(p) \in 1..(Len(p) + Len(q)) /\ ~(i + Len(p) <= Len(p)) /\ i + Len(p) - Len(p) = i
    BY <1>6
  <2>. QED BY <1>7, <2>1
<1>. QED BY <1>4, <1>5, <1>8, <1>9 DEF pq

LEMMA Origins ==
    ASSUME NEW p, IsSequence(p), NEW q, IsSequence(q)
    PROVE  /\ \A i \in DOMAIN p : i \in DOMAIN (p \o q) /\ (p \o q)[i] = p[i]
           /\ \A i \in DOMAIN (p \o q) : \/ i \in DOMAIN p /\ (p \o q)[i] = p[i]
                                         \/ \E k \in DOMAIN q : (p \o q)[i] = q[k]
<1>1. /\ IsSequence(p \o q)
      /\ \A i \in DOMAIN p : i \in DOMAIN (p \o q) /\ (p \o q)[i] = p[i]
  BY Joined
<1>2. ASSUME NEW i \in DOMAIN (p \o q), i \notin DOMAIN p
      PROVE  \E k \in DOMAIN q : (p \o q)[i] = q[k]
  <2>1. i - Len(p) \in DOMAIN q
    BY <1>2, Joined
  <2>2. (p \o q)[i - Len(p) + Len(p)] = q[i - Len(p)]
    BY <2>1, Joined
  <2>3. i - Len(p) + Len(p) = i
    BY <1>1, Sequences
  <2>. QED BY <2>1, <2>2, <2>3
<1>. QED BY <1>1, <1>2

LEMMA JoinHolds ==
    ASSUME NEW p, IsSequence(p), NEW q, IsSequence(q), NEW s
    PROVE  /\ Holds(p, s) => Holds(p \o q, s)
           /\ Holds(q, s) => Holds(p \o q, s)
           /\ \A j \in DOMAIN p : After(p, j, s) \/ Holds(q, s) => After(p \o q, j, s)
           /\ \A j \in DOMAIN q : After(q, j, s) => After(p \o q, j + Len(p), s)
<1>1. Len(p) \in Nat /\ DOMAIN p = 1..Len(p) /\ Len(q) \in Nat /\ DOMAIN q = 1..Len(q)
  BY Sequences
<1>2. /\ \A i \in DOMAIN p : i \in DOMAIN (p \o q) /\ (p \o q)[i] = p[i]
      /\ \A i \in DOMAIN q : i + Len(p) \in DOMAIN (p \o q) /\ (p \o q)[i + Len(p)] = q[i]
  BY Joined
<1>7. (Holds(p, s) => Holds(p \o q, s)) /\ (Holds(q, s) => Holds(p \o q, s))
  BY <1>2 DEF Holds
<1>3. ASSUME NEW j \in DOMAIN p, After(p, j, s) PROVE After(p \o q, j, s)
  BY <1>3, Joined DEF After
<1>4. ASSUME NEW j \in DOMAIN p, Holds(q, s) PROVE After(p \o q, j, s)
  <2>1. PICK i \in DOMAIN q : q[i] = s
    BY <1>4 DEF Holds
  <2>2. i + Len(p) \in DOMAIN (p \o q) /\ (p \o q)[i + Len(p)] = s
    BY <2>1, Joined
  <2>3. i + Len(p) > j
    BY <1>1
  <2>. QED BY <2>2, <2>3 DEF After
<1>5. ASSUME NEW j \in DOMAIN q, After(q, j, s) PROVE After(p \o q, j + Len(p), s)
  <2>1. PICK i \in DOMAIN q : i > j /\ q[i] = s
    BY <1>5 DEF After
  <2>2. i + Len(p) \in DOMAIN (p \o q) /\ (p \o q)[i + Len(p)] = s
    BY <2>1, Joined
  <2>3. i + Len(p) > j + Len(p)
    BY <1>1, <2>1
  <2>. QED BY <2>2, <2>3 DEF After
<1>. QED BY <1>3, <1>4, <1>5, <1>7

LEMMA JoinAfter ==
    ASSUME NEW p, IsSequence(p), NEW q, IsSequence(q), NEW j \in DOMAIN (p \o q)
    PROVE  \/ /\ j \in DOMAIN p /\ (p \o q)[j] = p[j]
              /\ \A s : After(p, j, s) \/ Holds(q, s) => After(p \o q, j, s)
           \/ \E k \in DOMAIN q : /\ (p \o q)[j] = q[k]
                                  /\ \A s : After(q, k, s) => After(p \o q, j, s)
<1>1. CASE j \in DOMAIN p
  BY <1>1, Origins, JoinHolds
<1>2. CASE j \notin DOMAIN p
  <2>1. j - Len(p) \in DOMAIN q
    BY <1>2, Joined
  <2>2. IsSequence(p \o q)
    BY Joined
  <2>3. j - Len(p) + Len(p) = j
    BY <2>2, Sequences
  <2>4. (p \o q)[j - Len(p) + Len(p)] = q[j - Len(p)]
    BY <2>1, Joined
  <2>5. \A s : After(q, j - Len(p), s) => After(p \o q, j - Len(p) + Len(p), s)
    BY <2>1, JoinHolds
  <2>. QED BY <2>1, <2>3, <2>4, <2>5
<1>. QED BY <1>1, <1>2

LEMMA JoinOrdered ==
    ASSUME NEW p, IsSequence(p), NEW q, IsSequence(q), Ordered(p), Ordered(q)
    PROVE  Ordered(p \o q)
<1>1. PICK pq : pq = p \o q
  OBVIOUS
<1>2. SUFFICES ASSUME NEW j \in DOMAIN pq
               PROVE  /\ pq[j].do = "split" => pq[j].file \in {"sessions", "memories"}
                      /\ pq[j].on = "runs" => pq[j].do = "rebuildRuns"
                      /\ pq[j].do = "rebuildRequests" => After(pq, j, Mend("guard"))
                      /\ pq[j].do = "drop" => After(pq, j, Ahead(pq[j].on))
                      /\ pq[j].do = "define" /\ pq[j].on = Guard => After(pq, j, Mend("guard"))
  BY <1>1 DEF Ordered
<1>3. \/ j \in DOMAIN p /\ pq[j] = p[j] /\ \A s : After(p, j, s) => After(pq, j, s)
      \/ \E k \in DOMAIN q : pq[j] = q[k] /\ \A s : After(q, k, s) => After(pq, j, s)
  BY <1>1, JoinAfter
<1>. QED BY <1>3 DEF Ordered

LEMMA JoinOpens ==
    ASSUME NEW p, IsSequence(p), NEW q, IsSequence(q), NEW f, Opens(p, f) \/ Opens(q, f)
    PROVE  Opens(p \o q, f)
<1>1. ASSUME NEW i \in DOMAIN p, p[i] = OpenFile(f), \A s \in Needed(f) : After(p, i, s)
      PROVE  Opens(p \o q, f)
  <2>1. i \in DOMAIN (p \o q) /\ (p \o q)[i] = OpenFile(f)
    BY <1>1, Joined
  <2>2. \A s \in Needed(f) : After(p \o q, i, s)
    BY <1>1, JoinHolds
  <2>. QED BY <2>1, <2>2 DEF Opens
<1>2. ASSUME NEW i \in DOMAIN q, q[i] = OpenFile(f), \A s \in Needed(f) : After(q, i, s)
      PROVE  Opens(p \o q, f)
  <2>1. i + Len(p) \in DOMAIN (p \o q) /\ (p \o q)[i + Len(p)] = OpenFile(f)
    BY <1>2, Joined
  <2>2. \A s \in Needed(f) : After(p \o q, i + Len(p), s)
    BY <1>2, JoinHolds
  <2>. QED BY <2>1, <2>2 DEF Opens
<1>. QED BY <1>1, <1>2 DEF Opens

\* A program without its first m statements, none of which is needed later.
Dropped(q, m, t) ==
    /\ m \in Nat /\ m < Len(q) + 1
    /\ Len(t) = Len(q) - m
    /\ \A i \in 1..(Len(q) - m) : t[i] = q[i + m]

LEMMA DropHolds ==
    ASSUME NEW q, IsSequence(q), NEW m, NEW t, IsSequence(t), Dropped(q, m, t), NEW s
    PROVE  /\ \A j \in DOMAIN q : After(q, j, s) /\ j > m => After(t, j - m, s)
           /\ Holds(q, s) /\ (\A i \in 1..m : q[i] # s) => Holds(t, s)
           /\ After(q, m, s) => Holds(t, s)
<1>1. Len(q) \in Nat /\ DOMAIN q = 1..Len(q) /\ Len(t) \in Nat /\ DOMAIN t = 1..Len(t)
  BY Sequences
<1>2. m \in Nat /\ Len(t) = Len(q) - m /\ \A i \in 1..(Len(q) - m) : t[i] = q[i + m]
  BY DEF Dropped
<1>3. ASSUME NEW i \in DOMAIN q, i > m PROVE i - m \in DOMAIN t /\ t[i - m] = q[i]
  <2>1. i - m \in 1..(Len(q) - m) /\ i - m + m = i
    BY <1>1, <1>2, <1>3
  <2>. QED BY <1>1, <1>2, <2>1
<1>4. ASSUME NEW j \in DOMAIN q, After(q, j, s), j > m PROVE After(t, j - m, s)
  <2>1. PICK i \in DOMAIN q : i > j /\ q[i] = s
    BY <1>4 DEF After
  <2>2. i > m /\ i - m > j - m
    BY <1>1, <1>2, <1>4, <2>1
  <2>. QED BY <1>3, <2>1, <2>2 DEF After
<1>5. ASSUME Holds(q, s), \A i \in 1..m : q[i] # s PROVE Holds(t, s)
  <2>1. PICK i \in DOMAIN q : q[i] = s
    BY <1>5 DEF Holds
  <2>2. i > m
    BY <1>1, <1>2, <1>5, <2>1
  <2>. QED BY <1>3, <2>1, <2>2 DEF Holds
<1>6. ASSUME After(q, m, s) PROVE Holds(t, s)
  BY <1>3, <1>6 DEF After, Holds
<1>. QED BY <1>4, <1>5, <1>6

LEMMA DropOrdered ==
    ASSUME NEW q, IsSequence(q), NEW m, NEW t, IsSequence(t), Dropped(q, m, t), Ordered(q)
    PROVE  Ordered(t)
<1>1. Len(q) \in Nat /\ DOMAIN q = 1..Len(q) /\ Len(t) \in Nat /\ DOMAIN t = 1..Len(t)
  BY Sequences
<1>2. m \in Nat /\ Len(t) = Len(q) - m /\ \A i \in 1..(Len(q) - m) : t[i] = q[i + m]
  BY DEF Dropped
<1>3. SUFFICES ASSUME NEW j \in DOMAIN t
               PROVE  /\ t[j].do = "split" => t[j].file \in {"sessions", "memories"}
                      /\ t[j].on = "runs" => t[j].do = "rebuildRuns"
                      /\ t[j].do = "rebuildRequests" => After(t, j, Mend("guard"))
                      /\ t[j].do = "drop" => After(t, j, Ahead(t[j].on))
                      /\ t[j].do = "define" /\ t[j].on = Guard => After(t, j, Mend("guard"))
  BY DEF Ordered
<1>. DEFINE k == j + m
<1>4. k \in DOMAIN q /\ t[j] = q[k] /\ k > m /\ j = k - m
  BY <1>1, <1>2
<1>. HIDE DEF k
<1>5. \A s : After(q, k, s) => After(t, j, s)
  BY <1>4, DropHolds
<1>. QED BY <1>4, <1>5 DEF Ordered

LEMMA DropOpens ==
    ASSUME NEW q, IsSequence(q), NEW m, NEW t, IsSequence(t), Dropped(q, m, t), NEW f,
           Opens(q, f), \A i \in 1..m : q[i] # OpenFile(f)
    PROVE  Opens(t, f)
<1>1. Len(q) \in Nat /\ DOMAIN q = 1..Len(q) /\ Len(t) \in Nat /\ DOMAIN t = 1..Len(t)
  BY Sequences
<1>2. m \in Nat /\ Len(t) = Len(q) - m /\ \A i \in 1..(Len(q) - m) : t[i] = q[i + m]
  BY DEF Dropped
<1>3. PICK i \in DOMAIN q : q[i] = OpenFile(f) /\ \A s \in Needed(f) : After(q, i, s)
  BY DEF Opens
<1>4. i > m /\ i - m \in DOMAIN t /\ i - m + m = i
  BY <1>1, <1>2, <1>3
<1>5. t[i - m] = OpenFile(f)
  BY <1>1, <1>2, <1>3, <1>4
<1>6. \A s \in Needed(f) : After(t, i - m, s)
  BY <1>3, <1>4, DropHolds
<1>. QED BY <1>4, <1>5, <1>6 DEF Opens

-----------------------------------------------------------------------------

\* The parts of the schemas, and which of them ever had an older form.
LEMMA TheParts ==
    /\ DOMAIN Parts = DOMAIN SessionParts \cup DOMAIN MemoryParts \cup DOMAIN PersonaParts
    /\ \A p \in DOMAIN SessionParts : Parts[p] = SessionParts[p]
    /\ \A p \in DOMAIN MemoryParts : Parts[p] = MemoryParts[p]
    /\ Parts["records"] = PersonaParts["records"]
<1>1. DOMAIN Parts = DOMAIN SessionParts \cup DOMAIN MemoryParts \cup DOMAIN PersonaParts
  BY DEF Parts
<1>2. \A p \in DOMAIN SessionParts : Parts[p] = SessionParts[p]
  BY DEF Parts
<1>3. ASSUME NEW p \in DOMAIN MemoryParts PROVE Parts[p] = MemoryParts[p]
  <2>1. p \notin DOMAIN SessionParts
    BY DEF SessionParts, MemoryParts
  <2>. QED BY <2>1 DEF Parts
<1>4. Parts["records"] = PersonaParts["records"]
  <2>1. "records" \notin DOMAIN SessionParts /\ "records" \notin DOMAIN MemoryParts
    BY DEF SessionParts, MemoryParts
  <2>2. "records" \in DOMAIN PersonaParts
    BY DEF PersonaParts
  <2>. QED BY <2>1, <2>2 DEF Parts
<1>. QED BY <1>1, <1>2, <1>3, <1>4

LEMMA PartsOfSessions ==
    /\ \A p \in {"requests", "guard", "runs", "title", "excluded", "transcript"} :
          p \in DOMAIN SessionParts /\ p \in DOMAIN Parts /\ Parts[p].file = "sessions"
    /\ Parts["guard"].table = Guard
    /\ Parts["runs"].made = 6 /\ Parts["runs"].now = 7
BY TheParts DEF SessionParts, Part, Guard

LEMMA PartsOfMemories ==
    \A p \in {"source_role", "denied", "negated", "identity", "resolution", "resolved_at",
              "history", "subject_norm", "predicate_norm"} :
        p \in DOMAIN MemoryParts /\ p \in DOMAIN Parts /\ Parts[p].file = "memories"
BY TheParts DEF MemoryParts, Part

LEMMA TheIndexes ==
    /\ "runs_index" \in DOMAIN Parts
    /\ Parts["runs_index"].file = "sessions" /\ Parts["runs_index"].table = "idx_agent_runs_session"
    /\ "norm_index" \in DOMAIN Parts
    /\ Parts["norm_index"].file = "memories"
    /\ Parts["norm_index"].table = "idx_claims_subject_predicate"
    /\ Defines("runs_index") = Statement("sessions", "define", "idx_agent_runs_session")
    /\ Defines("norm_index") = Statement("memories", "define", "idx_claims_subject_predicate")
BY TheParts DEF SessionParts, MemoryParts, Part, Defines

LEMMA EveryPart ==
    ASSUME NEW p \in DOMAIN Parts
    PROVE  /\ Parts[p].file \in Files
           /\ Parts[p].made \in Nat /\ Parts[p].now \in Nat
           /\ p \in Mended \/ Parts[p].made = Parts[p].now
<1>1. CASE p \in DOMAIN SessionParts
  BY <1>1, TheParts DEF SessionParts, Part, Files, Mended, Mender
<1>2. CASE p \in DOMAIN MemoryParts
  BY <1>2, TheParts DEF MemoryParts, Part, Files, Mended, Mender
<1>3. CASE p \in DOMAIN PersonaParts
  BY <1>3, TheParts DEF PersonaParts, Part, Files, Mended, Mender
<1>. QED BY <1>1, <1>2, <1>3, TheParts

LEMMA MendedParts ==
    Mended = {"requests", "guard", "runs", "title", "excluded", "transcript",
              "source_role", "denied", "negated", "identity", "resolution", "resolved_at",
              "history", "subject_norm", "predicate_norm"}
BY DEF Mended, Mender

\* What a release left in an older form has a statement that mends it.
LEMMA OldIsMended == \A e : \A p \in DOMAIN Parts : FormOf(p, e) = "old" => p \in Mended
BY EveryPart DEF FormOf

LEMMA TheMends ==
    /\ \A p \in {"title", "excluded", "transcript"} : Mend(p) = Statement("sessions", "addColumn", p)
    /\ Mend("requests") = Statement("sessions", "rebuildRequests", "requests")
    /\ Mend("guard") = Statement("sessions", "create", "guard")
    /\ Mend("runs") = Statement("sessions", "rebuildRuns", "runs")
    /\ \A p \in {"source_role", "denied", "negated", "resolution", "resolved_at",
                 "subject_norm", "predicate_norm"} :
          Mend(p) = Statement("memories", "addColumn", p)
    /\ Mend("identity") = Statement("memories", "create", "identity")
    /\ Mend("history") = Statement("memories", "rebuildHistory", "history")
BY PartsOfSessions, PartsOfMemories DEF Mend, Mender

\* Lists of one, two and more members are sequences.
LEMMA Lists ==
    /\ IsSequence(<<>>) /\ DOMAIN <<>> = {}
    /\ \A a : IsSequence(<<a>>) /\ DOMAIN <<a>> = 1..1
    /\ \A a, b : IsSequence(<<a, b>>) /\ DOMAIN <<a, b>> = 1..2
    /\ \A a, b, c : IsSequence(<<a, b, c>>) /\ DOMAIN <<a, b, c>> = 1..3
    /\ \A a, b, c, d, e :
          IsSequence(<<a, b, c, d, e>>) /\ DOMAIN <<a, b, c, d, e>> = 1..5
    /\ \A a, b, c, d, e, f : IsSequence(<<a, b, c, d, e, f>>) /\ DOMAIN <<a, b, c, d, e, f>> = 1..6
    /\ \A a, b, c, d, e, f, g :
          IsSequence(<<a, b, c, d, e, f, g>>) /\ DOMAIN <<a, b, c, d, e, f, g>> = 1..7
<1>1. IsSequence(<<>>) /\ DOMAIN <<>> = {}
  <2>1. <<>> \in Seq({}) /\ Len(<<>>) = 0
    OBVIOUS
  <2>2. IsSequence(<<>>)
    BY <2>1 DEF IsSequence
  <2>. QED BY <2>1, <2>2
<1>2. ASSUME NEW a
      PROVE  IsSequence(<<a>>) /\ DOMAIN <<a>> = 1..1
  <2>1. <<a>> \in Seq({a})
    OBVIOUS
  <2>2. IsSequence(<<a>>)
    BY <2>1 DEF IsSequence
  <2>3. DOMAIN <<a>> = 1..1
    OBVIOUS
  <2>. QED BY <2>2, <2>3
<1>3. ASSUME NEW a, NEW b
      PROVE  IsSequence(<<a, b>>) /\ DOMAIN <<a, b>> = 1..2
  <2>1. <<a, b>> \in Seq({a, b})
    OBVIOUS
  <2>2. IsSequence(<<a, b>>)
    BY <2>1 DEF IsSequence
  <2>3. DOMAIN <<a, b>> = 1..2
    OBVIOUS
  <2>. QED BY <2>2, <2>3
<1>4. ASSUME NEW a, NEW b, NEW c
      PROVE  IsSequence(<<a, b, c>>) /\ DOMAIN <<a, b, c>> = 1..3
  <2>1. <<a, b, c>> \in Seq({a, b, c})
    OBVIOUS
  <2>2. IsSequence(<<a, b, c>>)
    BY <2>1 DEF IsSequence
  <2>3. DOMAIN <<a, b, c>> = 1..3
    OBVIOUS
  <2>. QED BY <2>2, <2>3
<1>5. ASSUME NEW a, NEW b, NEW c, NEW d, NEW e
      PROVE  IsSequence(<<a, b, c, d, e>>) /\ DOMAIN <<a, b, c, d, e>> = 1..5
  <2>1. <<a, b, c, d, e>> \in Seq({a, b, c, d, e})
    OBVIOUS
  <2>2. IsSequence(<<a, b, c, d, e>>)
    BY <2>1 DEF IsSequence
  <2>3. DOMAIN <<a, b, c, d, e>> = 1..5
    OBVIOUS
  <2>. QED BY <2>2, <2>3
<1>6. ASSUME NEW a, NEW b, NEW c, NEW d, NEW e, NEW f, NEW g
      PROVE  IsSequence(<<a, b, c, d, e, f, g>>) /\ DOMAIN <<a, b, c, d, e, f, g>> = 1..7
  <2>1. <<a, b, c, d, e, f, g>> \in Seq({a, b, c, d, e, f, g})
    OBVIOUS
  <2>2. IsSequence(<<a, b, c, d, e, f, g>>)
    BY <2>1 DEF IsSequence
  <2>3. DOMAIN <<a, b, c, d, e, f, g>> = 1..7
    OBVIOUS
  <2>. QED BY <2>2, <2>3
<1>7. ASSUME NEW a, NEW b, NEW c, NEW d, NEW e, NEW f
      PROVE  IsSequence(<<a, b, c, d, e, f>>) /\ DOMAIN <<a, b, c, d, e, f>> = 1..6
  <2>1. <<a, b, c, d, e, f>> \in Seq({a, b, c, d, e, f})
    OBVIOUS
  <2>2. IsSequence(<<a, b, c, d, e, f>>)
    BY <2>1 DEF IsSequence
  <2>3. DOMAIN <<a, b, c, d, e, f>> = 1..6
    OBVIOUS
  <2>. QED BY <2>2, <2>3
<1>. QED BY <1>1, <1>2, <1>3, <1>4, <1>5, <1>6, <1>7

LEMMA Eachs ==
    ASSUME NEW f, NEW do, NEW ons, IsSequence(ons)
    PROVE  /\ IsSequence(Each(f, do, ons))
           /\ DOMAIN Each(f, do, ons) = DOMAIN ons
           /\ \A i \in DOMAIN ons : Each(f, do, ons)[i] = Statement(f, do, ons[i])
<1>1. Len(ons) \in Nat /\ DOMAIN ons = 1..Len(ons)
  BY Sequences
<1>2. /\ DOMAIN Each(f, do, ons) = 1..Len(ons)
      /\ \A i \in 1..Len(ons) : Each(f, do, ons)[i] = Statement(f, do, ons[i])
  BY <1>1 DEF Each
<1>. DEFINE S == {Statement(f, do, ons[i]) : i \in 1..Len(ons)}
<1>3. Each(f, do, ons) \in [1..Len(ons) -> S]
  BY <1>1 DEF Each
<1>4. Each(f, do, ons) \in Seq(S)
  BY <1>1, <1>3, SeqDef
<1>. QED BY <1>1, <1>2, <1>4 DEF IsSequence

\* A statement of the migrations of f, and a program of them.
IsStatement(s) == s = [file |-> s.file, do |-> s.do, on |-> s.on, split |-> s.split]
Migrates(f, s) ==
    /\ IsStatement(s) /\ s.file = f /\ s.split = FALSE
    /\ s.do \notin {"define", "open", "split"}
    /\ s.do = "drop" => s.on \in DOMAIN Parts /\ Parts[s.on].file = f
    /\ s.do = "rebuildRequests" => f = "sessions"
    /\ s.on = "runs" => s.do = "rebuildRuns"
Program(f, q) == IsSequence(q) /\ Ordered(q) /\ \A i \in DOMAIN q : Migrates(f, q[i])

LEMMA JoinPrograms ==
    ASSUME NEW f, NEW p, NEW q, Program(f, p), Program(f, q) PROVE Program(f, p \o q)
<1>1. IsSequence(p) /\ IsSequence(q) /\ Len(p) \in Nat
  BY Sequences DEF Program
<1>2. IsSequence(p \o q)
  BY <1>1, Joined
<1>3. ASSUME NEW i \in DOMAIN (p \o q) PROVE Migrates(f, (p \o q)[i])
  BY <1>1, Origins DEF Program
<1>4. Ordered(p \o q)
  BY <1>1, JoinOrdered DEF Program
<1>. QED BY <1>2, <1>3, <1>4 DEF Program

LEMMA ProgramOfEach ==
    ASSUME NEW f, NEW do, NEW ons, IsSequence(ons),
           do \notin {"define", "open", "split", "drop", "rebuildRequests"},
           \A i \in DOMAIN ons : ons[i] # "runs"
    PROVE  /\ Program(f, Each(f, do, ons))
           /\ \A i \in DOMAIN ons : Holds(Each(f, do, ons), Statement(f, do, ons[i]))
<1>1. /\ IsSequence(Each(f, do, ons)) /\ DOMAIN Each(f, do, ons) = DOMAIN ons
      /\ \A i \in DOMAIN ons : Each(f, do, ons)[i] = Statement(f, do, ons[i])
  BY Eachs
<1>2. \A on : on # "runs" => Migrates(f, Statement(f, do, on))
  BY DEF Migrates, Statement, IsStatement
<1>3. \A on : Statement(f, do, on).do = do /\ Statement(f, do, on).on = on
  BY DEF Statement
<1>4. Ordered(Each(f, do, ons))
  BY <1>1, <1>3 DEF Ordered
<1>. QED BY <1>1, <1>2, <1>4 DEF Program, Holds

-----------------------------------------------------------------------------

LEMMA SessionsMigrate ==
    /\ Program("sessions", MigrateColumns("sessions"))
    /\ \A p \in {"requests", "guard", "runs", "title", "excluded", "transcript"} :
          Holds(MigrateColumns("sessions"), Mend(p))
<1>. DEFINE A == Each("sessions", "addColumn", <<"title", "excluded">>)
            B == MigrateToolRequests
            C == <<Statement("sessions", "rebuildRuns", "runs"),
                   Statement("sessions", "addColumn", "transcript")>>
<1>1. MigrateColumns("sessions") = (A \o B) \o C
  BY DEF MigrateColumns
<1>2. Program("sessions", A) /\ Holds(A, Mend("title")) /\ Holds(A, Mend("excluded"))
  <2>1. IsSequence(<<"title", "excluded">>) /\ DOMAIN <<"title", "excluded">> = 1..2
    BY Lists
  <2>2. /\ Program("sessions", A)
        /\ \A i \in 1..2 : Holds(A, Statement("sessions", "addColumn", <<"title", "excluded">>[i]))
    <3>1. \A i \in 1..2 : <<"title", "excluded">>[i] # "runs"
      OBVIOUS
    <3>. QED BY <2>1, <3>1, ProgramOfEach
  <2>. HIDE DEF A
  <2>3. /\ Holds(A, Statement("sessions", "addColumn", "title"))
        /\ Holds(A, Statement("sessions", "addColumn", "excluded"))
    BY <2>2
  <2>. QED BY <2>2, <2>3, TheMends
<1>3. Program("sessions", B) /\ Holds(B, Mend("requests")) /\ Holds(B, Mend("guard"))
  <2>1. IsSequence(B) /\ DOMAIN B = 1..3
    BY Lists DEF MigrateToolRequests
  <2>2. /\ B[1] = Statement("sessions", "rebuildRequests", "requests")
        /\ B[2] = Statement("sessions", "drop", "guard")
        /\ B[3] = Statement("sessions", "create", "guard")
    BY DEF MigrateToolRequests
  <2>. HIDE DEF B
  <2>3. Migrates("sessions", B[1]) /\ Migrates("sessions", B[2]) /\ Migrates("sessions", B[3])
    BY <2>2, PartsOfSessions DEF Migrates, Statement, IsStatement
  <2>4. \A i \in DOMAIN B : i = 1 \/ i = 2 \/ i = 3
    BY <2>1
  <2>5. Ordered(B)
    <3>1. /\ B[3] = Mend("guard") /\ 3 > 1 /\ 3 > 2 /\ 3 \in DOMAIN B
          /\ Ahead("guard") = Mend("guard")
      BY <2>1, <2>2, TheMends DEF Ahead
    <3>2. After(B, 1, Mend("guard")) /\ After(B, 2, Ahead("guard"))
      BY <3>1 DEF After
    <3>3. /\ B[1].do = "rebuildRequests" /\ B[1].on = "requests"
          /\ B[2].do = "drop" /\ B[2].on = "guard"
          /\ B[3].do = "create" /\ B[3].on = "guard"
      BY <2>2 DEF Statement
    <3>. QED BY <2>4, <3>2, <3>3 DEF Ordered
  <2>. QED BY <2>1, <2>2, <2>3, <2>4, <2>5, TheMends DEF Program, Holds
<1>4. Program("sessions", C) /\ Holds(C, Mend("runs")) /\ Holds(C, Mend("transcript"))
  <2>1. IsSequence(C) /\ DOMAIN C = 1..2
    BY Lists
  <2>2. /\ C[1] = Statement("sessions", "rebuildRuns", "runs")
        /\ C[2] = Statement("sessions", "addColumn", "transcript")
    OBVIOUS
  <2>. HIDE DEF C
  <2>3. Migrates("sessions", C[1]) /\ Migrates("sessions", C[2])
    BY <2>2 DEF Migrates, Statement, IsStatement
  <2>4. \A i \in DOMAIN C : i = 1 \/ i = 2
    BY <2>1
  <2>5. Ordered(C)
    BY <2>2, <2>4 DEF Ordered, Statement
  <2>. QED BY <2>1, <2>2, <2>3, <2>4, <2>5, TheMends DEF Program, Holds
<1>. HIDE DEF A, B, C
<1>5. IsSequence(A) /\ IsSequence(B) /\ IsSequence(C) /\ Program("sessions", A \o B)
  BY <1>2, <1>3, <1>4, JoinPrograms DEF Program
<1>6. IsSequence(A \o B) /\ Program("sessions", (A \o B) \o C)
  BY <1>4, <1>5, JoinPrograms DEF Program
<1>7. \A s : Holds(A, s) \/ Holds(B, s) \/ Holds(C, s) => Holds((A \o B) \o C, s)
  BY <1>5, <1>6, JoinHolds
<1>. QED BY <1>1, <1>2, <1>3, <1>4, <1>6, <1>7

LEMMA MemoriesMigrate ==
    /\ Program("memories", MigrateColumns("memories"))
    /\ \A p \in {"source_role", "denied", "negated", "identity", "resolution", "resolved_at",
                 "history", "subject_norm", "predicate_norm"} :
          Holds(MigrateColumns("memories"), Mend(p))
    /\ Holds(MigrateColumns("memories"), Norms)
    /\ Holds(MigrateColumns("memories"), Lexicon)
<1>. DEFINE A == Each("memories", "addColumn", <<"source_role", "denied", "negated">>)
            B == MigrateClaimIdentityIndex
            C == <<Statement("memories", "reindex", "claims_fts"),
                   Statement("memories", "addColumn", "resolution"),
                   Statement("memories", "addColumn", "resolved_at"),
                   Statement("memories", "rebuildHistory", "history"),
                   Statement("memories", "addColumn", "subject_norm"),
                   Statement("memories", "addColumn", "predicate_norm"),
                   Statement("memories", "backfill", "claims")>>
<1>1. MigrateColumns("memories") = (A \o B) \o C
  BY DEF MigrateColumns
<1>2. /\ Program("memories", A) /\ Holds(A, Mend("source_role"))
      /\ Holds(A, Mend("denied")) /\ Holds(A, Mend("negated"))
  <2>1. /\ IsSequence(<<"source_role", "denied", "negated">>)
        /\ DOMAIN <<"source_role", "denied", "negated">> = 1..3
    BY Lists
  <2>2. /\ Program("memories", A)
        /\ \A i \in 1..3 :
              Holds(A, Statement("memories", "addColumn",
                                 <<"source_role", "denied", "negated">>[i]))
    <3>1. \A i \in 1..3 : <<"source_role", "denied", "negated">>[i] # "runs"
      OBVIOUS
    <3>. QED BY <2>1, <3>1, ProgramOfEach
  <2>. HIDE DEF A
  <2>3. /\ Holds(A, Statement("memories", "addColumn", "source_role"))
        /\ Holds(A, Statement("memories", "addColumn", "denied"))
        /\ Holds(A, Statement("memories", "addColumn", "negated"))
    BY <2>2
  <2>. QED BY <2>2, <2>3, TheMends
<1>3. Program("memories", B) /\ Holds(B, Mend("identity"))
  <2>1. IsSequence(B) /\ DOMAIN B = 1..2
    BY Lists DEF MigrateClaimIdentityIndex
  <2>2. /\ B[1] = Statement("memories", "drop", "identity")
        /\ B[2] = Statement("memories", "create", "identity")
    BY DEF MigrateClaimIdentityIndex
  <2>. HIDE DEF B
  <2>3. Migrates("memories", B[1]) /\ Migrates("memories", B[2])
    BY <2>2, PartsOfMemories DEF Migrates, Statement, IsStatement
  <2>4. \A i \in DOMAIN B : i = 1 \/ i = 2
    BY <2>1
  <2>5. Ordered(B)
    <3>1. B[2] = Mend("identity") /\ 2 > 1 /\ 2 \in DOMAIN B /\ Ahead("identity") = Mend("identity")
      BY <2>1, <2>2, TheMends DEF Ahead
    <3>2. After(B, 1, Ahead("identity"))
      BY <3>1 DEF After
    <3>3. /\ B[1].do = "drop" /\ B[1].on = "identity"
          /\ B[2].do = "create" /\ B[2].on = "identity"
      BY <2>2 DEF Statement
    <3>. QED BY <2>4, <3>2, <3>3 DEF Ordered
  <2>. QED BY <2>1, <2>2, <2>3, <2>4, <2>5, TheMends DEF Program, Holds
<1>4. /\ Program("memories", C) /\ Holds(C, Lexicon) /\ Holds(C, Norms)
      /\ \A p \in {"resolution", "resolved_at", "history", "subject_norm", "predicate_norm"} :
            Holds(C, Mend(p))
  <2>1. IsSequence(C) /\ DOMAIN C = 1..7
    BY Lists
  <2>2. /\ C[1] = Statement("memories", "reindex", "claims_fts")
        /\ C[2] = Statement("memories", "addColumn", "resolution")
        /\ C[3] = Statement("memories", "addColumn", "resolved_at")
        /\ C[4] = Statement("memories", "rebuildHistory", "history")
        /\ C[5] = Statement("memories", "addColumn", "subject_norm")
        /\ C[6] = Statement("memories", "addColumn", "predicate_norm")
        /\ C[7] = Statement("memories", "backfill", "claims")
    OBVIOUS
  <2>. HIDE DEF C
  <2>3. /\ Migrates("memories", C[1]) /\ Migrates("memories", C[2]) /\ Migrates("memories", C[3])
        /\ Migrates("memories", C[4]) /\ Migrates("memories", C[5]) /\ Migrates("memories", C[6])
        /\ Migrates("memories", C[7])
    BY <2>2 DEF Migrates, Statement, IsStatement
  <2>4. \A i \in DOMAIN C : i \in {1, 2, 3, 4, 5, 6, 7}
    BY <2>1
  <2>9. Ordered(C)
    BY <2>2, <2>4 DEF Ordered, Statement
  <2>5. Program("memories", C)
    BY <2>1, <2>3, <2>4, <2>9 DEF Program
  <2>6. Holds(C, Lexicon) /\ Holds(C, Norms)
    BY <2>1, <2>2 DEF Holds, Lexicon, Norms
  <2>7. /\ Mend("resolution") = C[2] /\ Mend("resolved_at") = C[3] /\ Mend("history") = C[4]
        /\ Mend("subject_norm") = C[5] /\ Mend("predicate_norm") = C[6]
    BY <2>2, TheMends
  <2>8. \A p \in {"resolution", "resolved_at", "history", "subject_norm", "predicate_norm"} : Holds(C, Mend(p))
    BY <2>1, <2>7 DEF Holds
  <2>. QED BY <2>5, <2>6, <2>8
<1>. HIDE DEF A, B, C
<1>5. IsSequence(A) /\ IsSequence(B) /\ IsSequence(C) /\ Program("memories", A \o B)
  BY <1>2, <1>3, <1>4, JoinPrograms DEF Program
<1>6. IsSequence(A \o B) /\ Program("memories", (A \o B) \o C)
  BY <1>4, <1>5, JoinPrograms DEF Program
<1>7. \A s : Holds(A, s) \/ Holds(B, s) \/ Holds(C, s) => Holds((A \o B) \o C, s)
  BY <1>5, <1>6, JoinHolds
<1>. QED BY <1>1, <1>2, <1>3, <1>4, <1>6, <1>7

\* The migrations of a file do what its owner needs, but for the verification and
\* for what the schema defines.
LEMMA Migrations ==
    ASSUME NEW f \in Files
    PROVE  /\ Program(f, MigrateColumns(f))
           /\ \A s \in Needed(f) : \/ s = Verify(f) \/ Holds(MigrateColumns(f), s)
                                   \/ \E p \in {"norm_index", "runs_index"} :
                                         Parts[p].file = f /\ s = Defines(p)
<1>1. CASE f = "sessions"
  <2>1. \A p \in Mended : Parts[p].file = f =>
           p \in {"requests", "guard", "runs", "title", "excluded", "transcript"}
    BY <1>1, MendedParts, PartsOfMemories
  <2>2. f # "memories"
    BY <1>1
  <2>. QED BY <1>1, <2>1, <2>2, SessionsMigrate DEF Needed
<1>2. CASE f = "memories"
  <2>1. \A p \in Mended : Parts[p].file = f =>
           p \in {"source_role", "denied", "negated", "identity", "resolution", "resolved_at",
                  "history", "subject_norm", "predicate_norm"}
    BY <1>2, MendedParts, PartsOfSessions
  <2>. QED BY <1>2, <2>1, MemoriesMigrate DEF Needed
<1>3. CASE f = "persona"
  <2>1. \A p \in Mended : Parts[p].file # f
    BY <1>3, MendedParts, PartsOfSessions, PartsOfMemories
  <2>2. Needed(f) = {Verify(f)}
    BY <1>3, <2>1, TheIndexes DEF Needed
  <2>3. MigrateColumns(f) = <<>>
    BY <1>3 DEF MigrateColumns
  <2>4. Program(f, <<>>)
    BY Lists DEF Program, Ordered
  <2>. QED BY <2>2, <2>3, <2>4
<1>. QED BY <1>1, <1>2, <1>3 DEF Files

\* A statement of the program that opens f, whoever runs it.
Owned(f, s) ==
    /\ IsStatement(s) /\ s.file = f /\ s.do # "split"
    /\ s.do = "rebuildRequests" => f = "sessions"
    /\ s.do = "drop" => s.on \in DOMAIN Parts /\ Parts[s.on].file = f
    /\ s.do = "define" /\ s.on = Guard => f = "sessions"
    /\ s.on = "runs" => s.do = "rebuildRuns"

LEMMA Schemas ==
    ASSUME NEW f \in Files
    PROVE  /\ IsSequence(Schema(f))
           /\ \A i \in DOMAIN Schema(f) :
                 Owned(f, Schema(f)[i]) /\ Schema(f)[i].do = "define" /\ Schema(f)[i].split = FALSE
           /\ \A p \in {"norm_index", "runs_index"} : Parts[p].file = f => Holds(Schema(f), Defines(p))
<1>. DEFINE ons == CASE f = "sessions" -> <<"sessions", "messages", "tool_requests",
                                  "tool_requests_identity_immutable", "agent_runs",
                                  "idx_agent_runs_session">>
                     [] f = "memories" -> <<"memory_candidates", "claims", "idx_claims_identity",
                                  "idx_claims_subject_predicate", "prospective_items",
                                  "claim_history", "claims_fts">>
                     [] OTHER -> <<"persona_records">>
<1>1. Schema(f) = Each(f, "define", ons)
  BY DEF Schema
<1>2. /\ IsSequence(ons) /\ \A i \in DOMAIN ons : ons[i] # "runs" /\ (ons[i] = Guard => f = "sessions")
      /\ f = "sessions" => 6 \in DOMAIN ons /\ ons[6] = "idx_agent_runs_session"
      /\ f = "memories" => 4 \in DOMAIN ons /\ ons[4] = "idx_claims_subject_predicate"
  <2>1. CASE f = "sessions"
    <3>. DEFINE m == <<"sessions", "messages", "tool_requests", "tool_requests_identity_immutable",
                       "agent_runs", "idx_agent_runs_session">>
    <3>1. ons = m
      BY <2>1
    <3>2. IsSequence(m) /\ DOMAIN m = 1..6
      BY Lists
    <3>3. (\A i \in 1..6 : m[i] # "runs") /\ m[6] = "idx_agent_runs_session"
      OBVIOUS
    <3>4. f # "memories"
      BY <2>1
    <3>. HIDE DEF m, ons
    <3>. QED BY <2>1, <3>1, <3>2, <3>3, <3>4
  <2>2. CASE f = "memories"
    <3>. DEFINE m == <<"memory_candidates", "claims", "idx_claims_identity",
                       "idx_claims_subject_predicate", "prospective_items",
                       "claim_history", "claims_fts">>
    <3>1. ons = m
      BY <2>2
    <3>2. IsSequence(m) /\ DOMAIN m = 1..7
      BY Lists
    <3>3. (\A i \in 1..7 : m[i] # "runs" /\ m[i] # Guard) /\ m[4] = "idx_claims_subject_predicate"
      BY DEF Guard
    <3>4. f # "sessions"
      BY <2>2
    <3>. HIDE DEF m, ons
    <3>. QED BY <2>2, <3>1, <3>2, <3>3, <3>4
  <2>3. CASE f = "persona"
    <3>1. ons = <<"persona_records">>
      BY <2>3
    <3>2. IsSequence(<<"persona_records">>) /\ DOMAIN <<"persona_records">> = 1..1
      BY Lists
    <3>3. \A i \in 1..1 : <<"persona_records">>[i] # "runs" /\ <<"persona_records">>[i] # Guard
      BY DEF Guard
    <3>4. f # "sessions" /\ f # "memories"
      BY <2>3
    <3>. HIDE DEF ons
    <3>. QED BY <3>1, <3>2, <3>3, <3>4
  <2>. QED BY <2>1, <2>2, <2>3 DEF Files
<1>. HIDE DEF ons
<1>3. /\ IsSequence(Each(f, "define", ons)) /\ DOMAIN Each(f, "define", ons) = DOMAIN ons
      /\ \A i \in DOMAIN ons : Each(f, "define", ons)[i] = Statement(f, "define", ons[i])
  BY <1>2, Eachs
<1>4. \A on : on # "runs" /\ (on = Guard => f = "sessions") =>
         /\ Owned(f, Statement(f, "define", on))
         /\ Statement(f, "define", on).do = "define" /\ Statement(f, "define", on).split = FALSE
  BY DEF Owned, Statement, IsStatement
<1>5. ASSUME NEW p \in {"norm_index", "runs_index"}, Parts[p].file = f
      PROVE  Holds(Schema(f), Defines(p))
  <2>1. CASE p = "norm_index"
    <3>1. f = "memories" /\ Defines(p) = Statement(f, "define", "idx_claims_subject_predicate")
      BY <1>5, <2>1, TheIndexes
    <3>. QED BY <1>1, <1>2, <1>3, <3>1 DEF Holds
  <2>2. CASE p = "runs_index"
    <3>1. f = "sessions" /\ Defines(p) = Statement(f, "define", "idx_agent_runs_session")
      BY <1>5, <2>2, TheIndexes
    <3>. QED BY <1>1, <1>2, <1>3, <3>1 DEF Holds
  <2>. QED BY <1>5, <2>1, <2>2
<1>. QED BY <1>1, <1>2, <1>3, <1>4, <1>5

\* The program that opens a file: complete, in order, and about that file alone.
LEMMA Opening ==
    ASSUME NEW f \in Files
    PROVE  /\ IsSequence(OpenDatabase(f)) /\ Ordered(OpenDatabase(f)) /\ Opens(OpenDatabase(f), f)
           /\ \A i \in DOMAIN OpenDatabase(f) : Owned(f, OpenDatabase(f)[i])
<1>. DEFINE O == <<Statement(f, "open", "file")>>
            S == Schema(f)
            M == MigrateColumns(f)
            V == <<Statement(f, "verify", "file")>>
            OS == O \o S
            OSM == OS \o M
            P == OSM \o V
<1>1. OpenDatabase(f) = P
  BY DEF OpenDatabase
<1>2. IsSequence(O) /\ DOMAIN O = 1..1 /\ O[1] = OpenFile(f)
  BY Lists DEF OpenFile
<1>3. IsSequence(V) /\ DOMAIN V = 1..1 /\ V[1] = Verify(f)
  BY Lists DEF Verify
<1>4. /\ IsSequence(S)
      /\ \A i \in DOMAIN S : Owned(f, S[i]) /\ S[i].do = "define" /\ S[i].split = FALSE
      /\ \A p \in {"norm_index", "runs_index"} : Parts[p].file = f => Holds(S, Defines(p))
  BY Schemas
<1>5. /\ IsSequence(M) /\ Ordered(M) /\ \A i \in DOMAIN M : Migrates(f, M[i])
      /\ \A s \in Needed(f) : s = Verify(f) \/ Holds(M, s) \/ Holds(S, s)
  BY <1>4, Migrations DEF Program
<1>. HIDE DEF O, S, M, V
<1>6. IsSequence(OS) /\ IsSequence(OSM) /\ IsSequence(P)
  <2>1. IsSequence(OS)
    BY <1>2, <1>4, Joined
  <2>. HIDE DEF OS
  <2>2. IsSequence(OSM)
    BY <2>1, <1>5, Joined
  <2>. HIDE DEF OSM
  <2>3. IsSequence(P)
    BY <2>2, <1>3, Joined
  <2>. QED BY <2>1, <2>2, <2>3
<1>7. /\ 1 \in DOMAIN OS /\ OS[1] = OpenFile(f)
      /\ \A i \in DOMAIN OS : OS[i] = OpenFile(f) \/ \E k \in DOMAIN S : OS[i] = S[k]
  <2>1. /\ \A i \in DOMAIN O : i \in DOMAIN OS /\ OS[i] = O[i]
        /\ \A i \in DOMAIN OS : \/ i \in DOMAIN O /\ OS[i] = O[i]
                               \/ \E k \in DOMAIN S : OS[i] = S[k]
    BY <1>2, <1>4, Origins
  <2>. HIDE DEF OS
  <2>. QED BY <1>2, <2>1
<1>8. /\ \A i \in DOMAIN OS : i \in DOMAIN OSM /\ OSM[i] = OS[i]
      /\ \A i \in DOMAIN OSM :
            i \in DOMAIN OS \/ \E k \in DOMAIN M : /\ OSM[i] = M[k]
                                               /\ \A s : After(M, k, s) => After(OSM, i, s)
  <2>. HIDE DEF OS
  <2>1. \A i \in DOMAIN OS : i \in DOMAIN OSM /\ OSM[i] = OS[i]
    BY <1>5, <1>6, Origins
  <2>. QED BY <1>5, <1>6, <2>1, JoinAfter
<1>9. /\ \A i \in DOMAIN OSM : i \in DOMAIN P /\ P[i] = OSM[i]
      /\ \A i \in DOMAIN P : i \in DOMAIN OSM \/ P[i] = Verify(f)
  <2>. HIDE DEF OSM
  <2>1. /\ \A i \in DOMAIN OSM : i \in DOMAIN P /\ P[i] = OSM[i]
        /\ \A i \in DOMAIN P : i \in DOMAIN OSM \/ \E k \in DOMAIN V : P[i] = V[k]
    BY <1>3, <1>6, Origins
  <2>2. \A k \in DOMAIN V : V[k] = Verify(f)
    BY <1>3
  <2>. HIDE DEF P
  <2>. QED BY <2>1, <2>2
<1>10. /\ \A j \in DOMAIN OS : \A s : Holds(M, s) => After(OSM, j, s)
       /\ \A j \in DOMAIN OSM : \A s : After(OSM, j, s) \/ Holds(V, s) => After(P, j, s)
       /\ \A s : Holds(S, s) => After(OS, 1, s)
  <2>3. \A s : Holds(S, s) => After(OS, 1, s)
    BY <1>2, <1>4, JoinHolds
  <2>. HIDE DEF OS
  <2>1. \A j \in DOMAIN OS : \A s : Holds(M, s) => After(OSM, j, s)
    BY <1>5, <1>6, JoinHolds
  <2>. HIDE DEF OSM
  <2>2. \A j \in DOMAIN OSM : \A s : After(OSM, j, s) \/ Holds(V, s) => After(P, j, s)
    BY <1>3, <1>6, JoinHolds
  <2>. QED BY <2>1, <2>2, <2>3
<1>17. \A s : After(OS, 1, s) => After(OSM, 1, s)
  <2>. HIDE DEF OS
  <2>. QED BY <1>5, <1>6, <1>7, JoinHolds
<1>. HIDE DEF OS, OSM, P
<1>11. Holds(V, Verify(f))
  BY <1>3 DEF Holds
<1>12. ASSUME NEW i \in DOMAIN P
       PROVE  \/ i \in DOMAIN OS /\ P[i] = OS[i] /\ P[i] = OpenFile(f)
              \/ i \in DOMAIN OS /\ P[i] = OS[i] /\ Owned(f, P[i]) /\ P[i].do = "define"
              \/ /\ i \in DOMAIN OSM /\ Migrates(f, P[i])
                 /\ \E k \in DOMAIN M : P[i] = M[k] /\ \A s : After(M, k, s) => After(OSM, i, s)
              \/ P[i] = Verify(f)
  BY <1>4, <1>5, <1>7, <1>8, <1>9
<1>13. /\ Owned(f, OpenFile(f)) /\ Owned(f, Verify(f)) /\ \A s : Migrates(f, s) => Owned(f, s)
       /\ \A s : Migrates(f, s) => s.do # "define"
       /\ OpenFile(f).do = "open" /\ Verify(f).do = "verify"
       /\ OpenFile(f).on # "runs" /\ Verify(f).on # "runs"
  BY DEF Owned, Migrates, OpenFile, Verify, Statement, IsStatement
<1>14. \A i \in DOMAIN P : Owned(f, P[i])
  BY <1>12, <1>13
<1>15. Opens(P, f)
  <2>1. 1 \in DOMAIN P /\ P[1] = OpenFile(f) /\ 1 \in DOMAIN OS /\ 1 \in DOMAIN OSM
    BY <1>7, <1>8, <1>9
  <2>2. \A s \in Needed(f) : After(P, 1, s)
    BY <1>5, <1>10, <1>11, <1>17, <2>1
  <2>. QED BY <2>1, <2>2 DEF Opens
<1>16. Ordered(P)
  <2>1. SUFFICES ASSUME NEW j \in DOMAIN P
                 PROVE  /\ P[j].do = "split" => P[j].file \in {"sessions", "memories"}
                        /\ P[j].on = "runs" => P[j].do = "rebuildRuns"
                        /\ P[j].do = "rebuildRequests" => After(P, j, Mend("guard"))
                        /\ P[j].do = "drop" => After(P, j, Ahead(P[j].on))
                        /\ P[j].do = "define" /\ P[j].on = Guard => After(P, j, Mend("guard"))
    BY DEF Ordered
  <2>2. CASE j \in DOMAIN OS /\ P[j] = OpenFile(f)
    BY <1>13, <2>2
  <2>3. CASE P[j] = Verify(f)
    BY <1>13, <2>3
  <2>4. CASE j \in DOMAIN OS /\ Owned(f, P[j]) /\ P[j].do = "define"
    <3>1. ASSUME P[j].on = Guard PROVE After(P, j, Mend("guard"))
      <4>1. f = "sessions"
        BY <2>4, <3>1 DEF Owned
      <4>2. Holds(M, Mend("guard"))
        BY <4>1, SessionsMigrate DEF M
      <4>. QED BY <1>8, <1>10, <2>4, <4>2
    <3>. QED BY <2>4, <3>1 DEF Owned
  <2>5. CASE /\ j \in DOMAIN OSM /\ Migrates(f, P[j])
             /\ \E k \in DOMAIN M : P[j] = M[k] /\ \A s : After(M, k, s) => After(OSM, j, s)
    <3>1. PICK k \in DOMAIN M : P[j] = M[k] /\ \A s : After(M, k, s) => After(OSM, j, s)
      BY <2>5
    <3>2. \A s : After(M, k, s) => After(P, j, s)
      BY <1>10, <2>5, <3>1
    <3>. QED BY <1>5, <3>1, <3>2 DEF Ordered
  <2>. QED BY <1>12, <2>2, <2>3, <2>4, <2>5
<1>. QED BY <1>1, <1>6, <1>14, <1>15, <1>16

-----------------------------------------------------------------------------

\* What a service does when it comes up.
LEMMA Owners ==
    ASSUME NEW f \in Files
    PROVE  IsSequence(OnModuleInit(f)) /\ Ordered(OnModuleInit(f)) /\ Opens(OnModuleInit(f), f)
<1>. DEFINE L == IF f = "persona" THEN <<>> ELSE MigrateLegacyDatabase
<1>1. OnModuleInit(f) = L \o OpenDatabase(f)
  BY DEF OnModuleInit
<1>2. IsSequence(L) /\ Ordered(L)
  <2>1. CASE f = "persona"
    BY <2>1, Lists DEF Ordered
  <2>2. CASE f # "persona"
    <3>. DEFINE B == MigrateLegacyDatabase
    <3>1. IsSequence(B) /\ DOMAIN B = 1..2
      BY Lists DEF MigrateLegacyDatabase
    <3>2. \A i \in 1..2 : /\ B[i].do = "split" /\ B[i].on = "file"
                           /\ B[i].file \in {"sessions", "memories"}
      BY DEF MigrateLegacyDatabase, Statement
    <3>3. L = B
      BY <2>2
    <3>. HIDE DEF B, L
    <3>. QED BY <3>1, <3>2, <3>3 DEF Ordered
  <2>. QED BY <2>1, <2>2
<1>3. IsSequence(OpenDatabase(f)) /\ Ordered(OpenDatabase(f)) /\ Opens(OpenDatabase(f), f)
  BY Opening
<1>. HIDE DEF L
<1>. QED BY <1>1, <1>2, <1>3, Joined, JoinOrdered, JoinOpens

\* A boot: every file has an owner, whichever of the two comes first.
LEMMA Boots ==
    ASSUME NEW a \in {"sessions", "memories"}, NEW b \in {"sessions", "memories"}, a # b,
           NEW q, q = OnModuleInit(a) \o OnModuleInit(b) \o OnModuleInit("persona")
    PROVE  IsSequence(q) /\ Ordered(q) /\ \A f \in Files : Opens(q, f)
<1>. DEFINE p == OnModuleInit(a) \o OnModuleInit(b)
<1>1. a \in Files /\ b \in Files /\ "persona" \in Files
  BY DEF Files
<1>2. IsSequence(p) /\ Ordered(p)
  BY <1>1, Owners, Joined, JoinOrdered
<1>3. Opens(p, a) /\ Opens(p, b)
  BY <1>1, Owners, JoinOpens
<1>4. q = p \o OnModuleInit("persona")
  OBVIOUS
<1>. HIDE DEF p
<1>5. IsSequence(q) /\ Ordered(q)
  BY <1>1, <1>2, <1>4, Owners, Joined, JoinOrdered
<1>8. /\ IsSequence(OnModuleInit("persona"))
      /\ Opens(OnModuleInit("persona"), "persona")
  BY <1>1, Owners
<1>6. Opens(q, a) /\ Opens(q, b) /\ Opens(q, "persona")
  <2>1. \A f : Opens(p, f) \/ Opens(OnModuleInit("persona"), f) => Opens(q, f)
    BY <1>2, <1>4, <1>8, JoinOpens
  <2>. QED BY <1>3, <1>8, <2>1
<1>7. \A f \in Files : f = a \/ f = b \/ f = "persona"
  BY DEF Files
<1>. QED BY <1>5, <1>6, <1>7

LEMMA Needs ==
    /\ \A f \in Files : Verify(f) \in Needed(f)
    /\ \A p \in Mended : Mend(p) \in Needed(Parts[p].file)
    /\ \A p \in DOMAIN Parts : Ahead(p) \in Needed(Parts[p].file)
    /\ Norms \in Needed("memories") /\ Lexicon \in Needed("memories")
    /\ Mend("guard") \in Needed("sessions")
<1>1. \A p \in Mended : Mend(p) \in Needed(Parts[p].file)
  BY DEF Needed
<1>2. ASSUME NEW p \in DOMAIN Parts PROVE Ahead(p) \in Needed(Parts[p].file)
  <2>1. "guard" \in Mended /\ "identity" \in Mended
    BY MendedParts
  <2>. QED BY <1>1, <2>1 DEF Ahead, Needed
<1>. QED BY <1>1, <1>2, PartsOfSessions, MendedParts DEF Needed

LEMMA OpensHolds ==
    ASSUME NEW q, NEW f, Opens(q, f), NEW s \in Needed(f) PROVE Holds(q, s)
BY DEF Opens, After, Holds

LEMMA CopiedStatement ==
    ASSUME NEW s, IsStatement(s), NEW b
    PROVE  LET t == [s EXCEPT !.split = b]
           IN  IsStatement(t) /\ t.file = s.file /\ t.do = s.do /\ t.on = s.on
BY DEF IsStatement

\* The copy of the single file: the program of a file whose owner is still ahead.
LEMMA Copying ==
    ASSUME NEW f \in {"sessions", "memories"}, NEW q, IsSequence(q), Ordered(q), Opens(q, f)
    PROVE  IsSequence(SplitCopy(f)) /\ IsSequence(SplitCopy(f) \o q) /\ Ordered(SplitCopy(f) \o q)
<1>. DEFINE O == OpenDatabase(f)
            C == Copies(f)
            P == O \o C
            X == SplitCopy(f)
<1>0. f \in Files
  BY DEF Files
<1>1. IsSequence(O) /\ \A i \in DOMAIN O : Owned(f, O[i])
  BY <1>0, Opening
<1>2. IsSequence(C) /\ \A i \in DOMAIN C : Owned(f, C[i])
  <2>. DEFINE ons == IF f = "sessions" THEN <<"session", "message">> ELSE <<"candidate">>
  <2>1. IsSequence(ons)
    BY Lists
  <2>2. C = Each(f, "copy", ons)
    BY DEF Copies
  <2>. HIDE DEF ons, C
  <2>3. DOMAIN C = DOMAIN ons /\ \A i \in DOMAIN ons : C[i] = Statement(f, "copy", ons[i])
    BY <2>1, <2>2, Eachs
  <2>6. \A i \in DOMAIN ons : ons[i] # "runs"
    BY DEF ons
  <2>4. \A on : on # "runs" => Owned(f, Statement(f, "copy", on))
    BY DEF Owned, Statement, IsStatement
  <2>5. IsSequence(C)
    BY <2>1, <2>2, Eachs
  <2>. QED BY <2>3, <2>4, <2>5, <2>6
<1>. HIDE DEF O, C
<1>3. IsSequence(P) /\ \A i \in DOMAIN P : Owned(f, P[i])
  <2>1. IsSequence(P)
    BY <1>1, <1>2, Joined
  <2>2. \A i \in DOMAIN P : \/ i \in DOMAIN O /\ P[i] = O[i]
                            \/ \E k \in DOMAIN C : P[i] = C[k]
    BY <1>1, <1>2, Origins
  <2>. HIDE DEF P
  <2>. QED BY <1>1, <1>2, <2>1, <2>2
<1>4. X = [i \in DOMAIN P |-> [P[i] EXCEPT !.split = TRUE]]
  BY DEF SplitCopy, O, C
<1>. HIDE DEF P, X
<1>5. IsSequence(X) /\ DOMAIN X = DOMAIN P
  <2>1. Len(P) \in Nat /\ DOMAIN P = 1..Len(P)
    BY <1>3, Sequences
  <2>. DEFINE S == {[P[i] EXCEPT !.split = TRUE] : i \in DOMAIN P}
  <2>2. X \in [1..Len(P) -> S]
    BY <1>4, <2>1
  <2>3. X \in Seq(S)
    BY <2>1, <2>2, SeqDef
  <2>. QED BY <1>4, <2>3 DEF IsSequence
<1>6. \A i \in DOMAIN X : Owned(f, X[i])
  <2>1. ASSUME NEW s, Owned(f, s) PROVE Owned(f, [s EXCEPT !.split = TRUE])
    <3>1. IsStatement(s)
      BY <2>1 DEF Owned
    <3>2. LET t == [s EXCEPT !.split = TRUE]
          IN  IsStatement(t) /\ t.file = s.file /\ t.do = s.do /\ t.on = s.on
      BY <3>1, CopiedStatement
    <3>. QED BY <2>1, <3>2 DEF Owned
  <2>. QED BY <1>3, <1>4, <1>5, <2>1
<1>8. IsSequence(X \o q)
  BY <1>5, Joined
<1>9. Ordered(X \o q)
  <2>1. SUFFICES ASSUME NEW j \in DOMAIN (X \o q)
                 PROVE  LET s == (X \o q)[j] IN
                        /\ s.do = "split" => s.file \in {"sessions", "memories"}
                        /\ s.on = "runs" => s.do = "rebuildRuns"
                        /\ s.do = "rebuildRequests" => After(X \o q, j, Mend("guard"))
                        /\ s.do = "drop" => After(X \o q, j, Ahead(s.on))
                        /\ s.do = "define" /\ s.on = Guard => After(X \o q, j, Mend("guard"))
    BY DEF Ordered
  <2>2. CASE /\ j \in DOMAIN X /\ (X \o q)[j] = X[j]
             /\ \A s : Holds(q, s) => After(X \o q, j, s)
    <3>1. Owned(f, (X \o q)[j])
      BY <1>6, <2>2
    <3>2. /\ \A p \in DOMAIN Parts : Parts[p].file = f => After(X \o q, j, Ahead(p))
          /\ f = "sessions" => After(X \o q, j, Mend("guard"))
      BY <1>0, <2>2, Needs, OpensHolds
    <3>. QED BY <3>1, <3>2 DEF Owned
  <2>3. CASE \E k \in DOMAIN q : /\ (X \o q)[j] = q[k]
                                /\ \A s : After(q, k, s) => After(X \o q, j, s)
    <3>1. PICK k \in DOMAIN q : /\ (X \o q)[j] = q[k]
                                /\ \A s : After(q, k, s) => After(X \o q, j, s)
      BY <2>3
    <3>. QED BY <3>1 DEF Ordered
  <2>. QED BY <1>5, <2>2, <2>3, JoinAfter
<1>. QED BY <1>5, <1>8, <1>9 DEF X

-----------------------------------------------------------------------------

\* What is left of a boot is a program, and whoever owns a file that is not there
\* has yet to open it.
ProgramLeft ==
    /\ IsSequence(todo) /\ Ordered(todo)
    /\ phase \in {"down", "boot", "up"} /\ (phase # "boot" => todo = <<>>)
    /\ exists \in [Files -> BOOLEAN]
    /\ phase = "boot" => \A f \in Files : exists[f] \/ Opens(todo, f)

LEMMA Nothing == IsSequence(<<>>) /\ Ordered(<<>>) /\ \A s : ~Holds(<<>>, s)
BY Lists DEF Ordered, Holds

\* A statement done leaves the others.
LEMMA Advances ==
    ASSUME IsSequence(todo), Ordered(todo), todo # <<>>, todo' = Tail(todo)
    PROVE  /\ IsSequence(todo') /\ Ordered(todo')
           /\ \A s : Holds(todo, s) /\ Head(todo) # s => Holds(todo', s)
           /\ \A s : After(todo, 1, s) => Holds(todo', s)
           /\ \A f : Opens(todo, f) /\ Head(todo) # OpenFile(f) => Opens(todo', f)
           /\ 1 \in DOMAIN todo /\ todo[1] = Head(todo)
<1>1. PICK S : todo \in Seq(S)
  BY DEF IsSequence
<1>2. /\ Tail(todo) \in Seq(S) /\ Len(Tail(todo)) = Len(todo) - 1
      /\ \A i \in 1..Len(Tail(todo)) : Tail(todo)[i] = todo[i + 1]
  BY <1>1, HeadTailProperties
<1>3. IsSequence(todo')
  BY <1>2 DEF IsSequence
<1>4. Len(todo) \in Nat /\ Len(todo) >= 1 /\ DOMAIN todo = 1..Len(todo) /\ todo[1] = Head(todo)
  BY <1>1
<1>5. Dropped(todo, 1, todo')
  BY <1>2, <1>4 DEF Dropped
<1>6. \A i \in 1..1 : todo[i] = Head(todo)
  BY <1>4
<1>7. Ordered(todo')
  BY <1>3, <1>5, DropOrdered
<1>8. \A s : Holds(todo, s) /\ Head(todo) # s => Holds(todo', s)
  BY <1>3, <1>5, <1>6, DropHolds
<1>9. \A s : After(todo, 1, s) => Holds(todo', s)
  BY <1>3, <1>5, DropHolds
<1>10. \A f : Opens(todo, f) /\ Head(todo) # OpenFile(f) => Opens(todo', f)
  BY <1>3, <1>5, <1>6, DropOpens
<1>. QED BY <1>3, <1>4, <1>7, <1>8, <1>9, <1>10

\* An error ends the boot or what is left of the copy, not what comes after it.
LEMMA Throws ==
    ASSUME IsSequence(todo), Ordered(todo), todo # <<>>, Throw
    PROVE  \/ phase' = "down" /\ todo' = <<>>
           \/ /\ phase' = phase /\ IsSequence(todo') /\ Ordered(todo')
              /\ \A s : s.split = FALSE /\ Holds(todo, s) => Holds(todo', s)
              /\ \A f : Opens(todo, f) => Opens(todo', f)
<1>1. PICK S : todo \in Seq(S)
  BY DEF IsSequence
<1>2. Len(todo) \in Nat /\ DOMAIN todo = 1..Len(todo) /\ \A i \in DOMAIN todo : todo[i] \in S
  BY <1>1
<1>3. CASE ~Head(todo).split
  BY <1>3 DEF Throw
<1>4. CASE Head(todo).split
  <2>1. PICK n \in DOMAIN todo : /\ \A i \in 1..(n - 1) : todo[i].split
                                 /\ todo' = SubSeq(todo, n, Len(todo))
    BY <1>4 DEF Throw
  <2>2. n \in Nat /\ n >= 1 /\ n <= Len(todo) /\ n \in Int /\ Len(todo) \in Int
    BY <1>2
  <2>3. \A i \in n..Len(todo) : todo[i] \in S
    BY <1>2, <2>2
  <2>4. /\ todo' \in Seq(S)
        /\ Len(todo') = Len(todo) - n + 1
        /\ \A i \in 1..(Len(todo) - n + 1) : todo'[i] = todo[n + i - 1]
    BY <2>1, <2>2, <2>3, SubSeqProperties
  <2>5. IsSequence(todo')
    BY <2>4 DEF IsSequence
  <2>. DEFINE m == n - 1
  <2>6. Dropped(todo, m, todo')
    <3>1. m \in Nat /\ m < Len(todo) + 1 /\ Len(todo') = Len(todo) - m
      BY <1>2, <2>2, <2>4
    <3>2. ASSUME NEW i \in 1..(Len(todo) - m) PROVE todo'[i] = todo[i + m]
      <4>1. i \in 1..(Len(todo) - n + 1) /\ n + i - 1 = i + m
        BY <1>2, <2>2
      <4>. QED BY <2>4, <4>1
    <3>. QED BY <3>1, <3>2 DEF Dropped
  <2>7. \A i \in 1..m : todo[i].split
    BY <2>1
  <2>. HIDE DEF m
  <2>8. Ordered(todo')
    BY <2>5, <2>6, DropOrdered
  <2>9. ASSUME NEW s, s.split = FALSE, Holds(todo, s) PROVE Holds(todo', s)
    <3>1. \A i \in 1..m : todo[i] # s
      BY <2>7, <2>9
    <3>. QED BY <2>5, <2>6, <2>9, <3>1, DropHolds
  <2>10. ASSUME NEW f, Opens(todo, f) PROVE Opens(todo', f)
    <3>1. OpenFile(f).split = FALSE
      BY DEF OpenFile, Statement
    <3>2. \A i \in 1..m : todo[i] # OpenFile(f)
      BY <2>7, <3>1
    <3>. QED BY <2>5, <2>6, <2>10, <3>2, DropOpens
  <2>11. phase' = phase
    BY <1>4 DEF Throw
  <2>. QED BY <2>5, <2>8, <2>9, <2>10, <2>11
<1>. QED BY <1>3, <1>4

\* The copy goes in front of what the boot has left.
LEMMA Splits ==
    ASSUME ProgramLeft, Split
    PROVE  /\ IsSequence(todo') /\ Ordered(todo')
           /\ \A s : Holds(todo, s) /\ s.do # "split" => Holds(todo', s)
           /\ \A f : Opens(todo, f) => Opens(todo', f)
<1>. DEFINE h == Head(todo)
            t == Tail(todo)
<1>1. todo # <<>> /\ h.do = "split" /\ phase = "boot"
  BY DEF Split, Doing
<1>3. /\ IsSequence(t) /\ Ordered(t)
      /\ \A s : Holds(todo, s) /\ h # s => Holds(t, s)
      /\ \A f : Opens(todo, f) /\ h # OpenFile(f) => Opens(t, f)
      /\ h.file \in {"sessions", "memories"}
  <2>1. PICK S : todo \in Seq(S)
    BY DEF ProgramLeft, IsSequence
  <2>2. /\ t \in Seq(S) /\ Len(t) = Len(todo) - 1
        /\ \A i \in 1..Len(t) : t[i] = todo[i + 1]
    BY <1>1, <2>1, HeadTailProperties
  <2>3. Len(todo) \in Nat /\ Len(todo) >= 1 /\ DOMAIN todo = 1..Len(todo) /\ todo[1] = h
    BY <1>1, <2>1
  <2>. HIDE DEF h, t
  <2>4. IsSequence(t) /\ IsSequence(todo) /\ Ordered(todo)
    BY <2>2 DEF ProgramLeft, IsSequence
  <2>5. Dropped(todo, 1, t)
    BY <2>2, <2>3 DEF Dropped
  <2>6. \A i \in 1..1 : todo[i] = h
    BY <2>3
  <2>7. Ordered(t)
    BY <2>4, <2>5, DropOrdered
  <2>8. \A s : Holds(todo, s) /\ h # s => Holds(t, s)
    BY <2>4, <2>5, <2>6, DropHolds
  <2>9. \A f : Opens(todo, f) /\ h # OpenFile(f) => Opens(t, f)
    BY <2>4, <2>5, <2>6, DropOpens
  <2>10. h.file \in {"sessions", "memories"}
    BY <1>1, <2>3, <2>4 DEF Ordered
  <2>. QED BY <2>4, <2>7, <2>8, <2>9, <2>10
<1>4. todo' = (IF legacy # {} /\ ~exists[h.file] THEN SplitCopy(h.file) ELSE <<>>) \o t
  BY DEF Split
<1>5. \A f : OpenFile(f).do = "open"
  BY DEF OpenFile, Statement
<1>. HIDE DEF h, t
<1>6. (\A s : Holds(todo, s) /\ s.do # "split" => Holds(t, s)) /\ \A f : Opens(todo, f) => Opens(t, f)
  BY <1>1, <1>3, <1>5
<1>7. CASE legacy # {} /\ ~exists[h.file]
  <2>1. h.file \in Files
    BY <1>3 DEF Files
  <2>2. Opens(t, h.file)
    BY <1>1, <1>6, <1>7, <2>1 DEF ProgramLeft
  <2>3. todo' = SplitCopy(h.file) \o t
    BY <1>4, <1>7
  <2>4. IsSequence(SplitCopy(h.file)) /\ IsSequence(todo') /\ Ordered(todo')
    BY <1>3, <2>2, <2>3, Copying
  <2>5. (\A s : Holds(t, s) => Holds(todo', s)) /\ \A f : Opens(t, f) => Opens(todo', f)
    BY <1>3, <2>3, <2>4, JoinHolds, JoinOpens
  <2>. QED BY <1>6, <2>4, <2>5
<1>8. CASE ~(legacy # {} /\ ~exists[h.file])
  <2>1. todo' = t
    <3>1. PICK S : t \in Seq(S)
      BY <1>3 DEF IsSequence
    <3>2. todo' = <<>> \o t
      BY <1>4, <1>8
    <3>. QED BY <3>1, <3>2, ConcatEmptySeq
  <2>. QED BY <1>3, <1>6, <2>1
<1>. QED BY <1>7, <1>8

\* A statement of a boot is done: the rest is what follows it.
Does == phase = "boot" /\ todo # <<>> /\ todo' = Tail(todo) /\ phase' = phase
\* A statement of a boot fails.
Fails == phase = "boot" /\ todo # <<>> /\ Throw /\ UNCHANGED <<legacy, rebuilt>> /\ UNCHANGED Disk
\* A verification that finds every table and trigger of the file.
Verifies ==
    /\ VerifySchema /\ UNCHANGED Disk /\ UNCHANGED rebuilt
    /\ \A p \in DOMAIN Parts \ Indexes : Parts[p].file = Head(todo).file => form[p] # "none"


LEMMA Steps ==
    ASSUME [Next]_vars
    PROVE  \/ Boot \/ Listen \/ Split \/ Write \/ Crash \/ Fails \/ UNCHANGED vars
           \/ Does /\ Open
           \/ Does /\ UNCHANGED exists
              /\ \/ (Define /\ ~Unindexable) \/ AddColumnIfMissing \/ RebuildRequests \/ DropOld
                 \/ CreateNew \/ RebuildRuns \/ RebuildHistory \/ Reindex \/ BackfillClaimNorms
                 \/ Verifies \/ Copy
<1>1. CASE Open
  BY <1>1 DEF Open, Does, Doing, Done, Held, Stays
<1>2. CASE Define
  BY <1>2 DEF Define, Does, Fails, Doing, Done, Held, Stays, Refused, Disk
<1>3. CASE AddColumnIfMissing
  BY <1>3 DEF AddColumnIfMissing, Does, Fails, Doing, Done, Held, Stays, Refused, Disk
<1>4. CASE RebuildRequests \/ DropOld \/ CreateNew \/ RebuildRuns \/ RebuildHistory \/ Reindex
           \/ BackfillClaimNorms \/ Copy
  BY <1>4 DEF RebuildRequests, DropOld, CreateNew, RebuildRuns, RebuildHistory, Reindex,
              BackfillClaimNorms, Copy, Does, Doing, Done, Held, Stays
<1>5. CASE VerifySchema
  BY <1>5 DEF VerifySchema, Verifies, Does, Fails, Doing, Done, Held, Stays, Refused, Disk
<1>6. CASE StatementThrows
  BY <1>6 DEF StatementThrows, Fails, Disk
<1>. QED BY <1>1, <1>2, <1>3, <1>4, <1>5, <1>6 DEF Next, Proceed

LEMMA ProgramInit == ASSUME Init PROVE ProgramLeft
BY Nothing DEF Init, ProgramLeft

LEMMA ProgramStep == ASSUME ProgramLeft, [Next]_vars PROVE ProgramLeft'
<1>1. CASE Boot
  <2>1. PICK a \in {"sessions", "memories"}, b \in {"sessions", "memories"} :
           /\ a # b
           /\ todo' = OnModuleInit(a) \o OnModuleInit(b) \o OnModuleInit("persona")
    BY <1>1 DEF Boot
  <2>2. IsSequence(todo') /\ Ordered(todo') /\ \A f \in Files : Opens(todo', f)
    BY <2>1, Boots
  <2>. QED BY <1>1, <2>2 DEF Boot, Disk, ProgramLeft
<1>2. CASE Listen \/ Write \/ Crash \/ UNCHANGED vars
  BY <1>2, Nothing DEF ProgramLeft, Listen, Write, Crash, vars, Disk
<1>3. CASE Split
  <2>1. /\ IsSequence(todo') /\ Ordered(todo') /\ \A f : Opens(todo, f) => Opens(todo', f)
    BY <1>3, Splits
  <2>. QED BY <1>3, <2>1 DEF ProgramLeft, Split, Doing, Held, Stays, Disk
<1>4. CASE Fails
  <2>1. \/ phase' = "down" /\ todo' = <<>>
        \/ /\ phase' = phase /\ IsSequence(todo') /\ Ordered(todo')
           /\ \A f : Opens(todo, f) => Opens(todo', f)
    BY <1>4, Throws DEF Fails, ProgramLeft
  <2>. QED BY <1>4, <2>1, Nothing DEF ProgramLeft, Fails, Disk
<1>5. CASE Does /\ Open
  <2>1. /\ IsSequence(todo') /\ Ordered(todo')
        /\ \A f : Opens(todo, f) /\ Head(todo) # OpenFile(f) => Opens(todo', f)
    BY <1>5, Advances DEF Does, ProgramLeft
  <2>2. exists' = [exists EXCEPT ![Head(todo).file] = TRUE]
    BY <1>5 DEF Open
  <2>3. \A f : OpenFile(f).file = f
    BY DEF OpenFile, Statement
  <2>4. ASSUME NEW f \in Files PROVE exists'[f] \/ Opens(todo', f)
    <3>1. CASE Head(todo) = OpenFile(f)
      BY <2>2, <2>3, <3>1 DEF ProgramLeft
    <3>2. CASE Head(todo) # OpenFile(f)
      BY <1>5, <2>1, <2>2, <3>2 DEF ProgramLeft, Does
    <3>. QED BY <3>1, <3>2
  <2>. QED BY <1>5, <2>1, <2>2, <2>4 DEF ProgramLeft, Does
<1>6. ASSUME Does, UNCHANGED exists, Head(todo).do # "open" PROVE ProgramLeft'
  <2>1. /\ IsSequence(todo') /\ Ordered(todo')
        /\ \A f : Opens(todo, f) /\ Head(todo) # OpenFile(f) => Opens(todo', f)
    BY <1>6, Advances DEF Does, ProgramLeft
  <2>2. \A f : OpenFile(f).do = "open"
    BY DEF OpenFile, Statement
  <2>. QED BY <1>6, <2>1, <2>2 DEF ProgramLeft, Does
<1>7. ASSUME \/ Define \/ AddColumnIfMissing \/ RebuildRequests \/ DropOld
             \/ CreateNew \/ RebuildRuns \/ RebuildHistory \/ Reindex \/ BackfillClaimNorms
             \/ VerifySchema \/ Copy
      PROVE  Head(todo).do # "open"
  BY <1>7 DEF Define, AddColumnIfMissing, RebuildRequests, DropOld, CreateNew, RebuildRuns,
              RebuildHistory, Reindex, BackfillClaimNorms, VerifySchema, Copy, Doing
<1>. QED BY <1>1, <1>2, <1>3, <1>4, <1>5, <1>6, <1>7, Steps DEF Verifies

-----------------------------------------------------------------------------

\* What is not of its present form is mended or created before the core listens.
FormsLeft ==
    /\ form \in [DOMAIN Parts -> {"none", "old", "now"}]
    /\ \A p \in DOMAIN Parts :
          /\ form[p] = "old" => p \in Mended /\ (phase = "down" \/ Holds(todo, Mend(p)))
          /\ form[p] = "none" => \/ phase = "down" \/ Holds(todo, Ahead(p))
                                 \/ p = "runs_index" /\ rebuilt

LEMMA FormsInit == ASSUME Init PROVE FormsLeft
<1>1. \A p, e : FormOf(p, e) \in {"none", "old", "now"}
  BY DEF FormOf
<1>. QED BY <1>1, OldIsMended DEF Init, FormsLeft

LEMMA TheAhead ==
    /\ \A p \in DOMAIN Parts :
          \/ Ahead(p).do = "define" /\ Ahead(p).on = Parts[p].table /\ p # "guard"
          \/ p \in Mended /\ Ahead(p) = Mend(p)
          \/ p \notin Indexes /\ Ahead(p) = Verify(Parts[p].file)
    /\ Ahead("guard") = Mend("guard")
BY MendedParts DEF Ahead, Defines, Statement, Indexes

\* A statement that makes a part old is followed by the one that mends it, and
\* one that leaves a part without form by the one that creates or misses it.
LEMMA FormsDone ==
    ASSUME ProgramLeft, FormsLeft, Does,
           \/ (Define /\ ~Unindexable) \/ AddColumnIfMissing \/ RebuildRequests \/ DropOld
           \/ CreateNew \/ RebuildRuns \/ RebuildHistory
           \/ Open \/ Reindex \/ BackfillClaimNorms \/ Verifies \/ Copy
    PROVE  /\ form' \in [DOMAIN Parts -> {"none", "old", "now"}]
           /\ \A p \in DOMAIN Parts :
                 /\ form'[p] = "old" => \/ form[p] = "old" /\ Head(todo) # Mend(p)
                                        \/ p = "guard" /\ After(todo, 1, Mend("guard"))
                 /\ form'[p] = "none" => \/ form[p] = "none" /\ Head(todo) # Ahead(p)
                                         \/ After(todo, 1, Ahead(p))
                                         \/ p = "runs_index" /\ rebuilt'
           /\ rebuilt => rebuilt'
<1>. DEFINE h == Head(todo)
<1>1. /\ h.do = "rebuildRequests" => After(todo, 1, Mend("guard"))
      /\ h.do = "drop" => After(todo, 1, Ahead(h.on))
      /\ h.do = "define" /\ h.on = Guard => After(todo, 1, Mend("guard"))
  BY Advances DEF Does, ProgramLeft, Ordered
<1>2. /\ form \in [DOMAIN Parts -> {"none", "old", "now"}]
      /\ \A p \in DOMAIN Parts : form[p] = "old" => p \in Mended
  BY DEF FormsLeft
<1>3. \A p \in Mended : /\ Mend(p).do = Mender[p] /\ Mend(p).on = p
                        /\ Mender[p] \in {"addColumn", "rebuildRequests", "create", "rebuildRuns",
                                          "rebuildHistory"}
  BY MendedParts DEF Mend, Statement, Mender
<1>4. \A f : Verify(f).do = "verify" /\ Verify(f).file = f
  BY DEF Verify, Statement
<1>11. rebuilt => rebuilt'
  BY DEF Define, AddColumnIfMissing, RebuildRequests, DropOld, CreateNew, RebuildRuns, RebuildHistory,
         Open, Reindex, BackfillClaimNorms, Verifies, Copy, Held, Stays, HasColumn, Refused
<1>5. CASE Define /\ ~Unindexable
  <2>1. h.do = "define" /\ \A p \in DOMAIN Parts :
           form'[p] = IF Parts[p].table = h.on /\ form[p] = "none"
                      THEN IF p = "guard" THEN "old" ELSE "now" ELSE form[p]
    BY <1>5 DEF Define, Doing, On
  <2>2. form' \in [DOMAIN Parts -> {"none", "old", "now"}]
    BY <1>2, <1>5 DEF Define
  <2>3. \A p \in Mended : h # Mend(p)
    BY <1>3, <2>1
  <2>4. \A f : h # Verify(f)
    BY <1>4, <2>1
  <2>. HIDE DEF h
  <2>5. ASSUME NEW p \in DOMAIN Parts, form'[p] = "old"
        PROVE  \/ form[p] = "old" /\ h # Mend(p)
               \/ p = "guard" /\ After(todo, 1, Mend("guard"))
    <3>1. CASE form[p] = "old"
      <4>1. p \in Mended
        BY <1>2, <3>1
      <4>. QED BY <2>3, <3>1, <4>1
    <3>2. CASE form[p] # "old"
      <4>1. Parts[p].table = h.on /\ p = "guard"
        BY <2>1, <2>5, <3>2
      <4>2. h.on = Guard
        BY <4>1, PartsOfSessions
      <4>. QED BY <1>1, <2>1, <4>1, <4>2 DEF h
    <3>. QED BY <3>1, <3>2
  <2>6. ASSUME NEW p \in DOMAIN Parts, form'[p] = "none"
        PROVE  form[p] = "none" /\ h # Ahead(p)
    <3>1. form[p] = "none" /\ Parts[p].table # h.on
      BY <2>1, <2>6
    <3>. QED BY <2>3, <2>4, <3>1, TheAhead
  <2>. QED BY <1>11, <2>2, <2>5, <2>6 DEF h
<1>6. CASE AddColumnIfMissing \/ CreateNew \/ RebuildHistory
  <2>1. /\ h.do \in {"addColumn", "create", "rebuildHistory"}
        /\ form' = [form EXCEPT ![IF h.do \in {"addColumn", "create"} THEN h.on ELSE "history"] = "now"]
    <3>1. CASE AddColumnIfMissing
      <4>1. ~(~HasColumn(On) /\ form[On] = "now")
        BY DEF HasColumn
      <4>. QED BY <3>1, <4>1 DEF AddColumnIfMissing, Doing, On
    <3>2. CASE CreateNew
      <4>1. h.do = "create" /\ form' = [form EXCEPT ![h.on] = IF Converged(h.on) THEN @ ELSE "now"]
        BY <3>2 DEF CreateNew, Doing, On
      <4>2. form' = [form EXCEPT ![h.on] = "now"]
        BY <1>2, <4>1 DEF Converged
      <4>. QED BY <4>1, <4>2
    <3>3. CASE RebuildHistory
      BY <3>3 DEF RebuildHistory, Doing
    <3>. QED BY <1>6, <3>1, <3>2, <3>3
  <2>2. form' \in [DOMAIN Parts -> {"none", "old", "now"}]
    BY <1>2, <2>1
  <2>3. \A p \in DOMAIN Parts : form'[p] = form[p] \/ form'[p] = "now"
    BY <1>2, <2>1
  <2>4. \A f : h # Verify(f)
    BY <1>4, <2>1
  <2>5. ASSUME NEW p \in Mended, p \in DOMAIN Parts, h = Mend(p) PROVE form'[p] = "now"
    <3>1. h.do = Mender[p] /\ h.on = p
      BY <1>3, <2>5
    <3>3. Mender[p] = "rebuildHistory" => p = "history"
      BY MendedParts DEF Mender
    <3>. HIDE DEF h
    <3>. QED BY <1>2, <2>1, <2>5, <3>1, <3>3
  <2>6. \A p \in DOMAIN Parts : form'[p] = "none" => form[p] = "none" /\ h # Ahead(p)
    BY <2>1, <2>3, <2>4, <2>5, TheAhead
  <2>. QED BY <1>2, <1>11, <2>2, <2>3, <2>5, <2>6
<1>12. CASE RebuildRuns
  <2>1. /\ h.do = "rebuildRuns"
        /\ \/ form["runs"] = "old" /\ rebuilt'
              /\ form' = [form EXCEPT !["runs"] = "now", !["runs_index"] = "none"]
           \/ form["runs"] # "old" /\ form' = form
    BY <1>12 DEF RebuildRuns, Doing
  <2>2. form' \in [DOMAIN Parts -> {"none", "old", "now"}]
    BY <1>2, <2>1
  <2>3. \A p \in DOMAIN Parts : /\ form'[p] = "old" => form[p] = "old" /\ p # "runs"
                                /\ form'[p] = "none" => form[p] = "none" \/ (p = "runs_index" /\ rebuilt')
    BY <1>2, <2>1
  <2>4. \A p \in Mended : h = Mend(p) => p = "runs"
    BY <1>3, <2>1, MendedParts DEF Mender
  <2>5. \A f : h # Verify(f)
    BY <1>4, <2>1
  <2>6. \A p \in DOMAIN Parts : form[p] = "none" => h # Ahead(p)
    <3>1. Ahead("runs") # Mend("runs")
      BY <1>3, <1>4, MendedParts DEF Ahead, Mender
    <3>. QED BY <2>1, <2>4, <2>5, <3>1, TheAhead
  <2>. QED BY <1>2, <1>11, <2>2, <2>3, <2>4, <2>6
<1>7. CASE RebuildRequests
  <2>1. /\ h.do = "rebuildRequests"
        /\ \/ /\ form["requests"] = "old"
              /\ form' = [form EXCEPT !["requests"] = "now", !["transcript"] = "now",
                                      !["guard"] = "none"]
           \/ form["requests"] # "old" /\ form' = form
    BY <1>7 DEF RebuildRequests, Doing
  <2>2. form' \in [DOMAIN Parts -> {"none", "old", "now"}]
    BY <1>2, <2>1
  <2>3. \A p \in DOMAIN Parts : /\ form'[p] = "old" => form[p] = "old" /\ p # "requests"
                                /\ form'[p] = "none" => form[p] = "none" \/ p = "guard"
    BY <1>2, <2>1
  <2>4. \A p \in Mended : h = Mend(p) => p = "requests"
    BY <1>3, <2>1, MendedParts DEF Mender
  <2>5. \A p \in DOMAIN Parts : h # Ahead(p)
    <3>1. Ahead("requests") # Mend("requests")
      BY <1>3, <1>4, MendedParts DEF Ahead, Mender
    <3>. QED BY <1>4, <2>1, <2>4, <3>1, TheAhead
  <2>. QED BY <1>1, <1>2, <1>11, <2>1, <2>2, <2>3, <2>4, <2>5, TheAhead
<1>8. CASE DropOld
  <2>1. /\ h.do = "drop"
        /\ form' = [form EXCEPT ![h.on] = IF Converged(h.on) THEN @ ELSE "none"]
    BY <1>8 DEF DropOld, Doing, On
  <2>2. form' \in [DOMAIN Parts -> {"none", "old", "now"}]
    BY <1>2, <2>1
  <2>3. \A p \in DOMAIN Parts : /\ form'[p] = "old" => form[p] = "old"
                                /\ form'[p] = "none" => form[p] = "none" \/ p = h.on
    BY <1>2, <2>1
  <2>4. (\A p \in Mended : h # Mend(p)) /\ \A f : h # Verify(f)
    BY <1>3, <1>4, <2>1
  <2>5. \A p \in DOMAIN Parts : h # Ahead(p)
    BY <2>1, <2>4, TheAhead
  <2>. QED BY <1>1, <1>2, <1>11, <2>1, <2>2, <2>3, <2>4, <2>5
<1>9. CASE Open \/ Reindex \/ BackfillClaimNorms \/ Copy
  <2>1. form' = form /\ h.do \in {"open", "reindex", "backfill", "copy"}
    BY <1>9 DEF Open, Reindex, BackfillClaimNorms, Copy, Doing
  <2>2. (\A p \in Mended : h # Mend(p)) /\ \A f : h # Verify(f)
    BY <1>3, <1>4, <2>1
  <2>3. \A p \in DOMAIN Parts : h # Ahead(p)
    BY <2>1, <2>2, TheAhead
  <2>. QED BY <1>2, <1>11, <2>1, <2>2, <2>3
<1>10. CASE Verifies
  <2>1. form' = form /\ h.do = "verify"
    BY <1>10 DEF Verifies, VerifySchema, Disk, Doing
  <2>2. \A p \in Mended : h # Mend(p)
    BY <1>3, <2>1
  <2>3. ASSUME NEW p \in DOMAIN Parts, form[p] = "none" PROVE h # Ahead(p)
    <3>1. ASSUME p \notin Indexes, h = Verify(Parts[p].file) PROVE FALSE
      <4>1. h.file = Parts[p].file
        BY <1>4, <3>1
      <4>. QED BY <1>10, <2>3, <3>1, <4>1 DEF Verifies
    <3>. QED BY <2>1, <2>2, <3>1, TheAhead
  <2>. QED BY <1>2, <1>11, <2>1, <2>2, <2>3
<1>. QED BY <1>5, <1>6, <1>7, <1>8, <1>9, <1>10, <1>12

LEMMA FormsStep == ASSUME ProgramLeft, FormsLeft, [Next]_vars PROVE FormsLeft'
<1>1. /\ form \in [DOMAIN Parts -> {"none", "old", "now"}]
      /\ \A p \in DOMAIN Parts :
            /\ form[p] = "old" => p \in Mended /\ (phase = "down" \/ Holds(todo, Mend(p)))
            /\ form[p] = "none" => \/ phase = "down" \/ Holds(todo, Ahead(p))
                                   \/ p = "runs_index" /\ rebuilt
  BY DEF FormsLeft
<1>2. /\ \A p : Mend(p).split = FALSE /\ Ahead(p).split = FALSE
      /\ \A p \in Mended : Mend(p).do # "split"
      /\ \A p \in DOMAIN Parts : Ahead(p).do # "split"
  BY MendedParts DEF Ahead, Defines, Mend, Verify, Statement, Mender
<1>3. CASE Boot
  <2>1. PICK a \in {"sessions", "memories"}, b \in {"sessions", "memories"} :
           /\ a # b
           /\ todo' = OnModuleInit(a) \o OnModuleInit(b) \o OnModuleInit("persona")
    BY <1>3 DEF Boot
  <2>2. \A f \in Files : Opens(todo', f)
    BY <2>1, Boots
  <2>3. \A f \in Files : \A s \in Needed(f) : Holds(todo', s)
    BY <2>2, OpensHolds
  <2>4. \A p \in DOMAIN Parts :
           Holds(todo', Ahead(p)) /\ (p \in Mended => Holds(todo', Mend(p)))
    BY <2>3, EveryPart, Needs
  <2>5. form' = form
    BY <1>3 DEF Boot, Disk
  <2>. QED BY <1>1, <2>4, <2>5 DEF FormsLeft
<1>4. CASE Listen \/ Write \/ Crash \/ UNCHANGED vars
  <2>1. /\ form' = form /\ rebuilt' = rebuilt
        /\ \/ phase' = "down" \/ (phase # "down" /\ todo' = todo)
           \/ phase' = phase /\ todo' = todo
    BY <1>4 DEF Listen, Write, Crash, vars, Disk
  <2>. QED BY <1>1, <2>1 DEF FormsLeft
<1>5. CASE Split
  <2>1. \A s : Holds(todo, s) /\ s.do # "split" => Holds(todo', s)
    BY <1>5, Splits
  <2>2. form' = form /\ phase' = phase /\ rebuilt' = rebuilt
    BY <1>5 DEF Split, Held, Stays, Disk
  <2>. QED BY <1>1, <1>2, <2>1, <2>2 DEF FormsLeft
<1>6. CASE Fails
  <2>1. phase' = "down" \/ (phase' = phase /\ \A s : s.split = FALSE /\ Holds(todo, s) => Holds(todo', s))
    BY <1>6, Throws DEF Fails, ProgramLeft
  <2>2. form' = form /\ rebuilt' = rebuilt
    BY <1>6 DEF Fails, Disk
  <2>. QED BY <1>1, <1>2, <2>1, <2>2 DEF FormsLeft
<1>7. ASSUME Does,
             \/ (Define /\ ~Unindexable) \/ AddColumnIfMissing \/ RebuildRequests \/ DropOld
             \/ CreateNew \/ RebuildRuns \/ RebuildHistory
             \/ Open \/ Reindex \/ BackfillClaimNorms \/ Verifies \/ Copy
      PROVE  FormsLeft'
  <2>1. /\ form' \in [DOMAIN Parts -> {"none", "old", "now"}]
        /\ \A p \in DOMAIN Parts :
              /\ form'[p] = "old" => \/ form[p] = "old" /\ Head(todo) # Mend(p)
                                     \/ p = "guard" /\ After(todo, 1, Mend("guard"))
              /\ form'[p] = "none" => \/ form[p] = "none" /\ Head(todo) # Ahead(p)
                                      \/ After(todo, 1, Ahead(p))
                                      \/ p = "runs_index" /\ rebuilt'
        /\ rebuilt => rebuilt'
    BY <1>7, FormsDone
  <2>2. /\ \A s : Holds(todo, s) /\ Head(todo) # s => Holds(todo', s)
        /\ \A s : After(todo, 1, s) => Holds(todo', s)
        /\ phase = "boot"
    BY <1>7, Advances DEF Does, ProgramLeft
  <2>3. "guard" \in Mended
    BY MendedParts
  <2>. QED BY <1>1, <2>1, <2>2, <2>3 DEF FormsLeft
<1>. QED BY <1>3, <1>4, <1>5, <1>6, <1>7, Steps

-----------------------------------------------------------------------------

\* No claim goes without norms or unknown to the index but until the core listens,
\* and a run that M9a left running is in a table of that release.
RowsLeft ==
    /\ HoldRows
    /\ \A r \in legacy : r.of # "claim" /\ r.is # "running"
    /\ \A r \in rows : r.is = "running" => form["runs"] = "old"
    /\ \A r \in rows : r.of = "claim" =>
          /\ r.is \in {"blank", "normed"}
          /\ \/ phase = "down"
             \/ r.is = "normed"
             \/ Holds(todo, Norms)
          /\ \/ phase = "down"
             \/ r.from \in lexicon
             \/ Holds(todo, Lexicon)

LEMMA RowsLeftInit == ASSUME Init PROVE RowsLeft
<1>1. HoldRows /\ phase = "down"
  BY RowsInit DEF Init
<1>2. \A r \in LegacyRows : r.of # "claim" /\ r.is # "running"
  BY DEF LegacyRows, Row
<1>3. ASSUME NEW f \in Files, NEW e \in Nat, NEW r \in OldRows(f, e)
      PROVE  /\ r.of = "claim" => r.is \in {"blank", "normed"}
             /\ r.is = "running" => f = "sessions" /\ e >= 6 /\ e < 7
  <2>1. CASE f = "sessions"
    BY <1>3, <2>1 DEF OldRows, Row
  <2>2. CASE f = "memories"
    BY <1>3, <2>2 DEF OldRows, Row
  <2>3. CASE f = "persona"
    BY <1>3, <2>3 DEF OldRows
  <2>. QED BY <2>1, <2>2, <2>3 DEF Files
<1>4. era \in [Files -> Nat]
  BY StorageAssumption DEF Init
<1>5. \A r \in rows : r.of = "claim" => r.is \in {"blank", "normed"}
  BY <1>3, <1>4 DEF Init
<1>6. ASSUME NEW r \in rows, r.is = "running" PROVE form["runs"] = "old"
  <2>1. era["sessions"] >= 6 /\ era["sessions"] < 7
    BY <1>3, <1>4, <1>6 DEF Init
  <2>2. form["runs"] = FormOf("runs", era["sessions"])
    BY PartsOfSessions DEF Init
  <2>3. \A e \in Nat : e >= 6 /\ e < 7 => FormOf("runs", e) = "old"
    BY PartsOfSessions DEF FormOf
  <2>. QED BY <1>4, <2>1, <2>2, <2>3 DEF Files
<1>. QED BY <1>1, <1>2, <1>5, <1>6 DEF Init, RowsLeft

LEMMA RowsLeftStep ==
    ASSUME ProgramLeft, FormsLeft, RowsLeft, [Next]_vars PROVE RowsLeft'
<1>1. HoldRows' /\ HoldRows
  BY RowsStep DEF RowsLeft
<1>2. legacy' = legacy
  BY DEF Next, Proceed, Boot, Listen, Split, Open, Define, AddColumnIfMissing, RebuildRequests,
         DropOld, CreateNew, RebuildRuns, RebuildHistory, Reindex, BackfillClaimNorms, VerifySchema,
         Copy, StatementThrows, Write, Crash, Refused, Held, Stays, vars
<1>3. /\ \A r \in legacy : r.of # "claim" /\ r.is # "running"
      /\ \A r \in rows : r.is = "running" => form["runs"] = "old"
      /\ \A r \in rows : r.of = "claim" =>
            /\ r.is \in {"blank", "normed"}
            /\ phase = "down" \/ r.is = "normed" \/ Holds(todo, Norms)
            /\ phase = "down" \/ r.from \in lexicon \/ Holds(todo, Lexicon)
  BY DEF RowsLeft
<1>4. /\ Norms.do = "backfill" /\ Norms.split = FALSE
      /\ Lexicon.do = "reindex" /\ Lexicon.split = FALSE
  BY DEF Norms, Lexicon, Statement
<1>5. ASSUME rows' = rows, form' = form, lexicon' = lexicon,
             \/ phase' = "down"
             \/ /\ phase # "down"
                /\ Holds(todo, Norms) => Holds(todo', Norms)
                /\ Holds(todo, Lexicon) => Holds(todo', Lexicon)
             \/ Holds(todo', Norms) /\ Holds(todo', Lexicon)
      PROVE  RowsLeft'
  BY <1>1, <1>2, <1>3, <1>5 DEF RowsLeft
<1>6. CASE Boot
  <2>1. PICK a \in {"sessions", "memories"}, b \in {"sessions", "memories"} :
           /\ a # b
           /\ todo' = OnModuleInit(a) \o OnModuleInit(b) \o OnModuleInit("persona")
    BY <1>6 DEF Boot
  <2>2. Opens(todo', "memories")
    BY <2>1, Boots DEF Files
  <2>3. Holds(todo', Norms) /\ Holds(todo', Lexicon)
    BY <2>2, OpensHolds, Needs
  <2>. QED BY <1>5, <1>6, <2>3 DEF Boot, Disk
<1>7. CASE Listen \/ Crash
  BY <1>5, <1>7 DEF Listen, Crash, Disk
<1>8. CASE UNCHANGED vars
  BY <1>1, <1>8 DEF RowsLeft, vars
<1>9. CASE Split
  <2>1. \A s : Holds(todo, s) /\ s.do # "split" => Holds(todo', s)
    BY <1>9, Splits
  <2>. QED BY <1>4, <1>5, <1>9, <2>1 DEF Split, Held, Stays, Disk, Doing
<1>10. CASE Fails
  <2>1. phase' = "down" \/ (phase' = phase /\ \A s : s.split = FALSE /\ Holds(todo, s) => Holds(todo', s))
    BY <1>10, Throws DEF Fails, ProgramLeft
  <2>. QED BY <1>4, <1>5, <1>10, <2>1 DEF Fails, Disk
<1>11. CASE Write
  <2>1. todo = <<>> /\ todo' = todo /\ form' = form /\ phase = "up"
    BY <1>11 DEF Write, ProgramLeft
  <2>2. PICK r \in {Row("message", "new", "plain"), Row("request", "new", "parked"),
                    Row("run", "new", "reasoning"), Row("claim", "new", "normed")} :
           /\ rows' = rows \cup {r}
           /\ lexicon' = IF r.of = "claim" THEN lexicon \cup {r.from} ELSE lexicon
    BY <1>11 DEF Write
  <2>3. r.is # "running" /\ (r.of = "claim" => r.is = "normed")
    BY DEF Row
  <2>4. ~Holds(todo, Norms) /\ ~Holds(todo, Lexicon)
    BY <2>1, Nothing
  <2>5. \A k \in rows' : k.is = "running" => form'["runs"] = "old"
    BY <1>3, <2>1, <2>2, <2>3
  <2>6. \A k \in rows' : k.of = "claim" => k.is = "normed" /\ k.from \in lexicon'
    BY <1>3, <2>1, <2>2, <2>3, <2>4
  <2>. QED BY <1>1, <1>2, <1>3, <2>5, <2>6 DEF RowsLeft
<1>12. ASSUME Does
       PROVE  /\ phase = "boot" /\ phase' = "boot"
              /\ \A s : Holds(todo, s) /\ Head(todo) # s => Holds(todo', s)
  BY <1>12, Advances DEF Does, ProgramLeft
<1>13. CASE Does /\ (Open \/ (Define /\ ~Unindexable) \/ AddColumnIfMissing \/ DropOld
                     \/ CreateNew \/ RebuildHistory \/ Verifies \/ Copy \/ RebuildRequests)
  <2>1. Head(todo) # Norms /\ Head(todo) # Lexicon
    BY <1>4, <1>13 DEF Open, Define, AddColumnIfMissing, DropOld, CreateNew, RebuildHistory, Verifies,
                       VerifySchema, Copy, RebuildRequests, Doing
  <2>2. lexicon' = lexicon /\ \A r \in rows' : r \in rows \/ r \in legacy
    BY <1>13 DEF Open, Define, AddColumnIfMissing, DropOld, CreateNew, RebuildHistory, Verifies,
                 Refused, Disk, Copy, RebuildRequests
  <2>3. form["runs"] = "old" => form'["runs"] = "old"
    <3>0. form \in [DOMAIN Parts -> {"none", "old", "now"}] /\ "runs" \in DOMAIN Parts
      BY PartsOfSessions DEF FormsLeft
    <3>1. CASE Define /\ ~Unindexable
      <4>1. form' = [p \in DOMAIN Parts |->
                          IF Parts[p].table = On /\ form[p] = "none"
                          THEN IF p = "guard" THEN "old" ELSE "now"
                          ELSE form[p]]
        BY <3>1 DEF Define
      <4>2. form["runs"] = "old" /\ "runs" \in DOMAIN Parts => form'["runs"] = "old"
        BY <4>1
      <4>. QED BY <4>2, PartsOfSessions
    <3>2. CASE RebuildRequests
      <4>1. form' = [form EXCEPT !["requests"] = "now", !["transcript"] = "now", !["guard"] = "none"]
            \/ form' = form
        BY <3>2 DEF RebuildRequests
      <4>. QED BY <3>0, <4>1
    <3>3. CASE RebuildHistory
      BY <3>0, <3>3 DEF RebuildHistory
    <3>4. CASE Open \/ Verifies \/ Copy
      BY <3>4 DEF Open, Verifies, Copy, Disk
    <3>5. CASE AddColumnIfMissing \/ DropOld \/ CreateNew
      <4>1. Head(todo).do \in {"addColumn", "drop", "create"}
        BY <3>5 DEF AddColumnIfMissing, DropOld, CreateNew, Doing
      <4>2. Head(todo).on = "runs" => Head(todo).do = "rebuildRuns"
        BY <1>13, Advances DEF Does, ProgramLeft, Ordered
      <4>3. On # "runs"
        BY <4>1, <4>2 DEF On
      <4>4. form' = form \/ \E v : form' = [form EXCEPT ![On] = v]
        BY <3>5 DEF AddColumnIfMissing, DropOld, CreateNew, Refused, Disk
      <4>. QED BY <3>0, <4>3, <4>4
    <3>. QED BY <1>13, <3>1, <3>2, <3>3, <3>4, <3>5
  <2>. QED BY <1>1, <1>2, <1>3, <1>12, <1>13, <2>1, <2>2, <2>3 DEF RowsLeft
<1>14. CASE Does /\ RebuildRuns
  <2>1. Head(todo) # Norms /\ Head(todo) # Lexicon
    BY <1>4, <1>14 DEF RebuildRuns, Doing
  <2>2. lexicon' = lexicon /\ rows' = IF form["runs"] = "old" THEN Carried(rows) ELSE rows
    BY <1>14 DEF RebuildRuns
  <2>3. ASSUME NEW r \in rows', form["runs"] = "old"
        PROVE  r.is # "running" /\ (r.of = "claim" => r \in rows)
    <3>1. PICK k \in rows : r = IF k.is = "running" THEN [k EXCEPT !.is = "failed"] ELSE k
      BY <2>2, <2>3 DEF Carried
    <3>2. IsRow(k)
      BY <1>1 DEF HoldRows
    <3>3. CASE k.is = "running"
      <4>1. r.is = "failed" /\ r.of = k.of
        BY <3>1, <3>2, <3>3, ChangedRows
      <4>. QED BY <1>3, <3>3, <4>1
    <3>. QED BY <3>1, <3>3
  <2>4. form["runs"] # "old" => \A r \in rows' : r \in rows /\ r.is # "running"
    BY <1>3, <2>2
  <2>. QED BY <1>1, <1>2, <1>3, <1>12, <1>14, <2>1, <2>2, <2>3, <2>4 DEF RowsLeft
<1>15. CASE Does /\ Reindex
  <2>1. Head(todo) # Norms
    BY <1>4, <1>15 DEF Reindex, Doing
  <2>2. rows' = rows /\ form' = form /\ \A r \in rows : r.of = "claim" => r.from \in lexicon'
    BY <1>15 DEF Reindex, Claims
  <2>. QED BY <1>1, <1>2, <1>3, <1>12, <1>15, <2>1, <2>2 DEF RowsLeft
<1>16. CASE Does /\ BackfillClaimNorms
  <2>1. Head(todo) # Lexicon
    BY <1>4, <1>16 DEF BackfillClaimNorms, Doing
  <2>2. /\ form' = form /\ lexicon' = lexicon
        /\ rows' = {IF r.is = "blank" THEN [r EXCEPT !.is = "normed"] ELSE r : r \in rows}
    BY <1>16 DEF BackfillClaimNorms
  <2>3. ASSUME NEW r \in rows'
        PROVE  \/ r \in rows /\ r.is # "blank"
               \/ r.is = "normed" /\ \E k \in rows : r.of = k.of /\ r.from = k.from
    <3>1. PICK k \in rows : r = IF k.is = "blank" THEN [k EXCEPT !.is = "normed"] ELSE k
      BY <2>2
    <3>2. IsRow(k)
      BY <1>1 DEF HoldRows
    <3>3. CASE k.is = "blank"
      <4>1. r.is = "normed" /\ r.of = k.of /\ r.from = k.from
        BY <3>1, <3>2, <3>3, ChangedRows
      <4>. QED BY <4>1
    <3>. QED BY <3>1, <3>3
  <2>4. ASSUME NEW r \in rows', r.is = "running" PROVE form'["runs"] = "old"
    BY <1>3, <2>2, <2>3, <2>4
  <2>5. ASSUME NEW r \in rows', r.of = "claim"
        PROVE  r.is = "normed" /\ (r.from \in lexicon' \/ Holds(todo', Lexicon))
    BY <1>3, <1>12, <1>16, <2>1, <2>2, <2>3, <2>5
  <2>. QED BY <1>1, <1>2, <1>3, <2>4, <2>5 DEF RowsLeft
<1>. QED BY <1>6, <1>7, <1>8, <1>9, <1>10, <1>11, <1>13, <1>14, <1>15, <1>16, Steps

\* The inductive invariant of the migrations.
OpenInv == ProgramLeft /\ FormsLeft /\ RowsLeft

\* Whatever release wrote the files and wherever earlier boots stopped, a core that
\* listens has the present form of every part of its schemas, but for the index of
\* the runs in a boot that rebuilt their table, no claim without norms or missing
\* from the full-text index, and no run that nothing would ever drive
\* (openDatabase, migrateColumns, migrateLegacyDatabase).
THEOREM ListenersAreCurrent == Spec => []OpenIsCurrent
<1>1. Init => OpenInv
  BY ProgramInit, FormsInit, RowsLeftInit DEF OpenInv
<1>2. OpenInv /\ [Next]_vars => OpenInv'
  BY ProgramStep, FormsStep, RowsLeftStep DEF OpenInv
<1>3. OpenInv => OpenIsCurrent
  <2>1. SUFFICES ASSUME OpenInv, phase = "up"
                 PROVE  /\ \A p \in DOMAIN Parts : form[p] = "now" \/ (p = "runs_index" /\ rebuilt)
                        /\ \A r \in Claims : r.is = "normed" /\ r.from \in lexicon
                        /\ \A r \in rows : r.is # "running"
    BY DEF OpenIsCurrent
  <2>2. \A s : ~Holds(todo, s)
    BY <2>1, Nothing DEF OpenInv, ProgramLeft
  <2>3. \A p \in DOMAIN Parts : form[p] = "now" \/ (p = "runs_index" /\ rebuilt)
    BY <2>1, <2>2 DEF OpenInv, FormsLeft
  <2>4. form["runs"] = "now"
    BY <2>3, PartsOfSessions
  <2>. QED BY <2>1, <2>2, <2>3, <2>4 DEF OpenInv, RowsLeft, Claims
<1>. QED BY <1>1, <1>2, <1>3, PTL DEF Spec
=============================================================================
