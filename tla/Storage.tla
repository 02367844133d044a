------------------------------- MODULE Storage -------------------------------
(* How the core opens its three database files, whatever release wrote them *)
(* and wherever an earlier boot stopped: the schema, the migrations, and the *)
(* copy of the single file that preceded the split.                          *)
(*                                                                           *)
(* A boot is a list of statements, each a transaction of its own: a crash    *)
(* falls between any two. Of a schema only the parts that changed form since *)
(* they were introduced are told apart; of a row, where it comes from and    *)
(* what a migration reads or writes of it.                                   *)
EXTENDS Naturals, Sequences

CONSTANTS
    Eras,        \* bound: the releases whose files the first boot may find
    MaxCrashes,  \* bound: crashes and stops
    MaxFaults,   \* bound: statements that throw (disk full, file locked)
    MaxWrites    \* bound: rows a running core writes

ASSUME StorageAssumption ==
    /\ Eras \subseteq 0..14
    /\ MaxCrashes \in Nat /\ MaxFaults \in Nat /\ MaxWrites \in Nat

VARIABLES
    era,       \* which release wrote each file that is there at first
    exists,    \* files on disk
    form,      \* the form of each part of the schemas
    rows,      \* what the files hold
    lexicon,   \* claims the full-text index knows
    legacy,    \* what the single file holds; empty when there is none
    phase,     \* of the process
    todo,      \* statements this boot has left
    reported,  \* this boot logged a migration error
    rebuilt,   \* history: this boot rebuilt the table of runs
    crashes, faults, writes

vars == <<era, exists, form, rows, lexicon, legacy, phase, todo, reported,
          rebuilt, crashes, faults, writes>>
counters == <<crashes, faults, writes>>

Files == {"sessions", "memories", "persona"}

(***************************************************************************)
(* Releases are counted from the split: 1 M3, 2 M6, 3 M8c, 4 M8d, 5 M8e,    *)
(* 6 M9a, 7 M9b, 8 M10b, 9 M10c, 10 M10e, 11 M11a, 12 M12a, 13 M12c, 14     *)
(* later. Era 0 is a file that is not there.                                *)
(***************************************************************************)
Part(file, table, made, now) == [file |-> file, table |-> table, made |-> made, now |-> now]

SessionParts ==
    [title        |-> Part("sessions", "sessions", 1, 2),
     excluded     |-> Part("sessions", "messages", 1, 2),
     requests     |-> Part("sessions", "tool_requests", 3, 4),
     transcript   |-> Part("sessions", "tool_requests", 3, 5),
     guard        |-> Part("sessions", "tool_requests_identity_immutable", 3, 4),
     runs         |-> Part("sessions", "agent_runs", 6, 7),
     runs_index   |-> Part("sessions", "idx_agent_runs_session", 6, 6)]

MemoryParts ==
    [source_role    |-> Part("memories", "memory_candidates", 1, 8),
     denied         |-> Part("memories", "memory_candidates", 1, 10),
     negated        |-> Part("memories", "claims", 8, 10),
     subject_norm   |-> Part("memories", "claims", 8, 9),
     predicate_norm |-> Part("memories", "claims", 8, 9),
     identity       |-> Part("memories", "idx_claims_identity", 8, 10),
     norm_index     |-> Part("memories", "idx_claims_subject_predicate", 9, 9),
     resolution     |-> Part("memories", "prospective_items", 10, 13),
     resolved_at    |-> Part("memories", "prospective_items", 10, 13),
     history        |-> Part("memories", "claim_history", 12, 14),
     claims_fts     |-> Part("memories", "claims_fts", 11, 11)]

PersonaParts == [records |-> Part("persona", "persona_records", 14, 14)]

Parts == [p \in DOMAIN SessionParts \cup DOMAIN MemoryParts \cup DOMAIN PersonaParts |->
            IF p \in DOMAIN SessionParts THEN SessionParts[p]
            ELSE IF p \in DOMAIN MemoryParts THEN MemoryParts[p] ELSE PersonaParts[p]]

Indexes == {"identity", "norm_index", "runs_index"}

FormOf(p, e) == IF e < Parts[p].made THEN "none" ELSE IF e < Parts[p].now THEN "old" ELSE "now"

Row(of, from, state) == [of |-> of, from |-> from, was |-> state, is |-> state]
FileOf(r) == IF r.of \in {"session", "message", "request", "run"} THEN "sessions" ELSE "memories"

\* The rows of a file of release e: parks had no approval before M8d, claims no
\* norms before M10c, and a run that stopped halfway was left running by M9a.
OldRows(f, e) ==
    LET Have(since, rs) == IF e >= since THEN rs ELSE {} IN
    CASE f = "sessions" ->
           Have(1, {Row("session", "old", "plain"), Row("message", "old", "plain")})
           \cup Have(3, {Row("request", "old", "settled"),
                         Row("request", "old", IF e < 4 THEN "unbound" ELSE "parked")})
           \cup Have(6, {Row("run", "old", IF e < 7 THEN "running" ELSE "reasoning"),
                         Row("run", "old", "awaiting_approval"), Row("run", "old", "completed")})
      [] f = "memories" ->
           Have(1, {Row("candidate", "old", "plain")})
           \cup Have(8, {Row("claim", "old", IF e < 9 THEN "blank" ELSE "normed")})
           \cup Have(12, {Row("history", "old", "plain")})
      [] OTHER -> {}

LegacyRows == {Row(of, "legacy", "plain") : of \in {"session", "message", "candidate"}}

Init ==
    /\ \E release \in Eras : era \in [Files -> {0, release}]
    /\ exists = [f \in Files |-> era[f] > 0]
    /\ form = [p \in DOMAIN Parts |-> FormOf(p, era[Parts[p].file])]
    /\ rows = UNION {OldRows(f, era[f]) : f \in Files}
    /\ lexicon = IF era["memories"] >= 11 THEN {"old"} ELSE {}
    /\ legacy \in {{}, LegacyRows}
    /\ phase = "down" /\ todo = <<>> /\ reported = FALSE /\ rebuilt = FALSE
    /\ crashes = 0 /\ faults = 0 /\ writes = 0

(***************************************************************************)
(* The statements of a boot.                                               *)
(***************************************************************************)
Statement(file, do, on) == [file |-> file, do |-> do, on |-> on, split |-> FALSE]
Each(file, do, ons) == [i \in DOMAIN ons |-> Statement(file, do, ons[i])]

\* CREATE ... IF NOT EXISTS, in the order of the schema.
Schema(f) ==
    Each(f, "define",
         CASE f = "sessions" -> <<"sessions", "messages", "tool_requests",
                                  "tool_requests_identity_immutable", "agent_runs",
                                  "idx_agent_runs_session">>
           [] f = "memories" -> <<"memory_candidates", "claims", "idx_claims_identity",
                                  "idx_claims_subject_predicate", "prospective_items",
                                  "claim_history", "claims_fts">>
           [] OTHER -> <<"persona_records">>)

MigrateToolRequests ==
    <<Statement("sessions", "rebuildRequests", "requests"),
      Statement("sessions", "drop", "guard"), Statement("sessions", "create", "guard")>>

MigrateClaimIdentityIndex ==
    <<Statement("memories", "drop", "identity"), Statement("memories", "create", "identity")>>

MigrateColumns(f) ==
    CASE f = "sessions" ->
           Each(f, "addColumn", <<"title", "excluded">>) \o MigrateToolRequests
           \o <<Statement(f, "rebuildRuns", "runs"), Statement(f, "addColumn", "transcript")>>
      [] f = "memories" ->
           Each(f, "addColumn", <<"source_role", "denied", "negated">>)
           \o MigrateClaimIdentityIndex
           \o <<Statement(f, "reindex", "claims_fts"), Statement(f, "addColumn", "resolution"),
                Statement(f, "addColumn", "resolved_at"),
                Statement(f, "rebuildHistory", "history"),
                Statement(f, "addColumn", "subject_norm"),
                Statement(f, "addColumn", "predicate_norm"),
                Statement(f, "backfill", "claims")>>
      [] OTHER -> <<>>

OpenDatabase(f) ==
    <<Statement(f, "open", "file")>> \o Schema(f) \o MigrateColumns(f)
    \o <<Statement(f, "verify", "file")>>

Copies(f) ==
    Each(f, "copy", IF f = "sessions" THEN <<"session", "message">> ELSE <<"candidate">>)

\* What migrateLegacyDatabase runs for a target that is not there.
SplitCopy(f) ==
    LET program == OpenDatabase(f) \o Copies(f) IN
    [i \in DOMAIN program |-> [program[i] EXCEPT !.split = TRUE]]

MigrateLegacyDatabase ==
    <<Statement("sessions", "split", "file"), Statement("memories", "split", "file")>>

OnModuleInit(f) ==
    (IF f = "persona" THEN <<>> ELSE MigrateLegacyDatabase) \o OpenDatabase(f)

Doing(do) == phase = "boot" /\ todo # <<>> /\ Head(todo).do = do
On == Head(todo).on
Done == todo' = Tail(todo)
Disk == <<exists, form, rows, lexicon>>
Stays == UNCHANGED <<era, legacy, phase, reported>> /\ UNCHANGED counters
Held == Stays /\ UNCHANGED rebuilt

\* The split is best effort: what it throws is logged and the boot goes on after
\* it; any other error ends the process.
Throw ==
    IF Head(todo).split
    THEN /\ \E n \in DOMAIN todo :
               /\ ~todo[n].split /\ \A i \in 1..(n - 1) : todo[i].split
               /\ todo' = SubSeq(todo, n, Len(todo))
         /\ reported' = TRUE /\ UNCHANGED phase
    ELSE /\ todo' = <<>> /\ phase' = "down" /\ UNCHANGED reported
Refused == Throw /\ UNCHANGED <<era, legacy, rebuilt>> /\ UNCHANGED Disk /\ UNCHANGED counters

(***************************************************************************)
(* The process.                                                            *)
(***************************************************************************)
\* The services come up one after the other; which of the two that share the
\* split comes first is the container's choice.
Boot ==
    /\ phase = "down"
    /\ phase' = "boot" /\ reported' = FALSE /\ rebuilt' = FALSE
    /\ \E a, b \in {"sessions", "memories"} :
           a # b /\ todo' = OnModuleInit(a) \o OnModuleInit(b) \o OnModuleInit("persona")
    /\ UNCHANGED <<era, legacy>> /\ UNCHANGED Disk /\ UNCHANGED counters

Listen ==
    /\ phase = "boot" /\ todo = <<>>
    /\ phase' = "up"
    /\ UNCHANGED <<era, legacy, todo, reported, rebuilt>> /\ UNCHANGED Disk
    /\ UNCHANGED counters

Split ==
    /\ Doing("split")
    /\ todo' = (IF legacy # {} /\ ~exists[Head(todo).file] THEN SplitCopy(Head(todo).file) ELSE <<>>)
               \o Tail(todo)
    /\ UNCHANGED Disk /\ Held

Open ==
    /\ Doing("open") /\ Done
    /\ exists' = [exists EXCEPT ![Head(todo).file] = TRUE]
    /\ UNCHANGED <<form, rows, lexicon>> /\ Held

\* The index over the norms is part of the schema and the columns are added after it.
Unindexable == On = "idx_claims_subject_predicate"
               /\ form["norm_index"] = "none" /\ form["subject_norm"] = "old"

\* The schema still has the narrower trigger; everything else it creates is current.
Define ==
    /\ Doing("define")
    /\ IF Unindexable
       THEN Refused
       ELSE /\ Done
            /\ form' = [p \in DOMAIN Parts |->
                          IF Parts[p].table = On /\ form[p] = "none"
                          THEN IF p = "guard" THEN "old" ELSE "now"
                          ELSE form[p]]
            /\ UNCHANGED <<exists, rows, lexicon>> /\ Held

\* Mutant: every column is looked for in the sessions table.
HasColumnInSessions(p) == Parts[p].table = "sessions" /\ form[p] = "now"
HasColumn(p) == form[p] = "now"

\* ALTER TABLE refuses a column that is there.
AddColumnIfMissing ==
    /\ Doing("addColumn")
    /\ IF ~HasColumn(On) /\ form[On] = "now"
       THEN Refused
       ELSE /\ Done
            /\ form' = [form EXCEPT ![On] = "now"]
            /\ UNCHANGED <<exists, rows, lexicon>> /\ Held

\* Parks of the table without approvals can never be authorised: they are dropped.
Actionable(r) == ~(r.of = "request" /\ r.is = "unbound")

\* The rebuilt table takes its trigger with it.
RebuildRequests ==
    /\ Doing("rebuildRequests") /\ Done
    /\ IF form["requests"] = "old"
       THEN /\ form' = [form EXCEPT !["requests"] = "now", !["transcript"] = "now", !["guard"] = "none"]
            /\ rows' = {r \in rows : Actionable(r)}
       ELSE UNCHANGED <<form, rows>>
    /\ UNCHANGED <<exists, lexicon>> /\ Held

\* Mutant: a trigger of that name is taken for the right one.
ConvergedByName(p) == form[p] # "none"
Converged(p) == form[p] = "now"

DropOld ==
    /\ Doing("drop") /\ Done
    /\ form' = [form EXCEPT ![On] = IF Converged(On) THEN @ ELSE "none"]
    /\ UNCHANGED <<exists, rows, lexicon>> /\ Held

CreateNew ==
    /\ Doing("create") /\ Done
    /\ form' = [form EXCEPT ![On] = IF Converged(On) THEN @ ELSE "now"]
    /\ UNCHANGED <<exists, rows, lexicon>> /\ Held

\* Mutant: only runs in a state the new table knows are copied.
CarriedIfKnown(rs) == {r \in rs : r.is # "running"}
\* Nothing drives a run that M9a left running: it is recorded as failed.
Carried(rs) == {IF r.is = "running" THEN [r EXCEPT !.is = "failed"] ELSE r : r \in rs}

\* The old table is dropped with its index, which is not created again.
RebuildRuns ==
    /\ Doing("rebuildRuns") /\ Done
    /\ IF form["runs"] = "old"
       THEN /\ rows' = Carried(rows) /\ rebuilt' = TRUE
            /\ form' = [form EXCEPT !["runs"] = "now", !["runs_index"] = "none"]
       ELSE UNCHANGED <<rows, rebuilt, form>>
    /\ UNCHANGED <<exists, lexicon>> /\ Stays

RebuildHistory ==
    /\ Doing("rebuildHistory") /\ Done
    /\ form' = [form EXCEPT !["history"] = "now"]
    /\ UNCHANGED <<exists, rows, lexicon>> /\ Held

Claims == {r \in rows : r.of = "claim"}

Reindex ==
    /\ Doing("reindex") /\ Done
    /\ lexicon' = {r.from : r \in Claims}
    /\ UNCHANGED <<exists, form, rows>> /\ Held

BackfillClaimNorms ==
    /\ Doing("backfill") /\ Done
    /\ rows' = {IF r.is = "blank" THEN [r EXCEPT !.is = "normed"] ELSE r : r \in rows}
    /\ UNCHANGED <<exists, form, lexicon>> /\ Held

\* Tables and triggers are looked for, not indexes.
VerifySchema ==
    /\ Doing("verify")
    /\ IF \E p \in DOMAIN Parts \ Indexes : Parts[p].file = Head(todo).file /\ form[p] = "none"
       THEN Refused
       ELSE Done /\ UNCHANGED Disk /\ Held

Copy ==
    /\ Doing("copy") /\ Done
    /\ rows' = rows \cup {r \in legacy : r.of = On}
    /\ UNCHANGED <<exists, form, lexicon>> /\ Held

StatementThrows ==
    /\ phase = "boot" /\ todo # <<>> /\ Head(todo).do # "split"
    /\ faults < MaxFaults /\ faults' = faults + 1
    /\ Throw
    /\ UNCHANGED <<era, exists, form, rows, lexicon, legacy, rebuilt, crashes, writes>>

\* A running core writes rows of the current forms; triggers keep the index.
Write ==
    /\ phase = "up" /\ writes < MaxWrites /\ writes' = writes + 1
    /\ \E r \in {Row("message", "new", "plain"), Row("request", "new", "parked"),
                 Row("run", "new", "reasoning"), Row("claim", "new", "normed")} :
           /\ rows' = rows \cup {r}
           /\ lexicon' = IF r.of = "claim" THEN lexicon \cup {r.from} ELSE lexicon
    /\ UNCHANGED <<era, exists, form, legacy, phase, todo, reported, rebuilt, crashes, faults>>

Crash ==
    /\ phase # "down" /\ crashes < MaxCrashes /\ crashes' = crashes + 1
    /\ phase' = "down" /\ todo' = <<>>
    /\ UNCHANGED <<era, exists, form, rows, lexicon, legacy, reported, rebuilt, faults, writes>>

Proceed ==
    \/ Boot \/ Listen \/ Split \/ Open \/ Define \/ AddColumnIfMissing
    \/ RebuildRequests \/ DropOld \/ CreateNew \/ RebuildRuns \/ RebuildHistory
    \/ Reindex \/ BackfillClaimNorms \/ VerifySchema \/ Copy

Next == Proceed \/ StatementThrows \/ Write \/ Crash

Spec == Init /\ [][Next]_vars
\* A boot runs to its end, and whoever started the process starts it again.
FairSpec == Spec /\ WF_vars(Proceed)

(***************************************************************************)
(* Properties.                                                             *)
(***************************************************************************)
\* Every column holds a value of its type, a process that is not booting has
\* nothing left to run, and the index knows only claims that are there.
TypeOK ==
    /\ era \in [Files -> Eras] /\ exists \in [Files -> BOOLEAN]
    /\ form \in [DOMAIN Parts -> {"none", "old", "now"}]
    /\ \A r \in rows : exists[FileOf(r)]
    /\ phase \in {"down", "boot", "up"} /\ (phase # "boot" => todo = <<>>)
    /\ legacy \subseteq LegacyRows /\ reported \in BOOLEAN /\ rebuilt \in BOOLEAN

\* Whatever the files were and wherever earlier boots stopped, a core that
\* listens has what its queries assume: the present form of every table, column,
\* trigger and index, but for the index of the runs in a boot that rebuilt their
\* table; no claim without norms or missing from the full-text index, and no run
\* in a state nothing leaves (openDatabase, migrateColumns, migrateAgentRuns).
OpenIsCurrent ==
    phase = "up" =>
        /\ \A p \in DOMAIN Parts : form[p] = "now" \/ (p = "runs_index" /\ rebuilt)
        /\ \A r \in Claims : r.is = "normed" /\ r.from \in lexicon
        /\ \A r \in rows : r.is # "running"

\* The schema has every index, so a core that listens has them all. It does not
\* in the boot that upgrades an M9a file (database.ts, migrateAgentRuns).
OpenHasEveryIndex == phase = "up" => \A p \in Indexes : form[p] = "now"

\* No boot, rebuild or crash loses a row: what is in a file stays in it, in the
\* state it had or as the failed run it was, but for parks nobody can authorise
\* (migrateToolRequests, migrateAgentRuns, migrateClaimHistoryTransitions).
RowsSurvive ==
    [][\A r \in rows :
          \/ ~Actionable(r)
          \/ \E k \in rows' :
                /\ <<k.of, k.from, k.was>> = <<r.of, r.from, r.was>>
                /\ k.is = r.is \/ <<r.is, k.is>> \in {<<"running", "failed">>, <<"blank", "normed">>}]_vars

\* Once crashes and errors are over the core comes up and stays up, on files of
\* any release but M10b, however many boots stopped in the middle before.
ComesUp == era["memories"] # 8 => <>[](phase = "up")

\* The migration's own words: "live claim files predate conflict-lookup columns",
\* so files of every release are opened (database.ts, migrateColumns).
EveryReleaseOpens == <>[](phase = "up")

\* "Non-fatal errors; the legacy file is never modified, so a retry is safe": a
\* boot that reports no error leaves what the single file held in files that
\* were made from it (migrateLegacyDatabase).
RetryIsSafe ==
    phase = "up" /\ ~reported =>
        \A r \in legacy : era[FileOf(r)] = 0 => r \in rows
=============================================================================
