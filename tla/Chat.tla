-------------------------------- MODULE Chat --------------------------------
(* One browser tab talking to the core: the conversation store, the event   *)
(* streams of its turns, commands and resumes, and on the other side the    *)
(* sessions, their transcripts and the turns parked on an approval.         *)
(*                                                                          *)
(* The page is single-threaded and a stream delivers its events in order,   *)
(* but streams, clicks and timers interleave, and what the page knows of a  *)
(* turn is what the events delivered so far have said. The bubble and the   *)
(* messages on the screen are not modelled, nor which cards the lists show: *)
(* a card may be on the screen from the moment its approval was minted.     *)
(*                                                                          *)
(* The row of the run is not kept here: whether a resume plans on, answers  *)
(* the step by itself or turns to a later record of the same message is     *)
(* open wherever AgentRun has a run for each.                               *)
EXTENDS Naturals, Sequences, FiniteSets, SequencesExt

CONSTANTS
    MaxTurns,       \* bound: request ids; a turn that goes on after a tool takes another
    Sessions,
    Existing,       \* the sessions there are when the page is loaded
    NoSession,
    MaxClicks,      \* bound: calls of resolveApproval under way at a time
    Commands,       \* among "new", "fork", "undo"
    MaxStreams,     \* bound: event streams open at a time
    MaxPolls,       \* MAX_PROCESSING_RESUMES
    MaxEvents,      \* bound: what the user, another tab or the clock does
    MaxFaults       \* bound: broken streams, crashes, appends that throw

ASSUME ChatAssumption ==
    /\ Existing \subseteq Sessions
    /\ NoSession \notin Sessions
    /\ Commands \subseteq {"new", "fork", "undo"}
    /\ MaxTurns \in Nat /\ MaxClicks \in Nat
    /\ MaxStreams \in Nat \ {0} /\ MaxPolls \in Nat
    /\ MaxEvents \in Nat /\ MaxFaults \in Nat

VARIABLES
    session,    \* page: the open session
    busy,       \* page: a message is being answered
    parked,     \* page: pendingResumes, the session to resume a turn in
    timers,     \* page: scheduled polls of running turns
    clicks,     \* page: calls of resolveApproval under way
    streams,    \* event streams: undelivered events, and what the core still does
    exists,     \* core: sessions
    log,        \* core: the messages of each session
    turn,       \* core: the durable record of each turn
    approval,   \* core: the approval of each turn
    parkings, resumes, \* history variables: how often a turn was parked, and resumed by a click
    events, faults

vars == <<session, busy, parked, timers, clicks, streams, exists, log, turn, approval,
          parkings, resumes, events, faults>>
page == <<session, busy, parked, timers, clicks, parkings, resumes>>
core == <<exists, log, turn, approval>>

Ids == 1..MaxStreams
Turns == 1..MaxTurns
Clicks == 1..MaxClicks
NoTurn == 0

Free == [kind |-> "free", cmd |-> "none", turn |-> NoTurn, sess |-> NoSession, polls |-> 0,
         doing |-> "nothing", heard |-> TRUE, sent |-> <<>>]
\* msg: the record of the message that a record is a step of.
Unknown == [state |-> "none", home |-> NoSession, msg |-> NoTurn]

\* Ids are taken in order.
Fresh(r) == turn[r] = Unknown /\ \A q \in Turns : q < r => turn[q] # Unknown

Idle == [pc |-> "idle", turn |-> NoTurn, decision |-> "none", sess |-> NoSession]
Answered(r) == [Idle EXCEPT !.pc = "answered", !.turn = r]

Init ==
    /\ exists = Existing /\ session \in exists \cup {NoSession}
    /\ busy = FALSE /\ timers = {}
    /\ parked = [r \in Turns |-> NoSession]
    /\ clicks = [c \in Clicks |-> Idle]
    /\ streams = [i \in Ids |-> Free]
    /\ log = [s \in Sessions |-> <<>>]
    /\ turn = [r \in Turns |-> Unknown]
    /\ approval = [r \in Turns |-> "none"]
    /\ parkings = [r \in Turns |-> 0] /\ resumes = [r \in Turns |-> 0]
    /\ events = 0 /\ faults = 0

Event == events < MaxEvents /\ events' = events + 1
Fault == faults < MaxFaults /\ faults' = faults + 1

-----------------------------------------------------------------------------
(* streams *)

Open(i, stream) ==
    /\ streams[i].kind = "free" /\ \A j \in Ids : j < i => streams[j].kind # "free"
    /\ streams' = [streams EXCEPT ![i] = stream]

\* streamTurn, resumeTurn: the request is on its way.
Request(kind, cmd, r, s, polls) ==
    [Free EXCEPT !.kind = kind, !.cmd = cmd, !.turn = r, !.sess = s, !.polls = polls,
                 !.doing = "asked"]

\* sse: what is emitted to a page that is gone is dropped.
Say(i, doing, said) ==
    streams' = [streams EXCEPT ![i].doing = doing,
                               ![i].sent = IF streams[i].heard THEN @ \o said ELSE @]

Meta(s) == [type |-> "meta", sess |-> s, turn |-> NoTurn, status |-> "none"]
Done(r, status) == [type |-> "done", sess |-> NoSession, turn |-> r, status |-> status]
Error == [type |-> "error", sess |-> NoSession, turn |-> NoTurn, status |-> "none"]

-----------------------------------------------------------------------------
(* the user *)

\* Bound: a request that makes a session is sent while one is left for it.
SessionLeft ==
    Cardinality(Sessions \ exists) >
        Cardinality({i \in Ids : streams[i].doing = "asked" /\ streams[i].kind # "resume"})

Send(r, i) ==
    /\ Event /\ ~busy /\ Fresh(r)
    /\ session # NoSession \/ SessionLeft
    /\ Open(i, Request("turn", "none", r, session, 0))
    /\ busy' = TRUE
    /\ turn' = [turn EXCEPT ![r].state = "sent"]
    /\ UNCHANGED <<session, parked, timers, clicks, parkings, resumes, exists, log, approval, faults>>

SendCommand(cmd, i) ==
    /\ Event /\ ~busy
    /\ cmd = "undo" \/ SessionLeft
    /\ Open(i, Request("command", cmd, NoTurn, session, 0))
    /\ busy' = TRUE
    /\ UNCHANGED <<session, parked, timers, clicks, parkings, resumes, core, faults>>

\* openSession and newSession: nothing under way is given up.
Switch(s) ==
    /\ Event /\ s \in exists \cup {NoSession} /\ s # session
    /\ session' = s
    /\ UNCHANGED <<busy, parked, timers, clicks, parkings, resumes, streams, core, faults>>

\* resolveApproval posts the decision, under the session that is open, if any.
Click(c, r, decision) ==
    /\ Event /\ clicks[c] = Idle /\ \A b \in Clicks : b < c => clicks[b] # Idle
    /\ approval[r] # "none"
    /\ clicks' = [clicks EXCEPT ![c] =
           IF session = NoSession THEN Answered(r)
           ELSE [pc |-> "posted", turn |-> r, decision |-> decision, sess |-> session]]
    /\ UNCHANGED <<session, busy, parked, timers, parkings, resumes, streams, core, faults>>

\* The core resolves a pending approval for its own session and refuses
\* anything else; either way the page goes on.
Resolve(c) ==
    LET k == clicks[c] IN
    /\ k.pc = "posted"
    /\ approval' = IF approval[k.turn] = "pending" /\ turn[k.turn].home = k.sess
                   THEN [approval EXCEPT ![k.turn] = k.decision] ELSE approval
    /\ clicks' = [clicks EXCEPT ![c] = Answered(k.turn)]
    /\ UNCHANGED <<session, busy, parked, timers, parkings, resumes, streams, exists, log, turn,
                   events, faults>>

\* Mutant: the entry is deleted once the resumed stream has ended.
UnparkLater(c, i) ==
    LET r == clicks[c].turn IN
    /\ clicks[c].pc = "answered"
    /\ IF parked[r] = NoSession THEN UNCHANGED <<streams, resumes>>
       ELSE /\ Open(i, Request("resume", "none", r, parked[r], 0))
            /\ resumes' = [resumes EXCEPT ![r] = @ + 1]
    /\ clicks' = [clicks EXCEPT ![c] = Idle]
    /\ UNCHANGED <<session, busy, parked, timers, parkings, core, events, faults>>

\* The rest of resolveApproval: a parked turn is taken out and resumed.
Unpark(c, i) ==
    LET r == clicks[c].turn IN
    /\ clicks[c].pc = "answered"
    /\ IF parked[r] = NoSession THEN UNCHANGED <<streams, parked, resumes>>
       ELSE /\ Open(i, Request("resume", "none", r, parked[r], 0))
            /\ parked' = [parked EXCEPT ![r] = NoSession]
            /\ resumes' = [resumes EXCEPT ![r] = @ + 1]
    /\ clicks' = [clicks EXCEPT ![c] = Idle]
    /\ UNCHANGED <<session, busy, timers, parkings, core, events, faults>>

\* Another tab, or the clock, resolves the approval.
ResolveElsewhere(r, decision) ==
    /\ Event /\ approval[r] = "pending"
    /\ approval' = [approval EXCEPT ![r] = decision]
    /\ UNCHANGED <<page, streams, exists, log, turn, faults>>

\* Another tab resumes an approved turn.
ExecuteElsewhere(r) ==
    /\ Event /\ turn[r].state = "parked" /\ approval[r] = "approved"
    /\ turn' = [turn EXCEPT ![r].state = "running"]
    /\ UNCHANGED <<page, streams, exists, log, approval, faults>>

-----------------------------------------------------------------------------
(* the core *)

Claimed(r) == \E s \in Sessions : \E n \in DOMAIN log[s] : log[s][n].turn = r

Row(r, role) == [turn |-> r, role |-> role, excluded |-> FALSE]

\* persistTurn: only the winner of the transcript claim appends.
Persist(r, s) ==
    log' = IF Claimed(r) THEN log
           ELSE [log EXCEPT ![s] = @ \o <<Row(r, "user"), Row(r, "assistant")>>]

\* converseStream: the session is resolved or created before anything is said.
Arrive(i) ==
    /\ streams[i].kind = "turn" /\ streams[i].doing = "asked"
    /\ \E s \in IF streams[i].sess = NoSession THEN Sessions \ exists ELSE {streams[i].sess} :
           /\ exists' = exists \cup {s}
           /\ turn' = [turn EXCEPT ![streams[i].turn] =
                  [state |-> "running", home |-> s, msg |-> streams[i].turn]]
           /\ Say(i, "planning", <<Meta(s)>>)
    /\ UNCHANGED <<page, log, approval, events, faults>>

\* What stream i plans next is stored as record q: its own, or, when it resumed
\* one, a record of its own in the same message.
Stores(i, q) ==
    /\ streams[i].doing = "planning"
    /\ IF streams[i].kind = "turn" THEN q = streams[i].turn ELSE Fresh(q)
Step(i, state) ==
    [state |-> state, home |-> turn[streams[i].turn].home, msg |-> turn[streams[i].turn].msg]

\* The final call of a step ends in an answer or in a notice that it failed.
Finals(i, q) == streams[i].doing = "answering" /\ q = streams[i].turn

Complete(i, q) ==
    /\ Stores(i, q) \/ Finals(i, q)
    /\ turn' = [turn EXCEPT ![q] = Step(i, "done")]
    /\ Persist(q, turn[streams[i].turn].home)
    /\ Say(i, "nothing", <<Done(q, "ok")>>)
    /\ UNCHANGED <<page, exists, approval, events, faults>>

\* A step needs an approval.
Park(i, q) ==
    /\ Stores(i, q)
    /\ turn' = [turn EXCEPT ![q] = Step(i, "parked")]
    /\ approval' = [approval EXCEPT ![q] = "pending"]
    /\ Say(i, "nothing", <<Done(q, "approval_required")>>)
    /\ UNCHANGED <<page, exists, log, events, faults>>

\* The model fails, and what was resumed stays as it is; or the outcome of the
\* tool cannot be stored.
Fail(i) ==
    /\ streams[i].doing \in {"planning", "running"}
    /\ turn' = IF streams[i].doing = "running" THEN [turn EXCEPT ![streams[i].turn].state = "unknown"]
               ELSE IF streams[i].kind = "turn" THEN [turn EXCEPT ![streams[i].turn].state = "failed"]
               ELSE turn
    /\ Say(i, "nothing", <<Error>>)
    /\ UNCHANGED <<page, exists, log, approval, events, faults>>

\* An append throws after the claim: the turn keeps only what was written.
CutShort(i, q) ==
    LET home == turn[streams[i].turn].home IN
    /\ Stores(i, q) \/ Finals(i, q)
    /\ Fault /\ ~Claimed(q)
    /\ turn' = [turn EXCEPT ![q] = Step(i, "done")]
    /\ log' = [log EXCEPT ![home] = Append(@, Row(q, "user"))]
    /\ Say(i, "nothing", <<Error>>)
    /\ UNCHANGED <<page, exists, approval, events>>

\* The tool of another tab's resume returns: the answer is stored under a
\* record q of its own, under r, or not at all.
CompleteElsewhere(r, q) ==
    /\ turn[r].state = "running" /\ approval[r] # "none"
    /\ \A i \in Ids : ~(streams[i].doing = "running" /\ streams[i].turn = r)
    /\ \/ /\ turn' = [turn EXCEPT ![r].state = "ran"]
          /\ UNCHANGED log
       \/ /\ q = r
          /\ turn' = [turn EXCEPT ![r].state = "done"]
          /\ Persist(r, turn[r].home)
       \/ /\ Fresh(q)
          /\ turn' = [turn EXCEPT ![r].state = "ran", ![q] = [turn[r] EXCEPT !.state = "done"]]
          /\ Persist(q, turn[r].home)
    /\ UNCHANGED <<page, streams, exists, approval, events, faults>>

Resuming(i) == streams[i].kind = "resume" /\ streams[i].doing = "asked"
Owned(i) == turn[streams[i].turn].home = streams[i].sess

\* resumeStream: a record of another session is refused, after the meta event.
Refuse(i) ==
    /\ Resuming(i) /\ ~Owned(i)
    /\ Say(i, "nothing", <<Meta(streams[i].sess), Error>>)
    /\ UNCHANGED <<page, core, events, faults>>

Approved(r) == turn[r].state = "parked" /\ approval[r] = "approved"
Rejected(r) == turn[r].state = "parked" /\ approval[r] = "rejected"

\* An approved step is executed by the resume that comes first.
Resume(i) ==
    LET r == streams[i].turn IN
    /\ Resuming(i) /\ Owned(i)
    /\ turn' = IF Approved(r) THEN [turn EXCEPT ![r].state = "running"] ELSE turn
    /\ Say(i, IF Approved(r) THEN "running" ELSE "settling", <<Meta(streams[i].sess)>>)
    /\ UNCHANGED <<page, exists, log, approval, events, faults>>

ToolReturns(i) ==
    /\ streams[i].doing = "running"
    /\ turn' = [turn EXCEPT ![streams[i].turn].state = "ran"]
    /\ Say(i, "settling", <<>>)
    /\ UNCHANGED <<page, exists, log, approval, events, faults>>

\* resumeStream goes on from what the tool, or the rejection, came to.
Plan(i) ==
    LET r == streams[i].turn IN
    /\ streams[i].doing = "settling"
    /\ turn[r].state \in {"ran", "answering", "done"} \/ Rejected(r)
    /\ Say(i, "planning", <<>>)
    /\ UNCHANGED <<page, core, events, faults>>

\* settleResumeRecord: the record itself, or a later one of the same message.
Targets(r) == {r} \cup {t \in Turns : t > r /\ turn[t].msg = turn[r].msg}

\* What the record answers at once: still waiting, still running, or settled.
Answer(i, t) ==
    /\ streams[i].doing = "settling" /\ t \in Targets(streams[i].turn)
    /\ \/ /\ turn[t].state = "parked" /\ approval[t] = "pending"
          /\ Say(i, "nothing", <<Done(t, "approval_required")>>)
          /\ UNCHANGED <<turn, log>>
       \/ /\ turn[t].state \in {"running", "answering", "unknown"}
          /\ Say(i, "nothing", <<Done(t, "processing")>>)
          /\ UNCHANGED <<turn, log>>
       \/ /\ turn[t].state = "done" \/ Rejected(t)
          /\ turn' = [turn EXCEPT ![t].state = "done"]
          /\ Persist(t, turn[t].home)
          /\ Say(i, "nothing", <<Done(t, "ok")>>)
    /\ UNCHANGED <<page, exists, approval, events, faults>>

\* What it has to do first: the final call for a tool that has run, or the tool.
Finalize(i, t) ==
    /\ streams[i].doing = "settling" /\ t \in Targets(streams[i].turn)
    /\ \/ /\ turn[t].state = "ran"
          /\ turn' = [turn EXCEPT ![t].state = "answering"]
          /\ streams' = [streams EXCEPT ![i].turn = t, ![i].doing = "answering"]
       \/ /\ Approved(t)
          /\ turn' = [turn EXCEPT ![t].state = "running"]
          /\ streams' = [streams EXCEPT ![i].turn = t, ![i].doing = "running"]
    /\ UNCHANGED <<page, exists, log, approval, events, faults>>

\* Mutant: the answer stays in the context.
ExcludeUserOnly(s) ==
    LET users == {n \in DOMAIN log[s] : log[s][n].role = "user" /\ ~log[s][n].excluded}
        last == CHOOSE n \in users : \A m \in users : m <= n
    IN  log' = IF users = {} THEN log ELSE [log EXCEPT ![s][last].excluded = TRUE]

\* excludeLastTurn: from the last user message in context to the next user
\* message.
ExcludeLastTurn(s) ==
    LET users == {n \in DOMAIN log[s] : log[s][n].role = "user" /\ ~log[s][n].excluded}
        last == CHOOSE n \in users : \A m \in users : m <= n
        inTurn(n) == n >= last /\ \A m \in last + 1 .. n : log[s][m].role # "user"
    IN  log' = IF users = {} THEN log
               ELSE [log EXCEPT ![s] = [n \in DOMAIN @ |->
                        IF inTurn(n) THEN [@[n] EXCEPT !.excluded = TRUE] ELSE @[n]]]

\* A command answers at once; /fork and /undo need a session, /new makes one.
RunCommand(i) ==
    LET s == streams[i].sess IN
    /\ streams[i].kind = "command" /\ streams[i].doing = "asked"
    /\ \/ /\ streams[i].cmd # "new" /\ s = NoSession
          /\ Say(i, "nothing", <<Error>>)
          /\ UNCHANGED <<exists, log>>
       \/ /\ streams[i].cmd = "undo" /\ s # NoSession
          /\ ExcludeLastTurn(s)
          /\ Say(i, "nothing", <<Meta(s), Done(NoTurn, "command")>>)
          /\ UNCHANGED exists
       \/ \E new \in Sessions \ exists :
          /\ streams[i].cmd = "new" \/ (streams[i].cmd = "fork" /\ s # NoSession)
          /\ exists' = exists \cup {new}
          /\ log' = IF streams[i].cmd = "fork" THEN [log EXCEPT ![new] = log[s]] ELSE log
          /\ Say(i, "nothing", <<Meta(new), Done(NoTurn, "session")>>)
    /\ UNCHANGED <<page, turn, approval, events, faults>>

-----------------------------------------------------------------------------
(* the page hears *)

\* Mutant: the poll that goes on keeps its count.
PollAgain(r, polls) ==
    timers' = IF polls < MaxPolls /\ session # NoSession
              THEN timers \cup {[turn |-> r, sess |-> session, polls |-> polls]} ELSE timers

\* scheduleProcessingPoll
Poll(r, polls) ==
    timers' = IF polls < MaxPolls /\ session # NoSession
              THEN timers \cup {[turn |-> r, sess |-> session, polls |-> polls + 1]}
              ELSE timers

\* handleEvent: the session that is open when a done event arrives is the one a
\* turn is parked or polled under.
Deliver(i) ==
    LET e == Head(streams[i].sent) IN
    /\ streams[i].sent # <<>>
    /\ streams' = [streams EXCEPT ![i].sent = Tail(@)]
    /\ session' = IF e.type = "meta" THEN e.sess ELSE session
    /\ IF e.status = "approval_required" /\ session # NoSession
       THEN /\ parked' = [parked EXCEPT ![e.turn] = session]
            /\ parkings' = [parkings EXCEPT ![e.turn] = @ + 1]
       ELSE UNCHANGED <<parked, parkings>>
    /\ IF e.status = "processing" THEN Poll(e.turn, streams[i].polls) ELSE UNCHANGED timers
    /\ UNCHANGED <<busy, clicks, resumes, core, events, faults>>

\* The stream has been read to its end: sendMessage frees the composer.
Close(i) ==
    /\ streams[i].kind # "free" /\ streams[i].doing = "nothing" /\ streams[i].sent = <<>>
    /\ streams' = [streams EXCEPT ![i] = Free]
    /\ busy' = IF streams[i].kind # "resume" /\ streams[i].heard THEN FALSE ELSE busy
    /\ UNCHANGED <<session, parked, timers, clicks, parkings, resumes, core, events, faults>>

TimerFires(t, i) ==
    /\ t \in timers /\ timers' = timers \ {t}
    /\ Open(i, Request("resume", "none", t.turn, t.sess, t.polls))
    /\ UNCHANGED <<session, busy, parked, clicks, parkings, resumes, core, events, faults>>

-----------------------------------------------------------------------------
(* faults *)

\* The connection of a stream breaks: the page reports an error, the core goes
\* on and what it says is lost.
Break(i) ==
    /\ streams[i].kind # "free" /\ streams[i].heard /\ Fault
    /\ streams' = [streams EXCEPT ![i].heard = FALSE, ![i].sent = <<>>]
    /\ busy' = IF streams[i].kind # "resume" THEN FALSE ELSE busy
    /\ UNCHANGED <<session, parked, timers, clicks, parkings, resumes, core, events>>

\* The core dies: every stream breaks, a turn in the model's hands is lost, and
\* one whose tool or final call was running has no outcome any more.
Crash ==
    /\ Fault /\ \E i \in Ids : streams[i].kind # "free"
    /\ streams' = [i \in Ids |-> Free] /\ busy' = FALSE
    /\ turn' = [r \in Turns |->
           IF turn[r].state = "sent" \/ (turn[r].state = "running" /\ approval[r] = "none")
           THEN [turn[r] EXCEPT !.state = "failed"]
           ELSE IF turn[r].state \in {"running", "answering"} THEN [turn[r] EXCEPT !.state = "unknown"]
           ELSE turn[r]]
    /\ UNCHANGED <<session, parked, timers, clicks, parkings, resumes, exists, log, approval, events>>

-----------------------------------------------------------------------------

Acts ==
    \/ \E r \in Turns, i \in Ids : Send(r, i)
    \/ \E cmd \in Commands, i \in Ids : SendCommand(cmd, i)
    \/ \E s \in Sessions \cup {NoSession} : Switch(s)
    \/ \E c \in Clicks, r \in Turns, d \in {"approved", "rejected"} : Click(c, r, d)
    \/ \E r \in Turns, d \in {"approved", "rejected"} : ResolveElsewhere(r, d)
    \/ \E r \in Turns : ExecuteElsewhere(r)

Serve(i) ==
    \/ Arrive(i) \/ Fail(i) \/ Refuse(i) \/ Resume(i) \/ ToolReturns(i) \/ Plan(i) \/ RunCommand(i)
    \/ \E q \in Turns : Complete(i, q) \/ Park(i, q) \/ Answer(i, q) \/ Finalize(i, q)

Hear(i) == Deliver(i) \/ Close(i)

Next ==
    \/ Acts \/ Crash
    \/ \E r, q \in Turns : CompleteElsewhere(r, q)
    \/ \E i \in Ids : Serve(i) \/ Hear(i) \/ Break(i) \/ \E q \in Turns : CutShort(i, q)
    \/ \E c \in Clicks : Resolve(c) \/ \E i \in Ids : Unpark(c, i)
    \/ \E t \in timers, i \in Ids : TimerFires(t, i)

\* The core answers what it is asked, though a tool may run for ever, and the
\* page handles what arrives.
Spec ==
    /\ Init /\ [][Next]_vars
    /\ \A i \in Ids : WF_vars(Hear(i) \/ (streams[i].doing # "running" /\ Serve(i)))
    /\ \A c \in Clicks : WF_vars(Resolve(c) \/ \E i \in Ids : Unpark(c, i))
    /\ WF_vars(\E t \in timers, i \in Ids : TimerFires(t, i))

-----------------------------------------------------------------------------

Streams == [kind : {"free", "turn", "command", "resume"}, cmd : {"none"} \cup Commands,
            turn : Turns \cup {NoTurn}, sess : Sessions \cup {NoSession}, polls : 0..MaxPolls,
            doing : {"nothing", "asked", "running", "settling", "planning", "answering"}, heard : BOOLEAN,
            sent : Seq([type : {"meta", "done", "error"}, sess : Sessions \cup {NoSession},
                        turn : Turns \cup {NoTurn},
                        status : {"none", "ok", "approval_required", "processing", "command", "session"}])]

TypeOK ==
    /\ session \in Sessions \cup {NoSession} /\ busy \in BOOLEAN
    /\ parked \in [Turns -> Sessions \cup {NoSession}]
    /\ timers \subseteq [turn : Turns, sess : Sessions, polls : 1..MaxPolls]
    /\ clicks \in [Clicks -> [pc : {"idle", "posted", "answered"}, turn : Turns \cup {NoTurn},
                              decision : {"none", "approved", "rejected"},
                              sess : Sessions \cup {NoSession}]]
    /\ \A i \in Ids : streams[i] \in Streams
    /\ exists \subseteq Sessions
    /\ \A s \in Sessions : \A n \in DOMAIN log[s] :
           log[s][n] \in [turn : Turns, role : {"user", "assistant"}, excluded : BOOLEAN]
    /\ turn \in [Turns -> [state : {"none", "sent", "running", "parked", "ran", "answering", "done",
                                    "failed", "unknown"},
                           home : Sessions \cup {NoSession}, msg : Turns \cup {NoTurn}]]
    /\ approval \in [Turns -> {"none", "pending", "approved", "rejected"}]
    /\ parkings \in [Turns -> Nat] /\ resumes \in [Turns -> Nat]
    /\ events \in 0..MaxEvents /\ faults \in 0..MaxFaults

\* However many streams render a turn, a transcript and its forks hold it once,
\* and /undo takes a question out of the context together with its answer.
TranscriptIsWhole ==
    \A s \in Sessions : \A n \in DOMAIN log[s] :
        /\ \A m \in DOMAIN log[s] :
               log[s][m].turn = log[s][n].turn /\ log[s][m].role = log[s][n].role => m = n
        /\ log[s][n].role = "assistant" =>
               n > 1 /\ log[s][n - 1] = [log[s][n] EXCEPT !.role = "user"]

\* Clicks on a card, several of them under way at once or not, resume a turn at
\* most once for each time a stream parked it.
ResumedOncePerParking == \A r \in Turns : resumes[r] <= parkings[r]

\* Once the user is done, and whatever breaks and however long a tool runs, the
\* composer is free and no turn is polled any more.
PageComesToRest == <>[](~busy /\ timers = {})

\* A turn is parked under its own session, so that approving or rejecting its
\* card resumes it.
ParkedUnderOwnSession ==
    \A r \in Turns : parked[r] # NoSession => parked[r] = turn[r].home
=============================================================================
