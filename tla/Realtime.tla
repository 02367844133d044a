------------------------------ MODULE Realtime ------------------------------
(* How a page keeps up with the core: the realtime gateway that notifies    *)
(* sockets by room, the socket lifecycle of the page, the REST reads its     *)
(* frames start, and the clarifications those reads show.                    *)
(*                                                                          *)
(* A frame says that something changed and never what (except health, left  *)
(* out): the page reads the list again. So what matters about a list is     *)
(* whether it changed since the page last read it. Two reads under way that *)
(* have the same lists left to read are one read. Backoff delays, heartbeat *)
(* and health frames, and refused handshakes (a connection that is cut) are *)
(* not told apart.                                                          *)
EXTENDS Naturals, Sequences, FiniteSets, SequencesExt

CONSTANTS
    Sessions,
    NoSession,
    MaxSockets,     \* bound: sockets of the page at a time
    Shown,          \* bound: the lists followed, others read nothing here
    Visited,        \* bound: the session of the questions that are open at first
    Cards,          \* clarification requests
    NoCard,
    Callers,        \* bound: HTTP calls that answer or cancel, at a time
    Page,           \* the caller that is the page itself
    MaxEvents,      \* bound: what users, other clients and clocks do
    MaxFaults       \* bound: cut connections, dropped frames, failed reads

ASSUME RealtimeAssumption ==
    /\ Shown \subseteq {"sessions", "review", "approvals", "questions"}
    /\ NoSession \notin Sessions /\ NoCard \notin Cards
    /\ Page \in Callers /\ Visited \in Sessions
    /\ MaxSockets \in Nat \ {0} /\ MaxEvents \in Nat /\ MaxFaults \in Nat

VARIABLES
    sock,       \* both ends of each socket and what is on its way
    current,    \* page: this.socket
    timer,      \* page: retryTimer is armed
    connected,  \* page: the connected signal
    tracked,    \* page: trackedSessionId
    session,    \* page: the store's open session
    searching,  \* page: the sidebar shows search results
    reads,      \* page: refreshes under way
    card,       \* core: clarifications
    trail,      \* core: clarification_events
    call,       \* core: answer and cancel requests
    behind,     \* lists that changed since the page last read them
    excused,    \* among them, those no frame or answer told the page of
    events, faults

vars == <<sock, current, timer, connected, tracked, session, searching, reads,
          card, trail, call, behind, excused, events, faults>>
page == <<current, timer, connected, tracked, session, searching>>
core == <<card, trail, call>>

Sockets == 1..MaxSockets
NoSocket == 0
Unused == [page |-> "none", link |-> "up", registered |-> FALSE, room |-> NoSession,
           up |-> <<>>, down |-> <<>>]
IdleCall == [pc |-> "idle", card |-> NoCard, to |-> "none", sess |-> NoSession]

Rooms == {"approvals", "questions"}
Topics == {"sessions", "review"} \cup Rooms
List(topic, s) == [topic |-> topic, sess |-> IF topic \in Rooms THEN s ELSE NoSession]

Unborn == [status |-> "none", home |-> NoSession, due |-> FALSE]

\* The dashboard has called start(); questions of earlier visits may be open.
Init ==
    /\ sock = [i \in Sockets |-> IF i = 1 THEN [Unused EXCEPT !.page = "connecting"] ELSE Unused]
    /\ current = 1 /\ timer = FALSE /\ connected = FALSE
    /\ tracked = NoSession /\ session = NoSession /\ searching = FALSE
    /\ reads = {}
    /\ card \in [Cards -> {Unborn, [status |-> "pending", home |-> Visited, due |-> FALSE]}]
    /\ trail = [c \in Cards |-> IF card[c] = Unborn THEN <<>> ELSE <<"created">>]
    /\ call = [k \in Callers |-> IdleCall]
    /\ behind = {} /\ excused = {}
    /\ events = 0 /\ faults = 0

Event == events < MaxEvents /\ events' = events + 1 /\ UNCHANGED faults
Fault == faults < MaxFaults /\ faults' = faults + 1 /\ UNCHANGED events
Free == UNCHANGED <<events, faults>>

-----------------------------------------------------------------------------
(* reading lists *)

\* refreshSessions, refreshApprovals and refreshQuestions have nothing to do.
Skipped(topic) ==
    \/ topic \notin Shown \cup {"other", "track"}
    \/ topic = "sessions" /\ searching
    \/ topic \in Rooms /\ session = NoSession

\* The refreshes left, up to the first that reads something.
Left(todo) ==
    LET live == {n \in 1..Len(todo) : ~Skipped(todo[n])}
    IN  IF live = {} THEN <<>>
        ELSE SubSeq(todo, CHOOSE n \in live : \A m \in live : n <= m, Len(todo))

\* The session is read when the refresh begins, the list when the core answers.
Asked(todo) ==
    IF todo = <<>> THEN {}
    ELSE {[todo |-> todo, sess |-> IF Head(todo) \in Rooms THEN session ELSE NoSession,
           at |-> IF Head(todo) = "other" THEN "answered" ELSE "asked"]}
Begin(todo) == Asked(Left(todo))

Observed(c) ==
    IF card[c].status = "pending" /\ card[c].due THEN [card[c] EXCEPT !.status = "expired"]
    ELSE card[c]
Noted(c) == IF Observed(c) = card[c] THEN trail[c] ELSE Append(trail[c], "expired")

\* The core answers; listClarifications expires what lapsed in the session.
Serve(r) ==
    LET list == List(Head(r.todo), r.sess)
        Read(c) == list.topic = "questions" /\ card[c].home = list.sess
    IN  /\ r.at = "asked"
        /\ reads' = (reads \ {r}) \cup {[r EXCEPT !.at = "answered"]}
        /\ behind' = behind \ {list} /\ excused' = excused \ {list}
        /\ card' = [c \in Cards |-> IF Read(c) THEN Observed(c) ELSE card[c]]
        /\ trail' = [c \in Cards |-> IF Read(c) THEN Noted(c) ELSE trail[c]]
        /\ Free /\ UNCHANGED <<page, sock, call>>

ServeFails(r) ==
    /\ Fault /\ r.at = "asked"
    /\ reads' = (reads \ {r}) \cup {[r EXCEPT !.at = "answered"]}
    /\ excused' = excused \cup ({List(Head(r.todo), r.sess)} \cap behind)
    /\ UNCHANGED <<page, sock, core, behind>>

-----------------------------------------------------------------------------
(* the socket *)

\* Mutant: the store's session comes first.
TargetOfStore(t) == IF session # NoSession THEN session ELSE t

\* The explicitly tracked session, else the store's.
Target(t) == IF t # NoSession THEN t ELSE session

\* What is sent over a connection that is gone is lost.
Sent(i, s) == IF sock[i].link = "up" THEN [sock EXCEPT ![i].up = Append(@, s)] ELSE sock
Subscribed(i, t) == Sent(i, Target(t))
Up == current # NoSocket /\ sock[current].page = "open"
Resubscribed(t) == IF Up THEN Subscribed(current, t) ELSE sock

\* trackSession.
Track(s) == tracked' = s /\ sock' = Resubscribed(s)

Connect(i) ==
    /\ sock[i] = Unused /\ \A j \in Sockets : j < i => sock[j] # Unused
    /\ sock' = [sock EXCEPT ![i].page = "connecting"]
    /\ current' = i

RetryFires(i) ==
    /\ timer /\ Connect(i)
    /\ timer' = FALSE
    /\ Free /\ UNCHANGED <<connected, tracked, session, searching, reads, core, behind, excused>>

\* reconnect, on the browser's online and visibilitychange events.
Wake(i) ==
    /\ Event /\ ~Up /\ Connect(i)
    /\ UNCHANGED <<timer, connected, tracked, session, searching, reads, core, behind, excused>>

\* handleConnection.
Accept(i) ==
    /\ sock[i].page = "connecting" /\ sock[i].link = "up" /\ ~sock[i].registered
    /\ sock' = [sock EXCEPT ![i].registered = TRUE,
                            ![i].down = <<[type |-> "hello", sess |-> NoSession]>>]
    /\ Free /\ UNCHANGED <<page, reads, core, behind, excused>>

Opens(i) ==
    /\ sock[i].page = "connecting" /\ sock[i].link = "up" /\ sock[i].registered
    /\ sock' = [Subscribed(i, tracked) EXCEPT ![i].page = "open"]
    /\ Free /\ UNCHANGED <<page, reads, core, behind, excused>>

\* handleClientMessage: a subscription without a session keeps the room.
Subscribe(i) ==
    /\ sock[i].up # <<>>
    /\ sock' = [sock EXCEPT ![i].up = Tail(@),
                            ![i].room = IF Head(sock[i].up) = NoSession THEN @ ELSE Head(sock[i].up)]
    /\ Free /\ UNCHANGED <<page, reads, core, behind, excused>>

\* The connection is gone; each end learns of it in its own time.
Cut(i) ==
    /\ Fault /\ sock[i].page \in {"connecting", "open"} /\ sock[i].link = "up"
    /\ sock' = [sock EXCEPT ![i].link = "cut", ![i].up = <<>>, ![i].down = <<>>]
    /\ UNCHANGED <<page, reads, core, behind, excused>>

Settled(end) == IF end.page = "closed" /\ ~end.registered THEN Unused ELSE end

GatewayDrops(i) ==
    /\ sock[i].link = "cut" /\ sock[i].registered
    /\ sock' = [sock EXCEPT ![i] = Settled([@ EXCEPT !.registered = FALSE, !.room = NoSession])]
    /\ Free /\ UNCHANGED <<page, reads, core, behind, excused>>

\* Mutant: a handshake that is cut short is not retried.
PageClosesIfGreeted(i) ==
    /\ sock[i].link = "cut" /\ sock[i].page \in {"connecting", "open"}
    /\ sock' = [sock EXCEPT ![i] = Settled([@ EXCEPT !.page = "closed"])]
    /\ IF current = i
       THEN current' = NoSocket /\ connected' = FALSE /\ timer' = (timer \/ connected)
       ELSE UNCHANGED <<current, connected, timer>>
    /\ Free /\ UNCHANGED <<tracked, session, searching, reads, core, behind, excused>>

\* The close handler owns the state and the retry of the current socket only.
PageCloses(i) ==
    /\ sock[i].link = "cut" /\ sock[i].page \in {"connecting", "open"}
    /\ sock' = [sock EXCEPT ![i] = Settled([@ EXCEPT !.page = "closed"])]
    /\ IF current = i
       THEN current' = NoSocket /\ connected' = FALSE /\ timer' = TRUE
       ELSE UNCHANGED <<current, connected, timer>>
    /\ Free /\ UNCHANGED <<tracked, session, searching, reads, core, behind, excused>>

\* route: what a frame makes the page read, from whichever socket it comes.
Refreshes(type) ==
    CASE type = "hello" -> {<<"sessions", "approvals", "questions", "review">>}
      [] type = "approval" -> {<<"approvals">>, <<"review">>}
      [] type = "clarification" -> {<<"questions">>}
      [] type = "promotion" -> {<<"review">>}
      [] type = "session" -> {<<"sessions">>}

Receive(i) ==
    /\ sock[i].page = "open" /\ sock[i].down # <<>>
    /\ LET type == Head(sock[i].down).type
       IN  /\ reads' = reads \cup UNION {Begin(todo) : todo \in Refreshes(type)}
           /\ connected' = (connected \/ type = "hello")
    /\ sock' = [sock EXCEPT ![i].down = Tail(@)]
    /\ Free /\ UNCHANGED <<current, timer, tracked, session, searching, core, behind, excused>>

\* A refresh is over and the next begins; sendMessage tracks its session last.
Return(r) ==
    LET left == Left(Tail(r.todo))
    IN  /\ r.at = "answered"
        /\ IF left = <<"track">>
           THEN reads' = reads \ {r} /\ Track(session)
           ELSE reads' = (reads \ {r}) \cup Asked(left) /\ UNCHANGED <<sock, tracked>>
        /\ Free
        /\ UNCHANGED <<current, timer, connected, session, searching, core, behind, excused>>

\* The footer subscribes again at every health interval.
FooterTick ==
    /\ Up /\ sock[current].up = <<>> /\ sock[current].link = "up"
    /\ Target(tracked) \notin {NoSession, sock[current].room}
    /\ sock' = Resubscribed(tracked)
    /\ Free /\ UNCHANGED <<page, reads, core, behind, excused>>

-----------------------------------------------------------------------------
(* the user *)

OpenSession(s) ==
    /\ Event /\ s # session
    /\ Track(s)
    /\ session' = s
    /\ reads' = reads \cup Asked(<<"other", "approvals", "questions">>)
    /\ UNCHANGED <<current, timer, connected, searching, core, behind, excused>>

NewSession ==
    /\ Event /\ session # NoSession
    /\ session' = NoSession /\ tracked' = NoSession
    /\ sock' = IF Up THEN Sent(current, NoSession) ELSE sock
    /\ UNCHANGED <<current, timer, connected, searching, reads, core, behind, excused>>

\* One stream at a time: the refreshes after an earlier one may still go on. The
\* stream's meta event names the session of a first message.
SendMessage(s) ==
    /\ Event /\ session \in {NoSession, s}
    /\ \A r \in reads : ~(Head(r.todo) = "other" /\ Last(r.todo) = "track")
    /\ session' = s
    /\ reads' = reads \cup Asked(<<"other", "sessions", "approvals", "questions", "track">>)
    /\ UNCHANGED <<current, timer, connected, tracked, searching, sock, core, behind, excused>>

Search ==
    /\ Event /\ ~searching /\ searching' = TRUE
    /\ UNCHANGED <<current, timer, connected, tracked, session, sock, reads, core, behind, excused>>

ClearSearch ==
    /\ Event /\ searching /\ searching' = FALSE
    /\ reads' = reads \cup (IF "sessions" \in Shown THEN Asked(<<"sessions">>) ELSE {})
    /\ UNCHANGED <<current, timer, connected, tracked, session, sock, core, behind, excused>>

-----------------------------------------------------------------------------
(* the core *)

\* broadcast: a session's frames go to the sockets in its room.
Receivers(list, saturated) ==
    {i \in Sockets : /\ sock[i].registered /\ i \notin saturated
                     /\ list.sess = NoSession \/ sock[i].room = list.sess}

\* A list changed and the gateway says so; a saturated socket is passed over.
Publish(type, list, saturated) ==
    LET told == {i \in Receivers(list, saturated) : sock[i].link = "up"}
        reachable == {i \in Sockets : sock[i].registered /\ sock[i].link = "up"}
    IN  /\ sock' = [i \in Sockets |-> IF i \in told
               THEN [sock[i] EXCEPT !.down = Append(@, [type |-> type, sess |-> list.sess])]
               ELSE sock[i]]
        /\ behind' = behind \cup {list}
        /\ excused' = IF reachable # {} /\ told = {} THEN excused \cup {list} ELSE excused \ {list}

ListOf == [session |-> "sessions", promotion |-> "review", approval |-> "approvals"]

\* A turn ended, a promotion moved, an approval was created or resolved.
Changes(type, list, saturated) ==
    /\ events < MaxEvents /\ events' = events + 1
    /\ faults + Cardinality(saturated) <= MaxFaults /\ faults' = faults + Cardinality(saturated)
    /\ Publish(type, list, saturated)
    /\ UNCHANGED <<page, reads, core>>

CreateClarification(c, s) ==
    /\ Event /\ card[c].status = "none"
    /\ card' = [card EXCEPT ![c] = [status |-> "pending", home |-> s, due |-> FALSE]]
    /\ trail' = [trail EXCEPT ![c] = <<"created">>]
    /\ Publish("clarification", List("questions", s), {})
    /\ UNCHANGED <<page, reads, call>>

Lapse(c) ==
    /\ Event /\ card[c].status = "pending" /\ ~card[c].due
    /\ card' = [card EXCEPT ![c].due = TRUE]
    /\ UNCHANGED <<page, sock, reads, trail, call, behind, excused>>

\* The page posts for the session it has open, another client for any.
Post(k, c, to, s) ==
    /\ Event /\ call[k] = IdleCall /\ card[c].status # "none"
    /\ k = Page => s = session
    /\ call' = [call EXCEPT ![k] = [pc |-> "posted", card |-> c, to |-> to, sess |-> s]]
    /\ UNCHANGED <<page, sock, reads, card, trail, behind, excused>>

\* ClarificationService looks before the repository decides.
Look(k) ==
    LET c == call[k].card
    IN  /\ call[k].pc = "posted"
        /\ card' = [card EXCEPT ![c] = Observed(c)] /\ trail' = [trail EXCEPT ![c] = Noted(c)]
        /\ call' = [call EXCEPT ![k].pc = IF card[c].home = call[k].sess THEN "seen" ELSE "over"]
        /\ Free /\ UNCHANGED <<page, sock, reads, behind, excused>>

\* Mutant: the row is written without a second look.
RuleUnchecked(k) ==
    LET c == call[k].card
    IN  /\ call[k].pc = "seen"
        /\ card' = [card EXCEPT ![c].status = call[k].to]
        /\ trail' = [trail EXCEPT ![c] = Append(@, call[k].to)]
        /\ Publish("clarification", List("questions", card[c].home), {})
        /\ call' = [call EXCEPT ![k].pc = "over"]
        /\ Free /\ UNCHANGED <<page, reads>>

\* answerClarification, cancelClarification: still pending, or refused.
Rule(k) ==
    LET c == call[k].card
        open == Observed(c).status = "pending" /\ call[k].to # "unoffered"
    IN  /\ call[k].pc = "seen"
        /\ card' = [card EXCEPT ![c] = IF open THEN [@ EXCEPT !.status = call[k].to] ELSE Observed(c)]
        /\ trail' = [trail EXCEPT ![c] = IF open THEN Append(@, call[k].to) ELSE Noted(c)]
        /\ IF open THEN Publish("clarification", List("questions", card[c].home), {})
           ELSE UNCHANGED <<sock, behind, excused>>
        /\ call' = [call EXCEPT ![k].pc = "over"]
        /\ Free /\ UNCHANGED <<page, reads>>

\* The page reads its questions again, whatever the answer was.
Answered(k) ==
    /\ call[k].pc = "over"
    /\ call' = [call EXCEPT ![k] = IdleCall]
    /\ reads' = IF k = Page THEN reads \cup Begin(<<"questions">>) ELSE reads
    /\ Free /\ UNCHANGED <<page, sock, card, trail, behind, excused>>

Environment ==
    \/ \E i \in Sockets : Wake(i) \/ Cut(i)
    \/ \E s \in Sessions : OpenSession(s) \/ SendMessage(s)
    \/ NewSession \/ Search \/ ClearSearch \/ FooterTick
    \/ \E r \in reads : ServeFails(r)
    \/ \E saturated \in SUBSET Sockets, type \in DOMAIN ListOf, s \in Sessions :
          ListOf[type] \in Shown /\ Changes(type, List(ListOf[type], s), saturated)
    \/ \E c \in Cards : Lapse(c)
    \/ \E c \in Cards, s \in Sessions : CreateClarification(c, s)
    \/ \E k \in Callers, c \in Cards, to \in {"answered", "cancelled", "unoffered"}, s \in Sessions :
          Post(k, c, to, s)

Gateway(i) == Accept(i) \/ Subscribe(i) \/ GatewayDrops(i)
Browser(i) == RetryFires(i) \/ Opens(i) \/ Receive(i) \/ PageCloses(i)
Handler(k) == Look(k) \/ Rule(k) \/ Answered(k)
Refresh == \E r \in reads : Serve(r) \/ Return(r)

System ==
    \/ \E i \in Sockets : Gateway(i) \/ Browser(i)
    \/ Refresh
    \/ \E k \in Callers : Handler(k)

Next == Environment \/ System

\* Handlers, timers and answers come; which comes next is anybody's guess.
Fairness == WF_vars(System)

Spec == Init /\ [][Next]_vars /\ Fairness
-----------------------------------------------------------------------------
Frames == [type : {"hello", "session", "promotion", "approval", "clarification"},
           sess : Sessions \cup {NoSession}]

\* The tables and the page keep their shapes: a refresh of a session's list
\* names a session, and a socket that is gone keeps nothing (refreshApprovals
\* and refreshQuestions return early without one; the gateway's close handler).
TypeOK ==
    /\ \A i \in Sockets :
          /\ sock[i].page \in {"none", "connecting", "open", "closed"}
          /\ sock[i].registered \in BOOLEAN /\ sock[i].room \in Sessions \cup {NoSession}
          /\ \A n \in DOMAIN sock[i].up : sock[i].up[n] \in Sessions \cup {NoSession}
          /\ \A n \in DOMAIN sock[i].down : sock[i].down[n] \in Frames
          /\ sock[i].page \in {"none", "closed"} => sock[i].up = <<>> /\ sock[i].down = <<>>
    /\ current \in {NoSocket} \cup {i \in Sockets : sock[i].page \in {"connecting", "open"}}
    /\ timer \in BOOLEAN /\ connected \in BOOLEAN /\ searching \in BOOLEAN
    /\ tracked \in Sessions \cup {NoSession} /\ session \in Sessions \cup {NoSession}
    /\ \A r \in reads : r.at = "asked" =>
          Head(r.todo) \in Topics /\ (r.sess \in Sessions <=> Head(r.todo) \in Rooms)
    /\ excused \subseteq behind

\* The gateway has the socket in t's room, or will once the subscriptions on
\* their way arrive: the last of them that names a session names t.
Told(end, t) ==
    \/ end.room = t /\ \A n \in DOMAIN end.up : end.up[n] = NoSession
    \/ \E n \in DOMAIN end.up :
          end.up[n] = t /\ \A m \in DOMAIN end.up : m > n => end.up[m] = NoSession

\* What the gateway will have been told once the subscriptions on their way
\* arrive is the session the page tracks: no order of session changes,
\* reconnects and resubscriptions leaves an open socket in another room
\* (trackSession, sendSubscribe; the room contract of RealtimeService).
RoomIsTracked ==
    (Up /\ sock[current].link = "up" /\ tracked # NoSession) => Told(sock[current], tracked)

\* A question is closed once, by an answer, a cancel or its deadline, and its
\* event trail says by which (answerClarification, cancelClarification,
\* applyLazyExpiry and expireLapsed, raced by several clients and reads).
ClosedOnce ==
    \A c \in Cards :
        trail[c] = CASE card[c].status = "none" -> <<>>
                     [] card[c].status = "pending" -> <<"created">>
                     [] OTHER -> <<"created", card[c].status>>

\* The page catches up, again and again: through any reconnects, what changed
\* while it had no connection, and what a frame told it of, is read again, as
\* long as it is of a list the page shows (route, resync, the close handler).
PageCatchesUp ==
    []<>(\A list \in behind \ excused :
            \/ list.topic \in Rooms /\ list.sess # session
            \/ list.topic = "sessions" /\ searching)

\* Refuted: "socket down => connected false" (realtime.service.ts). A socket
\* that reconnect() replaced while it was connecting can still say hello, and
\* nobody looks when it closes.
ConnectedIsLive == connected => \E i \in Sockets : sock[i].page = "open"
=============================================================================
