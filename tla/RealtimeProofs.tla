--------------------------- MODULE RealtimeProofs ---------------------------
(* A question is closed once, the page's socket is in the room of the        *)
(* session it tracks, and the page's and the gateway's tables keep their     *)
(* shapes: the proofs for any number of questions, callers, sessions and     *)
(* sockets.                                                                  *)
EXTENDS Realtime, FiniteSetTheorems, SequenceTheorems, TLAPS

Status == {"none", "pending", "answered", "cancelled", "expired"}
Events == {"created", "answered", "cancelled", "expired"}
Outcomes == {"answered", "cancelled", "unoffered"}

\* A question's row, and the event trail its status stands for.
CardsAreTyped ==
    /\ card \in [Cards -> [status : Status, home : Sessions \cup {NoSession}, due : BOOLEAN]]
    /\ trail = [c \in Cards |-> trail[c]]

\* A call under way is about a question that was asked.
CallsAreTyped ==
    call \in [Callers -> [pc : {"idle", "posted", "seen", "over"}, card : Cards \cup {NoCard},
                          to : Outcomes \cup {"none"}, sess : Sessions \cup {NoSession}]]

\* A call past its first look names a question that was asked.
CallsNameQuestions ==
    \A k \in Callers : call[k].pc \in {"posted", "seen"} =>
        /\ call[k].card \in Cards /\ call[k].to \in Outcomes
        /\ card[call[k].card].status # "none"

ClosingInv == CardsAreTyped /\ CallsAreTyped /\ CallsNameQuestions /\ ClosedOnce

\* A question's trail, one event longer.
LEMMA TrailGrows ==
    ASSUME NEW S, NEW first \in S, NEW event \in S
    PROVE  Append(<<first>>, event) = <<first, event>>
<1>1. <<first>> \in Seq(S) /\ Len(<<first>>) = 1 /\ <<first>>[1] = first
  OBVIOUS
<1>2. /\ Append(<<first>>, event) \in Seq(S) /\ Len(Append(<<first>>, event)) = 2
      /\ Append(<<first>>, event)[1] = first /\ Append(<<first>>, event)[2] = event
  BY <1>1
<1>3. <<first, event>> \in Seq(S) /\ Len(<<first, event>>) = 2
  OBVIOUS
<1>4. \A i \in 1..2 : Append(<<first>>, event)[i] = <<first, event>>[i]
  BY <1>2
<1>. QED BY <1>2, <1>3, <1>4, SeqEqual

\* What a read makes of a question keeps the row and its trail in step.
LEMMA ObservedInStep ==
    ASSUME ClosingInv, NEW c \in Cards
    PROVE  /\ Observed(c) \in [status : Status, home : Sessions \cup {NoSession}, due : BOOLEAN]
           /\ Observed(c).status = "none" <=> card[c].status = "none"
           /\ Noted(c) = CASE Observed(c).status = "none" -> <<>>
                           [] Observed(c).status = "pending" -> <<"created">>
                           [] OTHER -> <<"created", Observed(c).status>>
<1>1. CASE card[c].status = "pending" /\ card[c].due
  <2>1. Observed(c) = [card[c] EXCEPT !.status = "expired"]
    BY <1>1 DEF Observed
  <2>2. Observed(c).status = "expired"
    BY <2>1 DEF ClosingInv, CardsAreTyped
  <2>3. Observed(c) # card[c]
    BY <1>1, <2>2
  <2>4. Noted(c) = Append(trail[c], "expired") /\ trail[c] = <<"created">>
    BY <1>1, <2>3 DEF Noted, ClosingInv, ClosedOnce
  <2>5. Noted(c) = <<"created", "expired">>
    BY <2>4, "created" \in Events, "expired" \in Events, TrailGrows DEF Events
  <2>6. Observed(c) \in [status : Status, home : Sessions \cup {NoSession}, due : BOOLEAN]
    BY <2>1 DEF ClosingInv, CardsAreTyped, Status
  <2>. QED BY <1>1, <2>2, <2>5, <2>6
<1>2. CASE ~(card[c].status = "pending" /\ card[c].due)
  <2>1. Observed(c) = card[c] /\ Noted(c) = trail[c]
    BY <1>2 DEF Observed, Noted
  <2>. QED BY <2>1 DEF ClosingInv, CardsAreTyped, ClosedOnce
<1>. QED BY <1>1, <1>2

\* Every question starts unasked or pending, with the trail that says so.
LEMMA ClosingInit == ASSUME RealtimeAssumption, Init PROVE ClosingInv
<1>1. CardsAreTyped
  <2>1. card \in [Cards -> [status : Status, home : Sessions \cup {NoSession}, due : BOOLEAN]]
    <3>1. ASSUME NEW c \in Cards
          PROVE  card[c] \in [status : Status, home : Sessions \cup {NoSession}, due : BOOLEAN]
      <4>1. card[c] \in {Unborn, [status |-> "pending", home |-> Visited, due |-> FALSE]}
        BY DEF Init
      <4>2. Visited \in Sessions
        BY DEF RealtimeAssumption
      <4>3. Unborn \in [status : Status, home : Sessions \cup {NoSession}, due : BOOLEAN]
        BY DEF Unborn, Status
      <4>4. [status |-> "pending", home |-> Visited, due |-> FALSE]
               \in [status : Status, home : Sessions \cup {NoSession}, due : BOOLEAN]
        BY <4>2 DEF Status
      <4>. QED BY <4>1, <4>3, <4>4
    <3>. QED BY <3>1 DEF Init
  <2>2. trail = [c \in Cards |-> trail[c]]
    BY DEF Init
  <2>. QED BY <2>1, <2>2 DEF CardsAreTyped
<1>2. CallsAreTyped /\ CallsNameQuestions
  BY DEF Init, CallsAreTyped, CallsNameQuestions, IdleCall
<1>3. ClosedOnce
  BY DEF Init, ClosedOnce, Unborn
<1>. QED BY <1>1, <1>2, <1>3 DEF ClosingInv

\* A question leaves pending once, and its trail grows in the same step.
LEMMA ClosingStep == ASSUME RealtimeAssumption, ClosingInv, [Next]_vars PROVE ClosingInv'
<1>. USE DEF ClosingInv
<1>1. ASSUME UNCHANGED core PROVE ClosingInv'
  BY <1>1 DEF core, CardsAreTyped, CallsAreTyped, CallsNameQuestions, ClosedOnce
<1>2. ASSUME NEW r \in reads, Serve(r) PROVE ClosingInv'
  <2>. DEFINE list == List(Head(r.todo), r.sess)
              Read(c) == list.topic = "questions" /\ card[c].home = list.sess
  <2>1. /\ card' = [c \in Cards |-> IF Read(c) THEN Observed(c) ELSE card[c]]
        /\ trail' = [c \in Cards |-> IF Read(c) THEN Noted(c) ELSE trail[c]]
        /\ UNCHANGED call
    BY <1>2 DEF Serve
  <2>. HIDE DEF Read
  <2>2. CardsAreTyped'
    BY <2>1, ObservedInStep DEF CardsAreTyped
  <2>3. CallsAreTyped' /\ CallsNameQuestions'
    BY <2>1, ObservedInStep DEF CallsAreTyped, CallsNameQuestions
  <2>4. ClosedOnce'
    BY <2>1, ObservedInStep DEF ClosedOnce
  <2>. QED BY <2>2, <2>3, <2>4
<1>3. ASSUME NEW c \in Cards, NEW s \in Sessions, CreateClarification(c, s) PROVE ClosingInv'
  <2>1. /\ card' = [card EXCEPT ![c] = [status |-> "pending", home |-> s, due |-> FALSE]]
        /\ trail' = [trail EXCEPT ![c] = <<"created">>]
        /\ UNCHANGED call
    BY <1>3 DEF CreateClarification
  <2>2. CardsAreTyped'
    BY <2>1 DEF CardsAreTyped, Status
  <2>3. CallsAreTyped' /\ CallsNameQuestions'
    BY <2>1 DEF CallsAreTyped, CallsNameQuestions, CardsAreTyped
  <2>4. ClosedOnce'
    BY <2>1 DEF ClosedOnce, CardsAreTyped
  <2>. QED BY <2>2, <2>3, <2>4
<1>4. ASSUME NEW c \in Cards, Lapse(c) PROVE ClosingInv'
  <2>1. /\ card' = [card EXCEPT ![c].due = TRUE]
        /\ trail' = trail
        /\ call' = call
    BY <1>4 DEF Lapse
  <2>2. card' \in [Cards -> [status : Status, home : Sessions \cup {NoSession}, due : BOOLEAN]]
    BY <2>1 DEF CardsAreTyped
  <2>3. CardsAreTyped'
    BY <2>1, <2>2 DEF CardsAreTyped
  <2>4. CallsAreTyped'
    BY <2>1 DEF CallsAreTyped
  <2>5. CallsNameQuestions'
    BY <2>1 DEF CardsAreTyped, CallsNameQuestions
  <2>6. ClosedOnce'
    BY <2>1 DEF CardsAreTyped, ClosedOnce
  <2>. QED BY <2>3, <2>4, <2>5, <2>6
<1>5. ASSUME NEW k \in Callers, NEW c \in Cards, NEW to \in Outcomes, NEW s \in Sessions,
             Post(k, c, to, s)
      PROVE  ClosingInv'
  <2>1. /\ card[c].status # "none" /\ UNCHANGED <<card, trail>>
        /\ call' = [call EXCEPT ![k] = [pc |-> "posted", card |-> c, to |-> to, sess |-> s]]
    BY <1>5 DEF Post
  <2>2. CardsAreTyped' /\ ClosedOnce'
    BY <2>1 DEF CardsAreTyped, ClosedOnce
  <2>3. CallsAreTyped'
    BY <2>1 DEF CallsAreTyped
  <2>4. CallsNameQuestions'
    BY <2>1 DEF CallsAreTyped, CallsNameQuestions
  <2>. QED BY <2>2, <2>3, <2>4
<1>6. ASSUME NEW k \in Callers, Look(k) PROVE ClosingInv'
  <2>. DEFINE c == call[k].card
  <2>1. /\ call[k].pc = "posted"
        /\ card' = [card EXCEPT ![c] = Observed(c)] /\ trail' = [trail EXCEPT ![c] = Noted(c)]
        /\ call' = [call EXCEPT ![k].pc = IF card[c].home = call[k].sess THEN "seen" ELSE "over"]
    BY <1>6 DEF Look
  <2>2. c \in Cards
    BY <2>1 DEF CallsNameQuestions
  <2>. HIDE DEF c
  <2>3. CardsAreTyped'
    BY <2>1, <2>2, ObservedInStep DEF CardsAreTyped
  <2>4. CallsAreTyped'
    BY <2>1 DEF CallsAreTyped
  <2>5. \A q \in Cards : card'[q].status # "none" <=> card[q].status # "none"
    BY <2>1, <2>2, ObservedInStep DEF CardsAreTyped
  <2>6. CallsNameQuestions'
    BY <2>1, <2>5 DEF CallsNameQuestions, CallsAreTyped
  <2>7. ClosedOnce'
    BY <2>1, <2>2, ObservedInStep DEF ClosedOnce, CardsAreTyped
  <2>. QED BY <2>3, <2>4, <2>6, <2>7
<1>7. ASSUME NEW k \in Callers, Rule(k) PROVE ClosingInv'
  <2>. DEFINE c == call[k].card
              open == Observed(c).status = "pending" /\ call[k].to # "unoffered"
  <2>1. /\ call[k].pc = "seen"
        /\ card' = [card EXCEPT ![c] = IF open THEN [@ EXCEPT !.status = call[k].to] ELSE Observed(c)]
        /\ trail' = [trail EXCEPT ![c] = IF open THEN Append(@, call[k].to) ELSE Noted(c)]
        /\ call' = [call EXCEPT ![k].pc = "over"]
    BY <1>7 DEF Rule
  <2>2. c \in Cards /\ call[k].to \in Outcomes
    BY <2>1 DEF CallsNameQuestions
  <2>3. CASE open
    <3>1. card[c].status = "pending" /\ trail[c] = <<"created">> /\ call[k].to \in {"answered", "cancelled"}
      BY <2>2, <2>3 DEF Observed, ClosedOnce, CardsAreTyped, Outcomes
    <3>2. card' = [card EXCEPT ![c].status = call[k].to]
      BY <2>1, <2>3
    <3>3. Append(trail[c], call[k].to) = <<"created", call[k].to>>
      BY <3>1, "created" \in Events, call[k].to \in Events, TrailGrows DEF Events
    <3>4. trail' = [trail EXCEPT ![c] = <<"created", call[k].to>>]
      BY <2>1, <2>3, <3>3
    <3>. HIDE DEF c
    <3>5. CardsAreTyped'
      BY <2>2, <3>1, <3>2, <3>4, ZenonT(40) DEF CardsAreTyped, Status
    <3>6. CallsAreTyped'
      BY <2>1, ZenonT(40) DEF CallsAreTyped
    <3>7. CallsNameQuestions'
      BY <2>1, <2>2, <3>1, <3>2 DEF CallsNameQuestions, CallsAreTyped, CardsAreTyped
    <3>8. ClosedOnce'
      BY <2>2, <3>1, <3>2, <3>4, SMTT(30) DEF ClosedOnce, CardsAreTyped
    <3>. QED BY <3>5, <3>6, <3>7, <3>8
  <2>4. CASE ~open
    <3>1. /\ card' = [card EXCEPT ![c] = Observed(c)]
          /\ trail' = [trail EXCEPT ![c] = Noted(c)]
      BY <2>1, <2>4
    <3>. HIDE DEF c
    <3>2. CardsAreTyped'
      BY <2>2, <3>1, ObservedInStep DEF CardsAreTyped
    <3>3. CallsAreTyped'
      BY <2>1, ZenonT(40) DEF CallsAreTyped
    <3>4. \A q \in Cards : card'[q].status # "none" <=> card[q].status # "none"
      BY <2>2, <3>1, ObservedInStep DEF CardsAreTyped
    <3>5. CallsNameQuestions'
      BY <2>1, <3>4 DEF CallsNameQuestions, CallsAreTyped
    <3>6. ClosedOnce'
      BY <2>2, <3>1, ObservedInStep DEF ClosedOnce, CardsAreTyped
    <3>. QED BY <3>2, <3>3, <3>5, <3>6
  <2>. QED BY <2>3, <2>4
<1>8. ASSUME NEW k \in Callers, Answered(k) PROVE ClosingInv'
  <2>1. call' = [call EXCEPT ![k] = IdleCall] /\ UNCHANGED <<card, trail>>
    BY <1>8 DEF Answered
  <2>. QED BY <2>1 DEF CardsAreTyped, CallsAreTyped, CallsNameQuestions, ClosedOnce, IdleCall
<1>9. ASSUME Environment PROVE ClosingInv'
  <2>1. ASSUME NEW k \in Callers, NEW c \in Cards, NEW to \in Outcomes, NEW s \in Sessions,
               Post(k, c, to, s)
        PROVE  ClosingInv'
    BY <1>5, <2>1
  <2>. QED BY <1>1, <1>3, <1>4, <1>9, <2>1
         DEF Environment, Wake, Cut, OpenSession, SendMessage, NewSession, Search, ClearSearch,
             FooterTick, ServeFails, Changes, core, Outcomes
<1>10. ASSUME System PROVE ClosingInv'
  BY <1>1, <1>2, <1>6, <1>7, <1>8, <1>10
    DEF System, Gateway, Browser, Handler, Refresh, Accept, Subscribe, GatewayDrops, RetryFires,
        Opens, Receive, PageCloses, Return, core
<1>. QED BY <1>1, <1>9, <1>10 DEF Next, vars, core

\* Every question is closed once, by an answer, a cancel or its deadline, and its
\* event trail says by which, however many callers, reads and clocks race.
THEOREM QuestionsCloseOnce == Spec => []ClosedOnce
<1>1. Init => ClosingInv
  BY ClosingInit, RealtimeAssumption
<1>2. ClosingInv /\ [Next]_vars => ClosingInv'
  BY ClosingStep, RealtimeAssumption
<1>3. ClosingInv => ClosedOnce
  BY DEF ClosingInv
<1>. QED BY <1>1, <1>2, <1>3, PTL DEF Spec

-----------------------------------------------------------------------------
(* the room of the session                                                  *)

Tags == Sessions \cup {NoSession}
Kinds == {"hello", "session", "promotion", "approval", "clarification"}
Ends == [page : {"none", "connecting", "open", "closed"}, link : {"up", "cut"},
         registered : BOOLEAN, room : Tags, up : Seq(Tags), down : Seq(Frames)]

SocketsAreTyped ==
    /\ sock \in [Sockets -> Ends]
    /\ current \in Sockets \cup {NoSocket}
    /\ tracked \in Tags /\ session \in Tags

\* The inductive invariant.
RoomInv == ClosingInv /\ SocketsAreTyped /\ RoomIsTracked

\* What matters of a socket to the room it is in.
Same(i) == /\ sock'[i].page = sock[i].page /\ sock'[i].link = sock[i].link
           /\ sock'[i].room = sock[i].room /\ sock'[i].up = sock[i].up

\* A subscription that names t is the last word; one that names nobody says nothing.
LEMMA SubscriptionTells ==
    ASSUME NEW e \in Ends, NEW f \in Ends, NEW t \in Tags, t # NoSession, f.up = Append(e.up, t)
    PROVE  Told(f, t)
<1>1. e.up \in Seq(Tags)
  BY DEF Ends
<1>2. /\ DOMAIN f.up = 1..(Len(e.up) + 1) /\ Len(e.up) \in Nat
      /\ f.up[Len(e.up) + 1] = t
  BY <1>1
<1>. QED BY <1>2 DEF Told

\* The gateway takes the next subscription: what it will have been told stays.
LEMMA SubscribedStaysTold ==
    ASSUME NEW e \in Ends, NEW f \in Ends, NEW t \in Tags, t # NoSession, Told(e, t), e.up # <<>>,
           f.up = Tail(e.up), f.room = IF Head(e.up) = NoSession THEN e.room ELSE Head(e.up)
    PROVE  Told(f, t)
<1>. DEFINE u == e.up
<1>1. u \in Seq(Tags) /\ u # <<>>
  BY DEF Ends
<1>2. /\ Len(u) \in Nat /\ Len(u) >= 1 /\ DOMAIN u = 1..Len(u)
      /\ DOMAIN f.up = 1..(Len(u) - 1)
      /\ \A n \in 1..(Len(u) - 1) : f.up[n] = u[n + 1]
      /\ Head(u) = u[1]
  BY <1>1
<1>. HIDE DEF u
<1>3. CASE e.room = t /\ \A n \in DOMAIN u : u[n] = NoSession
  <2>1. f.room = t
    BY <1>2, <1>3 DEF u
  <2>2. \A n \in DOMAIN f.up : f.up[n] = NoSession
    BY <1>2, <1>3
  <2>. QED BY <2>1, <2>2 DEF Told
<1>4. ASSUME NEW n \in DOMAIN u, u[n] = t, \A m \in DOMAIN u : m > n => u[m] = NoSession
      PROVE  Told(f, t)
  <2>1. CASE n = 1
    <3>1. f.room = t
      BY <1>2, <1>4, <2>1 DEF u
    <3>2. \A m \in DOMAIN f.up : f.up[m] = NoSession
      BY <1>2, <1>4, <2>1
    <3>. QED BY <3>1, <3>2 DEF Told
  <2>2. CASE n # 1
    <3>1. n - 1 \in DOMAIN f.up /\ f.up[n - 1] = t
      BY <1>2, <1>4, <2>2
    <3>2. \A m \in DOMAIN f.up : m > n - 1 => f.up[m] = NoSession
      BY <1>2, <1>4, <2>2, SMTT(30)
    <3>. QED BY <3>1, <3>2 DEF Told
  <2>. QED BY <2>1, <2>2
<1>. QED BY <1>3, <1>4 DEF Told, u

\* Nothing happens to the current socket, or to the session it is for.
LEMMA RoomKept ==
    ASSUME RoomInv, ClosingInv', sock' \in [Sockets -> Ends], UNCHANGED <<current, tracked>>,
           session' \in Tags, current # NoSocket => Same(current)
    PROVE  RoomInv'
<1>1. RoomIsTracked'
  BY DEF RoomInv, RoomIsTracked, Up, Same, Told
<1>. QED BY <1>1 DEF RoomInv, SocketsAreTyped

\* A frame is put on sockets and nothing else changes.
LEMMA PublishedKeeps ==
    ASSUME RoomInv, NEW type \in Kinds, NEW list, list.sess \in Tags, NEW saturated,
           Publish(type, list, saturated)
    PROVE  sock' \in [Sockets -> Ends] /\ \A i \in Sockets : Same(i)
<1>. DEFINE frame == [type |-> type, sess |-> list.sess]
            told == {i \in Receivers(list, saturated) : sock[i].link = "up"}
<1>1. frame \in Frames
  BY DEF Frames, Kinds, Tags
<1>2. sock' = [i \in Sockets |-> IF i \in told THEN [sock[i] EXCEPT !.down = Append(@, frame)] ELSE sock[i]]
  BY DEF Publish
<1>. HIDE DEF frame, told
<1>3. ASSUME NEW i \in Sockets PROVE sock'[i] \in Ends /\ Same(i)
  <2>1. sock[i] \in Ends
    BY DEF RoomInv, SocketsAreTyped
  <2>2. Append(sock[i].down, frame) \in Seq(Frames)
    BY <1>1, <2>1 DEF Ends
  <2>3. CASE sock'[i] = sock[i]
    BY <2>1, <2>3 DEF Same
  <2>4. CASE sock'[i] = [sock[i] EXCEPT !.down = Append(sock[i].down, frame)]
    BY <2>1, <2>2, <2>4 DEF Same, Ends
  <2>. QED BY <1>2, <2>3, <2>4
<1>. QED BY <1>2, <1>3

\* A subscription is sent on a socket, or lost with its connection.
LEMMA SentOn ==
    ASSUME RoomInv, NEW i \in Sockets, NEW s \in Tags
    PROVE  /\ Sent(i, s) \in [Sockets -> Ends]
           /\ sock[i].link = "up" => Sent(i, s)[i].up = Append(sock[i].up, s)
           /\ Sent(i, s)[i].page = sock[i].page /\ Sent(i, s)[i].link = sock[i].link
           /\ \A j \in Sockets : j # i => Sent(i, s)[j] = sock[j]
<1>1. sock[i] \in Ends /\ sock \in [Sockets -> Ends]
  BY DEF RoomInv, SocketsAreTyped
<1>2. CASE sock[i].link # "up"
  BY <1>1, <1>2 DEF Sent
<1>3. CASE sock[i].link = "up"
  <2>. DEFINE e == [sock[i] EXCEPT !.up = Append(sock[i].up, s)]
  <2>1. Append(sock[i].up, s) \in Seq(Tags)
    BY <1>1 DEF Ends
  <2>2. e \in Ends /\ e.up = Append(sock[i].up, s) /\ e.page = sock[i].page /\ e.link = sock[i].link
    BY <1>1, <2>1 DEF Ends
  <2>3. Sent(i, s) = [sock EXCEPT ![i] = e]
    BY <1>1, <1>3 DEF Sent
  <2>. HIDE DEF e
  <2>. QED BY <1>1, <2>2, <2>3
<1>. QED BY <1>2, <1>3

\* The page tracks t, and says so if its socket is open.
LEMMA TrackTells ==
    ASSUME RoomInv, NEW t \in Tags, tracked' = t, current' = current, session' \in Tags, ClosingInv',
           sock' = Resubscribed(t)
    PROVE  RoomInv'
<1>1. CASE ~Up
  <2>1. sock' = sock
    BY <1>1 DEF Resubscribed
  <2>2. ~Up'
    BY <1>1, <2>1 DEF Up
  <2>. QED BY <2>1, <2>2 DEF RoomInv, SocketsAreTyped, RoomIsTracked
<1>2. CASE Up
  <2>1. Target(t) \in Tags /\ (t # NoSession => Target(t) = t)
    BY DEF Target, RoomInv, SocketsAreTyped
  <2>2. current \in Sockets /\ sock' = Sent(current, Target(t)) /\ sock[current] \in Ends
    BY <1>2 DEF Up, Resubscribed, Subscribed, RoomInv, SocketsAreTyped
  <2>3. /\ sock' \in [Sockets -> Ends]
        /\ sock[current].link = "up" => sock'[current].up = Append(sock[current].up, Target(t))
        /\ sock'[current].link = sock[current].link
    BY <2>1, <2>2, SentOn
  <2>4. RoomIsTracked'
    <3>. SUFFICES ASSUME sock'[current].link = "up", t # NoSession PROVE Told(sock'[current], t)
      BY DEF RoomIsTracked
    <3>1. sock'[current].up = Append(sock[current].up, t) /\ sock'[current] \in Ends
      BY <2>1, <2>2, <2>3
    <3>. QED BY <2>2, <3>1, SubscriptionTells
  <2>. QED BY <2>3, <2>4 DEF RoomInv, SocketsAreTyped
<1>. QED BY <1>1, <1>2

\* A socket changes in a way that is no matter to its room, or another socket does.
LEMMA EndWritten ==
    ASSUME RoomInv, ClosingInv', NEW i \in Sockets, NEW e \in Ends, sock' = [sock EXCEPT ![i] = e],
           UNCHANGED <<current, tracked, session>>,
           \/ i # current
           \/ e.page = sock[i].page /\ e.link = sock[i].link /\ e.room = sock[i].room /\ e.up = sock[i].up
           \/ e.page # "open" \/ e.link # "up"
    PROVE  RoomInv'
<1>1. sock \in [Sockets -> Ends] /\ current \in Sockets \cup {NoSocket}
  BY DEF RoomInv, SocketsAreTyped
<1>2. sock' \in [Sockets -> Ends] /\ sock'[i] = e
  BY <1>1
<1>3. CASE i # current \/ (e.page = sock[i].page /\ e.link = sock[i].link /\ e.room = sock[i].room /\ e.up = sock[i].up)
  <2>1. current # NoSocket => Same(current)
    BY <1>1, <1>2, <1>3 DEF Same
  <2>. QED BY <1>2, <2>1, RoomKept DEF RoomInv, SocketsAreTyped
<1>4. CASE i = current /\ (e.page # "open" \/ e.link # "up")
  <2>1. RoomIsTracked'
    BY <1>2, <1>4 DEF RoomIsTracked, Up
  <2>. QED BY <1>2, <2>1 DEF RoomInv, SocketsAreTyped
<1>. QED BY <1>3, <1>4

\* A socket is made, or the one the page had is gone: it is not open.
LEMMA NotOpen ==
    ASSUME RoomInv, ClosingInv', NEW i \in Sockets, NEW e \in Ends, sock' = [sock EXCEPT ![i] = e],
           UNCHANGED <<tracked, session>>,
           current' = NoSocket \/ (current' = i /\ e.page # "open")
    PROVE  RoomInv'
<1>1. sock' \in [Sockets -> Ends] /\ sock'[i] = e
  BY DEF RoomInv, SocketsAreTyped
<1>2. ~Up'
  BY <1>1 DEF Up
<1>. QED BY <1>1, <1>2 DEF RoomInv, SocketsAreTyped, RoomIsTracked

LEMMA SocketsStep ==
    ASSUME RoomInv, ClosingInv', NEW i \in Sockets, Gateway(i) \/ Browser(i) \/ Cut(i) \/ Wake(i)
    PROVE  RoomInv'
<1>. sock[i] \in Ends /\ sock \in [Sockets -> Ends] /\ tracked \in Tags /\ session \in Tags
  BY DEF RoomInv, SocketsAreTyped
<1>1. CASE RetryFires(i) \/ Wake(i)
  <2>. DEFINE e == [sock[i] EXCEPT !.page = "connecting"]
  <2>1. e \in Ends /\ e.page # "open"
    BY DEF Ends
  <2>2. sock' = [sock EXCEPT ![i] = e] /\ current' = i /\ UNCHANGED <<tracked, session>>
    BY <1>1 DEF RetryFires, Wake, Connect
  <2>. HIDE DEF e
  <2>. QED BY <2>1, <2>2, NotOpen
<1>2. CASE Accept(i)
  <2>. DEFINE hello == <<[type |-> "hello", sess |-> NoSession]>>
              e == [sock[i] EXCEPT !.registered = TRUE, !.down = hello]
  <2>1. hello \in Seq(Frames)
    <3>1. [type |-> "hello", sess |-> NoSession] \in Frames
      BY DEF Frames
    <3>. QED BY <3>1
  <2>2. sock' = [sock EXCEPT ![i] = e] /\ UNCHANGED <<current, tracked, session>> /\ sock[i].page = "connecting"
    BY <1>2 DEF Accept, page
  <2>. HIDE DEF hello
  <2>3. e \in Ends /\ e.page = sock[i].page
    BY <2>1 DEF Ends
  <2>. HIDE DEF e
  <2>. QED BY <2>2, <2>3, EndWritten
<1>3. CASE Subscribe(i)
  <2>. DEFINE e == [sock[i] EXCEPT !.up = Tail(sock[i].up),
                        !.room = IF Head(sock[i].up) = NoSession THEN sock[i].room ELSE Head(sock[i].up)]
  <2>1. sock' = [sock EXCEPT ![i] = e] /\ UNCHANGED <<current, tracked, session>> /\ sock[i].up # <<>>
    BY <1>3 DEF Subscribe, page
  <2>2. sock[i].up \in Seq(Tags) /\ Tail(sock[i].up) \in Seq(Tags) /\ Head(sock[i].up) \in Tags
    BY <2>1 DEF Ends
  <2>3. /\ e \in Ends /\ e.up = Tail(sock[i].up) /\ e.page = sock[i].page /\ e.link = sock[i].link
        /\ e.room = IF Head(sock[i].up) = NoSession THEN sock[i].room ELSE Head(sock[i].up)
    BY <2>2 DEF Ends
  <2>. HIDE DEF e
  <2>4. sock' \in [Sockets -> Ends] /\ sock'[i] = e
    BY <2>1, <2>3
  <2>5. CASE i # current
    BY <2>1, <2>3, <2>5, EndWritten
  <2>6. CASE i = current
    <3>1. RoomIsTracked'
      <4>. SUFFICES ASSUME Up', e.link = "up", tracked # NoSession PROVE Told(e, tracked)
        BY <2>1, <2>4, <2>6 DEF RoomIsTracked
      <4>1. Told(sock[i], tracked)
        BY <2>1, <2>3, <2>4, <2>6 DEF RoomInv, RoomIsTracked, Up
      <4>. QED BY <2>1, <2>3, <4>1, SubscribedStaysTold
    <3>. QED BY <2>1, <2>4, <3>1 DEF RoomInv, SocketsAreTyped
  <2>. QED BY <2>5, <2>6
<1>4. CASE GatewayDrops(i)
  <2>. DEFINE d == [sock[i] EXCEPT !.registered = FALSE, !.room = NoSession]
              e == Settled(d)
  <2>1. d \in Ends /\ d.link = sock[i].link
    BY DEF Ends, Tags
  <2>2. sock' = [sock EXCEPT ![i] = e] /\ UNCHANGED <<current, tracked, session>> /\ sock[i].link = "cut"
    BY <1>4 DEF GatewayDrops, page
  <2>3. Unused \in Ends /\ Unused.page = "none"
    BY DEF Unused, Ends, Tags
  <2>4. e \in Ends /\ (e.link # "up" \/ e.page # "open")
    <3>. HIDE DEF d
    <3>. QED BY <2>1, <2>2, <2>3 DEF Settled
  <2>. HIDE DEF e
  <2>. QED BY <2>2, <2>4, EndWritten
<1>5. CASE PageCloses(i)
  <2>. DEFINE d == [sock[i] EXCEPT !.page = "closed"]
              e == Settled(d)
  <2>1. d \in Ends
    BY DEF Ends
  <2>2. /\ sock' = [sock EXCEPT ![i] = e] /\ UNCHANGED <<tracked, session>>
        /\ IF current = i THEN current' = NoSocket ELSE current' = current
    BY <1>5 DEF PageCloses
  <2>3. Unused \in Ends
    BY DEF Unused, Ends, Tags
  <2>4. e \in Ends
    <3>. HIDE DEF d
    <3>. QED BY <2>1, <2>3 DEF Settled
  <2>. HIDE DEF e
  <2>5. CASE current = i
    BY <2>2, <2>4, <2>5, NotOpen
  <2>6. CASE current # i
    BY <2>2, <2>4, <2>6, EndWritten
  <2>. QED BY <2>5, <2>6
<1>6. CASE Opens(i)
  <2>. DEFINE t == Target(tracked)
              f == Sent(i, t)
              e == [f[i] EXCEPT !.page = "open"]
  <2>1. t \in Tags /\ (tracked # NoSession => t = tracked)
    BY DEF Target
  <2>2. /\ sock' = [f EXCEPT ![i] = e] /\ UNCHANGED <<current, tracked, session>>
        /\ sock[i].link = "up"
    BY <1>6 DEF Opens, Subscribed, page
  <2>. HIDE DEF t
  <2>3. /\ f \in [Sockets -> Ends] /\ f[i].up = Append(sock[i].up, t)
        /\ \A j \in Sockets : j # i => f[j] = sock[j]
    BY <2>1, <2>2, SentOn
  <2>. HIDE DEF f
  <2>4. e \in Ends /\ e.up = Append(sock[i].up, t)
    BY <2>3 DEF Ends
  <2>. HIDE DEF e
  <2>5. sock' \in [Sockets -> Ends] /\ sock'[i] = e /\ \A j \in Sockets : j # i => sock'[j] = sock[j]
    BY <2>2, <2>3, <2>4
  <2>6. RoomIsTracked'
    <3>1. CASE current = i
      <4>1. tracked # NoSession => Told(e, tracked)
        BY <2>1, <2>4, SubscriptionTells
      <4>. QED BY <2>2, <2>5, <3>1, <4>1 DEF RoomIsTracked
    <3>2. CASE current # i
      BY <2>2, <2>5, <3>2 DEF RoomIsTracked, RoomInv, SocketsAreTyped, Up, Told
    <3>. QED BY <3>1, <3>2
  <2>. QED BY <2>2, <2>5, <2>6 DEF RoomInv, SocketsAreTyped
<1>7. CASE Receive(i)
  <2>. DEFINE e == [sock[i] EXCEPT !.down = Tail(sock[i].down)]
  <2>1. sock' = [sock EXCEPT ![i] = e] /\ UNCHANGED <<current, tracked, session>> /\ sock[i].down # <<>>
    BY <1>7 DEF Receive
  <2>2. Tail(sock[i].down) \in Seq(Frames)
    BY <2>1 DEF Ends
  <2>3. e \in Ends /\ e.page = sock[i].page /\ e.link = sock[i].link /\ e.room = sock[i].room /\ e.up = sock[i].up
    BY <2>2 DEF Ends
  <2>. HIDE DEF e
  <2>. QED BY <2>1, <2>3, EndWritten
<1>8. CASE Cut(i)
  <2>. DEFINE e == [sock[i] EXCEPT !.link = "cut", !.up = <<>>, !.down = <<>>]
  <2>1. sock' = [sock EXCEPT ![i] = e] /\ UNCHANGED <<current, tracked, session>>
    BY <1>8 DEF Cut, page
  <2>2. e \in Ends /\ e.link # "up"
    <3>1. <<>> \in Seq(Tags) /\ <<>> \in Seq(Frames)
      OBVIOUS
    <3>. DEFINE cut == [sock[i] EXCEPT !.link = "cut"]
                lost == [cut EXCEPT !.up = <<>>]
    <3>2. cut \in Ends /\ cut.link = "cut"
      BY DEF Ends
    <3>. HIDE DEF cut
    <3>3. lost \in Ends /\ lost.link = "cut"
      BY <3>1, <3>2 DEF Ends
    <3>4. e = [lost EXCEPT !.down = <<>>]
      BY DEF cut
    <3>. HIDE DEF lost
    <3>5. [lost EXCEPT !.down = <<>>] \in Ends /\ [lost EXCEPT !.down = <<>>].link = "cut"
      BY <3>1, <3>3 DEF Ends
    <3>. QED BY <3>4, <3>5
  <2>. HIDE DEF e
  <2>. QED BY <2>1, <2>2, EndWritten
<1>. QED BY <1>1, <1>2, <1>3, <1>4, <1>5, <1>6, <1>7, <1>8 DEF Gateway, Browser

\* What users, clients and clocks do to the sessions the page knows, and what
\* the core says of it.
LEMMA OthersStep ==
    ASSUME RoomInv, ClosingInv', [Next]_vars,
           ~\E i \in Sockets : Gateway(i) \/ Browser(i) \/ Cut(i) \/ Wake(i)
    PROVE  RoomInv'
<1>. sock \in [Sockets -> Ends] /\ tracked \in Tags /\ session \in Tags /\ current \in Sockets \cup {NoSocket}
  BY DEF RoomInv, SocketsAreTyped
<1>1. ASSUME UNCHANGED <<sock, current, tracked>>, session' \in Tags PROVE RoomInv'
  BY <1>1, RoomKept DEF Same
<1>2. ASSUME NEW s \in Sessions, OpenSession(s) PROVE RoomInv'
  BY <1>2, TrackTells DEF OpenSession, Track, Tags
<1>3. CASE NewSession
  <2>1. tracked' = NoSession /\ session' = NoSession /\ current' = current
        /\ sock' = IF Up THEN Sent(current, NoSession) ELSE sock
    BY <1>3 DEF NewSession
  <2>2. sock' \in [Sockets -> Ends]
    BY <2>1, SentOn DEF Up, Tags
  <2>. QED BY <2>1, <2>2 DEF RoomInv, SocketsAreTyped, RoomIsTracked, Tags
<1>4. CASE FooterTick
  BY <1>4, TrackTells DEF FooterTick, page
<1>5. ASSUME NEW r \in reads, Return(r) PROVE RoomInv'
  <2>1. CASE UNCHANGED <<sock, tracked>>
    BY <1>1, <1>5, <2>1 DEF Return
  <2>2. CASE Track(session)
    BY <1>5, <2>2, TrackTells DEF Return, Track
  <2>. QED BY <1>5, <2>1, <2>2 DEF Return
<1>6. ASSUME NEW type \in Kinds, NEW list, list.sess \in Tags, NEW saturated, Publish(type, list, saturated),
             UNCHANGED <<current, tracked, session>>
      PROVE  RoomInv'
  BY <1>6, PublishedKeeps, RoomKept
<1>7. \A topic : \A s \in Tags : List(topic, s).sess \in Tags
  BY DEF List, Tags
<1>8. ASSUME NEW saturated, NEW type \in DOMAIN ListOf, NEW s \in Sessions, Changes(type, List(ListOf[type], s), saturated)
      PROVE  RoomInv'
  <2>. DEFINE list == List(ListOf[type], s)
  <2>1. list.sess \in Tags
    <3>1. s \in Tags
      BY DEF Tags
    <3>. QED BY <1>7, <3>1
  <2>2. type \in Kinds
    BY DEF ListOf, Kinds
  <2>3. Publish(type, list, saturated) /\ UNCHANGED <<current, tracked, session>>
    BY <1>8 DEF Changes, page
  <2>. HIDE DEF list
  <2>. QED BY <1>6, <2>1, <2>2, <2>3
<1>9. ASSUME NEW c \in Cards, NEW s \in Sessions, CreateClarification(c, s) PROVE RoomInv'
  <2>. DEFINE list == List("questions", s)
  <2>1. list.sess \in Tags
    <3>1. s \in Tags
      BY DEF Tags
    <3>. QED BY <1>7, <3>1
  <2>2. Publish("clarification", list, {}) /\ UNCHANGED <<current, tracked, session>>
    BY <1>9 DEF CreateClarification, page
  <2>. HIDE DEF list
  <2>. QED BY <1>6, <2>1, <2>2 DEF Kinds
<1>10. ASSUME NEW k \in Callers, Rule(k) PROVE RoomInv'
  <2>. DEFINE list == List("questions", card[call[k].card].home)
  <2>1. call[k].card \in Cards
    BY <1>10 DEF Rule, RoomInv, ClosingInv, CallsNameQuestions
  <2>2. list.sess \in Tags
    <3>1. card[call[k].card].home \in Tags
      BY <2>1 DEF RoomInv, ClosingInv, CardsAreTyped, Tags
    <3>. QED BY <1>7, <3>1
  <2>3. Publish("clarification", list, {}) \/ UNCHANGED sock
    BY <1>10 DEF Rule
  <2>4. UNCHANGED <<current, tracked, session>>
    BY <1>10 DEF Rule, page
  <2>. HIDE DEF list
  <2>. QED BY <1>1, <1>6, <2>2, <2>3, <2>4 DEF Kinds
<1>11. CASE Environment
  BY <1>1, <1>2, <1>3, <1>4, <1>8, <1>9, <1>11
    DEF Environment, SendMessage, Search, ClearSearch, ServeFails, Lapse, Post, page, Tags
<1>12. CASE System
  BY <1>1, <1>5, <1>10, <1>12 DEF System, Refresh, Handler, Serve, Look, Answered, page
<1>13. CASE UNCHANGED vars
  BY <1>1, <1>13 DEF vars
<1>. QED BY <1>11, <1>12, <1>13 DEF Next

LEMMA RoomInvariance == Spec => []RoomInv
<1>1. Init => RoomInv
  <2>. SUFFICES ASSUME Init PROVE RoomInv
    OBVIOUS
  <2>1. 1 \in Sockets
    BY RealtimeAssumption DEF Sockets
  <2>2. Unused \in Ends /\ [Unused EXCEPT !.page = "connecting"] \in Ends
    <3>1. Unused \in Ends
      BY DEF Unused, Ends, Tags
    <3>. QED BY <3>1 DEF Ends
  <2>3. sock \in [Sockets -> Ends] /\ sock[1] = [Unused EXCEPT !.page = "connecting"]
    BY <2>1, <2>2 DEF Init
  <2>4. SocketsAreTyped
    BY <2>1, <2>3 DEF Init, SocketsAreTyped, Tags
  <2>5. RoomIsTracked
    BY DEF Init, RoomIsTracked
  <2>. QED BY <2>4, <2>5, ClosingInit, RealtimeAssumption DEF RoomInv
<1>2. RoomInv /\ [Next]_vars => RoomInv'
  BY ClosingStep, SocketsStep, OthersStep, RealtimeAssumption DEF RoomInv
<1>. QED BY <1>1, <1>2, PTL DEF Spec

\* No order of session changes, cut connections, reconnects and subscriptions
\* leaves an open socket in the room of another session than the one tracked,
\* for any sessions, sockets and bounds.
THEOREM RoomFollowsSession == Spec => []RoomIsTracked
<1>1. RoomInv => RoomIsTracked
  BY DEF RoomInv
<1>. QED BY <1>1, RoomInvariance, PTL
-----------------------------------------------------------------------------
(* the shapes of the page                                                   *)

Jobs == Topics \cup {"other", "track"}

\* A list of refreshes; the session is tracked after all of them.
Refreshing(todo) ==
    /\ todo \in Seq(Jobs)
    /\ \A n \in 1..Len(todo) : todo[n] = "track" => n = Len(todo)

\* A refresh under way, and what it asked for.
Reading(r) ==
    /\ r = [todo |-> r.todo, sess |-> r.sess, at |-> r.at]
    /\ Refreshing(r.todo) /\ r.todo # <<>>
    /\ r.at = "asked" => Head(r.todo) \in Topics /\ (r.sess \in Sessions <=> Head(r.todo) \in Rooms)

\* An end that is gone keeps nothing, and only a cut link leaves one.
Whole(e) ==
    /\ e.link = "cut" \/ e.page = "none" => e.up = <<>> /\ e.down = <<>>
    /\ e.page = "closed" => e.link = "cut"
    /\ e.page = "none" => ~e.registered
Held == current # NoSocket => sock[current].page \in {"connecting", "open"}

\* The inductive invariant of the types.
Flags == timer \in BOOLEAN /\ connected \in BOOLEAN /\ searching \in BOOLEAN
PageInv ==
    /\ RoomInv /\ (\A i \in Sockets : Whole(sock[i])) /\ Held
    /\ (\A r \in reads : Reading(r)) /\ Flags /\ excused \subseteq behind

LEMMA PageIsTyped == ASSUME PageInv PROVE TypeOK
<1>1. ASSUME NEW i \in Sockets
      PROVE  /\ sock[i].page \in {"none", "connecting", "open", "closed"}
             /\ sock[i].registered \in BOOLEAN /\ sock[i].room \in Sessions \cup {NoSession}
             /\ \A n \in DOMAIN sock[i].up : sock[i].up[n] \in Sessions \cup {NoSession}
             /\ \A n \in DOMAIN sock[i].down : sock[i].down[n] \in Frames
             /\ sock[i].page \in {"none", "closed"} => sock[i].up = <<>> /\ sock[i].down = <<>>
  <2>1. sock[i] \in Ends /\ Whole(sock[i])
    BY DEF PageInv, RoomInv, SocketsAreTyped
  <2>2. sock[i].up \in Seq(Tags) /\ sock[i].down \in Seq(Frames)
    BY <2>1 DEF Ends
  <2>. QED BY <2>1, <2>2 DEF Ends, Tags, Whole
<1>2. current \in {NoSocket} \cup {i \in Sockets : sock[i].page \in {"connecting", "open"}}
  BY DEF PageInv, Held, RoomInv, SocketsAreTyped
<1>3. tracked \in Sessions \cup {NoSession} /\ session \in Sessions \cup {NoSession}
  BY DEF PageInv, RoomInv, SocketsAreTyped, Tags
<1>4. \A r \in reads : r.at = "asked" => Head(r.todo) \in Topics /\ (r.sess \in Sessions <=> Head(r.todo) \in Rooms)
  BY DEF PageInv, Reading
<1>. QED BY <1>1, <1>2, <1>3, <1>4 DEF PageInv, Flags, TypeOK

\* A set of places of a sequence has a first.
LEMMA FirstOf ==
    ASSUME NEW n \in Nat, NEW S, S \subseteq 1..n, S # {}
    PROVE  \E x \in S : \A y \in S : x <= y
<1>. DEFINE Below(x) == {y \in S : y < x}
            T == {Below(x) : x \in S}
<1>1. IsFiniteSet(S)
  <2>1. IsFiniteSet(1..n)
    BY FS_Interval
  <2>. QED BY <2>1, FS_Subset
<1>2. IsWellFoundedOn(StrictSubsetOrdering(S), SUBSET S)
  BY <1>1, FS_StrictSubsetOrderingWellFounded, FS_FiniteSubsetsOfFinite
<1>3. T \subseteq SUBSET S /\ T # {}
  OBVIOUS
<1>4. \E U \in T : \A V \in T : <<V, U>> \notin StrictSubsetOrdering(S)
  <2>. HIDE DEF T
  <2>. QED BY <1>2, <1>3, WFMin
<1>5. PICK x \in S : \A y \in S : <<Below(y), Below(x)>> \notin StrictSubsetOrdering(S)
  BY <1>4
<1>6. ASSUME NEW y \in S, ~(x <= y) PROVE FALSE
  <2>0. x \in Nat /\ y \in Nat /\ (\A z \in S : z \in Nat) /\ y < x
    BY <1>6
  <2>1. y \in Below(x) /\ y \notin Below(y)
    BY <2>0
  <2>2. Below(y) \subseteq Below(x)
    <3>. SUFFICES ASSUME NEW z \in S, z < y PROVE z < x
      OBVIOUS
    <3>. QED BY <2>0
  <2>3. Below(x) \subseteq S /\ Below(y) \subseteq S
    OBVIOUS
  <2>. HIDE DEF Below
  <2>4. <<Below(y), Below(x)>> \in StrictSubsetOrdering(S)
    BY <2>1, <2>2, <2>3 DEF StrictSubsetOrdering
  <2>. QED BY <1>5, <2>4
<1>. QED BY <1>6

\* What is left of a list of refreshes begins with one that reads something.
LEMMA LeftIs ==
    ASSUME NEW todo, Refreshing(todo)
    PROVE  /\ Refreshing(Left(todo)) /\ (Left(todo) # <<>> => ~Skipped(Head(Left(todo))))
           /\ Left(todo) # <<>> => \E n \in 1..Len(todo) : Head(Left(todo)) = todo[n]
<1>. DEFINE live == {n \in 1..Len(todo) : ~Skipped(todo[n])}
            first == CHOOSE n \in live : \A m \in live : n <= m
<1>1. todo \in Seq(Jobs) /\ Len(todo) \in Nat
  BY DEF Refreshing
<1>2. CASE live = {}
  <2>1. Left(todo) = <<>>
    BY <1>2 DEF Left
  <2>. QED BY <2>1 DEF Refreshing
<1>3. CASE live # {}
  <2>1. first \in live
    <3>1. live \subseteq 1..Len(todo)
      OBVIOUS
    <3>. HIDE DEF live
    <3>. QED BY <1>1, <1>3, <3>1, FirstOf
  <2>2. first \in 1..Len(todo) /\ ~Skipped(todo[first])
    BY <2>1
  <2>3. Left(todo) = SubSeq(todo, first, Len(todo))
    BY <1>3 DEF Left
  <2>. HIDE DEF first, live
  <2>a. first \in Int /\ Len(todo) \in Int /\ first <= Len(todo) /\ \A i \in first..Len(todo) : todo[i] \in Jobs
    BY <1>1, <2>2
  <2>4. /\ Left(todo) \in Seq(Jobs) /\ Len(Left(todo)) = Len(todo) - first + 1
        /\ \A n \in 1..(Len(todo) - first + 1) : Left(todo)[n] = todo[first + n - 1]
    BY <2>a, <2>3, SubSeqProperties
  <2>5. Refreshing(Left(todo))
    <3>. DEFINE left == Left(todo)
    <3>. HIDE DEF left
    <3>1. ASSUME NEW n \in 1..Len(left), left[n] = "track" PROVE n = Len(left)
      <4>1. n \in 1..(Len(todo) - first + 1) /\ Len(left) = Len(todo) - first + 1
        BY <1>1, <2>2, <2>4 DEF left
      <4>2. todo[first + n - 1] = "track" /\ first + n - 1 \in 1..Len(todo)
        BY <1>1, <2>2, <2>4, <3>1, <4>1 DEF left
      <4>3. first + n - 1 = Len(todo)
        BY <4>2 DEF Refreshing
      <4>. QED BY <1>1, <2>2, <4>1, <4>3
    <3>. QED BY <2>4, <3>1 DEF Refreshing, left
  <2>6. Head(Left(todo)) = todo[first]
    BY <1>1, <2>2, <2>4
  <2>. QED BY <2>2, <2>5, <2>6
<1>. QED BY <1>2, <1>3

\* A refresh that begins asks for a list of the session, if it has one.
LEMMA AskedReads ==
    ASSUME NEW todo, Refreshing(todo), session \in Tags, NoSession \notin Sessions,
           todo # <<>> => Head(todo) \notin Rooms \/ session # NoSession,
           todo # <<>> => Head(todo) # "track"
    PROVE  \A r \in Asked(todo) : Reading(r)
<1>. SUFFICES ASSUME NEW r \in Asked(todo) PROVE Reading(r)
  OBVIOUS
<1>1. /\ todo # <<>>
      /\ r = [todo |-> todo, sess |-> IF Head(todo) \in Rooms THEN session ELSE NoSession,
              at |-> IF Head(todo) = "other" THEN "answered" ELSE "asked"]
  BY DEF Asked
<1>2. Head(todo) \in Jobs
  BY <1>1 DEF Refreshing
<1>. QED BY <1>1, <1>2 DEF Reading, Jobs, Tags

\* Lists that do not track, but perhaps at their end.
LEMMA OneJob == ASSUME NEW a \in Jobs PROVE Refreshing(<<a>>)
<1>. HIDE DEF Jobs
<1>1. <<a>> \in Seq(Jobs)
  OBVIOUS
<1>. QED BY <1>1 DEF Refreshing

LEMMA ThreeJobs ==
    ASSUME NEW a \in Jobs, NEW b \in Jobs, NEW c \in Jobs, a # "track", b # "track"
    PROVE  Refreshing(<<a, b, c>>)
<1>. HIDE DEF Jobs
<1>1. <<a, b, c>> \in Seq(Jobs)
  OBVIOUS
<1>. QED BY <1>1 DEF Refreshing

LEMMA FourJobs ==
    ASSUME NEW a \in Jobs, NEW b \in Jobs, NEW c \in Jobs, NEW d \in Jobs,
           a # "track", b # "track", c # "track"
    PROVE  Refreshing(<<a, b, c, d>>)
<1>. HIDE DEF Jobs
<1>1. <<a, b, c, d>> \in Seq(Jobs)
  OBVIOUS
<1>. QED BY <1>1 DEF Refreshing

LEMMA FiveJobs ==
    ASSUME NEW a \in Jobs, NEW b \in Jobs, NEW c \in Jobs, NEW d \in Jobs, NEW e \in Jobs,
           a # "track", b # "track", c # "track", d # "track"
    PROVE  Refreshing(<<a, b, c, d, e>>)
<1>. HIDE DEF Jobs
<1>1. <<a, b, c, d, e>> \in Seq(Jobs)
  OBVIOUS
<1>. QED BY <1>1 DEF Refreshing

\* What the page refreshes on its own, or when a frame comes, is well formed.
LEMMA RefreshesAre ==
    /\ \A type \in Kinds : \A todo \in Refreshes(type) :
          Refreshing(todo) /\ \A n \in 1..Len(todo) : todo[n] # "track"
    /\ Refreshing(<<"questions">>) /\ Refreshing(<<"sessions">>)
    /\ Refreshing(<<"other", "approvals", "questions">>)
    /\ Refreshing(<<"other", "sessions", "approvals", "questions", "track">>)
<1>1. /\ "sessions" \in Jobs /\ "approvals" \in Jobs /\ "questions" \in Jobs /\ "review" \in Jobs
      /\ "other" \in Jobs /\ "track" \in Jobs
  BY DEF Jobs, Topics, Rooms
<1>2. /\ Refreshing(<<"approvals">>) /\ Refreshing(<<"review">>)
      /\ Refreshing(<<"questions">>) /\ Refreshing(<<"sessions">>)
  BY <1>1, OneJob
<1>3. Refreshing(<<"other", "approvals", "questions">>)
  BY <1>1, ThreeJobs
<1>4. Refreshing(<<"sessions", "approvals", "questions", "review">>)
  BY <1>1, FourJobs
<1>5. Refreshing(<<"other", "sessions", "approvals", "questions", "track">>)
  BY <1>1, FiveJobs
<1>6. ASSUME NEW type \in Kinds, NEW todo \in Refreshes(type)
      PROVE  Refreshing(todo) /\ \A n \in 1..Len(todo) : todo[n] # "track"
  <2>1. \/ todo = <<"sessions", "approvals", "questions", "review">>
        \/ todo = <<"approvals">> \/ todo = <<"review">> \/ todo = <<"questions">> \/ todo = <<"sessions">>
    BY <1>6 DEF Kinds, Refreshes
  <2>2. CASE todo = <<"sessions", "approvals", "questions", "review">>
    BY <1>4, <2>2
  <2>3. CASE todo = <<"approvals">> \/ todo = <<"review">> \/ todo = <<"questions">> \/ todo = <<"sessions">>
    BY <1>2, <2>3
  <2>. QED BY <2>1, <2>2, <2>3
<1>. QED BY <1>2, <1>3, <1>5, <1>6

\* The session is tracked by the step that finds nothing else left.
LEMMA TracksAlone ==
    ASSUME NEW left, Refreshing(left), left # <<>>, Head(left) = "track"
    PROVE  left = <<"track">>
<1>1. left \in Seq(Jobs) /\ Len(left) \in Nat /\ Len(left) >= 1 /\ left[1] = "track"
  BY DEF Refreshing
<1>2. Len(left) = 1
  <2>1. \A n \in 1..Len(left) : left[n] = "track" => n = Len(left)
    BY DEF Refreshing
  <2>2. 1 \in 1..Len(left)
    BY <1>1
  <2>. QED BY <1>1, <2>1, <2>2
<1>3. <<left[1]>> \in Seq(Jobs) /\ Len(<<left[1]>>) = 1 /\ <<left[1]>>[1] = left[1]
  BY <1>1, <1>2
<1>. QED BY <1>1, <1>2, <1>3, SeqEqual

\* A refresh that begins, or goes on, reads what is left first.
LEMMA GoesOnReading ==
    ASSUME NEW todo, Refreshing(todo), session \in Tags, NoSession \notin Sessions, Left(todo) # <<"track">>
    PROVE  \A r \in Asked(Left(todo)) : Reading(r)
<1>. DEFINE left == Left(todo)
<1>1. Refreshing(left) /\ (left # <<>> => ~Skipped(Head(left)))
  BY LeftIs
<1>. HIDE DEF left
<1>2. left # <<>> => Head(left) \notin Rooms \/ session # NoSession
  BY <1>1 DEF Skipped
<1>3. left # <<>> => Head(left) # "track"
  BY <1>1, TracksAlone DEF left
<1>. QED BY <1>1, <1>2, <1>3, AskedReads DEF left

LEMMA BeginReads ==
    ASSUME NEW todo, Refreshing(todo), session \in Tags, NoSession \notin Sessions,
           \A n \in 1..Len(todo) : todo[n] # "track"
    PROVE  \A r \in Begin(todo) : Reading(r)
<1>1. Left(todo) # <<>> => Head(Left(todo)) # "track"
  BY LeftIs
<1>2. Left(todo) # <<"track">>
  BY <1>1
<1>. QED BY <1>2, GoesOnReading DEF Begin

LEMMA TailRefreshes == ASSUME NEW todo, Refreshing(todo), todo # <<>> PROVE Refreshing(Tail(todo))
<1>. DEFINE rest == Tail(todo)
<1>1. /\ todo \in Seq(Jobs) /\ Len(todo) \in Nat /\ Len(todo) >= 1
      /\ rest \in Seq(Jobs) /\ Len(rest) = Len(todo) - 1
      /\ \A n \in 1..(Len(todo) - 1) : rest[n] = todo[n + 1]
  BY DEF Refreshing
<1>. HIDE DEF rest
<1>2. ASSUME NEW n \in 1..Len(rest), rest[n] = "track" PROVE n = Len(rest)
  <2>1. todo[n + 1] = "track" /\ n + 1 \in 1..Len(todo)
    BY <1>1, <1>2
  <2>2. n + 1 = Len(todo)
    BY <2>1 DEF Refreshing
  <2>. QED BY <1>1, <2>2
<1>. QED BY <1>1, <1>2 DEF Refreshing, rest

\* A refresh that was answered, by the list or by a failure, is one still.
LEMMA AnsweredReads == ASSUME NEW r, Reading(r) PROVE Reading([r EXCEPT !.at = "answered"])
<1>. DEFINE a == [r EXCEPT !.at = "answered"]
<1>1. r = [todo |-> r.todo, sess |-> r.sess, at |-> r.at]
  BY DEF Reading
<1>2. a = [todo |-> r.todo, sess |-> r.sess, at |-> "answered"]
  BY <1>1
<1>. HIDE DEF a
<1>3. a.todo = r.todo /\ a.sess = r.sess /\ a.at = "answered"
  BY <1>2
<1>. QED BY <1>2, <1>3 DEF Reading, a

LEMMA ReadsStep ==
    ASSUME RealtimeAssumption, PageInv, [Next]_vars
    PROVE  \A r \in reads' : Reading(r)
<1>. session \in Tags /\ NoSession \notin Sessions /\ \A r \in reads : Reading(r)
  BY DEF PageInv, RoomInv, SocketsAreTyped, RealtimeAssumption
<1>1. ASSUME reads' = reads PROVE \A r \in reads' : Reading(r)
  BY <1>1
<1>2. ASSUME NEW r \in reads, reads' = (reads \ {r}) \cup {[r EXCEPT !.at = "answered"]}
      PROVE  \A q \in reads' : Reading(q)
  BY <1>2, AnsweredReads
<1>3. ASSUME NEW i \in Sockets, Receive(i) PROVE \A r \in reads' : Reading(r)
  <2>. DEFINE type == Head(sock[i].down).type
  <2>1. sock[i].down # <<>> /\ reads' = reads \cup UNION {Begin(todo) : todo \in Refreshes(type)}
    BY <1>3 DEF Receive
  <2>2. sock[i].down \in Seq(Frames)
    BY DEF PageInv, RoomInv, SocketsAreTyped, Ends
  <2>3. type \in Kinds
    <3>1. Head(sock[i].down) \in Frames
      BY <2>1, <2>2
    <3>. QED BY <3>1 DEF Frames, Kinds
  <2>. HIDE DEF type
  <2>4. ASSUME NEW todo \in Refreshes(type), NEW r \in Begin(todo) PROVE Reading(r)
    BY <2>3, <2>4, RefreshesAre, BeginReads
  <2>. QED BY <2>1, <2>4
<1>4. ASSUME NEW r \in reads, Return(r) PROVE \A q \in reads' : Reading(q)
  <2>. DEFINE left == Left(Tail(r.todo))
  <2>1. reads' = reads \ {r} \/ (left # <<"track">> /\ reads' = (reads \ {r}) \cup Asked(left))
    BY <1>4 DEF Return
  <2>2. Refreshing(Tail(r.todo))
    BY TailRefreshes DEF Reading
  <2>. HIDE DEF left
  <2>3. left # <<"track">> => \A q \in Asked(left) : Reading(q)
    BY <2>2, GoesOnReading DEF left
  <2>. QED BY <2>1, <2>3
<1>5. ASSUME NEW todo, Refreshing(todo), todo # <<>>, Head(todo) \in {"other", "sessions"},
             reads' \subseteq reads \cup Asked(todo)
      PROVE  \A r \in reads' : Reading(r)
  <2>1. Head(todo) \notin Rooms /\ Head(todo) # "track"
    BY <1>5 DEF Rooms
  <2>2. \A r \in Asked(todo) : Reading(r)
    BY <1>5, <2>1, AskedReads
  <2>. QED BY <1>5, <2>2
<1>6. ASSUME NEW s \in Sessions, OpenSession(s) PROVE \A r \in reads' : Reading(r)
  <2>. DEFINE todo == <<"other", "approvals", "questions">>
  <2>1. reads' = reads \cup Asked(todo)
    BY <1>6 DEF OpenSession
  <2>2. Refreshing(todo) /\ todo # <<>> /\ Head(todo) = "other"
    BY RefreshesAre
  <2>. HIDE DEF todo
  <2>. QED BY <1>5, <2>1, <2>2
<1>7. ASSUME NEW s \in Sessions, SendMessage(s) PROVE \A r \in reads' : Reading(r)
  <2>. DEFINE todo == <<"other", "sessions", "approvals", "questions", "track">>
  <2>1. reads' = reads \cup Asked(todo)
    BY <1>7 DEF SendMessage
  <2>2. Refreshing(todo) /\ todo # <<>> /\ Head(todo) = "other"
    BY RefreshesAre
  <2>. HIDE DEF todo
  <2>. QED BY <1>5, <2>1, <2>2
<1>8. CASE ClearSearch
  <2>. DEFINE todo == <<"sessions">>
  <2>1. reads' \subseteq reads \cup Asked(todo)
    BY <1>8 DEF ClearSearch
  <2>2. Refreshing(todo) /\ todo # <<>> /\ Head(todo) = "sessions"
    BY RefreshesAre
  <2>. HIDE DEF todo
  <2>. QED BY <1>5, <2>1, <2>2
<1>9. ASSUME NEW k \in Callers, Answered(k) PROVE \A r \in reads' : Reading(r)
  <2>. DEFINE todo == <<"questions">>
  <2>1. reads' \subseteq reads \cup Begin(todo)
    BY <1>9 DEF Answered
  <2>2. Refreshing(todo) /\ \A n \in 1..Len(todo) : todo[n] # "track"
    BY RefreshesAre
  <2>. HIDE DEF todo
  <2>3. \A r \in Begin(todo) : Reading(r)
    BY <2>2, BeginReads
  <2>. QED BY <2>1, <2>3
<1>10. CASE Environment
  BY <1>1, <1>2, <1>6, <1>7, <1>8, <1>10
    DEF Environment, Wake, Cut, NewSession, Search, FooterTick, ServeFails, Changes, Lapse, CreateClarification, Post
<1>11. CASE System
  BY <1>1, <1>2, <1>3, <1>4, <1>9, <1>11
    DEF System, Gateway, Browser, Accept, Subscribe, GatewayDrops, RetryFires, Opens, PageCloses, Refresh, Serve,
        Handler, Look, Rule
<1>12. CASE UNCHANGED vars
  BY <1>1, <1>12 DEF vars
<1>. QED BY <1>10, <1>11, <1>12 DEF Next

\* One end is written and stays whole, or is the one the page lets go or takes.
LEMMA WholeWritten ==
    ASSUME PageInv, NEW i \in Sockets, NEW e \in Ends, Whole(e), sock' = [sock EXCEPT ![i] = e],
           \/ current' = NoSocket
           \/ current' = i /\ e.page \in {"connecting", "open"}
           \/ current' = current /\ i # current
    PROVE  (\A j \in Sockets : Whole(sock[j]))' /\ Held'
<1>1. sock \in [Sockets -> Ends] /\ current \in Sockets \cup {NoSocket} /\ Held /\ \A j \in Sockets : Whole(sock[j])
  BY DEF PageInv, RoomInv, SocketsAreTyped
<1>2. sock'[i] = e /\ \A j \in Sockets : j # i => sock'[j] = sock[j]
  BY <1>1
<1>3. \A j \in Sockets : Whole(sock'[j])
  BY <1>1, <1>2
<1>4. Held'
  BY <1>1, <1>2 DEF Held
<1>. QED BY <1>3, <1>4 DEF Whole

\* Nothing is sent over a link that is cut.
LEMMA SentIsWhole ==
    ASSUME PageInv, NEW i \in Sockets, NEW s \in Tags, sock[i].page \in {"connecting", "open"}
    PROVE  Sent(i, s) \in [Sockets -> Ends] /\ \A j \in Sockets : Whole(Sent(i, s)[j]) /\ Sent(i, s)[j].page = sock[j].page
<1>. DEFINE f == Sent(i, s)
<1>1. /\ f \in [Sockets -> Ends] /\ f[i].page = sock[i].page /\ f[i].link = sock[i].link
      /\ \A j \in Sockets : j # i => f[j] = sock[j]
  BY SentOn DEF PageInv
<1>2. \A j \in Sockets : Whole(sock[j])
  BY DEF PageInv
<1>3. sock[i].link # "up" => f = sock
  BY DEF Sent
<1>4. sock[i].link \in {"up", "cut"}
  BY DEF PageInv, RoomInv, SocketsAreTyped, Ends
<1>. HIDE DEF f
<1>5. Whole(f[i])
  BY <1>1, <1>2, <1>3, <1>4 DEF Whole
<1>. QED BY <1>1, <1>2, <1>5 DEF f

LEMMA ResubscribedIsWhole ==
    ASSUME PageInv, NEW t \in Tags, sock' = Resubscribed(t), current' = current
    PROVE  (\A j \in Sockets : Whole(sock[j]))' /\ Held'
<1>1. (\A j \in Sockets : Whole(sock[j])) /\ Held /\ current \in Sockets \cup {NoSocket} /\ session \in Tags
  BY DEF PageInv, RoomInv, SocketsAreTyped
<1>2. CASE ~Up
  BY <1>1, <1>2 DEF Resubscribed, Held, Whole
<1>3. CASE Up
  <2>1. Target(t) \in Tags /\ sock' = Sent(current, Target(t)) /\ current \in Sockets
    BY <1>1, <1>3 DEF Target, Resubscribed, Subscribed, Up
  <2>2. \A j \in Sockets : Whole(sock'[j]) /\ sock'[j].page = sock[j].page
    BY <1>3, <2>1, SentIsWhole DEF Up
  <2>3. Held'
    BY <1>1, <2>2 DEF Held
  <2>. QED BY <2>2, <2>3 DEF Whole
<1>. QED BY <1>2, <1>3

\* A frame goes to registered sockets whose link is up.
LEMMA PublishedIsWhole ==
    ASSUME PageInv, NEW type \in Kinds, NEW list, NEW saturated, Publish(type, list, saturated),
           list.sess \in Tags, current' = current
    PROVE  (\A j \in Sockets : Whole(sock[j]))' /\ Held' /\ (excused \subseteq behind)'
<1>. DEFINE frame == [type |-> type, sess |-> list.sess]
            told == {i \in Receivers(list, saturated) : sock[i].link = "up"}
<1>1. /\ (\A j \in Sockets : Whole(sock[j])) /\ Held /\ excused \subseteq behind
      /\ sock \in [Sockets -> Ends] /\ current \in Sockets \cup {NoSocket}
  BY DEF PageInv, RoomInv, SocketsAreTyped
<1>2. sock' = [i \in Sockets |-> IF i \in told THEN [sock[i] EXCEPT !.down = Append(@, frame)] ELSE sock[i]]
  BY DEF Publish
<1>3. \A i \in told : sock[i].registered /\ sock[i].link = "up"
  BY DEF Receivers
<1>4. (excused \subseteq behind)'
  BY <1>1 DEF Publish
<1>. HIDE DEF frame, told
<1>5. ASSUME NEW i \in Sockets PROVE Whole(sock'[i]) /\ sock'[i].page = sock[i].page
  <2>1. sock[i] \in Ends /\ Whole(sock[i])
    BY <1>1
  <2>2. CASE sock'[i] = sock[i]
    BY <2>1, <2>2
  <2>3. CASE i \in told /\ sock'[i] = [sock[i] EXCEPT !.down = Append(sock[i].down, frame)]
    <3>1. sock'[i].page = sock[i].page /\ sock'[i].link = sock[i].link /\ sock'[i].registered = sock[i].registered
      BY <2>1, <2>3 DEF Ends
    <3>. QED BY <1>3, <2>1, <2>3, <3>1 DEF Whole
  <2>. QED BY <1>2, <2>2, <2>3
<1>6. Held'
  BY <1>1, <1>5 DEF Held
<1>. QED BY <1>4, <1>5, <1>6 DEF Whole

LEMMA EndsStep ==
    ASSUME PageInv, NEW i \in Sockets, Gateway(i) \/ Browser(i) \/ Cut(i) \/ Wake(i)
    PROVE  (\A j \in Sockets : Whole(sock[j]))' /\ Held'
<1>. /\ sock[i] \in Ends /\ sock \in [Sockets -> Ends] /\ tracked \in Tags /\ session \in Tags
     /\ current \in Sockets \cup {NoSocket} /\ Whole(sock[i]) /\ Held
  BY DEF PageInv, RoomInv, SocketsAreTyped
<1>0. Unused \in Ends /\ Whole(Unused)
  BY DEF Unused, Ends, Tags, Whole
<1>1. CASE RetryFires(i) \/ Wake(i)
  <2>. DEFINE e == [sock[i] EXCEPT !.page = "connecting"]
  <2>1. sock[i] = Unused /\ sock' = [sock EXCEPT ![i] = e] /\ current' = i
    BY <1>1 DEF RetryFires, Wake, Connect
  <2>2. e \in Ends /\ e.page = "connecting" /\ e.link = "up"
    <3>1. e \in Ends /\ e.page = "connecting" /\ e.link = sock[i].link
      BY DEF Ends
    <3>. QED BY <2>1, <3>1 DEF Unused
  <2>. HIDE DEF e
  <2>3. Whole(e)
    BY <2>2 DEF Whole
  <2>. QED BY <2>1, <2>2, <2>3, WholeWritten
<1>2. CASE Accept(i)
  <2>. DEFINE hello == <<[type |-> "hello", sess |-> NoSession]>>
              e == [sock[i] EXCEPT !.registered = TRUE, !.down = hello]
  <2>1. hello \in Seq(Frames)
    <3>1. [type |-> "hello", sess |-> NoSession] \in Frames
      BY DEF Frames
    <3>. QED BY <3>1
  <2>2. /\ sock' = [sock EXCEPT ![i] = e] /\ UNCHANGED current
        /\ sock[i].page = "connecting" /\ sock[i].link = "up"
    BY <1>2 DEF Accept, page
  <2>. HIDE DEF hello
  <2>3. e \in Ends /\ e.page = "connecting" /\ e.link = "up"
    BY <2>1, <2>2 DEF Ends
  <2>. HIDE DEF e
  <2>4. Whole(e)
    BY <2>3 DEF Whole
  <2>. QED BY <2>2, <2>3, <2>4, WholeWritten
<1>3. CASE Subscribe(i)
  <2>. DEFINE e == [sock[i] EXCEPT !.up = Tail(sock[i].up),
                        !.room = IF Head(sock[i].up) = NoSession THEN sock[i].room ELSE Head(sock[i].up)]
  <2>1. sock' = [sock EXCEPT ![i] = e] /\ UNCHANGED current /\ sock[i].up # <<>>
    BY <1>3 DEF Subscribe, page
  <2>2. sock[i].up \in Seq(Tags) /\ Tail(sock[i].up) \in Seq(Tags) /\ Head(sock[i].up) \in Tags
    BY <2>1 DEF Ends
  <2>3. e \in Ends /\ e.page = sock[i].page /\ e.link = sock[i].link
    BY <2>2 DEF Ends
  <2>4. sock[i].page \in {"connecting", "open"} /\ sock[i].link = "up"
    BY <2>1 DEF Whole, Ends
  <2>. HIDE DEF e
  <2>5. Whole(e)
    BY <2>3, <2>4 DEF Whole
  <2>. QED BY <2>1, <2>3, <2>4, <2>5, WholeWritten
<1>4. CASE GatewayDrops(i)
  <2>. DEFINE d == [sock[i] EXCEPT !.registered = FALSE, !.room = NoSession]
              e == Settled(d)
  <2>1. /\ d \in Ends /\ d.link = sock[i].link /\ d.page = sock[i].page /\ d.registered = FALSE
        /\ d.up = sock[i].up /\ d.down = sock[i].down
    BY DEF Ends, Tags
  <2>2. sock' = [sock EXCEPT ![i] = e] /\ UNCHANGED current /\ sock[i].link = "cut" /\ sock[i].registered
    BY <1>4 DEF GatewayDrops, page
  <2>3. sock[i].page \in {"connecting", "open", "closed"} /\ Whole(d)
    <3>. HIDE DEF d
    <3>. QED BY <2>1, <2>2 DEF Whole, Ends
  <2>4. e \in Ends /\ Whole(e) /\ (sock[i].page # "closed" => e.page = sock[i].page)
    <3>. HIDE DEF d
    <3>. QED BY <1>0, <2>1, <2>3 DEF Settled
  <2>. HIDE DEF e
  <2>5. current # i \/ e.page \in {"connecting", "open"}
    BY <2>3, <2>4 DEF Held, Sockets, NoSocket
  <2>. QED BY <2>2, <2>4, <2>5, WholeWritten
<1>5. CASE PageCloses(i)
  <2>. DEFINE d == [sock[i] EXCEPT !.page = "closed"]
              e == Settled(d)
  <2>1. /\ d \in Ends /\ d.link = sock[i].link /\ d.page = "closed"
        /\ d.up = sock[i].up /\ d.down = sock[i].down
    BY DEF Ends
  <2>2. /\ sock' = [sock EXCEPT ![i] = e] /\ sock[i].link = "cut"
        /\ current' = NoSocket \/ (current' = current /\ i # current)
    BY <1>5 DEF PageCloses
  <2>3. e \in Ends /\ Whole(e)
    <3>. HIDE DEF d
    <3>1. Whole(d)
      BY <2>1, <2>2 DEF Whole
    <3>. QED BY <1>0, <2>1, <3>1 DEF Settled
  <2>. HIDE DEF e
  <2>. QED BY <2>2, <2>3, WholeWritten
<1>6. CASE Opens(i)
  <2>. DEFINE t == Target(tracked)
              f == Sent(i, t)
              e == [f[i] EXCEPT !.page = "open"]
  <2>1. t \in Tags
    BY DEF Target
  <2>2. sock' = [f EXCEPT ![i] = e] /\ UNCHANGED current /\ sock[i].link = "up" /\ sock[i].page = "connecting"
    BY <1>6 DEF Opens, Subscribed, page
  <2>. HIDE DEF t
  <2>3. f \in [Sockets -> Ends] /\ f[i].link = "up" /\ \A j \in Sockets : Whole(f[j]) /\ f[j].page = sock[j].page
    BY <2>1, <2>2, SentIsWhole, SentOn DEF PageInv
  <2>. HIDE DEF f
  <2>4. e \in Ends /\ e.page = "open" /\ e.link = "up"
    BY <2>3 DEF Ends
  <2>. HIDE DEF e
  <2>5. \A j \in Sockets : Whole(sock'[j])
    <3>1. Whole(e)
      BY <2>4 DEF Whole
    <3>. QED BY <2>2, <2>3, <3>1
  <2>6. \A j \in Sockets : sock'[j].page = IF j = i THEN "open" ELSE sock[j].page
    BY <2>2, <2>3, <2>4
  <2>7. Held'
    BY <2>2, <2>6 DEF Held
  <2>. QED BY <2>5, <2>7 DEF Whole
<1>7. CASE Receive(i)
  <2>. DEFINE e == [sock[i] EXCEPT !.down = Tail(sock[i].down)]
  <2>1. sock' = [sock EXCEPT ![i] = e] /\ UNCHANGED current /\ sock[i].down # <<>> /\ sock[i].page = "open"
    BY <1>7 DEF Receive
  <2>2. Tail(sock[i].down) \in Seq(Frames)
    BY <2>1 DEF Ends
  <2>3. e \in Ends /\ e.page = "open" /\ e.link = sock[i].link /\ sock[i].link # "cut"
    BY <2>1, <2>2 DEF Ends, Whole
  <2>. HIDE DEF e
  <2>4. Whole(e)
    BY <2>3 DEF Whole
  <2>. QED BY <2>1, <2>3, <2>4, WholeWritten
<1>8. CASE Cut(i)
  <2>. DEFINE e == [sock[i] EXCEPT !.link = "cut", !.up = <<>>, !.down = <<>>]
  <2>1. sock' = [sock EXCEPT ![i] = e] /\ UNCHANGED current /\ sock[i].page \in {"connecting", "open"}
    BY <1>8 DEF Cut, page
  <2>2. e \in Ends /\ e.link = "cut" /\ e.up = <<>> /\ e.down = <<>> /\ e.page = sock[i].page
    <3>1. <<>> \in Seq(Tags) /\ <<>> \in Seq(Frames)
      OBVIOUS
    <3>. DEFINE cut == [sock[i] EXCEPT !.link = "cut"]
                lost == [cut EXCEPT !.up = <<>>]
    <3>2. cut \in Ends /\ cut.link = "cut" /\ cut.page = sock[i].page
      BY DEF Ends
    <3>. HIDE DEF cut
    <3>3. lost \in Ends /\ lost.link = "cut" /\ lost.page = sock[i].page /\ lost.up = <<>>
      BY <3>1, <3>2 DEF Ends
    <3>4. e = [lost EXCEPT !.down = <<>>]
      BY DEF cut
    <3>. HIDE DEF lost, e
    <3>5. /\ [lost EXCEPT !.down = <<>>] \in Ends /\ [lost EXCEPT !.down = <<>>].link = "cut"
          /\ [lost EXCEPT !.down = <<>>].page = sock[i].page
          /\ [lost EXCEPT !.down = <<>>].up = <<>> /\ [lost EXCEPT !.down = <<>>].down = <<>>
      BY <3>1, <3>3 DEF Ends
    <3>. QED BY <3>4, <3>5
  <2>. HIDE DEF e
  <2>3. Whole(e)
    BY <2>1, <2>2 DEF Whole
  <2>. QED BY <2>1, <2>2, <2>3, WholeWritten
<1>. QED BY <1>1, <1>2, <1>3, <1>4, <1>5, <1>6, <1>7, <1>8 DEF Gateway, Browser

\* Only what the core publishes, and what the page reads, is news.
LEMMA ShapesStep ==
    ASSUME RealtimeAssumption, PageInv, [Next]_vars
    PROVE  (\A j \in Sockets : Whole(sock[j]))' /\ Held' /\ (excused \subseteq behind)'
<1>. DEFINE Shapes == (\A j \in Sockets : Whole(sock[j])) /\ Held /\ excused \subseteq behind
<1>. SUFFICES Shapes'
  OBVIOUS
<1>0. Shapes /\ session \in Tags /\ tracked \in Tags /\ current \in Sockets \cup {NoSocket}
  BY DEF PageInv, RoomInv, SocketsAreTyped
<1>1. ASSUME UNCHANGED <<sock, current>>, (excused \subseteq behind)' PROVE Shapes'
  BY <1>0, <1>1 DEF Held, Whole
<1>2. ASSUME NEW i \in Sockets, Gateway(i) \/ Browser(i) \/ Cut(i) \/ Wake(i) PROVE Shapes'
  <2>1. UNCHANGED <<behind, excused>>
    BY <1>2 DEF Gateway, Browser, Accept, Subscribe, GatewayDrops, RetryFires, Opens, Receive, PageCloses, Cut, Wake
  <2>. QED BY <1>0, <1>2, <2>1, EndsStep
<1>3. ASSUME NEW t \in Tags, sock' = Resubscribed(t), UNCHANGED <<current, behind, excused>> PROVE Shapes'
  BY <1>0, <1>3, ResubscribedIsWhole
<1>4. ASSUME NEW r \in reads, Return(r) PROVE Shapes'
  <2>1. UNCHANGED <<current, behind, excused>> /\ (sock' = sock \/ sock' = Resubscribed(session))
    BY <1>4 DEF Return, Track
  <2>. QED BY <1>0, <1>1, <1>3, <2>1
<1>5. CASE NewSession
  <2>1. UNCHANGED <<current, behind, excused>> /\ sock' = IF Up THEN Sent(current, NoSession) ELSE sock
    BY <1>5 DEF NewSession
  <2>2. CASE ~Up
    BY <1>0, <1>1, <2>1, <2>2
  <2>3. CASE Up
    <3>1. \A j \in Sockets : Whole(sock'[j]) /\ sock'[j].page = sock[j].page
      BY <1>0, <2>1, <2>3, SentIsWhole DEF Up, Tags
    <3>2. Held'
      BY <1>0, <2>1, <3>1 DEF Held
    <3>. QED BY <1>0, <2>1, <3>1, <3>2 DEF Whole
  <2>. QED BY <2>2, <2>3
<1>6. ASSUME NEW type \in Kinds, NEW list, list.sess \in Tags, NEW saturated, Publish(type, list, saturated), current' = current
      PROVE  Shapes'
  BY <1>6, PublishedIsWhole
<1>7. \A topic : \A s \in Tags : List(topic, s).sess \in Tags
  BY DEF List, Tags
<1>8. ASSUME NEW saturated, NEW type \in DOMAIN ListOf, NEW s \in Sessions, Changes(type, List(ListOf[type], s), saturated)
      PROVE  Shapes'
  <2>. DEFINE list == List(ListOf[type], s)
  <2>1. list.sess \in Tags /\ type \in Kinds
    BY <1>7 DEF Tags, ListOf, Kinds
  <2>2. Publish(type, list, saturated) /\ UNCHANGED current
    BY <1>8 DEF Changes, page
  <2>. HIDE DEF list, Shapes
  <2>. QED BY <1>6, <2>1, <2>2
<1>9. ASSUME NEW c \in Cards, NEW s \in Sessions, CreateClarification(c, s) PROVE Shapes'
  <2>. DEFINE list == List("questions", s)
  <2>1. list.sess \in Tags /\ "clarification" \in Kinds
    BY <1>7 DEF Tags, Kinds
  <2>2. Publish("clarification", list, {}) /\ UNCHANGED current
    BY <1>9 DEF CreateClarification, page
  <2>. HIDE DEF list, Shapes
  <2>. QED BY <1>6, <2>1, <2>2
<1>10. ASSUME NEW k \in Callers, Rule(k) PROVE Shapes'
  <2>. DEFINE list == List("questions", card[call[k].card].home)
  <2>1. call[k].card \in Cards /\ "clarification" \in Kinds
    BY <1>10 DEF Rule, PageInv, RoomInv, ClosingInv, CallsNameQuestions, Kinds
  <2>2. list.sess \in Tags
    <3>1. card[call[k].card].home \in Tags
      BY <2>1 DEF PageInv, RoomInv, ClosingInv, CardsAreTyped, Tags
    <3>. QED BY <1>7, <3>1
  <2>3. UNCHANGED current /\ (Publish("clarification", list, {}) \/ UNCHANGED <<sock, behind, excused>>)
    BY <1>10 DEF Rule, page
  <2>. HIDE DEF list
  <2>. QED BY <1>0, <1>1, <1>6, <2>1, <2>2, <2>3
<1>11. ASSUME NEW r \in reads, Serve(r) \/ ServeFails(r) PROVE Shapes'
  <2>1. UNCHANGED <<sock, current>>
    BY <1>11 DEF Serve, ServeFails, page
  <2>2. (excused \subseteq behind)'
    BY <1>0, <1>11 DEF Serve, ServeFails
  <2>. QED BY <1>1, <2>1, <2>2
<1>12. CASE Environment
  <2>1. ASSUME NEW s \in Sessions, OpenSession(s) PROVE Shapes'
    BY <1>3, <2>1 DEF OpenSession, Track, Tags
  <2>2. CASE FooterTick
    BY <1>0, <1>3, <2>2 DEF FooterTick, page
  <2>. HIDE DEF Shapes
  <2>3. ASSUME UNCHANGED <<sock, current, behind, excused>> PROVE Shapes'
    BY <1>0, <1>1, <2>3 DEF Shapes
  <2>4. ASSUME \/ \E s \in Sessions : SendMessage(s)
               \/ Search \/ ClearSearch \/ \E c \in Cards : Lapse(c)
               \/ \E k \in Callers, c \in Cards, to \in {"answered", "cancelled", "unoffered"}, s \in Sessions :
                     Post(k, c, to, s)
        PROVE  Shapes'
    <3>1. UNCHANGED <<sock, current, behind, excused>>
      BY <2>4 DEF SendMessage, Search, ClearSearch, Lapse, Post, page
    <3>. QED BY <2>3, <3>1
  <2>5. ASSUME \E i \in Sockets : Wake(i) \/ Cut(i) PROVE Shapes'
    BY <1>2, <2>5
  <2>6. ASSUME \E saturated \in SUBSET Sockets, type \in DOMAIN ListOf, s \in Sessions :
                 ListOf[type] \in Shown /\ Changes(type, List(ListOf[type], s), saturated)
        PROVE  Shapes'
    BY <1>8, <2>6
  <2>7. \/ \E i \in Sockets : Wake(i) \/ Cut(i)
        \/ \E s \in Sessions : OpenSession(s)
        \/ NewSession \/ FooterTick
        \/ \E r \in reads : ServeFails(r)
        \/ \E saturated \in SUBSET Sockets, type \in DOMAIN ListOf, s \in Sessions :
              ListOf[type] \in Shown /\ Changes(type, List(ListOf[type], s), saturated)
        \/ \E c \in Cards, s \in Sessions : CreateClarification(c, s)
        \/ \/ \E s \in Sessions : SendMessage(s)
           \/ Search \/ ClearSearch \/ \E c \in Cards : Lapse(c)
           \/ \E k \in Callers, c \in Cards, to \in {"answered", "cancelled", "unoffered"}, s \in Sessions :
                 Post(k, c, to, s)
    BY <1>12 DEF Environment
  <2>. QED BY <1>5, <1>9, <1>11, <2>1, <2>2, <2>4, <2>5, <2>6, <2>7
<1>13. CASE System
  <2>. HIDE DEF Shapes
  <2>3. ASSUME UNCHANGED <<sock, current, behind, excused>> PROVE Shapes'
    BY <1>0, <1>1, <2>3 DEF Shapes
  <2>4. ASSUME \E k \in Callers : Look(k) \/ Answered(k) PROVE Shapes'
    <3>1. UNCHANGED <<sock, current, behind, excused>>
      BY <2>4 DEF Look, Answered, page
    <3>. QED BY <2>3, <3>1
  <2>5. \/ \E i \in Sockets : Gateway(i) \/ Browser(i)
        \/ \E r \in reads : Serve(r) \/ Return(r)
        \/ \E k \in Callers : Look(k) \/ Answered(k)
        \/ \E k \in Callers : Rule(k)
    BY <1>13 DEF System, Refresh, Handler
  <2>. QED BY <1>2, <1>4, <1>10, <1>11, <2>4, <2>5
<1>14. CASE UNCHANGED vars
  BY <1>0, <1>1, <1>14 DEF vars
<1>. QED BY <1>12, <1>13, <1>14 DEF Next

LEMMA FlagsStep == ASSUME PageInv, [Next]_vars PROVE Flags'
<1>1. Flags
  BY DEF PageInv
<1>2. timer' \in {timer, TRUE, FALSE}
  BY DEF Next, vars, page, Environment, System, Gateway, Browser, Handler, Refresh, Wake, Cut, OpenSession, SendMessage,
         NewSession, Search, ClearSearch, FooterTick, ServeFails, Changes, Lapse, CreateClarification, Post, Accept,
         Subscribe, GatewayDrops, RetryFires, Opens, Receive, PageCloses, Look, Rule, Answered, Serve, Return
<1>3. searching' \in {searching, TRUE, FALSE}
  BY DEF Next, vars, page, Environment, System, Gateway, Browser, Handler, Refresh, Wake, Cut, OpenSession, SendMessage,
         NewSession, Search, ClearSearch, FooterTick, ServeFails, Changes, Lapse, CreateClarification, Post, Accept,
         Subscribe, GatewayDrops, RetryFires, Opens, Receive, PageCloses, Look, Rule, Answered, Serve, Return
<1>4. connected' \in BOOLEAN
  <2>1. connected' = connected \/ connected' = FALSE \/ \E i \in Sockets : Receive(i)
    BY DEF Next, vars, page, Environment, System, Gateway, Browser, Handler, Refresh, Wake, Cut, OpenSession, SendMessage,
           NewSession, Search, ClearSearch, FooterTick, ServeFails, Changes, Lapse, CreateClarification, Post, Accept,
           Subscribe, GatewayDrops, RetryFires, Opens, PageCloses, Look, Rule, Answered, Serve, Return
  <2>2. ASSUME NEW i \in Sockets, Receive(i) PROVE connected' \in BOOLEAN
    BY <2>2 DEF Receive
  <2>. QED BY <1>1, <2>1, <2>2 DEF Flags
<1>. QED BY <1>1, <1>2, <1>3, <1>4 DEF Flags

\* The page's and the gateway's tables keep their shapes: a refresh of a
\* session's list names a session, a socket that is gone keeps nothing, and
\* what is excused has changed, for any sessions, sockets and bounds.
THEOREM TypeCorrect == Spec => []TypeOK
<1>1. Init /\ RoomInv => PageInv
  <2>. SUFFICES ASSUME Init, RoomInv PROVE PageInv
    OBVIOUS
  <2>1. 1 \in Sockets
    BY RealtimeAssumption DEF Sockets
  <2>2. Whole(Unused) /\ Whole([Unused EXCEPT !.page = "connecting"]) /\ [Unused EXCEPT !.page = "connecting"].page = "connecting"
    BY DEF Unused, Whole
  <2>3. \A i \in Sockets : Whole(sock[i])
    BY <2>2 DEF Init
  <2>4. Held
    BY <2>1, <2>2 DEF Init, Held
  <2>. QED BY <2>3, <2>4 DEF Init, Flags, PageInv
<1>2. PageInv /\ [Next]_vars /\ RoomInv' => PageInv'
  BY ReadsStep, ShapesStep, FlagsStep, RealtimeAssumption DEF PageInv
<1>3. PageInv => TypeOK
  BY PageIsTyped
<1>. QED BY <1>1, <1>2, <1>3, RoomInvariance, PTL DEF Spec
=============================================================================
