----------------------------- MODULE ChatProofs -----------------------------
(* Clicks resume a parked turn once; the variables keep their types; and a   *)
(* stored transcript is whole: the proofs for any number of turns, sessions, *)
(* streams and clicks.                                                       *)
EXTENDS Chat, FiniteSetTheorems, SequenceTheorems, TLAPS

\* A turn in pendingResumes has a parking that no click has used.
ParkingLeft ==
    \A r \in Turns : parked[r] # NoSession => resumes[r] < parkings[r]

\* The inductive invariant.
ParkingInv ==
    /\ parked = [r \in Turns |-> parked[r]]
    /\ parkings \in [Turns -> Nat] /\ resumes \in [Turns -> Nat]
    /\ ResumedOncePerParking /\ ParkingLeft

\* A page that was just opened has parked nothing.
LEMMA ParkingInit == ASSUME Init PROVE ParkingInv
BY DEF Init, ParkingInv, ResumedOncePerParking, ParkingLeft

\* Only a delivered event parks a turn, and only a click that finds it parked
\* takes the parking.
LEMMA ParkingStep == ASSUME ParkingInv, [Next]_vars PROVE ParkingInv'
<1>1. ASSUME UNCHANGED <<parked, parkings, resumes>> PROVE ParkingInv'
  BY <1>1 DEF ParkingInv, ResumedOncePerParking, ParkingLeft
<1>2. ASSUME NEW i \in Ids, Deliver(i) PROVE ParkingInv'
  <2>. DEFINE e == Head(streams[i].sent)
  <2>1. UNCHANGED resumes
    BY <1>2 DEF Deliver
  <2>2. \/ UNCHANGED <<parked, parkings>>
        \/ /\ parked' = [parked EXCEPT ![e.turn] = session]
           /\ parkings' = [parkings EXCEPT ![e.turn] = @ + 1]
    BY <1>2 DEF Deliver
  <2>. HIDE DEF e
  <2>3. parkings' \in [Turns -> Nat] /\ \A r \in Turns : parkings'[r] >= parkings[r]
    BY <2>2 DEF ParkingInv
  <2>4. parked' = [r \in Turns |-> parked'[r]]
    BY <2>2 DEF ParkingInv
  <2>5. ASSUME NEW r \in Turns, parked'[r] # NoSession PROVE resumes[r] < parkings'[r]
    <3>1. CASE parked[r] # NoSession
      BY <2>3, <3>1 DEF ParkingInv, ParkingLeft
    <3>2. CASE parked[r] = NoSession
      <4>1. r = e.turn /\ parkings'[r] = parkings[r] + 1
        BY <2>2, <2>5, <3>2 DEF ParkingInv
      <4>. QED BY <4>1 DEF ParkingInv, ResumedOncePerParking
    <3>. QED BY <3>1, <3>2
  <2>6. \A r \in Turns : resumes[r] <= parkings'[r]
    BY <2>3 DEF ParkingInv, ResumedOncePerParking
  <2>. QED BY <2>1, <2>3, <2>4, <2>5, <2>6 DEF ParkingInv, ResumedOncePerParking, ParkingLeft
<1>3. ASSUME NEW c \in Clicks, NEW i \in Ids, Unpark(c, i) PROVE ParkingInv'
  <2>. DEFINE r == clicks[c].turn
  <2>1. CASE parked[r] = NoSession
    BY <1>1, <1>3, <2>1 DEF Unpark
  <2>2. CASE parked[r] # NoSession
    <3>1. /\ UNCHANGED parkings
          /\ parked' = [parked EXCEPT ![r] = NoSession]
          /\ resumes' = [resumes EXCEPT ![r] = @ + 1]
      BY <1>3, <2>2 DEF Unpark
    <3>. HIDE DEF r
    <3>2. ASSUME NEW q \in Turns PROVE resumes'[q] <= parkings[q]
      <4>1. CASE q = r
        BY <2>2, <3>1, <4>1 DEF ParkingInv, ParkingLeft
      <4>2. CASE q # r
        BY <3>1, <4>2 DEF ParkingInv, ResumedOncePerParking
      <4>. QED BY <4>1, <4>2
    <3>3. ASSUME NEW q \in Turns, parked'[q] # NoSession PROVE resumes'[q] < parkings[q]
      <4>1. q # r /\ parked[q] # NoSession
        BY <3>1, <3>3 DEF ParkingInv
      <4>. QED BY <3>1, <4>1 DEF ParkingInv, ParkingLeft
    <3>4. resumes' \in [Turns -> Nat]
      <4>1. \A q \in Turns : resumes'[q] \in Nat
        BY <3>1 DEF ParkingInv
      <4>2. resumes' = [q \in Turns |-> resumes'[q]]
        BY <3>1 DEF ParkingInv
      <4>. QED BY <4>1, <4>2
    <3>5. parked' = [q \in Turns |-> parked'[q]]
      BY <3>1 DEF ParkingInv
    <3>. QED BY <3>1, <3>2, <3>3, <3>4, <3>5 DEF ParkingInv, ResumedOncePerParking, ParkingLeft
  <2>. QED BY <2>1, <2>2
<1>4. ASSUME Acts PROVE ParkingInv'
  BY <1>1, <1>4
    DEF Acts, Send, SendCommand, Switch, Click, ResolveElsewhere, ExecuteElsewhere, page
<1>5. ASSUME NEW i \in Ids, Serve(i) PROVE ParkingInv'
  BY <1>1, <1>5
    DEF Serve, Arrive, Complete, Fail, Park, Refuse, Answer, Resume, ToolReturns, Plan, Finalize, RunCommand, page
<1>6. ASSUME NEW i \in Ids, Hear(i) \/ Break(i) \/ \E q \in Turns : CutShort(i, q) PROVE ParkingInv'
  BY <1>1, <1>2, <1>6 DEF Hear, Close, CutShort, Break, page
<1>7. ASSUME NEW t \in timers, NEW i \in Ids, TimerFires(t, i) PROVE ParkingInv'
  BY <1>1, <1>7 DEF TimerFires
<1>8. ASSUME NEW r \in Turns, NEW q \in Turns, CompleteElsewhere(r, q) PROVE ParkingInv'
  BY <1>1, <1>8 DEF CompleteElsewhere, page
<1>9. ASSUME NEW c \in Clicks, Resolve(c) PROVE ParkingInv'
  BY <1>1, <1>9 DEF Resolve
<1>10. ASSUME Crash PROVE ParkingInv'
  BY <1>1, <1>10 DEF Crash
<1>. QED BY <1>1, <1>3, <1>4, <1>5, <1>6, <1>7, <1>8, <1>9, <1>10 DEF Next, vars

\* However many clicks on its card are under way at once, a turn is resumed at
\* most once for each time a stream parked it.
THEOREM ParkedTurnsResumeOnce == Spec => []ResumedOncePerParking
<1>1. Init => ParkingInv
  BY ParkingInit
<1>2. ParkingInv /\ [Next]_vars => ParkingInv'
  BY ParkingStep
<1>3. ParkingInv => ResumedOncePerParking
  BY DEF ParkingInv
<1>. QED BY <1>1, <1>2, <1>3, PTL DEF Spec

-----------------------------------------------------------------------------
(* types                                                                    *)

Tags == Sessions \cup {NoSession}

Said == [type : {"meta", "done", "error"}, sess : Tags, turn : Turns \cup {NoTurn},
         status : {"none", "ok", "approval_required", "processing", "command", "session"}]

\* An event that parks or polls a turn names one.
Fine(e) == e \in Said /\ (e.status \in {"approval_required", "processing"} => e.turn \in Turns)
AllFine(sent) == sent \in Seq(Said) /\ \A n \in 1..Len(sent) : Fine(sent[n])

\* A stream that asks for a turn, or is at one, names it.
Working == {"running", "settling", "planning", "answering"}
Named(x) ==
    /\ x.kind \in {"turn", "resume"} => x.turn \in Turns
    /\ x.doing \in Working => x.kind \in {"turn", "resume"}
    /\ AllFine(x.sent)

StreamsTyped == streams \in [Ids -> Streams] /\ \A i \in Ids : Named(streams[i])

ClicksTyped ==
    /\ clicks \in [Clicks -> [pc : {"idle", "posted", "answered"}, turn : Turns \cup {NoTurn},
                              decision : {"none", "approved", "rejected"}, sess : Tags]]
    /\ \A c \in Clicks : clicks[c].pc # "idle" => clicks[c].turn \in Turns

PageTyped ==
    /\ session \in Tags /\ busy \in BOOLEAN
    /\ parked \in [Turns -> Tags]
    /\ timers \subseteq [turn : Turns, sess : Sessions, polls : 1..MaxPolls]
    /\ parkings \in [Turns -> Nat] /\ resumes \in [Turns -> Nat]

States == {"none", "sent", "running", "parked", "ran", "answering", "done", "failed", "unknown"}
Records == [state : States, home : Tags, msg : Turns \cup {NoTurn}]
TurnsTyped ==
    /\ turn \in [Turns -> Records]
    /\ approval \in [Turns -> {"none", "pending", "approved", "rejected"}]

Rows == [turn : Turns, role : {"user", "assistant"}, excluded : BOOLEAN]
LogTyped == exists \subseteq Sessions /\ log \in [Sessions -> Seq(Rows)]

Bounded == events \in 0..MaxEvents /\ faults \in 0..MaxFaults

Typed == StreamsTyped /\ ClicksTyped /\ PageTyped /\ TurnsTyped /\ LogTyped /\ Bounded

LEMMA TypedIsTypeOK == ASSUME Typed PROVE TypeOK
<1>1. ASSUME NEW s \in Sessions, NEW n \in DOMAIN log[s]
      PROVE  log[s][n] \in [turn : Turns, role : {"user", "assistant"}, excluded : BOOLEAN]
  <2>1. log[s] \in Seq(Rows)
    BY DEF Typed, LogTyped
  <2>2. log[s][n] \in Rows
    BY <2>1
  <2>. QED BY <2>2 DEF Rows
<1>. QED BY <1>1 DEF TypeOK, Typed, StreamsTyped, ClicksTyped, PageTyped, TurnsTyped, LogTyped, Bounded,
                      States, Records, Tags

LEMMA Numbers ==
    /\ MaxTurns \in Nat /\ MaxPolls \in Nat /\ MaxEvents \in Nat /\ MaxFaults \in Nat
    /\ NoTurn \notin Turns /\ NoSession \notin Sessions
BY ChatAssumption DEF Turns, NoTurn

\* The events the core sends.
LEMMA EventsFine ==
    /\ \A s \in Tags : Fine(Meta(s))
    /\ Fine(Error)
    /\ \A r \in Turns, status \in {"ok", "approval_required", "processing"} : Fine(Done(r, status))
    /\ \A status \in {"command", "session"} : Fine(Done(NoTurn, status))
BY DEF Fine, Said, Meta, Error, Done, Tags

LEMMA SaidFine ==
    ASSUME NEW e, NEW f, Fine(e), Fine(f)
    PROVE  AllFine(<<e>>) /\ AllFine(<<e, f>>)
<1>1. e \in Said /\ f \in Said
  BY DEF Fine
<1>2. <<e>> \in Seq(Said) /\ Len(<<e>>) = 1 /\ <<e>>[1] = e
  BY <1>1
<1>3. <<e, f>> \in Seq(Said) /\ Len(<<e, f>>) = 2 /\ <<e, f>>[1] = e /\ <<e, f>>[2] = f
  BY <1>1
<1>. QED BY <1>2, <1>3 DEF AllFine

LEMMA ConcatFine ==
    ASSUME NEW u, NEW v, AllFine(u), AllFine(v)
    PROVE  AllFine(u \o v)
<1>1. u \in Seq(Said) /\ v \in Seq(Said)
  BY DEF AllFine
<1>2. /\ u \o v \in Seq(Said) /\ Len(u \o v) = Len(u) + Len(v) /\ Len(u) \in Nat /\ Len(v) \in Nat
      /\ \A i \in 1..Len(u) + Len(v) : (u \o v)[i] = IF i <= Len(u) THEN u[i] ELSE v[i - Len(u)]
  BY <1>1, ConcatProperties
<1>3. ASSUME NEW i \in 1..Len(u \o v) PROVE Fine((u \o v)[i])
  <2>1. CASE i <= Len(u)
    BY <1>2, <2>1 DEF AllFine
  <2>2. CASE i > Len(u)
    <3>1. i - Len(u) \in 1..Len(v) /\ (u \o v)[i] = v[i - Len(u)]
      BY <1>2, <2>2
    <3>. QED BY <3>1 DEF AllFine
  <2>. QED BY <1>2, <2>1, <2>2
<1>. QED BY <1>2, <1>3 DEF AllFine

LEMMA EmptyFine == AllFine(<<>>)
BY DEF AllFine

LEMMA TailFine ==
    ASSUME NEW u, AllFine(u), u # <<>>
    PROVE  AllFine(Tail(u)) /\ Fine(Head(u))
<1>1. u \in Seq(Said)
  BY DEF AllFine
<1>2. /\ Tail(u) \in Seq(Said) /\ Len(Tail(u)) = Len(u) - 1 /\ Len(u) \in Nat /\ Len(u) >= 1
      /\ \A i \in 1..Len(Tail(u)) : Tail(u)[i] = u[i + 1]
      /\ Head(u) = u[1]
  BY <1>1
<1>. QED BY <1>2 DEF AllFine

\* One stream is written.
LEMMA StreamWritten ==
    ASSUME StreamsTyped, NEW i \in Ids, NEW x \in Streams, Named(x), streams' = [streams EXCEPT ![i] = x]
    PROVE  StreamsTyped'
<1>1. streams' \in [Ids -> Streams] /\ streams'[i] = x /\ \A j \in Ids : j # i => streams'[j] = streams[j]
  BY DEF StreamsTyped
<1>2. ASSUME NEW j \in Ids PROVE Named(streams'[j])
  BY <1>1 DEF StreamsTyped
<1>. QED BY <1>1, <1>2 DEF StreamsTyped

LEMMA FreeStream == Free \in Streams /\ Named(Free)
<1>1. Free \in Streams
  BY Numbers DEF Free, Streams, Tags
<1>2. Free.sent = <<>> /\ Free.kind = "free" /\ Free.doing = "nothing"
  BY DEF Free
<1>. QED BY <1>1, <1>2, EmptyFine DEF Named, Working

LEMMA SayKeeps ==
    ASSUME StreamsTyped, NEW i \in Ids, NEW doing \in {"nothing"} \cup Working, NEW said, AllFine(said),
           doing \in Working => streams[i].kind \in {"turn", "resume"}, Say(i, doing, said)
    PROVE  StreamsTyped'
<1>. DEFINE sent == IF streams[i].heard THEN streams[i].sent \o said ELSE streams[i].sent
            x == [streams[i] EXCEPT !.doing = doing, !.sent = sent]
<1>1. streams[i] \in Streams /\ Named(streams[i])
  BY DEF StreamsTyped
<1>2. AllFine(sent)
  <2>1. AllFine(streams[i].sent) /\ AllFine(streams[i].sent \o said)
    BY <1>1, ConcatFine DEF Named
  <2>. QED BY <2>1
<1>3. streams' = [streams EXCEPT ![i] = x]
  BY <1>1 DEF Say, StreamsTyped
<1>. HIDE DEF sent
<1>4. x \in Streams /\ x.kind = streams[i].kind /\ x.turn = streams[i].turn /\ x.doing = doing /\ x.sent = sent
  BY <1>1, <1>2 DEF Streams, AllFine, Said, Tags, Working
<1>. HIDE DEF x
<1>5. Named(x)
  BY <1>1, <1>2, <1>4 DEF Named
<1>. QED BY <1>3, <1>4, <1>5, StreamWritten

LEMMA OpenKeeps ==
    ASSUME StreamsTyped, NEW i \in Ids, NEW kind \in {"turn", "command", "resume"}, NEW cmd \in {"none"} \cup Commands,
           NEW r \in Turns \cup {NoTurn}, NEW s \in Tags, NEW polls \in 0..MaxPolls,
           kind # "command" => r \in Turns, Open(i, Request(kind, cmd, r, s, polls))
    PROVE  StreamsTyped'
<1>. DEFINE x == Request(kind, cmd, r, s, polls)
<1>1. x.kind = kind /\ x.turn = r /\ x.doing = "asked" /\ x.sent = <<>>
  BY DEF Request, Free
<1>2. x \in Streams
  <2>. DEFINE a == [Free EXCEPT !.kind = kind]
              b == [a EXCEPT !.cmd = cmd]
              c == [b EXCEPT !.turn = r]
              d == [c EXCEPT !.sess = s]
              e == [d EXCEPT !.polls = polls]
  <2>1. x = [e EXCEPT !.doing = "asked"]
    BY DEF Request
  <2>2. a \in Streams
    BY FreeStream DEF Streams
  <2>. HIDE DEF a
  <2>3. b \in Streams
    BY <2>2 DEF Streams
  <2>. HIDE DEF b
  <2>4. c \in Streams
    BY <2>3 DEF Streams
  <2>. HIDE DEF c
  <2>5. d \in Streams
    BY <2>4 DEF Streams, Tags
  <2>. HIDE DEF d
  <2>6. e \in Streams
    BY <2>5 DEF Streams
  <2>. HIDE DEF e, x
  <2>. QED BY <2>1, <2>6 DEF Streams
<1>3. streams' = [streams EXCEPT ![i] = x]
  BY DEF Open
<1>. HIDE DEF x
<1>4. Named(x)
  BY <1>1, EmptyFine DEF Named, Working
<1>. QED BY <1>2, <1>3, <1>4, StreamWritten

\* The streams after a step of the user, the page or the core.
LEMMA StreamsOfActs ==
    ASSUME Typed, Acts PROVE StreamsTyped'
<1>. StreamsTyped /\ session \in Tags
  BY DEF Typed, PageTyped
<1>1. CASE streams' = streams
  BY <1>1 DEF StreamsTyped
<1>2. ASSUME NEW r \in Turns, NEW i \in Ids, Send(r, i) PROVE StreamsTyped'
  <2>1. Open(i, Request("turn", "none", r, session, 0))
    BY <1>2 DEF Send
  <2>. QED BY <2>1, OpenKeeps, Numbers
<1>3. ASSUME NEW cmd \in Commands, NEW i \in Ids, SendCommand(cmd, i) PROVE StreamsTyped'
  <2>1. Open(i, Request("command", cmd, NoTurn, session, 0))
    BY <1>3 DEF SendCommand
  <2>2. cmd \in {"none"} \cup Commands /\ NoTurn \in Turns \cup {NoTurn} /\ 0 \in 0..MaxPolls
    BY Numbers
  <2>. QED BY <2>1, <2>2, OpenKeeps
<1>. QED BY <1>1, <1>2, <1>3 DEF Acts, Switch, Click, ResolveElsewhere, ExecuteElsewhere

\* What the core plans, settles, parks or answers is a turn.
LEMMA StoresTurn ==
    ASSUME Typed, NEW i \in Ids
    PROVE  /\ streams[i].doing \in Working => streams[i].turn \in Turns /\ streams[i].kind \in {"turn", "resume"}
           /\ streams[i].kind \in {"turn", "resume"} => streams[i].turn \in Turns
BY DEF Typed, StreamsTyped, Named

LEMMA StreamsOfCore ==
    ASSUME Typed, NEW i \in Ids, Serve(i) \/ \E q \in Turns : CutShort(i, q) PROVE StreamsTyped'
<1>. DEFINE s == streams[i].sess
<1>1. StreamsTyped /\ s \in Tags /\ streams[i] \in Streams /\ Named(streams[i])
  BY DEF Typed, StreamsTyped, Streams, Tags
<1>2. /\ \A said : AllFine(said) /\ Say(i, "nothing", said) => StreamsTyped'
      /\ \A doing \in Working : \A said :
             AllFine(said) /\ streams[i].kind \in {"turn", "resume"} /\ Say(i, doing, said) => StreamsTyped'
  BY <1>1, SayKeeps DEF Working
<1>3. AllFine(<<>>) /\ Working = {"running", "settling", "planning", "answering"}
  BY EmptyFine DEF Working
<1>4. ASSUME NEW e, Fine(e), Say(i, "nothing", <<e>>) PROVE StreamsTyped'
  BY <1>2, <1>4, SaidFine
<1>5. ASSUME NEW e, NEW f, Fine(e), Fine(f), Say(i, "nothing", <<e, f>>) PROVE StreamsTyped'
  BY <1>2, <1>5, SaidFine
<1>6. CASE Arrive(i)
  <2>1. PICK t \in Sessions \cup {s} : Say(i, "planning", <<Meta(t)>>)
    BY <1>6 DEF Arrive
  <2>2. AllFine(<<Meta(t)>>)
    BY <1>1, EventsFine, SaidFine DEF Tags
  <2>3. streams[i].kind = "turn"
    BY <1>6 DEF Arrive
  <2>. QED BY <1>2, <1>3, <2>1, <2>2, <2>3
<1>7. ASSUME NEW q \in Turns, Complete(i, q) PROVE StreamsTyped'
  BY <1>4, <1>7, EventsFine DEF Complete
<1>8. ASSUME NEW q \in Turns, Park(i, q) PROVE StreamsTyped'
  BY <1>4, <1>8, EventsFine DEF Park
<1>9. ASSUME Fail(i) \/ \E q \in Turns : CutShort(i, q) PROVE StreamsTyped'
  BY <1>4, <1>9, EventsFine DEF Fail, CutShort
<1>10. CASE Refuse(i)
  BY <1>1, <1>5, <1>10, EventsFine DEF Refuse
<1>11. ASSUME NEW t \in Turns, Answer(i, t) PROVE StreamsTyped'
  <2>1. \E status \in {"ok", "approval_required", "processing"} : Say(i, "nothing", <<Done(t, status)>>)
    BY <1>11 DEF Answer
  <2>. QED BY <1>4, <2>1, EventsFine
<1>12. CASE Resume(i)
  <2>1. PICK doing \in {"running", "settling"} : Say(i, doing, <<Meta(s)>>)
    BY <1>12 DEF Resume
  <2>2. streams[i].kind = "resume"
    BY <1>12 DEF Resume, Resuming
  <2>3. AllFine(<<Meta(s)>>)
    BY <1>1, EventsFine, SaidFine
  <2>. QED BY <1>2, <1>3, <2>1, <2>2, <2>3
<1>13. CASE ToolReturns(i) \/ Plan(i)
  <2>1. \E doing \in {"settling", "planning"} : Say(i, doing, <<>>)
    BY <1>13 DEF ToolReturns, Plan
  <2>2. streams[i].doing \in Working
    BY <1>3, <1>13 DEF ToolReturns, Plan
  <2>. QED BY <1>2, <1>3, <2>1, <2>2, StoresTurn
<1>14. ASSUME NEW t \in Turns, Finalize(i, t) PROVE StreamsTyped'
  <2>1. PICK doing \in {"answering", "running"} :
           streams' = [streams EXCEPT ![i].turn = t, ![i].doing = doing]
    BY <1>14 DEF Finalize
  <2>2. streams[i].kind \in {"turn", "resume"}
    BY <1>3, <1>14, StoresTurn DEF Finalize
  <2>. DEFINE y == [streams[i] EXCEPT !.turn = t]
              x == [y EXCEPT !.doing = doing]
  <2>3. streams' = [streams EXCEPT ![i] = x]
    BY <1>1, <2>1 DEF StreamsTyped
  <2>4. y \in Streams /\ y.kind = streams[i].kind /\ y.turn = t /\ y.sent = streams[i].sent
    BY <1>1 DEF Streams
  <2>. HIDE DEF y
  <2>5. x \in Streams /\ x.kind = streams[i].kind /\ x.turn = t /\ x.sent = streams[i].sent
    BY <2>4 DEF Streams
  <2>. HIDE DEF x
  <2>6. Named(x)
    BY <1>1, <2>2, <2>5 DEF Named
  <2>. QED BY <1>1, <2>3, <2>5, <2>6, StreamWritten
<1>15. CASE RunCommand(i)
  <2>1. CASE Say(i, "nothing", <<Error>>)
    BY <1>4, <2>1, EventsFine
  <2>2. CASE Say(i, "nothing", <<Meta(s), Done(NoTurn, "command")>>)
    BY <1>1, <1>5, <2>2, EventsFine
  <2>3. ASSUME NEW new \in Sessions, Say(i, "nothing", <<Meta(new), Done(NoTurn, "session")>>) PROVE StreamsTyped'
    <3>1. Fine(Meta(new)) /\ Fine(Done(NoTurn, "session"))
      BY EventsFine DEF Tags
    <3>. QED BY <1>5, <2>3, <3>1
  <2>. QED BY <1>15, <2>1, <2>2, <2>3 DEF RunCommand
<1>. QED BY <1>6, <1>7, <1>8, <1>9, <1>10, <1>11, <1>12, <1>13, <1>14, <1>15 DEF Serve

LEMMA StreamsOfPage ==
    ASSUME Typed, NEW i \in Ids,
           \/ Hear(i) \/ Break(i) \/ Crash
           \/ \E c \in Clicks : Unpark(c, i)
           \/ \E t \in timers : TimerFires(t, i)
    PROVE  StreamsTyped'
<1>1. StreamsTyped /\ streams[i] \in Streams /\ Named(streams[i]) /\ streams \in [Ids -> Streams]
  BY DEF Typed, StreamsTyped
<1>2. CASE Deliver(i)
  <2>. DEFINE x == [streams[i] EXCEPT !.sent = Tail(streams[i].sent)]
  <2>1. streams' = [streams EXCEPT ![i] = x] /\ streams[i].sent # <<>>
    BY <1>1, <1>2 DEF Deliver
  <2>2. AllFine(Tail(streams[i].sent))
    BY <1>1, <2>1, TailFine DEF Named
  <2>3. x \in Streams /\ x.kind = streams[i].kind /\ x.turn = streams[i].turn /\ x.doing = streams[i].doing
        /\ x.sent = Tail(streams[i].sent)
    BY <1>1, <2>2 DEF Streams, AllFine, Said, Tags
  <2>. HIDE DEF x
  <2>4. Named(x)
    BY <1>1, <2>2, <2>3 DEF Named
  <2>. QED BY <1>1, <2>1, <2>3, <2>4, StreamWritten
<1>3. CASE Close(i)
  BY <1>1, <1>3, FreeStream, StreamWritten DEF Close
<1>4. CASE Break(i)
  <2>. DEFINE x == [streams[i] EXCEPT !.heard = FALSE, !.sent = <<>>]
  <2>1. streams' = [streams EXCEPT ![i] = x]
    BY <1>1, <1>4 DEF Break
  <2>2. x \in Streams /\ x.kind = streams[i].kind /\ x.turn = streams[i].turn /\ x.doing = streams[i].doing
        /\ x.sent = <<>>
    <3>. DEFINE unheard == [streams[i] EXCEPT !.heard = FALSE]
    <3>1. /\ unheard \in Streams /\ unheard.kind = streams[i].kind /\ unheard.turn = streams[i].turn
          /\ unheard.doing = streams[i].doing
      BY <1>1 DEF Streams
    <3>2. x = [unheard EXCEPT !.sent = <<>>]
      OBVIOUS
    <3>. HIDE DEF unheard, x
    <3>3. <<>> \in Seq(Said)
      BY EmptyFine DEF AllFine
    <3>4. x \in Streams
      BY <3>1, <3>2, <3>3 DEF Streams, Said, Tags
    <3>. QED BY <3>1, <3>2, <3>4 DEF Streams
  <2>. HIDE DEF x
  <2>3. Named(x)
    BY <1>1, <2>2, EmptyFine DEF Named
  <2>. QED BY <1>1, <2>1, <2>2, <2>3, StreamWritten
<1>5. CASE Crash
  BY <1>5, FreeStream DEF Crash, StreamsTyped
<1>6. ASSUME NEW c \in Clicks, Unpark(c, i) PROVE StreamsTyped'
  <2>. DEFINE r == clicks[c].turn
  <2>1. r \in Turns
    BY <1>6 DEF Unpark, Typed, ClicksTyped
  <2>2. parked[r] \in Tags
    BY <2>1 DEF Typed, PageTyped
  <2>3. CASE streams' = streams
    BY <1>1, <2>3 DEF StreamsTyped
  <2>4. CASE Open(i, Request("resume", "none", r, parked[r], 0))
    BY <1>1, <2>1, <2>2, <2>4, OpenKeeps, Numbers
  <2>. QED BY <1>6, <2>3, <2>4 DEF Unpark
<1>7. ASSUME NEW t \in timers, TimerFires(t, i) PROVE StreamsTyped'
  <2>1. t.turn \in Turns /\ t.sess \in Tags /\ t.polls \in 0..MaxPolls
    BY Numbers DEF Typed, PageTyped, Tags
  <2>2. Open(i, Request("resume", "none", t.turn, t.sess, t.polls))
    BY <1>7 DEF TimerFires
  <2>. QED BY <1>1, <2>1, <2>2, OpenKeeps
<1>. QED BY <1>2, <1>3, <1>4, <1>5, <1>6, <1>7 DEF Hear

LEMMA StreamsStep ==
    ASSUME Typed, [Next]_vars PROVE StreamsTyped'
<1>1. CASE streams' = streams
  BY <1>1 DEF Typed, StreamsTyped
<1>2. ASSUME NEW c \in Clicks, Resolve(c) PROVE streams' = streams
  BY <1>2 DEF Resolve
<1>3. ASSUME NEW r \in Turns, NEW q \in Turns, CompleteElsewhere(r, q) PROVE streams' = streams
  BY <1>3 DEF CompleteElsewhere
<1>4. 1 \in Ids
  BY ChatAssumption DEF Ids
<1>5. CASE Crash
  BY <1>4, <1>5, StreamsOfPage
<1>. QED BY <1>1, <1>2, <1>3, <1>5, StreamsOfActs, StreamsOfCore, StreamsOfPage DEF Next, vars

\* The core leaves the page alone.
LEMMA CorePage ==
    /\ \A i \in Ids : Serve(i) => UNCHANGED page
    /\ \A i \in Ids, q \in Turns : CutShort(i, q) => UNCHANGED page
    /\ \A r \in Turns, q \in Turns : CompleteElsewhere(r, q) => UNCHANGED page
<1>1. ASSUME NEW i \in Ids, Serve(i) PROVE UNCHANGED page
  BY <1>1 DEF Serve, Arrive, Complete, Fail, Park, Refuse, Answer, Resume, ToolReturns, Plan, Finalize, RunCommand
<1>. QED BY <1>1 DEF CutShort, CompleteElsewhere

\* What the page knows after a step.
LEMMA PageStep ==
    ASSUME Typed, ParkingInv, [Next]_vars PROVE PageTyped'
<1>. PageTyped /\ StreamsTyped /\ ParkingInv'
  BY ParkingStep DEF Typed
<1>1. parkings' \in [Turns -> Nat] /\ resumes' \in [Turns -> Nat]
  BY DEF ParkingInv
<1>2. busy' \in BOOLEAN
  BY CorePage, ZenonT(40) DEF PageTyped, Next, vars, page, Acts, Send, SendCommand, Switch, Click, ResolveElsewhere,
         ExecuteElsewhere, Crash, Hear, Deliver, Close, Break, Resolve, Unpark, TimerFires
<1>3. ASSUME NEW i \in Ids, Deliver(i)
      PROVE  /\ session' \in Tags /\ parked' \in [Turns -> Tags]
             /\ timers' \subseteq [turn : Turns, sess : Sessions, polls : 1..MaxPolls]
  <2>. DEFINE e == Head(streams[i].sent)
  <2>1. streams[i].sent # <<>> /\ streams[i] \in Streams /\ Named(streams[i])
    BY <1>3 DEF Deliver, StreamsTyped
  <2>2. Fine(e) /\ streams[i].polls \in 0..MaxPolls
    BY <2>1, TailFine DEF Named, Streams
  <2>3. e.sess \in Tags
    BY <2>2 DEF Fine, Said
  <2>4. session' \in Tags
    <3>1. session' = IF e.type = "meta" THEN e.sess ELSE session
      BY <1>3 DEF Deliver
    <3>. QED BY <2>3, <3>1 DEF PageTyped
  <2>5. parked' \in [Turns -> Tags]
    <3>1. parked' = parked \/ parked' = [parked EXCEPT ![e.turn] = session]
      BY <1>3 DEF Deliver
    <3>. HIDE DEF e
    <3>. QED BY <3>1 DEF PageTyped
  <2>6. timers' \subseteq [turn : Turns, sess : Sessions, polls : 1..MaxPolls]
    <3>1. CASE timers' = timers
      BY <3>1 DEF PageTyped
    <3>2. CASE e.status = "processing" /\ streams[i].polls < MaxPolls /\ session # NoSession
      <4>1. timers' = timers \cup {[turn |-> e.turn, sess |-> session, polls |-> streams[i].polls + 1]}
        BY <1>3, <3>2 DEF Deliver, Poll
      <4>2. e.turn \in Turns /\ session \in Sessions
        BY <2>2, <3>2 DEF Fine, PageTyped, Tags
      <4>3. streams[i].polls + 1 \in 1..MaxPolls
        BY <2>2, <3>2, Numbers
      <4>. HIDE DEF e
      <4>. QED BY <4>1, <4>2, <4>3 DEF PageTyped
    <3>. QED BY <1>3, <3>1, <3>2 DEF Deliver, Poll
  <2>. QED BY <2>4, <2>5, <2>6
<1>4. session' \in Tags
  BY <1>3, CorePage, ZenonT(40) DEF PageTyped, Next, vars, page, Acts, Send, SendCommand, Switch, Click,
         ResolveElsewhere, ExecuteElsewhere, Crash, Hear, Close, Break, Resolve, Unpark, TimerFires, LogTyped, Typed, Tags
<1>5. timers' \subseteq [turn : Turns, sess : Sessions, polls : 1..MaxPolls]
  <2>1. CASE timers' \subseteq timers
    BY <2>1 DEF PageTyped
  <2>. QED BY <1>3, <2>1, CorePage DEF Next, vars, page, Acts, Send, SendCommand, Switch, Click, ResolveElsewhere,
         ExecuteElsewhere, Crash, Hear, Close, Break, Resolve, Unpark, TimerFires
<1>6. parked' \in [Turns -> Tags]
  <2>1. CASE parked' = parked
    BY <2>1 DEF PageTyped
  <2>2. ASSUME NEW r, parked' = [parked EXCEPT ![r] = NoSession] PROVE parked' \in [Turns -> Tags]
    BY <2>2 DEF PageTyped, Tags
  <2>3. ASSUME NEW c \in Clicks, NEW i \in Ids, Unpark(c, i) PROVE parked' \in [Turns -> Tags]
    BY <2>1, <2>2, <2>3 DEF Unpark
  <2>. QED BY <1>3, <2>1, <2>3, CorePage DEF Next, vars, page, Acts, Send, SendCommand, Switch, Click, ResolveElsewhere,
         ExecuteElsewhere, Crash, Hear, Close, Break, Resolve, TimerFires
<1>. QED BY <1>1, <1>2, <1>4, <1>5, <1>6 DEF PageTyped

\* The calls of resolveApproval under way.
LEMMA ClicksStep ==
    ASSUME Typed, [Next]_vars PROVE ClicksTyped'
<1>. ClicksTyped /\ session \in Tags
  BY DEF Typed, PageTyped
<1>1. CASE clicks' = clicks
  BY <1>1 DEF ClicksTyped
<1>2. ASSUME NEW c \in Clicks, NEW r \in Turns, NEW d \in {"approved", "rejected"}, Click(c, r, d) PROVE ClicksTyped'
  <2>. DEFINE k == IF session = NoSession THEN Answered(r)
                   ELSE [pc |-> "posted", turn |-> r, decision |-> d, sess |-> session]
  <2>1. clicks' = [clicks EXCEPT ![c] = k]
    BY <1>2 DEF Click
  <2>2. k.turn \in Turns /\ k \in [pc : {"idle", "posted", "answered"}, turn : Turns \cup {NoTurn},
                                   decision : {"none", "approved", "rejected"}, sess : Tags]
    BY DEF Answered, Idle, Tags
  <2>. HIDE DEF k
  <2>. QED BY <2>1, <2>2 DEF ClicksTyped
<1>3. ASSUME NEW c \in Clicks, Resolve(c) PROVE ClicksTyped'
  <2>. DEFINE k == Answered(clicks[c].turn)
  <2>1. clicks' = [clicks EXCEPT ![c] = k] /\ clicks[c].pc # "idle"
    BY <1>3 DEF Resolve, ClicksTyped
  <2>2. k.turn \in Turns /\ k \in [pc : {"idle", "posted", "answered"}, turn : Turns \cup {NoTurn},
                                   decision : {"none", "approved", "rejected"}, sess : Tags]
    BY <2>1 DEF ClicksTyped, Answered, Idle, Tags
  <2>. HIDE DEF k
  <2>. QED BY <2>1, <2>2 DEF ClicksTyped
<1>4. ASSUME NEW c \in Clicks, NEW i \in Ids, Unpark(c, i) PROVE ClicksTyped'
  <2>1. clicks' = [clicks EXCEPT ![c] = Idle]
    BY <1>4 DEF Unpark
  <2>2. Idle.pc = "idle" /\ Idle \in [pc : {"idle", "posted", "answered"}, turn : Turns \cup {NoTurn},
                                      decision : {"none", "approved", "rejected"}, sess : Tags]
    BY DEF Idle, Tags
  <2>. QED BY <2>1, <2>2 DEF ClicksTyped
<1>. QED BY <1>1, <1>2, <1>3, <1>4, CorePage, ZenonT(40) DEF Next, vars, page, Acts, Send, SendCommand, Switch,
         ResolveElsewhere, ExecuteElsewhere, Crash, Hear, Deliver, Close, Break, TimerFires

LEMMA BoundsStep ==
    ASSUME Typed, [Next]_vars PROVE Bounded'
<1>1. /\ events' = events \/ Event
      /\ faults' = faults \/ Fault
  BY ZenonT(40) DEF Next, vars, page, Acts, Send, SendCommand, Switch, Click, ResolveElsewhere, ExecuteElsewhere,
         Crash, CompleteElsewhere, Serve, Arrive, Complete, Fail, Park, Refuse, Answer, Resume, ToolReturns, Plan, Finalize, RunCommand,
         Hear, Deliver, Close, CutShort, Break, Resolve, Unpark, TimerFires
<1>2. events \in 0..MaxEvents /\ faults \in 0..MaxFaults
  BY DEF Typed, Bounded
<1>. QED BY <1>1, <1>2, Numbers DEF Event, Fault, Bounded

\* The records of the turns and their approvals.
LEMMA StateWritten ==
    ASSUME TurnsTyped, NEW r, NEW state \in States, turn' = [turn EXCEPT ![r].state = state]
    PROVE  turn' \in [Turns -> Records]
<1>1. \A q \in Turns : [turn[q] EXCEPT !.state = state] \in Records
  BY DEF TurnsTyped, Records
<1>. QED BY <1>1 DEF TurnsTyped

LEMMA RecordWritten ==
    ASSUME TurnsTyped, NEW r, NEW x \in Records, turn' = [turn EXCEPT ![r] = x]
    PROVE  turn' \in [Turns -> Records]
BY DEF TurnsTyped

LEMMA StepTyped ==
    ASSUME Typed, NEW i \in Ids, streams[i].doing \in Working, NEW state \in States
    PROVE  Step(i, state) \in Records
<1>1. turn[streams[i].turn] \in Records
  BY StoresTurn DEF Typed, TurnsTyped
<1>. QED BY <1>1 DEF Step, Records

LEMMA StoringWorks ==
    ASSUME NEW i, NEW q, Stores(i, q) \/ Finals(i, q) PROVE streams[i].doing \in Working
BY DEF Stores, Finals, Working

LEMMA TurnsStep ==
    ASSUME Typed, [Next]_vars PROVE TurnsTyped'
<1>. TurnsTyped /\ StreamsTyped /\ ClicksTyped
  BY DEF Typed
<1>1. approval' \in [Turns -> {"none", "pending", "approved", "rejected"}]
  <2>1. CASE approval' = approval
    BY <2>1 DEF TurnsTyped
  <2>2. ASSUME NEW c \in Clicks, Resolve(c) PROVE approval' \in [Turns -> {"none", "pending", "approved", "rejected"}]
    <3>1. clicks[c].decision \in {"none", "approved", "rejected"}
      BY DEF ClicksTyped
    <3>2. approval' = approval \/ approval' = [approval EXCEPT ![clicks[c].turn] = clicks[c].decision]
      BY <2>2 DEF Resolve
    <3>. QED BY <3>1, <3>2 DEF TurnsTyped
  <2>3. ASSUME NEW r, NEW d \in {"pending", "approved", "rejected"}, approval' = [approval EXCEPT ![r] = d]
        PROVE  approval' \in [Turns -> {"none", "pending", "approved", "rejected"}]
    BY <2>3 DEF TurnsTyped
  <2>4. CASE Acts
    BY <2>1, <2>3, <2>4 DEF Acts, Send, SendCommand, Switch, Click, ResolveElsewhere, ExecuteElsewhere, core
  <2>5. ASSUME NEW i \in Ids, Serve(i) PROVE approval' \in [Turns -> {"none", "pending", "approved", "rejected"}]
    BY <2>1, <2>3, <2>5 DEF Serve, Arrive, Complete, Fail, Park, Refuse, Answer, Resume, ToolReturns, Plan, Finalize, RunCommand, core
  <2>. QED BY <2>1, <2>2, <2>4, <2>5 DEF Next, vars, core, Crash, CompleteElsewhere, Hear, Deliver, Close, CutShort,
         Break, Unpark, TimerFires
<1>2. turn' \in [Turns -> Records]
  <2>0. {"sent", "running", "parked", "ran", "answering", "done", "failed", "unknown"} \subseteq States
    BY DEF States
  <2>1. CASE turn' = turn
    BY <2>1 DEF TurnsTyped
  <2>2. ASSUME NEW r, NEW state \in States, turn' = [turn EXCEPT ![r].state = state] PROVE turn' \in [Turns -> Records]
    BY <2>2, StateWritten
  <2>3. CASE Acts
    BY <2>0, <2>1, <2>2, <2>3 DEF Acts, Send, SendCommand, Switch, Click, ResolveElsewhere, ExecuteElsewhere, core
  <2>4. ASSUME NEW i \in Ids, Arrive(i) PROVE turn' \in [Turns -> Records]
    <3>1. PICK s \in Sessions \cup {streams[i].sess} :
             turn' = [turn EXCEPT ![streams[i].turn] =
                        [state |-> "running", home |-> s, msg |-> streams[i].turn]]
      BY <2>4 DEF Arrive
    <3>2. s \in Tags /\ streams[i].turn \in Turns
      BY <2>4, StoresTurn DEF StreamsTyped, Streams, Tags, Arrive
    <3>3. [state |-> "running", home |-> s, msg |-> streams[i].turn] \in Records
      BY <2>0, <3>2 DEF Records
    <3>. QED BY <3>1, <3>3, RecordWritten
  <2>5. ASSUME NEW i \in Ids, NEW q \in Turns, Complete(i, q) \/ Park(i, q) \/ CutShort(i, q)
        PROVE  turn' \in [Turns -> Records]
    <3>1. streams[i].doing \in Working
      BY <2>5, StoringWorks DEF Complete, Park, CutShort
    <3>2. PICK state \in {"done", "parked"} : turn' = [turn EXCEPT ![q] = Step(i, state)]
      BY <2>5 DEF Complete, Park, CutShort
    <3>. QED BY <2>0, <3>1, <3>2, StepTyped, RecordWritten
  <2>6. ASSUME NEW i \in Ids, Fail(i) PROVE turn' \in [Turns -> Records]
    BY <2>0, <2>1, <2>2, <2>6 DEF Fail
  <2>7. ASSUME NEW i \in Ids, NEW t \in Turns, Answer(i, t) \/ Finalize(i, t) PROVE turn' \in [Turns -> Records]
    BY <2>0, <2>1, <2>2, <2>7 DEF Answer, Finalize
  <2>8. ASSUME NEW i \in Ids, Refuse(i) \/ Resume(i) \/ ToolReturns(i) \/ Plan(i) \/ RunCommand(i)
        PROVE  turn' \in [Turns -> Records]
    BY <2>0, <2>1, <2>2, <2>8 DEF Refuse, Resume, ToolReturns, Plan, RunCommand, core
  <2>9. CASE Crash
    <3>1. turn' = [r \in Turns |->
             IF turn[r].state = "sent" \/ (turn[r].state = "running" /\ approval[r] = "none")
             THEN [turn[r] EXCEPT !.state = "failed"]
             ELSE IF turn[r].state \in {"running", "answering"} THEN [turn[r] EXCEPT !.state = "unknown"]
             ELSE turn[r]]
      BY <2>9 DEF Crash
    <3>2. ASSUME NEW r \in Turns PROVE turn'[r] \in Records
      <4>1. turn[r] \in Records
        BY DEF TurnsTyped
      <4>2. \A state \in States : [turn[r] EXCEPT !.state = state] \in Records
        BY <4>1 DEF Records
      <4>. QED BY <2>0, <3>1, <4>1, <4>2
    <3>. QED BY <3>1, <3>2
  <2>10. ASSUME NEW r \in Turns, NEW q \in Turns, CompleteElsewhere(r, q) PROVE turn' \in [Turns -> Records]
    <3>1. CASE turn' = [turn EXCEPT ![r].state = "ran", ![q] = [turn[r] EXCEPT !.state = "done"]]
      <4>1. turn[r] \in Records /\ turn[q] \in Records
        BY DEF TurnsTyped
      <4>2. [turn[r] EXCEPT !.state = "done"] \in Records /\ [turn[r] EXCEPT !.state = "ran"] \in Records
        BY <2>0, <4>1 DEF Records
      <4>. QED BY <3>1, <4>1, <4>2 DEF TurnsTyped
    <3>. QED BY <2>0, <2>2, <2>10, <3>1 DEF CompleteElsewhere
  <2>. QED BY <2>1, <2>3, <2>4, <2>5, <2>6, <2>7, <2>8, <2>9, <2>10
          DEF Next, Serve, vars, core, Hear, Deliver, Close, Break, Resolve, Unpark, TimerFires
<1>. QED BY <1>1, <1>2 DEF TurnsTyped

-----------------------------------------------------------------------------
(* transcripts                                                              *)

\* A set of indices that is not empty has a last one.
LEMMA Largest ==
    ASSUME NEW n \in Nat, NEW S, S \subseteq 1..n, S # {}
    PROVE  \E x \in S : \A y \in S : y <= x
<1>. DEFINE Above(x) == {y \in S : y > x}
            T == {Above(x) : x \in S}
<1>1. IsFiniteSet(S)
  <2>1. IsFiniteSet(1..n)
    BY FS_Interval
  <2>. QED BY <2>1, FS_Subset
<1>2. IsWellFoundedOn(StrictSubsetOrdering(S), SUBSET S)
  BY <1>1, FS_StrictSubsetOrderingWellFounded, FS_FiniteSubsetsOfFinite
<1>3. T \subseteq SUBSET S /\ T # {}
  OBVIOUS
<1>4. \E U \in T : \A V \in T : <<V, U>> \notin StrictSubsetOrdering(S)
  <2>. HIDE DEF T
  <2>. QED BY <1>2, <1>3, WFMin
<1>5. PICK x \in S : \A y \in S : <<Above(y), Above(x)>> \notin StrictSubsetOrdering(S)
  BY <1>4
<1>6. ASSUME NEW y \in S, ~(y <= x) PROVE FALSE
  <2>0. x \in Nat /\ y \in Nat /\ (\A z \in S : z \in Nat) /\ y > x
    BY <1>6
  <2>1. y \in Above(x) /\ y \notin Above(y)
    BY <2>0
  <2>2. Above(y) \subseteq Above(x)
    <3>. SUFFICES ASSUME NEW z \in S, z > y PROVE z > x
      OBVIOUS
    <3>. QED BY <2>0
  <2>3. Above(x) \subseteq S /\ Above(y) \subseteq S
    OBVIOUS
  <2>. HIDE DEF Above
  <2>4. <<Above(y), Above(x)>> \in StrictSubsetOrdering(S)
    BY <2>1, <2>2, <2>3 DEF StrictSubsetOrdering
  <2>. QED BY <1>5, <2>4
<1>. QED BY <1>6

\* What TranscriptIsWhole says of one transcript.
Once(l) == \A n, m \in DOMAIN l : l[m].turn = l[n].turn /\ l[m].role = l[n].role => m = n
Paired(l) == \A n \in DOMAIN l : l[n].role = "assistant" => n > 1 /\ l[n - 1] = [l[n] EXCEPT !.role = "user"]
Whole(l) == Once(l) /\ Paired(l)

LEMMA WholeIsWhole == TranscriptIsWhole <=> \A s \in Sessions : Whole(log[s])
BY DEF TranscriptIsWhole, Whole, Once, Paired

\* A question and its answer differ in the role only.
LEMMA QuestionOf ==
    ASSUME NEW a \in Rows, NEW q \in Rows
    PROVE  q = [a EXCEPT !.role = "user"] <=> q.turn = a.turn /\ q.excluded = a.excluded /\ q.role = "user"
<1>1. ASSUME q = [a EXCEPT !.role = "user"] PROVE q.turn = a.turn /\ q.excluded = a.excluded /\ q.role = "user"
  BY <1>1 DEF Rows
<1>2. ASSUME q.turn = a.turn, q.excluded = a.excluded, q.role = "user" PROVE q = [a EXCEPT !.role = "user"]
  BY <1>2 DEF Rows
<1>. QED BY <1>1, <1>2

\* A claimed turn's question is appended, and its answer after it.
LEMMA QuestionAppended ==
    ASSUME NEW l \in Seq(Rows), Whole(l), NEW r \in Turns, \A n \in DOMAIN l : l[n].turn # r
    PROVE  /\ Append(l, Row(r, "user")) \in Seq(Rows)
           /\ Whole(Append(l, Row(r, "user")))
<1>. DEFINE k == Append(l, Row(r, "user"))
<1>1. Row(r, "user") \in Rows /\ Row(r, "user").turn = r /\ Row(r, "user").role = "user"
  BY DEF Row, Rows
<1>2. /\ k \in Seq(Rows) /\ Len(l) \in Nat /\ DOMAIN l = 1..Len(l) /\ DOMAIN k = 1..Len(l) + 1
      /\ \A n \in 1..Len(l) : k[n] = l[n]
      /\ k[Len(l) + 1] = Row(r, "user")
  BY <1>1, AppendProperties
<1>. HIDE DEF k
<1>3. Once(k)
  <2>. SUFFICES ASSUME NEW n \in DOMAIN k, NEW m \in DOMAIN k, k[m].turn = k[n].turn /\ k[m].role = k[n].role
                PROVE  m = n
    BY DEF Once
  <2>1. CASE n \in 1..Len(l) /\ m \in 1..Len(l)
    BY <1>2, <2>1 DEF Whole, Once
  <2>2. CASE n = Len(l) + 1 \/ m = Len(l) + 1
    BY <1>1, <1>2, <2>2
  <2>. QED BY <1>2, <2>1, <2>2
<1>4. Paired(k)
  <2>. SUFFICES ASSUME NEW n \in DOMAIN k, k[n].role = "assistant"
                PROVE  n > 1 /\ k[n - 1] = [k[n] EXCEPT !.role = "user"]
    BY DEF Paired
  <2>1. n \in 1..Len(l)
    BY <1>1, <1>2
  <2>2. n > 1 /\ l[n - 1] = [l[n] EXCEPT !.role = "user"]
    BY <1>2, <2>1 DEF Whole, Paired
  <2>. QED BY <1>2, <2>1, <2>2
<1>. QED BY <1>2, <1>3, <1>4 DEF k, Whole

LEMMA AnswerAppended ==
    ASSUME NEW l \in Seq(Rows), Whole(l), NEW r \in Turns, \A n \in DOMAIN l : l[n].turn # r
    PROVE  /\ l \o <<Row(r, "user"), Row(r, "assistant")>> \in Seq(Rows)
           /\ Whole(l \o <<Row(r, "user"), Row(r, "assistant")>>)
<1>. DEFINE q == Row(r, "user")
            a == Row(r, "assistant")
            k == l \o <<q, a>>
<1>1. /\ q \in Rows /\ q.turn = r /\ q.role = "user"
      /\ a \in Rows /\ a.turn = r /\ a.role = "assistant"
  BY DEF Row, Rows
<1>5. q = [a EXCEPT !.role = "user"]
  <2>1. q.excluded = a.excluded
    BY DEF Row
  <2>. HIDE DEF q, a
  <2>. QED BY <1>1, <2>1, QuestionOf
<1>. HIDE DEF q, a
<1>2. /\ k \in Seq(Rows) /\ Len(l) \in Nat /\ DOMAIN l = 1..Len(l) /\ DOMAIN k = 1..Len(l) + 2
      /\ \A n \in 1..Len(l) : k[n] = l[n]
      /\ k[Len(l) + 1] = q /\ k[Len(l) + 2] = a
  <2>1. <<q, a>> \in Seq(Rows) /\ Len(<<q, a>>) = 2 /\ <<q, a>>[1] = q /\ <<q, a>>[2] = a
    BY <1>1
  <2>. DEFINE t == <<q, a>>
  <2>. HIDE DEF t
  <2>2. t \in Seq(Rows) /\ Len(t) = 2 /\ t[1] = q /\ t[2] = a /\ k = l \o t
    BY <2>1 DEF t
  <2>. HIDE DEF k
  <2>3. /\ k \in Seq(Rows) /\ Len(k) = Len(l) + 2 /\ Len(l) \in Nat /\ DOMAIN l = 1..Len(l) /\ DOMAIN k = 1..Len(k)
        /\ \A n \in 1..Len(l) + 2 : k[n] = IF n <= Len(l) THEN l[n] ELSE t[n - Len(l)]
    <3>1. /\ l \o t \in Seq(Rows) /\ Len(l \o t) = Len(l) + Len(t)
          /\ \A n \in 1..Len(l) + Len(t) : (l \o t)[n] = IF n <= Len(l) THEN l[n] ELSE t[n - Len(l)]
      BY <2>2, ConcatProperties
    <3>2. k \in Seq(Rows) /\ Len(k) = Len(l) + 2
      BY <2>2, <3>1
    <3>3. Len(l) \in Nat /\ DOMAIN l = 1..Len(l) /\ DOMAIN k = 1..Len(k)
      BY <3>2, LenProperties
    <3>. QED BY <2>2, <3>1, <3>2, <3>3
  <2>4. k[Len(l) + 1] = t[1] /\ k[Len(l) + 2] = t[2]
    BY <2>3
  <2>. QED BY <2>2, <2>3, <2>4
<1>. HIDE DEF k
<1>3. Once(k)
  <2>. SUFFICES ASSUME NEW n \in DOMAIN k, NEW m \in DOMAIN k, k[m].turn = k[n].turn /\ k[m].role = k[n].role
                PROVE  m = n
    BY DEF Once
  <2>1. CASE n \in 1..Len(l) /\ m \in 1..Len(l)
    BY <1>2, <2>1 DEF Whole, Once
  <2>2. CASE n \in {Len(l) + 1, Len(l) + 2} \/ m \in {Len(l) + 1, Len(l) + 2}
    <3>1. \A i \in 1..Len(l) : k[i].turn # r
      BY <1>2
    <3>2. k[n].turn = r /\ k[m].turn = r
      BY <1>1, <1>2, <2>2
    <3>3. n \in {Len(l) + 1, Len(l) + 2} /\ m \in {Len(l) + 1, Len(l) + 2}
      BY <1>2, <3>1, <3>2
    <3>. QED BY <1>1, <1>2, <3>3
  <2>. QED BY <1>2, <2>1, <2>2
<1>4. Paired(k)
  <2>. SUFFICES ASSUME NEW n \in DOMAIN k, k[n].role = "assistant"
                PROVE  n > 1 /\ k[n - 1] = [k[n] EXCEPT !.role = "user"]
    BY DEF Paired
  <2>1. CASE n \in 1..Len(l)
    <3>1. n > 1 /\ l[n - 1] = [l[n] EXCEPT !.role = "user"]
      BY <1>2, <2>1 DEF Whole, Paired
    <3>. QED BY <1>2, <2>1, <3>1, SMTT(30)
  <2>2. CASE n = Len(l) + 2
    <3>1. n > 1 /\ n - 1 = Len(l) + 1
      BY <1>2, <2>2
    <3>. QED BY <1>2, <1>5, <2>2, <3>1
  <2>3. n # Len(l) + 1
    BY <1>1, <1>2
  <2>. QED BY <1>2, <2>1, <2>2, <2>3
<1>. QED BY <1>2, <1>3, <1>4 DEF k, Whole, q, a

\* /undo takes a question out of the context and its answer with it: from the
\* last question in context to the next one, whatever is in between.
LEMMA TurnExcluded ==
    ASSUME NEW l \in Seq(Rows), Whole(l), NEW last \in DOMAIN l, l[last].role = "user", NEW k,
           k = [n \in DOMAIN l |->
                  IF n >= last /\ \A m \in last + 1 .. n : l[m].role # "user"
                  THEN [l[n] EXCEPT !.excluded = TRUE] ELSE l[n]]
    PROVE  k \in Seq(Rows) /\ Whole(k)
<1>. DEFINE Out(n) == n >= last /\ \A m \in last + 1 .. n : l[m].role # "user"
<1>1. Len(l) \in Nat /\ DOMAIN l = 1..Len(l) /\ l \in [1..Len(l) -> Rows]
  BY LenProperties
<1>2. k = [n \in 1..Len(l) |-> IF Out(n) THEN [l[n] EXCEPT !.excluded = TRUE] ELSE l[n]]
  BY <1>1
<1>. HIDE DEF Out
<1>3. ASSUME NEW n \in 1..Len(l)
      PROVE  /\ k[n] \in Rows /\ k[n].turn = l[n].turn /\ k[n].role = l[n].role
             /\ k[n].excluded = IF Out(n) THEN TRUE ELSE l[n].excluded
  <2>1. l[n] \in Rows
    BY <1>1
  <2>2. CASE Out(n)
    <3>1. k[n] = [l[n] EXCEPT !.excluded = TRUE]
      BY <1>2, <2>2
    <3>. QED BY <2>1, <2>2, <3>1, ZenonT(40) DEF Rows
  <2>3. CASE ~Out(n)
    BY <1>2, <2>1, <2>3
  <2>. QED BY <2>2, <2>3
<1>4. k \in Seq(Rows) /\ DOMAIN k = 1..Len(l)
  <2>1. k \in [1..Len(l) -> Rows]
    BY <1>2, <1>3
  <2>. QED BY <1>1, <2>1
<1>5. Once(k)
  BY <1>1, <1>3, <1>4 DEF Whole, Once
<1>6. Paired(k)
  <2>. SUFFICES ASSUME NEW n \in 1..Len(l), k[n].role = "assistant"
                PROVE  n > 1 /\ k[n - 1] = [k[n] EXCEPT !.role = "user"]
    BY <1>4 DEF Paired
  <2>1. l[n].role = "assistant" /\ n > 1 /\ l[n - 1] = [l[n] EXCEPT !.role = "user"]
    BY <1>1, <1>3 DEF Whole, Paired
  <2>2. n - 1 \in 1..Len(l) /\ l[n] \in Rows /\ l[n - 1] \in Rows
    BY <1>1, <2>1
  <2>3. l[n - 1].turn = l[n].turn /\ l[n - 1].excluded = l[n].excluded /\ l[n - 1].role = "user"
    BY <2>1, <2>2, QuestionOf
  <2>4. Out(n) <=> Out(n - 1)
    <3>1. last \in Nat /\ n \in Nat /\ n # last
      BY <1>1, <2>1
    <3>2. ASSUME Out(n) PROVE Out(n - 1)
      <4>1. n >= last /\ \A m \in last + 1 .. n : l[m].role # "user"
        BY <3>2 DEF Out
      <4>2. n - 1 >= last /\ last + 1 .. n - 1 \subseteq last + 1 .. n
        BY <3>1, <4>1
      <4>. QED BY <4>1, <4>2 DEF Out
    <3>3. ASSUME Out(n - 1) PROVE Out(n)
      <4>1. n - 1 >= last /\ \A m \in last + 1 .. n - 1 : l[m].role # "user"
        BY <3>3 DEF Out
      <4>2. n - 1 = last
        BY <2>3, <3>1, <4>1
      <4>3. n >= last /\ \A m \in last + 1 .. n : m = n
        BY <3>1, <4>2
      <4>. QED BY <2>1, <4>3 DEF Out
    <3>. QED BY <3>2, <3>3
  <2>5. /\ k[n] \in Rows /\ k[n].turn = l[n].turn
        /\ k[n].excluded = IF Out(n) THEN TRUE ELSE l[n].excluded
    BY <1>3
  <2>6. /\ k[n - 1] \in Rows /\ k[n - 1].turn = l[n - 1].turn /\ k[n - 1].role = l[n - 1].role
        /\ k[n - 1].excluded = IF Out(n - 1) THEN TRUE ELSE l[n - 1].excluded
    BY <1>3, <2>2
  <2>7. k[n - 1].turn = k[n].turn /\ k[n - 1].excluded = k[n].excluded /\ k[n - 1].role = "user"
    BY <2>3, <2>4, <2>5, <2>6
  <2>. QED BY <2>1, <2>5, <2>6, <2>7, QuestionOf, ZenonT(40)
<1>. QED BY <1>4, <1>5, <1>6 DEF Whole

\* Every transcript is a sequence of rows and whole.
Transcripts == LogTyped /\ \A s \in Sessions : Whole(log[s])

LEMMA TranscriptWritten ==
    ASSUME Transcripts, exists' \subseteq Sessions, NEW s, NEW l \in Seq(Rows), s \in Sessions => Whole(l),
           log' = [log EXCEPT ![s] = l]
    PROVE  Transcripts'
<1>1. log \in [Sessions -> Seq(Rows)]
  BY DEF Transcripts, LogTyped
<1>2. log' \in [Sessions -> Seq(Rows)]
  BY <1>1
<1>3. ASSUME NEW q \in Sessions PROVE Whole(log'[q])
  <2>1. CASE q = s
    BY <1>1, <2>1
  <2>2. CASE q # s
    BY <1>1, <2>2 DEF Transcripts
  <2>. QED BY <2>1, <2>2
<1>. QED BY <1>2, <1>3 DEF Transcripts, LogTyped

\* A turn that nobody has claimed is in no transcript.
LEMMA Unclaimed ==
    ASSUME NEW r, ~Claimed(r), NEW s \in Sessions
    PROVE  \A n \in DOMAIN log[s] : log[s][n].turn # r
BY DEF Claimed

LEMMA PersistKeeps ==
    ASSUME Transcripts, exists' \subseteq Sessions, NEW r \in Turns, NEW s, Persist(r, s)
    PROVE  Transcripts'
<1>1. CASE log' = log
  BY <1>1 DEF Transcripts, LogTyped
<1>2. CASE ~Claimed(r) /\ s \in Sessions
  <2>. DEFINE l == log[s] \o <<Row(r, "user"), Row(r, "assistant")>>
  <2>1. log[s] \in Seq(Rows) /\ Whole(log[s])
    BY <1>2 DEF Transcripts, LogTyped
  <2>2. \A n \in DOMAIN log[s] : log[s][n].turn # r
    BY <1>2, Unclaimed
  <2>3. l \in Seq(Rows) /\ Whole(l)
    BY <2>1, <2>2, AnswerAppended
  <2>4. log' = [log EXCEPT ![s] = l]
    BY <1>2 DEF Persist
  <2>. HIDE DEF l
  <2>. QED BY <2>3, <2>4, TranscriptWritten
<1>3. CASE ~Claimed(r) /\ s \notin Sessions
  <2>1. log' = log
    BY <1>3 DEF Persist, Transcripts, LogTyped
  <2>. QED BY <1>1, <2>1
<1>. QED BY <1>1, <1>2, <1>3 DEF Persist

LEMMA CutShortKeeps ==
    ASSUME Transcripts, NEW i \in Ids, NEW q \in Turns, CutShort(i, q)
    PROVE  Transcripts'
<1>. DEFINE s == turn[streams[i].turn].home
<1>1. ~Claimed(q) /\ exists' = exists
  BY DEF CutShort
<1>2. log' = [log EXCEPT ![s] = Append(log[s], Row(q, "user"))]
  BY DEF CutShort, Transcripts, LogTyped
<1>. HIDE DEF s
<1>3. CASE s \in Sessions
  <2>. DEFINE l == Append(log[s], Row(q, "user"))
  <2>1. log[s] \in Seq(Rows) /\ Whole(log[s])
    BY <1>3 DEF Transcripts, LogTyped
  <2>2. \A n \in DOMAIN log[s] : log[s][n].turn # q
    BY <1>1, <1>3, Unclaimed
  <2>3. l \in Seq(Rows) /\ Whole(l)
    BY <1>1, <2>1, <2>2, QuestionAppended
  <2>4. log' = [log EXCEPT ![s] = l]
    BY <1>2
  <2>. HIDE DEF l
  <2>. QED BY <1>1, <2>3, <2>4, TranscriptWritten DEF Transcripts, LogTyped
<1>4. CASE s \notin Sessions
  BY <1>1, <1>2, <1>4 DEF Transcripts, LogTyped
<1>. QED BY <1>3, <1>4

LEMMA CommandKeeps ==
    ASSUME Typed, Transcripts, NEW i \in Ids, RunCommand(i)
    PROVE  Transcripts'
<1>. DEFINE s == streams[i].sess
<1>1. s \in Tags /\ log \in [Sessions -> Seq(Rows)] /\ exists \subseteq Sessions
  BY DEF Typed, StreamsTyped, Streams, Transcripts, LogTyped, Tags
<1>2. exists' \subseteq Sessions
  BY <1>1 DEF RunCommand
<1>3. CASE log' = log
  BY <1>2, <1>3 DEF Transcripts, LogTyped
<1>4. CASE s # NoSession /\ ExcludeLastTurn(s)
  <2>. DEFINE users == {n \in DOMAIN log[s] : log[s][n].role = "user" /\ ~log[s][n].excluded}
              last == CHOOSE n \in users : \A m \in users : m <= n
              l == [n \in DOMAIN log[s] |->
                      IF n >= last /\ \A m \in last + 1 .. n : log[s][m].role # "user"
                      THEN [log[s][n] EXCEPT !.excluded = TRUE] ELSE log[s][n]]
  <2>1. s \in Sessions /\ log[s] \in Seq(Rows) /\ Whole(log[s])
    BY <1>1, <1>4 DEF Tags, Transcripts
  <2>2. CASE users = {}
    BY <1>3, <1>4, <2>2 DEF ExcludeLastTurn
  <2>3. CASE users # {}
    <3>1. last \in users
      <4>1. Len(log[s]) \in Nat /\ users \subseteq 1..Len(log[s])
        BY <2>1, LenProperties
      <4>. HIDE DEF users
      <4>. QED BY <2>3, <4>1, Largest
    <3>2. log' = [log EXCEPT ![s] = l]
      BY <1>1, <1>4, <2>1, <2>3 DEF ExcludeLastTurn
    <3>3. l \in Seq(Rows) /\ Whole(l)
      <4>1. last \in DOMAIN log[s] /\ log[s][last].role = "user"
        BY <3>1
      <4>. HIDE DEF last
      <4>. QED BY <2>1, <4>1, TurnExcluded
    <3>. HIDE DEF l
    <3>. QED BY <1>2, <2>1, <3>2, <3>3, TranscriptWritten
  <2>. QED BY <2>2, <2>3
<1>5. ASSUME NEW new \in Sessions, s # NoSession, log' = [log EXCEPT ![new] = log[s]] PROVE Transcripts'
  <2>1. log[s] \in Seq(Rows) /\ Whole(log[s])
    BY <1>1, <1>5 DEF Tags, Transcripts
  <2>. QED BY <1>2, <1>5, <2>1, TranscriptWritten
<1>. QED BY <1>3, <1>4, <1>5 DEF RunCommand

LEMMA TranscriptsStep ==
    ASSUME Typed, Transcripts, [Next]_vars PROVE Transcripts'
<1>0. exists \subseteq Sessions /\ StreamsTyped
  BY DEF Transcripts, LogTyped, Typed
<1>1. ASSUME NEW i \in Ids, Arrive(i) PROVE Transcripts'
  <2>1. exists' \subseteq Sessions
    <3>1. PICK s \in IF streams[i].sess = NoSession THEN Sessions \ exists ELSE {streams[i].sess} : exists' = exists \cup {s}
      BY <1>1 DEF Arrive
    <3>2. streams[i].sess \in Tags
      BY <1>0 DEF StreamsTyped, Streams, Tags
    <3>. QED BY <1>0, <3>1, <3>2 DEF Tags
  <2>. QED BY <1>1, <2>1 DEF Arrive, Transcripts, LogTyped
<1>2. ASSUME UNCHANGED <<exists, log>> PROVE Transcripts'
  BY <1>2 DEF Transcripts, LogTyped
<1>3. ASSUME NEW i \in Ids, NEW q \in Turns, Complete(i, q) \/ Answer(i, q) PROVE Transcripts'
  <2>1. UNCHANGED <<exists, log>> \/ \E s : Persist(q, s) /\ exists' = exists
    BY <1>3 DEF Complete, Answer
  <2>. QED BY <1>0, <1>2, <2>1, PersistKeeps
<1>4. ASSUME NEW r \in Turns, NEW q \in Turns, CompleteElsewhere(r, q) PROVE Transcripts'
  <2>1. UNCHANGED <<exists, log>> \/ \E p \in Turns : \E s : Persist(p, s) /\ exists' = exists
    BY <1>4 DEF CompleteElsewhere
  <2>. QED BY <1>0, <1>2, <2>1, PersistKeeps
<1>5. ASSUME NEW i \in Ids, Serve(i) PROVE Transcripts'
  BY <1>1, <1>2, <1>3, <1>5, CommandKeeps DEF Serve, Fail, Park, Refuse, Resume, ToolReturns, Plan, Finalize, core
<1>6. CASE Acts
  BY <1>2, <1>6 DEF Acts, Send, SendCommand, Switch, Click, ResolveElsewhere, ExecuteElsewhere, core
<1>. QED BY <1>2, <1>4, <1>5, <1>6, CutShortKeeps DEF Next, vars, core, Crash, Hear, Deliver, Close, Break,
         Resolve, Unpark, TimerFires

-----------------------------------------------------------------------------

\* The inductive invariant of the types and the transcripts.
ChatInv == Typed /\ ParkingInv /\ Transcripts

LEMMA ChatInit == ASSUME Init PROVE ChatInv
<1>1. StreamsTyped
  BY FreeStream DEF Init, StreamsTyped
<1>2. ClicksTyped
  BY DEF Init, ClicksTyped, Idle, Tags
<1>3. PageTyped
  BY ChatAssumption DEF Init, PageTyped, Tags
<1>4. TurnsTyped
  BY DEF Init, TurnsTyped, Unknown, States, Records, Tags
<1>5. Transcripts
  <2>1. <<>> \in Seq(Rows) /\ Whole(<<>>)
    BY DEF Whole, Once, Paired
  <2>2. log = [s \in Sessions |-> <<>>] /\ exists \subseteq Sessions
    BY ChatAssumption DEF Init
  <2>. QED BY <2>1, <2>2 DEF Transcripts, LogTyped
<1>6. Bounded
  BY Numbers DEF Init, Bounded
<1>. QED BY <1>1, <1>2, <1>3, <1>4, <1>5, <1>6, ParkingInit DEF ChatInv, Typed, Transcripts

LEMMA ChatInvariance == Spec => []ChatInv
<1>1. Init => ChatInv
  BY ChatInit
<1>2. ChatInv /\ [Next]_vars => ChatInv'
  <2>. SUFFICES ASSUME ChatInv, [Next]_vars PROVE ChatInv'
    OBVIOUS
  <2>1. Transcripts' /\ LogTyped'
    BY TranscriptsStep DEF ChatInv, Transcripts
  <2>2. StreamsTyped' /\ ClicksTyped' /\ PageTyped' /\ TurnsTyped' /\ Bounded' /\ ParkingInv'
    BY StreamsStep, ClicksStep, PageStep, TurnsStep, BoundsStep, ParkingStep DEF ChatInv
  <2>. QED BY <2>1, <2>2 DEF ChatInv, Typed
<1>. QED BY <1>1, <1>2, PTL DEF Spec

\* The page, the streams and the core keep their shapes: whatever is under way,
\* an event that parks or polls a turn names one.
THEOREM ChatIsTyped == Spec => []TypeOK
<1>1. ChatInv => TypeOK
  BY TypedIsTypeOK DEF ChatInv
<1>. QED BY <1>1, ChatInvariance, PTL

\* However many streams render a turn, and whatever is resumed, undone, forked or
\* cut short, a transcript holds it once, its answer right after its question.
THEOREM TranscriptsAreWhole == Spec => []TranscriptIsWhole
<1>1. ChatInv => TranscriptIsWhole
  BY WholeIsWhole DEF ChatInv, Transcripts
<1>. QED BY <1>1, ChatInvariance, PTL
=============================================================================
