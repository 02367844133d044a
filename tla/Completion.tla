----------------------------- MODULE Completion -----------------------------
(* One model request after another of a turn: ToolOffer checks the context  *)
(* the loop built, complete() talks to an OpenAI-compatible endpoint, and   *)
(* CompletionParser assembles the answer, whole or line by line.            *)
(*                                                                          *)
(* The endpoint means to say one message.  It streams the parts with the    *)
(* calls interleaved as it likes, and may stop anywhere; a faulty gateway   *)
(* loses, repeats or invents a line.  Each line is parsed by itself: the    *)
(* request may be aborted between any two.                                  *)
EXTENDS Naturals, FiniteSets, SequencesExt

CONSTANTS
    Tools,         \* names offered when tool_choice is auto
    NoId, NoName,  \* sentinels: the field is absent from a delta
    Messages,      \* what the endpoint may mean to say
    Objects,       \* argument texts that parse as a JSON object
    Strays,        \* chunks a faulty gateway may invent
    MaxCalls,      \* MAX_CALLS
    MaxArgument,   \* MAX_ARGUMENT_BYTES, in pieces of text
    MaxTotal,      \* MAX_TOTAL_ARGUMENT_BYTES, in pieces of text
    MaxAsks,       \* bound: requests
    MaxFaults      \* bound: lines lost, repeated or invented

ASSUME CompletionAssumption ==
    /\ NoName \notin Tools
    /\ MaxCalls \in Nat \ {0} /\ MaxArgument \in Nat /\ MaxTotal \in Nat
    /\ MaxAsks \in Nat /\ MaxFaults \in Nat
    /\ \A m \in Messages :
         /\ m.content \in Seq(Range(m.content)) /\ m.calls \in Seq(Range(m.calls))
         /\ \A c \in Range(m.calls) :
              /\ c = [id |-> c.id, name |-> c.name, args |-> c.args]
              /\ c.args \in Seq(Range(c.args)) /\ c.id # NoId /\ c.name # NoName
    /\ \A k \in Strays :
         /\ k.content \in Seq(Range(k.content)) /\ k.deltas \in Seq(Range(k.deltas))
         /\ \A d \in Range(k.deltas) : d.args \in Seq(Range(d.args))

VARIABLES
    phase,     \* of complete()
    offer,     \* tool_choice, or absent when there is no ToolOffer
    streamed,  \* chatStreamWithTools rather than chatWithTools or chat
    ctx,       \* the endpoint's own call ids in each tool pair of the context
    parser,    \* CompletionParser
    shown,     \* tokens forwarded to the sink
    out,       \* the result, or how the request failed
    aborted, timedOut,  \* the controller's signal, and whether its timer fired
    meant, sent, last,  \* the endpoint: its message, its progress, its last chunk
    requests, faults,
    spoiled    \* history: the calls of whose lines one was lost, repeated or invented

askVars == <<offer, streamed, ctx, requests>>
signal == <<aborted, timedOut>>
requestVars == <<phase, parser, shown, out, meant, sent, last, faults, spoiled, signal, askVars>>

Indices == 0 .. MaxCalls - 1
Call == [begun |-> FALSE, id |-> NoId, typed |-> FALSE, name |-> NoName, args |-> <<>>]
Fresh == [content |-> <<>>, calls |-> [i \in Indices |-> Call],
          finish |-> "none", ok |-> TRUE]
Broken == [Fresh EXCEPT !.ok = FALSE]   \* protocolError was thrown

Nothing == [kind |-> "none", content |-> <<>>, calls |-> <<>>]
Failure(kind) == [Nothing EXCEPT !.kind = kind]
Silence == [content |-> <<>>, calls |-> <<>>]
NoChunk == [content |-> <<>>, deltas |-> <<>>, finish |-> "none"]

RequestInit ==
    /\ phase = "idle" /\ offer = "auto" /\ streamed = FALSE
    /\ ctx = <<>>
    /\ parser = Fresh /\ shown = <<>> /\ out = Nothing
    /\ meant = Silence /\ sent = [content |-> 0, calls |-> <<>>] /\ last = NoChunk
    /\ requests = 0 /\ faults = 0 /\ spoiled = {} /\ aborted = FALSE /\ timedOut = FALSE

-----------------------------------------------------------------------------
(* ToolOffer *)

\* resolve: the name was offered, and tool_choice is not none.
Resolves(name) == offer = "auto" /\ name \in Tools

\* messages: no call id occurs twice in the context.
Acceptable(pairs) ==
    \A i, j \in DOMAIN pairs : pairs[i] \cap pairs[j] # {} => i = j

-----------------------------------------------------------------------------
(* CompletionParser *)

Size(calls) == FoldFunction(LAMBDA c, n : n + Len(c.args), 0, calls)

\* addCall: each field of a call is set once, its arguments accumulate.
SettableAgain(c, d) == d.name # NoName => Resolves(d.name)
Settable(c, d) ==
    /\ d.id # NoId => c.id = NoId
    /\ d.typed => ~c.typed
    /\ d.name # NoName => c.name = NoName /\ Resolves(d.name)

AddCall(p, d) ==
    LET c == p.calls[d.index]
        calls == [p.calls EXCEPT ![d.index] =
                    [begun |-> TRUE,
                     id |-> IF d.id = NoId THEN c.id ELSE d.id,
                     typed |-> c.typed \/ d.typed,
                     name |-> IF d.name = NoName THEN c.name ELSE d.name,
                     args |-> c.args \o d.args]] IN
    IF /\ p.ok /\ d.index \in Indices
       /\ Settable(c, d)
       /\ Len(calls[d.index].args) <= MaxArgument
       /\ Size(calls) <= MaxTotal
      THEN [p EXCEPT !.calls = calls]
      ELSE Broken

\* The deltas of a message, in their order.
AddCalls(p, deltas) ==
    LET read[n \in 0 .. Len(deltas)] ==
            IF n = 0 THEN p ELSE AddCall(read[n - 1], deltas[n]) IN
    read[Len(deltas)]

\* message: without an offer no call is read at all.
Message(p, k) ==
    IF k.deltas = <<>> \/ offer # "absent"
      THEN AddCalls([p EXCEPT !.content = @ \o k.content], k.deltas)
      ELSE Broken

\* finishReason
Finishes(p, finish) ==
    CASE ~p.ok -> p
      [] p.ok /\ finish = "none" -> p
      [] p.ok /\ finish \in (IF offer = "absent" THEN {"stop", "length"}
                                                 ELSE {"stop", "tool_calls"})
           -> [p EXCEPT !.finish = finish]
      [] OTHER -> Broken

\* isTerminalEcho: a chunk after the end that adds nothing.
Echoes(p, k) == k.content = <<>> /\ k.deltas = <<>> /\ k.finish \in {"none", p.finish}

Chunk(p, k) ==
    IF p.finish = "none" THEN Finishes(Message(p, k), k.finish)
    ELSE IF Echoes(p, k) THEN p
    ELSE Broken

Started(p) == {i \in Indices : p.calls[i].begun}

\* The checks of result() on a call.
Sound(c) == c.typed /\ c.id # NoId /\ Resolves(c.name) /\ c.args \in Objects

\* result: the calls, all of them complete, under an offer that ended so; or
\* text, which under an offer must have been ended by the model.
WholeCalls(p, done) ==
    LET called == 0 .. Cardinality(Started(p)) - 1 IN
    /\ p.finish = "tool_calls" /\ done
    /\ \A i \in called : Sound(p.calls[i])
    /\ \A i, j \in called : p.calls[i].id = p.calls[j].id => i = j

WholeTextAnyEnd(p) == p.ok /\ p.content # <<>>
WholeText(p) ==
    p.ok /\ p.content # <<>> /\ (offer # "absent" => p.finish = "stop")

ResultOf(p, done) ==
    LET n == Cardinality(Started(p)) IN
    CASE n > 0 /\ WholeCalls(p, done) ->
           [kind |-> "calls", content |-> p.content,
            calls |-> [i \in 1 .. n |-> p.calls[i - 1]]]
      [] n = 0 /\ WholeText(p) ->
           [kind |-> "text", content |-> p.content, calls |-> <<>>]
      [] OTHER -> Failure("protocol")

-----------------------------------------------------------------------------
(* complete() *)

\* The pair appended for the last result: an executed call goes by its
\* invocation id; a rejected or repeated one keeps the endpoint's ids.
PairIds == {{}, {out.calls[i].id : i \in DOMAIN out.calls}}

\* new ToolOffer, then fetch; a refused context throws before any request.
Ask(choice, streaming, pairs) ==
    /\ phase = "idle"
    /\ requests < MaxAsks
    /\ requests' = requests + 1
    /\ offer' = choice /\ streamed' = streaming /\ ctx' = pairs
    /\ parser' = Fresh /\ shown' = <<>>
    /\ \/ /\ choice = "absent" \/ Acceptable(pairs)
          /\ phase' = "fetching" /\ out' = Nothing
       \/ /\ choice # "absent" /\ ~Acceptable(pairs)
          /\ phase' = "idle" /\ out' = Failure("refused")
    /\ meant' \in (IF phase' = "idle" THEN {Silence} ELSE Messages)
    /\ sent' = [content |-> 0, calls |-> [i \in DOMAIN meant'.calls |-> 0]]
    /\ last' = NoChunk
    /\ aborted' = FALSE /\ timedOut' = FALSE /\ spoiled' = {}
    /\ UNCHANGED faults

Continue ==
    /\ out.kind = "calls"
    /\ \E pair \in PairIds, choice \in {"auto", "none"} :
         Ask(choice, streamed, Append(ctx, pair))

NewTurn == \E choice \in {"auto", "none"}, s \in BOOLEAN : Ask(choice, s, <<>>)

\* chat, for extraction and verification.
PlainChat == Ask("absent", FALSE, <<>>)

\* The reader is cancelled, which is awaited, before complete returns.
Close(result) ==
    /\ phase' = "closing"
    /\ out' = result

HeadersArrive ==
    /\ phase = "fetching" /\ ~aborted
    /\ phase' = "reading"
    /\ UNCHANGED <<parser, shown, out, meant, sent, last, faults, spoiled, signal, askVars>>

\* A status, or no endpoint at all: the timer is cleared and it throws.
FetchFails ==
    /\ phase = "fetching" /\ ~aborted
    /\ phase' = "idle"
    /\ \E kind \in {"status", "unreachable"} : out' = Failure(kind)
    /\ UNCHANGED <<parser, shown, meant, sent, last, faults, spoiled, signal, askVars>>

\* llmTimeoutMs passed, wherever the request is until the timer is cleared.
TimerFiresOnFetch ==
    /\ phase = "fetching" /\ ~timedOut
    /\ timedOut' = TRUE /\ aborted' = TRUE
    /\ UNCHANGED <<phase, parser, shown, out, meant, sent, last, faults, spoiled, askVars>>
TimerFires ==
    /\ phase # "idle" /\ ~timedOut
    /\ timedOut' = TRUE /\ aborted' = TRUE
    /\ UNCHANGED <<phase, parser, shown, out, meant, sent, last, faults, spoiled, askVars>>

\* The browser disconnected; only streamed requests carry its signal.
ClientAborts ==
    /\ phase # "idle" /\ streamed /\ ~aborted
    /\ aborted' = TRUE
    /\ UNCHANGED <<phase, parser, shown, out, meant, sent, last, faults, spoiled, timedOut, askVars>>

\* fetch, or the pending read, rejects once the signal is set.
Rejects ==
    /\ phase \in {"fetching", "reading"} /\ aborted
    /\ Close(Failure("aborted"))
    /\ UNCHANGED <<parser, shown, meant, sent, last, faults, spoiled, signal, askVars>>

\* The signal is looked at again after the reader was cancelled: it replaces
\* the result and any error.
ReturnsUnchecked ==
    /\ phase = "closing" /\ phase' = "idle"
    /\ UNCHANGED <<parser, shown, out, meant, sent, last, faults, spoiled, signal, askVars>>
Returns ==
    /\ phase = "closing" /\ phase' = "idle"
    /\ out' = IF timedOut THEN Failure("timeout")
              ELSE IF aborted THEN Failure("aborted") ELSE out
    /\ UNCHANGED <<parser, shown, meant, sent, last, faults, spoiled, signal, askVars>>

\* One data line of the stream: parse it, then forward its text.
Line(k) ==
    LET p == Chunk(parser, k) IN
    /\ parser' = p
    /\ IF p.ok
         THEN /\ shown' = shown \o k.content
              /\ UNCHANGED <<phase, out>>
         ELSE /\ Close(Failure("protocol"))
              /\ UNCHANGED shown

-----------------------------------------------------------------------------
(* the endpoint *)

Delta(i, id, typed, name, args) ==
    [index |-> i - 1, id |-> id, typed |-> typed, name |-> name, args |-> args]
Saying(content, deltas) == [content |-> content, deltas |-> deltas, finish |-> "none"]

\* What may come next of a call, with the progress it makes: its head, a piece
\* of its arguments, or all of it at once.
DueOf(i) ==
    LET c == meant.calls[i]
        k == sent.calls[i]
        To(n) == [sent EXCEPT !.calls[i] = n] IN
    IF k = 0
      THEN {<<Saying(<<>>, <<Delta(i, c.id, TRUE, c.name, <<>>)>>), To(1)>>,
            <<Saying(<<>>, <<Delta(i, c.id, TRUE, c.name, c.args)>>), To(1 + Len(c.args))>>}
      ELSE {<<Saying(<<>>, <<Delta(i, NoId, FALSE, NoName, <<c.args[k]>>)>>), To(k + 1)>>}

Due ==
    {<<Saying(<<meant.content[n]>>, <<>>), [sent EXCEPT !.content = n]>> :
       n \in {sent.content + 1} \cap DOMAIN meant.content}
    \cup UNION {DueOf(i) : i \in {j \in DOMAIN meant.calls :
                                    sent.calls[j] <= Len(meant.calls[j].args)}}

Whole ==
    [content |-> Len(meant.content),
     calls |-> [i \in DOMAIN meant.calls |-> 1 + Len(meant.calls[i].args)]]

\* length: the token limit cut the message short.
Reason ==
    IF sent # Whole THEN "length" ELSE IF meant.calls = <<>> THEN "stop" ELSE "tool_calls"

Reading == phase = "reading" /\ ~aborted
Streaming == Reading /\ streamed

SendChunk ==
    /\ Streaming /\ parser.finish = "none"
    /\ \E d \in Due :
         /\ Line(d[1])
         /\ sent' = d[2] /\ last' = d[1]
    /\ UNCHANGED <<meant, faults, spoiled, signal, askVars>>

SendFinish ==
    /\ Streaming /\ parser.finish = "none"
    /\ Line([NoChunk EXCEPT !.finish = Reason])
    /\ last' = [NoChunk EXCEPT !.finish = Reason]
    /\ UNCHANGED <<meant, sent, faults, spoiled, signal, askVars>>

\* A gateway's usage chunk repeats the terminal choice.
SendEcho ==
    /\ Streaming /\ parser.finish # "none"
    /\ Line([NoChunk EXCEPT !.finish = parser.finish])
    /\ UNCHANGED <<meant, sent, last, faults, spoiled, signal, askVars>>

\* [DONE], or the body ends: without it, calls are incomplete.
SendDone ==
    /\ Streaming
    /\ \E done \in BOOLEAN : Close(ResultOf(parser, done))
    /\ UNCHANGED <<parser, shown, meant, sent, last, faults, spoiled, signal, askVars>>

\* The body of chatWithTools and chat, at most cut short by the token limit.
SendWhole ==
    /\ Reading /\ ~streamed
    /\ \E n \in 0 .. Len(meant.content), all \in BOOLEAN :
         LET cut == n < Len(meant.content) \/ ~all
             said == [content |-> SubSeq(meant.content, 1, n),
                      deltas |-> IF ~all THEN <<>>
                                 ELSE [i \in DOMAIN meant.calls |->
                                         Delta(i, meant.calls[i].id, TRUE,
                                               meant.calls[i].name, meant.calls[i].args)],
                      finish |-> IF cut THEN "length"
                                 ELSE IF meant.calls = <<>> THEN "stop" ELSE "tool_calls"] IN
         Close(ResultOf(Chunk(parser, said), TRUE))
    /\ UNCHANGED <<parser, shown, meant, sent, last, faults, spoiled, signal, askVars>>

\* The calls that a line of its own, or an end too early, says wrongly.
Spoils(k) ==
    {k.deltas[n].index : n \in 1 .. Len(k.deltas)}
    \cup IF k.finish = "none" THEN {}
         ELSE {i - 1 : i \in {j \in DOMAIN meant.calls : sent.calls[j] # Whole.calls[j]}}

\* A line is lost, repeated or invented, or cannot be parsed.
Fault ==
    /\ Streaming
    /\ faults < MaxFaults
    /\ faults' = faults + 1
    /\ \/ /\ parser.finish = "none"
          /\ \E d \in Due : sent' = d[2] /\ spoiled' = spoiled \cup Spoils(d[1])
          /\ UNCHANGED <<phase, parser, shown, out, last>>
       \/ /\ last # NoChunk
          /\ Line(last) /\ spoiled' = spoiled \cup Spoils(last)
          /\ UNCHANGED <<sent, last>>
       \/ /\ \E k \in Strays : Line(k) /\ spoiled' = spoiled \cup Spoils(k)
          /\ UNCHANGED <<sent, last>>
       \/ /\ Close(Failure("protocol"))
          /\ UNCHANGED <<parser, shown, sent, last, spoiled>>
    /\ UNCHANGED <<meant, signal, askVars>>

-----------------------------------------------------------------------------
Endpoint ==
    \/ HeadersArrive \/ FetchFails
    \/ SendChunk \/ SendFinish \/ SendEcho \/ SendDone \/ SendWhole \/ Fault

RequestNext ==
    \/ Continue \/ NewTurn \/ PlainChat
    \/ Endpoint
    \/ TimerFires \/ ClientAborts \/ Rejects \/ Returns

RequestSpec == RequestInit /\ [][RequestNext]_requestVars

\* The timer fires and awaits end; an endpoint may stall for ever.
FairRequestSpec == RequestSpec /\ WF_requestVars(TimerFires) /\ WF_requestVars(Rejects) /\ WF_requestVars(Returns)

-----------------------------------------------------------------------------
\* The request, what was parsed of its answer within the argument limit, and
\* how it ended.
RequestTypeOK ==
    /\ phase \in {"idle", "fetching", "reading", "closing"}
    /\ offer \in {"auto", "none", "absent"} /\ streamed \in BOOLEAN
    /\ parser.ok \in BOOLEAN
    /\ parser.finish \in {"none", "stop", "tool_calls", "length"}
    /\ Size(parser.calls) <= MaxTotal
    /\ out.kind \in {"none", "text", "calls", "protocol", "status", "unreachable",
                    "timeout", "aborted", "refused"}
    /\ requests \in 0 .. MaxAsks /\ faults \in 0 .. MaxFaults

Made(i) == [id |-> out.calls[i].id, name |-> out.calls[i].name, args |-> out.calls[i].args]

\* What a faulty gateway may invent of the call at an index.
Noise(i) == {d \in UNION {Range(k.deltas) : k \in Strays} : d.index = i}

\* The calls that are handed to the loop were offered, with objects for
\* arguments.  However the endpoint interleaves its calls, and whatever happens
\* to the lines of some of them: the others are handed over exactly as they
\* were meant, each with its own id, name and arguments, and none of them is
\* missing; and the id and the name of a spoiled call are still those of one
\* head, the one that was meant or what the gateway made up.
CallsAreMeant ==
    out.kind = "calls" =>
      /\ offer = "auto"
      /\ \A i \in DOMAIN out.calls : Made(i).name \in Tools /\ Made(i).args \in Objects
      /\ \A i \in DOMAIN out.calls \cup DOMAIN meant.calls : i - 1 \notin spoiled =>
           i \in DOMAIN out.calls \cap DOMAIN meant.calls /\ Made(i) = meant.calls[i]
      /\ \A i \in DOMAIN out.calls :
           \/ /\ i \in DOMAIN meant.calls
              /\ Made(i).id = meant.calls[i].id /\ Made(i).name = meant.calls[i].name
           \/ \E d, e \in Noise(i - 1) : Made(i).id = d.id /\ Made(i).name = e.name

\* An answer of the tool loop is never one that was cut short, by the token
\* limit, by the end of the body or before the calls it announced; and what the
\* user saw stream by is what the loop stores, whatever the gateway did to it.
TextIsWhole ==
    out.kind = "text" =>
      /\ offer # "absent" /\ faults = 0 =>
           out.content = meant.content /\ meant.calls = <<>>
      /\ streamed => shown = out.content

\* A request whose time ran out, or whose client left, never yields an answer,
\* not even when that happened while the reader of a whole answer was closing.
AbortedHasNoAnswer ==
    phase = "idle" /\ aborted => out.kind \in {"timeout", "aborted"}

\* Every request ends although the endpoint may stall at any point: the loop
\* of AgentRun and the closing answers of ToolLedger rely on it.
RequestEnds == phase # "idle" ~> phase = "idle"

-----------------------------------------------------------------------------
(* TLC refutes these.                                                       *)

\* "a rejected proposal feeds its validation failure back so the model can
\* correct within budget": two such pairs carry the endpoint's ids, and an
\* endpoint that numbers its calls anew in each answer has its context refused.
CorrectionsAreOffered == out.kind # "refused"

\* The arguments are whatever object the pieces that arrived make: of a call
\* whose piece was lost or repeated, another one may be handed over.
ArgumentsAreMeant ==
    out.kind = "calls" =>
      \A i \in DOMAIN out.calls : \E j \in DOMAIN meant.calls : Made(i) = meant.calls[j]

\* chat has no ToolOffer, and then finish_reason is not looked at.
PlainTextIsWhole ==
    out.kind = "text" /\ faults = 0 => out.content = meant.content
=============================================================================
