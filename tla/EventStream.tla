----------------------------- MODULE EventStream -----------------------------
(***************************************************************************)
(* One streamed chat completion: ChatHandler.handleStreamingChat, the      *)
(* goroutine readSSE that ChatStream starts, and the unbuffered channel    *)
(* between them.  A send and a receive on it are one step.                 *)
(*                                                                         *)
(* The LLM's response body, the client's connection and net/http's buffer  *)
(* for the response are external.  A line of the body is what it carries   *)
(* that becomes events: text, tool calls, a finish reason, or nothing.     *)
(***************************************************************************)
EXTENDS Integers, Sequences, FiniteSets

CONSTANTS
    MaxLines,       \* bound: lines of the LLM's response body
    MaxToolCalls    \* bound: tool calls in one line

ASSUME BoundAssumption == MaxLines \in Nat /\ MaxToolCalls \in Nat

VARIABLES
    handler,        \* where handleStreamingChat is
    event,          \* the event it received, while it writes it
    reader,         \* where readSSE is
    toSend,         \* the events readSSE has yet to send for what it just read
    closed,         \* the channel is closed
    body,           \* resp.Body is "open" or "closed"; "none" without response
    ctx,            \* r.Context() is "alive" or "cancelled"
    connected,      \* the client's connection can carry the response
    buffer,         \* frames in net/http's buffer of the response
    client,         \* frames on their way to the client, for good
    lines,          \* history: the lines readSSE read
    upstream        \* history: how the LLM's answer ended; "open" until then

wire == <<connected, buffer, client>>
source == <<lines, upstream>>
vars == <<handler, event, reader, toSend, closed, body, ctx, wire, source>>

Line == [content : BOOLEAN, tools : 0..MaxToolCalls, finish : BOOLEAN]

\* A StreamEvent, or the frame written for it; `line` is where it came from.
Event == [kind : {"content", "tool_call", "finish"}, line : 1..MaxLines]
         \cup [kind : {"error", "done", "[DONE]"}, line : {0}]

Of(kind, line) == [kind |-> kind, line |-> line]
Error == Of("error", 0)
Done == Of("done", 0)
Marker == Of("[DONE]", 0)

-----------------------------------------------------------------------------
(* What the reader sends                                                   *)

\* Faulty variants: the finish reason first; tool calls only without text.
eventsFinishFirst(line, k) ==
    (IF line.finish THEN <<Of("finish", k)>> ELSE <<>>)
    \o (IF line.content THEN <<Of("content", k)>> ELSE <<>>)
    \o [n \in 1..line.tools |-> Of("tool_call", k)]
eventsTextOrTools(line, k) ==
    (IF line.content THEN <<Of("content", k)>>
                     ELSE [n \in 1..line.tools |-> Of("tool_call", k)])
    \o (IF line.finish THEN <<Of("finish", k)>> ELSE <<>>)

\* The events of the k-th line: text, then each tool call, then the finish reason.
events(line, k) ==
    (IF line.content THEN <<Of("content", k)>> ELSE <<>>)
    \o [n \in 1..line.tools |-> Of("tool_call", k)]
    \o (IF line.finish THEN <<Of("finish", k)>> ELSE <<>>)

\* Faulty variants: an error is the end like any other; a line that cannot be
\* read is skipped like one that cannot be parsed.
failureAsEnd == <<Done>>
failureSkipped == <<>>

\* ReadString returned an error other than io.EOF.
failure == <<Error, Done>>

\* Faulty variant: the test for io.EOF is inverted.
endAsFailure == <<Error, Done>>

\* "[DONE]" was read, or io.EOF.
end == <<Done>>

\* How an answer may end that readSSE reports as done: with the line "[DONE]";
\* without it, after a whole line; or inside a line, whose text ReadString
\* returns with io.EOF and readSSE drops.
Finished == {"done", "eof", "torn"}

\* Nothing sent: read on.
sending(es) == IF es = <<>> THEN "select" ELSE "send"

\* Faulty variant: one send for each line read.
afterOneSend == IF toSend[1] \in {Error, Done} THEN "closeBody" ELSE "select"

\* Whatever ends a stream is the last event sent: read on after any other.
afterSend == IF Len(toSend) > 1 THEN "send"
             ELSE IF toSend[1] \in {Error, Done} THEN "closeBody" ELSE "select"

-----------------------------------------------------------------------------
(* The response                                                            *)

\* The http.ResponseWriter a handler is given is Logger's responseWriter.  It
\* embeds the interface http.ResponseWriter, so it has no method Flush, and the
\* type assertion in SSEData and SSEEvent fails.
isFlusher == FALSE

deliver(frames) == client' = IF connected THEN client \o frames ELSE client

\* SSEData and SSEEvent.  Unflushed, net/http keeps the frame, unless it does
\* not fit: then what was there goes out, and with it a frame too large to keep.
SSEData(frame) ==
    LET all == Append(buffer, frame)
    IN  \E k \in IF isFlusher THEN {Len(all)} ELSE {0, Len(buffer), Len(all)} :
            /\ deliver(SubSeq(all, 1, k))
            /\ buffer' = SubSeq(all, k + 1, Len(all))
            /\ UNCHANGED connected

-----------------------------------------------------------------------------
Init ==
    /\ handler = "start" /\ event = Done
    /\ reader = "none" /\ toSend = <<>> /\ closed = FALSE /\ body = "none"
    /\ ctx = "alive" /\ connected = TRUE
    /\ buffer = <<>> /\ client = <<>>
    /\ lines = <<>> /\ upstream = "open"

\* ExecuteStream succeeds: ChatStream has a response and starts readSSE.
open ==
    /\ handler = "start"
    /\ handler' = "range" /\ reader' = "select" /\ body' = "open"
    /\ UNCHANGED <<event, toSend, closed, ctx, wire, source>>

\* ExecuteStream fails: the handler writes the error and returns.
refuse ==
    /\ handler = "start"
    /\ SSEData(Error)
    /\ handler' = "return" /\ upstream' = "refused"
    /\ UNCHANGED <<event, reader, toSend, closed, body, ctx, lines>>

\* readSSE looks at its context before every line.
select ==
    /\ reader = "select"
    /\ reader' = IF ctx = "cancelled" THEN "send" ELSE "read"
    /\ toSend' = IF ctx = "cancelled" THEN <<Error>> ELSE <<>>
    /\ UNCHANGED <<handler, event, closed, body, ctx, wire, source>>

readLine ==
    /\ reader = "read" /\ Len(lines) < MaxLines
    /\ \E line \in Line :
        /\ lines' = Append(lines, line)
        /\ toSend' = events(line, Len(lines'))
    /\ reader' = sending(toSend')
    /\ UNCHANGED <<handler, event, closed, body, ctx, wire, upstream>>

readDone ==
    /\ reader = "read"
    /\ toSend' = end
    /\ reader' = sending(toSend') /\ upstream' = "done"
    /\ UNCHANGED <<handler, event, closed, body, ctx, wire, lines>>

\* The body ends without "[DONE]", with or without an unterminated line.
readEOF ==
    /\ reader = "read"
    /\ toSend' = end
    /\ reader' = sending(toSend') /\ upstream' \in {"eof", "torn"}
    /\ UNCHANGED <<handler, event, closed, body, ctx, wire, lines>>

\* The LLM's connection breaks, the HTTP client's timeout passes, or the
\* request's context is cancelled while readSSE waits for a line.
readFailure ==
    /\ reader = "read"
    /\ toSend' = failure
    /\ reader' = sending(toSend') /\ upstream' = "broken"
    /\ UNCHANGED <<handler, event, closed, body, ctx, wire, lines>>

\* The range loop of the handler receives what readSSE sends, or the close of
\* the channel.
pass ==
    /\ handler = "range" /\ (reader = "send" \/ closed)
    /\ IF closed THEN handler' = "marker" /\ UNCHANGED <<event, reader, toSend>>
       ELSE /\ event' = toSend[1] /\ handler' = "write"
            /\ toSend' = Tail(toSend) /\ reader' = afterSend
    /\ UNCHANGED <<closed, body, ctx, wire, source>>

\* The deferred calls of readSSE, last in first out.
closeBody ==
    /\ reader = "closeBody"
    /\ body' = "closed" /\ reader' = "closeEvents"
    /\ UNCHANGED <<handler, event, toSend, closed, ctx, wire, source>>

closeEvents ==
    /\ reader = "closeEvents"
    /\ closed' = TRUE /\ reader' = "ended"
    /\ UNCHANGED <<handler, event, toSend, body, ctx, wire, source>>

\* Faulty variant: an error is one more event.
breaksAtDone(e) == e = Done
breaks(e) == e \in {Error, Done}

writeEvent ==
    /\ handler = "write"
    /\ SSEData(event)
    /\ handler' = IF breaks(event) THEN "marker" ELSE "range"
    /\ UNCHANGED <<event, reader, toSend, closed, body, ctx, source>>

writeMarker ==
    /\ handler = "marker"
    /\ SSEData(Marker)
    /\ handler' = "return"
    /\ UNCHANGED <<event, reader, toSend, closed, body, ctx, source>>

\* The handler returns: net/http sends what is left and cancels the context.
return ==
    /\ handler = "return"
    /\ deliver(buffer) /\ buffer' = <<>>
    /\ handler' = "returned" /\ ctx' = "cancelled"
    /\ UNCHANGED <<event, reader, toSend, closed, body, connected, source>>

\* The client goes away, or the server's write timeout passes.
disconnect ==
    /\ connected /\ handler # "returned"
    /\ connected' = FALSE
    /\ UNCHANGED <<handler, event, reader, toSend, closed, body, ctx, buffer,
                   client, source>>

\* net/http notices, by a read or a write that fails.
notice ==
    /\ ~connected /\ ctx = "alive"
    /\ ctx' = "cancelled"
    /\ UNCHANGED <<handler, event, reader, toSend, closed, body, wire, source>>

readSSE == \/ select \/ readLine \/ readDone \/ readEOF \/ readFailure
           \/ closeBody \/ closeEvents
handleStreamingChat == \/ open \/ refuse \/ writeEvent \/ writeMarker \/ return

Next == \/ readSSE \/ pass \/ handleStreamingChat \/ disconnect \/ notice

\* A goroutine that can run does, and a read returns: the HTTP client's timeout
\* covers the response body.
Spec == Init /\ [][Next]_vars
        /\ WF_vars(readSSE) /\ WF_vars(pass) /\ WF_vars(handleStreamingChat)

-----------------------------------------------------------------------------
(* Properties                                                              *)

\* Every variable has its type.
TypeOK ==
    /\ handler \in {"start", "range", "write", "marker", "return", "returned"}
    /\ reader \in {"none", "select", "read", "send", "closeBody", "closeEvents",
                   "ended"}
    /\ event \in Event
    /\ toSend \in Seq(Event) /\ (reader = "send" <=> toSend # <<>>)
    /\ closed \in BOOLEAN /\ body \in {"none", "open", "closed"}
    /\ ctx \in {"alive", "cancelled"} /\ connected \in BOOLEAN
    /\ buffer \in Seq(Event) /\ client \in Seq(Event)
    /\ lines \in Seq(Line)
    /\ upstream \in Finished \cup {"open", "broken", "refused"}

seen(kind) == \E k \in DOMAIN client : client[k].kind = kind
count(kind, line) == Cardinality({k \in DOMAIN client : client[k] = Of(kind, line)})
whole(k) ==
    /\ count("content", k) = IF lines[k].content THEN 1 ELSE 0
    /\ count("tool_call", k) = lines[k].tools
    /\ count("finish", k) = IF lines[k].finish THEN 1 ELSE 0

\* The order of the parts of a line.
rank(kind) == CASE kind = "content" -> 1 [] kind = "tool_call" -> 2
                [] kind = "finish" -> 3 [] OTHER -> 4

\* What the client has seen of the answer is in the order the LLM sent it, with
\* nothing left out before it, whatever the reads, the buffer, the channel and
\* a lost connection do.
SeenInOrder ==
    \A j \in DOMAIN client : client[j].line > 0 =>
        /\ \A i \in 1..(j - 1) :
            \/ client[i].line < client[j].line
            \/ /\ client[i].line = client[j].line
               /\ rank(client[i].kind) <= rank(client[j].kind)
        /\ \A k \in 1..(client[j].line - 1) : whole(k)

\* A client that is told the answer is done has seen all that readSSE read:
\* every text, tool call and finish reason of every terminated line, each once.
\* That is the whole answer only if the LLM ended it with "[DONE]": see
\* DoneMeansComplete.
DoneMeansWhole == seen("done") => \A k \in DOMAIN lines : whole(k)

\* The client sees one end: after an error or a done nothing but the marker
\* comes, and the marker only after one of them.
OneEnd ==
    \A k \in DOMAIN client :
        /\ client[k] \in {Error, Done} =>
            /\ Len(client) <= k + 1
            /\ k < Len(client) => client[k + 1] = Marker
        /\ client[k] = Marker => k > 1 /\ client[k - 1] \in {Error, Done}

\* A client that stayed to the end is told one end, and the one readSSE saw: an
\* error for an answer that was refused or whose read failed, done for one whose
\* body ended, be it too early.
EndIsTold ==
    handler = "returned" /\ connected =>
        /\ seen("done") <=> upstream \in Finished
        /\ seen("error") <=> upstream \in {"broken", "refused"}

\* Every request is answered, even after the client has left.
Answered == <>(handler = "returned")

\* Unless a read fails, readSSE ends and closes the response body, even when
\* the client leaves.
ReaderReleased ==
    [](upstream # "broken") => (reader = "select" ~> reader = "ended" /\ body = "closed")

\* "[DONE] [...] to signal stream completion": an answer that the LLM did not
\* complete with it is not presented to the client as done.
DoneMeansComplete == seen("done") => upstream = "done"

\* What the documentation says of a client that leaves while readSSE waits for
\* the LLM: no goroutine leaks.
NoGoroutineLeak == ctx = "cancelled" /\ reader = "read" ~> reader = "ended"
=============================================================================
