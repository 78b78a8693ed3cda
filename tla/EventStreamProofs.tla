-------------------------- MODULE EventStreamProofs --------------------------
(* What a streamed answer guarantees, however many lines and tool calls the *)
(* LLM sends, wherever either connection breaks, and whatever the buffer    *)
(* does.                                                                    *)
EXTENDS EventStream, TLAPS, SequenceTheorems, FiniteSetTheorems

Ends == {Error, Done}
Plain == Event \ {Error, Done, Marker}

LEMMA Kinds ==
    /\ Error \in Event /\ Done \in Event /\ Marker \in Event
    /\ Error # Done /\ Error # Marker /\ Done # Marker
    /\ \A e \in Event : e \in Plain \/ e \in Ends \/ e = Marker
    /\ \A kind \in {"content", "tool_call", "finish"}, k \in 1..MaxLines :
           Of(kind, k) \in Plain
BY DEF Error, Done, Marker, Of, Event, Plain, Ends

\* The events of a line are text, tool calls and a finish reason of that line.
LEMMA EventsOfLine ==
    ASSUME NEW line \in Line, NEW k \in 1..MaxLines
    PROVE  events(line, k) \in Seq(Plain)
<1> DEFINE a == IF line.content THEN <<Of("content", k)>> ELSE <<>>
           b == [n \in 1..line.tools |-> Of("tool_call", k)]
           c == IF line.finish THEN <<Of("finish", k)>> ELSE <<>>
<1>1. a \in Seq(Plain)
  BY Kinds
<1>2. b \in Seq(Plain)
  <2>1. line.tools \in Nat
    BY BoundAssumption DEF Line
  <2>2. b \in [1..line.tools -> Plain]
    BY Kinds
  <2> QED BY <2>1, <2>2
<1>3. c \in Seq(Plain)
  BY Kinds
<1>4. events(line, k) = (a \o b) \o c
  BY DEF events
<1> HIDE DEF a, b, c
<1>5. a \o b \in Seq(Plain)
  BY <1>1, <1>2, ConcatProperties
<1> QED BY <1>3, <1>4, <1>5, ConcatProperties

-----------------------------------------------------------------------------
(* What was written to the client                                          *)

AllPlain(w) == \A k \in 1..Len(w) : w[k] \in Plain

\* w ends with e, and everything before is part of the answer.
Ended(w, e) ==
    /\ Len(w) >= 1 /\ w[Len(w)] = e
    /\ \A k \in 1..(Len(w) - 1) : w[k] \in Plain

\* The same, and the marker after it.
Marked(w, e) ==
    /\ Len(w) >= 2 /\ w[Len(w)] = Marker /\ w[Len(w) - 1] = e
    /\ \A k \in 1..(Len(w) - 2) : w[k] \in Plain

wrote == client \o buffer

LEMMA Growth ==
    ASSUME NEW w \in Seq(Event), NEW e \in Event
    PROVE  /\ AllPlain(w) => Ended(Append(w, e), e)
           /\ AllPlain(w) /\ e \in Plain => AllPlain(Append(w, e))
           /\ \A f : Ended(w, f) => Marked(Append(w, Marker), f)
BY Kinds, AppendProperties, LenProperties DEF AllPlain, Ended, Marked

\* A frame goes to the end of what was written, if the client is there.
LEMMA Written ==
    ASSUME buffer \in Seq(Event), client \in Seq(Event), NEW frame \in Event,
           SSEData(frame)
    PROVE  /\ buffer' \in Seq(Event) /\ client' \in Seq(Event)
           /\ connected' = connected
           /\ connected => wrote' = Append(wrote, frame)
           /\ ~connected => client' = client
<1> DEFINE all == Append(buffer, frame)
<1>1. all \in Seq(Event) /\ Len(all) = Len(buffer) + 1 /\ Len(buffer) \in Nat
  BY AppendProperties, LenProperties
<1>2. PICK k \in 0..Len(all) :
           /\ client' = IF connected THEN client \o SubSeq(all, 1, k) ELSE client
           /\ buffer' = SubSeq(all, k + 1, Len(all))
  <2>1. PICK k \in IF isFlusher THEN {Len(all)} ELSE {0, Len(buffer), Len(all)} :
             /\ deliver(SubSeq(all, 1, k))
             /\ buffer' = SubSeq(all, k + 1, Len(all))
    BY Zenon DEF SSEData
  <2>2. k \in {0, Len(buffer), Len(all)}
    BY <2>1, Zenon
  <2>3. k \in 0..Len(all)
    BY <1>1, <2>2
  <2> QED BY <2>1, <2>3, Zenon DEF deliver
<1> DEFINE out == SubSeq(all, 1, k)
           kept == SubSeq(all, k + 1, Len(all))
<1>3. out \in Seq(Event) /\ kept \in Seq(Event)
  <2>1. \A i \in 1..Len(all) : all[i] \in Event
    BY <1>1, ElementOfSeq
  <2>2. \A i \in 1..k : all[i] \in Event
    BY <1>1, <1>2, <2>1
  <2>3. \A i \in (k + 1)..Len(all) : all[i] \in Event
    BY <1>1, <1>2, <2>1
  <2>4. k \in Int /\ k + 1 \in Int /\ Len(all) \in Int
    BY <1>1, <1>2
  <2> HIDE DEF all
  <2> QED BY <2>2, <2>3, <2>4, SubSeqProperties
<1>4. out \o kept = all
  <2>1. /\ 1 \in 1..(Len(all) + 1) /\ k \in (1 - 1)..Len(all) /\ Len(all) \in k..Len(all)
        /\ SubSeq(all, 1, Len(all)) = all
    BY <1>1, <1>2, SubSeqFull
  <2> HIDE DEF all
  <2>2. SubSeq(all, 1, k) \o SubSeq(all, k + 1, Len(all)) = SubSeq(all, 1, Len(all))
    BY <1>1, <2>1, ConcatAdjacentSubSeq, Zenon
  <2> QED BY <2>1, <2>2
<1>5. client \o all = Append(wrote, frame)
  <2>1. all = buffer \o <<frame>> /\ <<frame>> \in Seq(Event)
    BY AppendIsConcat
  <2>2. wrote \in Seq(Event)
    BY ConcatProperties DEF wrote
  <2>3. Append(wrote, frame) = wrote \o <<frame>>
    BY <2>2, AppendIsConcat
  <2> HIDE DEF all
  <2> QED BY <2>1, <2>3, ConcatAssociative DEF wrote
<1> HIDE DEF out, kept, all
<1>6. (client \o out) \o kept = client \o all
  <2>1. (client \o out) \o kept = client \o (out \o kept)
    <3>1. \A x, y, z \in Seq(Event) : (x \o y) \o z = x \o (y \o z)
      BY ConcatAssociative, SMTT(30)
    <3> QED BY <1>3, <3>1, Zenon
  <2> QED BY <1>4, <2>1
<1>7. client' = (IF connected THEN client \o out ELSE client) /\ buffer' = kept
  BY <1>2 DEF out, kept
<1>8. client \o out \in Seq(Event)
  BY <1>3, ConcatProperties
<1>9. connected' = connected
  BY DEF SSEData
<1>10. CASE connected
  <2>1. client' = client \o out
    BY <1>7, <1>10
  <2> QED BY <1>3, <1>5, <1>6, <1>7, <1>8, <1>9, <1>10, <2>1 DEF wrote
<1>11. CASE ~connected
  <2>1. client' = client
    BY <1>7, <1>11
  <2> QED BY <1>3, <1>7, <1>9, <1>11, <2>1
<1> QED BY <1>10, <1>11

\* OneEnd, of the frames c.
OneEndOf(c) ==
    \A k \in DOMAIN c :
        /\ c[k] \in {Error, Done} =>
            /\ Len(c) <= k + 1
            /\ k < Len(c) => c[k + 1] = Marker
        /\ c[k] = Marker => k > 1 /\ c[k - 1] \in {Error, Done}

LEMMA PrefixHasOneEnd ==
    ASSUME NEW c \in Seq(Event), NEW b \in Seq(Event), NEW e \in Ends,
           AllPlain(c \o b) \/ Ended(c \o b, e) \/ Marked(c \o b, e)
    PROVE  OneEndOf(c)
<1> DEFINE w == c \o b
<1>1. /\ Len(c) \in Nat /\ Len(w) \in Nat /\ Len(c) <= Len(w)
      /\ DOMAIN c = 1..Len(c)
      /\ \A k \in 1..Len(c) : w[k] = c[k]
  BY ConcatProperties, LenProperties
<1>2. AllPlain(w) \/ Ended(w, e) \/ Marked(w, e)
  OBVIOUS
<1> HIDE DEF w
<1>3. \A p \in Plain : p \notin Ends /\ p # Marker
  BY DEF Plain, Ends
<1>4. CASE AllPlain(w)
  BY <1>1, <1>3, <1>4 DEF AllPlain, OneEndOf, Ends
<1>5. CASE Ended(w, e)
  <2>1. \A k \in 1..Len(c) : c[k] \in Plain \/ (k = Len(w) /\ c[k] = e)
    <3> TAKE k \in 1..Len(c)
    <3>1. k = Len(w) \/ k \in 1..(Len(w) - 1)
      BY <1>1
    <3>2. c[k] = w[k]
      BY <1>1
    <3> QED BY <1>5, <3>1, <3>2 DEF Ended
  <2> QED BY <1>1, <1>3, <2>1, Kinds DEF OneEndOf, Ends
<1>6. CASE Marked(w, e)
  <2>1. \A k \in 1..Len(c) : \/ c[k] \in Plain
                             \/ k = Len(w) - 1 /\ c[k] = e
                             \/ k = Len(w) /\ c[k] = Marker /\ k > 1 /\ c[k - 1] = e
    <3> TAKE k \in 1..Len(c)
    <3>1. k \in 1..Len(w) /\ c[k] = w[k] /\ (k > 1 => c[k - 1] = w[k - 1])
      BY <1>1
    <3>2. k \in 1..(Len(w) - 2) \/ k = Len(w) - 1 \/ k = Len(w)
      BY <1>1, <3>1
    <3> QED BY <1>1, <1>6, <3>1, <3>2 DEF Marked
  <2>2. \A k \in 1..Len(c) : c[k] \in Ends => k = Len(w) - 1 /\ Len(c) <= k + 1
                                              /\ (k < Len(c) => c[k + 1] = Marker)
    BY <1>1, <1>3, <2>1, <1>6, Kinds DEF Marked, Ends
  <2> QED BY <1>1, <1>3, <2>1, <2>2, Kinds DEF OneEndOf, Ends
<1> QED BY <1>2, <1>4, <1>5, <1>6

-----------------------------------------------------------------------------
(* The inductive invariant                                                 *)

\* The handler still receives.
receiving == handler = "range" \/ (handler = "write" /\ event \in Plain)

endOf(how) == IF how \in Finished THEN Done ELSE Error

\* Who is where.
Places ==
    /\ handler = "start" => /\ reader = "none" /\ upstream = "open"
                            /\ client = <<>> /\ buffer = <<>>
    /\ handler = "write" => event \in Plain \cup Ends
    /\ receiving => reader \in {"select", "read", "send"}
    /\ reader \in {"select", "read"} => receiving /\ upstream = "open"
    /\ closed => reader = "ended"
    /\ ctx = "cancelled" => ~connected \/ handler = "returned"

\* What readSSE still sends to a handler that receives.
Sends ==
    receiving /\ reader = "send" =>
        \/ toSend \in Seq(Plain) /\ upstream = "open"
        \/ toSend = <<Done>> /\ upstream \in Finished
        \/ toSend = <<Error, Done>> /\ upstream = "broken"
        \/ toSend = <<Error>> /\ ~connected

\* What was written to a client that is there.
Frames ==
    connected =>
        /\ handler \in {"start", "range", "write"} => AllPlain(wrote)
        /\ handler = "write" /\ event \in Ends =>
               upstream \in Finished \cup {"broken"} /\ event = endOf(upstream)
        /\ handler = "marker" =>
               upstream \in Finished \cup {"broken"} /\ Ended(wrote, endOf(upstream))
        /\ handler \in {"return", "returned"} =>
               \/ upstream = "refused" /\ Ended(wrote, Error)
               \/ upstream \in Finished \cup {"broken"} /\ Marked(wrote, endOf(upstream))
        /\ handler = "returned" => buffer = <<>>

Inv == TypeOK /\ Places /\ Sends /\ Frames /\ OneEnd

LEMMA InvInit == Init => Inv
<1> SUFFICES ASSUME Init PROVE Inv
  OBVIOUS
<1>1. TypeOK
  <2>1. reader = "none" /\ toSend = <<>> /\ event \in Event
    BY Kinds DEF Init
  <2>2. <<>> \in Seq(Event) /\ <<>> \in Seq(Line)
    BY EmptySeq
  <2>3. closed \in BOOLEAN /\ connected \in BOOLEAN
    BY DEF Init
  <2>4. /\ handler = "start" /\ body = "none" /\ ctx = "alive" /\ upstream = "open"
        /\ buffer = <<>> /\ client = <<>> /\ lines = <<>>
    BY DEF Init
  <2> QED BY <2>1, <2>2, <2>3, <2>4 DEF TypeOK
<1>2. Places /\ Sends
  BY DEF Init, Places, Sends, receiving
<1>3. AllPlain(wrote)
  BY DEF Init, wrote, AllPlain
<1>4. Frames
  BY <1>3 DEF Init, Frames
<1>5. OneEnd
  BY DEF Init, OneEnd
<1> QED BY <1>1, <1>2, <1>4, <1>5 DEF Inv

-----------------------------------------------------------------------------
(* Types                                                                   *)

LEMMA PlainEvents == \A es : es \in Seq(Plain) => es \in Seq(Event)
<1>1. Plain \subseteq Event
  BY DEF Plain
<1> QED BY <1>1, SeqMonotonic

LEMMA ReadTyped == TypeOK /\ readSSE => TypeOK'
<1> SUFFICES ASSUME TypeOK, readSSE PROVE TypeOK'
  OBVIOUS
<1> USE DEF TypeOK, wire, source
<1>1. CASE select
  BY <1>1, Kinds DEF select
<1>2. CASE readLine
  <2>1. PICK line \in Line : /\ lines' = Append(lines, line)
                             /\ toSend' = events(line, Len(lines'))
    BY <1>2 DEF readLine
  <2>2. Len(lines') \in 1..MaxLines /\ lines' \in Seq(Line)
    BY <1>2, <2>1, BoundAssumption, AppendProperties, LenProperties DEF readLine
  <2>3. toSend' \in Seq(Event)
    BY <2>1, <2>2, EventsOfLine, PlainEvents
  <2> QED BY <1>2, <2>2, <2>3 DEF readLine, sending
<1>3. CASE readDone \/ readEOF
  <2>1. upstream' \in Finished \cup {"open", "broken", "refused"}
    BY <1>3 DEF readDone, readEOF, Finished
  <2>2. toSend' = <<Done>> /\ reader' = sending(toSend')
    BY <1>3 DEF readDone, readEOF, end
  <2>3. toSend' \in Seq(Event) /\ toSend' # <<>>
    BY <2>2, Kinds
  <2>4. UNCHANGED <<handler, event, closed, body, ctx, wire, lines>>
    BY <1>3 DEF readDone, readEOF
  <2>5. reader' = "send"
    BY <2>2, <2>3 DEF sending
  <2> QED BY <2>1, <2>3, <2>4, <2>5
<1>4. CASE readFailure
  BY <1>4, Kinds DEF readFailure, sending, failure
<1>5. CASE closeBody \/ closeEvents
  BY <1>5 DEF closeBody, closeEvents
<1> QED BY <1>1, <1>2, <1>3, <1>4, <1>5 DEF readSSE

LEMMA PassTyped == TypeOK /\ pass => TypeOK'
<1> SUFFICES ASSUME TypeOK, pass PROVE TypeOK'
  OBVIOUS
<1>1. CASE closed
  BY <1>1 DEF pass, TypeOK, wire, source
<1>2. CASE ~closed
  <2>1. toSend # <<>> /\ toSend \in Seq(Event)
    BY <1>2 DEF pass, TypeOK
  <2>2. /\ toSend[1] \in Event /\ Tail(toSend) \in Seq(Event)
        /\ Tail(toSend) # <<>> <=> Len(toSend) > 1
    <3>1. /\ Len(toSend) \in Nat \ {0} /\ Tail(toSend) \in Seq(Event)
          /\ Len(Tail(toSend)) = Len(toSend) - 1
      BY <2>1, HeadTailProperties, EmptySeq
    <3>2. toSend[1] \in Event
      BY <2>1, <3>1, ElementOfSeq
    <3>3. Tail(toSend) # <<>> => Len(Tail(toSend)) \in Nat \ {0}
      BY <3>1, EmptySeq
    <3>4. Tail(toSend) = <<>> => Len(Tail(toSend)) = 0
      BY EmptySeq
    <3> QED BY <3>1, <3>2, <3>3, <3>4
  <2>3. event' \in Event /\ toSend' \in Seq(Event)
    BY <1>2, <2>2 DEF pass
  <2>4. /\ reader' \in {"send", "select", "closeBody"}
        /\ reader' = "send" <=> toSend' # <<>>
    BY <1>2, <2>2 DEF pass, afterSend
  <2>5. handler' = "write" /\ UNCHANGED <<closed, body, ctx, wire, source>>
    BY <1>2 DEF pass
  <2> QED BY <2>3, <2>4, <2>5 DEF TypeOK, wire, source
<1> QED BY <1>1, <1>2

LEMMA HandlerTyped ==
    TypeOK /\ Places /\ (handleStreamingChat \/ disconnect \/ notice) => TypeOK'
<1> SUFFICES ASSUME TypeOK, Places, handleStreamingChat \/ disconnect \/ notice PROVE TypeOK'
  OBVIOUS
<1>1. ASSUME NEW frame \in Event, SSEData(frame)
      PROVE  buffer' \in Seq(Event) /\ client' \in Seq(Event) /\ connected' \in BOOLEAN
  BY <1>1, Written DEF TypeOK
<1>2. CASE open
  <2>1. /\ handler' = "range" /\ reader' = "select" /\ body' = "open"
        /\ UNCHANGED <<event, toSend, closed, ctx, connected, buffer, client, lines, upstream>>
    BY <1>2 DEF open, wire, source
  <2>2. toSend = <<>>
    BY <1>2 DEF open, Places, TypeOK
  <2> QED BY <2>1, <2>2 DEF TypeOK
<1>3. CASE refuse
  BY <1>1, <1>3, Kinds DEF refuse, TypeOK
<1>4. CASE writeEvent
  BY <1>1, <1>4 DEF writeEvent, TypeOK, source
<1>5. CASE writeMarker
  BY <1>1, <1>5, Kinds DEF writeMarker, TypeOK, source
<1>6. CASE return
  <2>1. client \o buffer \in Seq(Event)
    BY ConcatProperties DEF TypeOK
  <2> QED BY <1>6, <2>1 DEF return, deliver, TypeOK, source
<1>7. CASE disconnect \/ notice
  BY <1>7 DEF disconnect, notice, TypeOK, wire, source
<1> QED BY <1>2, <1>3, <1>4, <1>5, <1>6, <1>7 DEF handleStreamingChat

LEMMA Typed == TypeOK /\ Places /\ [Next]_vars => TypeOK'
<1>1. TypeOK /\ UNCHANGED vars => TypeOK'
  BY DEF TypeOK, vars, wire, source
<1> QED BY <1>1, ReadTyped, PassTyped, HandlerTyped DEF Next

-----------------------------------------------------------------------------
(* Steps of readSSE                                                        *)

LEMMA ReadStep == Inv /\ readSSE => Inv'
<1> SUFFICES ASSUME Inv, readSSE PROVE Inv'
  OBVIOUS
<1>1. UNCHANGED <<handler, event, ctx, connected, buffer, client>>
  BY DEF readSSE, select, readLine, readDone, readEOF, readFailure, closeBody,
         closeEvents, wire
<1>2. UNCHANGED <<wrote, receiving>> /\ OneEnd'
  BY <1>1 DEF wrote, receiving, Inv, OneEnd
<1>3. /\ handler # "start" /\ reader # "none"
      /\ reader \in {"select", "read"} => receiving /\ upstream = "open" /\ ~closed
      /\ reader \in {"closeBody", "closeEvents"} => ~receiving /\ ~closed
  BY DEF Inv, TypeOK, Places, readSSE, select, readLine, readDone, readEOF, readFailure,
         closeBody, closeEvents
<1>4. Places'
  <2>1. CASE select \/ readLine \/ readDone \/ readEOF \/ readFailure
    <3>1. receiving /\ upstream = "open" /\ ~closed /\ closed' = closed
      BY <1>3, <2>1 DEF select, readLine, readDone, readEOF, readFailure
    <3>2. /\ reader' \in {"select", "read", "send"}
          /\ reader' \in {"select", "read"} => upstream' = upstream
      BY <2>1 DEF select, readLine, readDone, readEOF, readFailure, sending, source,
                   end, failure
    <3> QED BY <1>1, <1>2, <1>3, <3>1, <3>2 DEF Inv, Places
  <2>2. CASE closeBody \/ closeEvents
    <3>1. ~receiving /\ reader' \in {"closeEvents", "ended"}
          /\ (closed' => reader' = "ended")
      BY <1>3, <2>2 DEF closeBody, closeEvents
    <3> QED BY <1>1, <1>2, <1>3, <3>1 DEF Inv, Places
  <2> QED BY <2>1, <2>2 DEF readSSE
<1>5. Sends'
  <2>1. CASE select
    BY <1>1, <1>2, <1>3, <2>1 DEF select, source, Inv, Places, Sends, receiving
  <2>2. CASE readLine
    <3>1. PICK line \in Line : /\ lines' = Append(lines, line)
                               /\ toSend' = events(line, Len(lines'))
      BY <2>2 DEF readLine
    <3>2. Len(lines') \in 1..MaxLines
      BY <2>2, <3>1, BoundAssumption, AppendProperties, LenProperties
         DEF readLine, Inv, TypeOK
    <3>3. toSend' \in Seq(Plain)
      BY <3>1, <3>2, EventsOfLine
    <3>4. upstream' = "open"
      BY <1>3, <2>2 DEF readLine
    <3> QED BY <3>3, <3>4 DEF Sends
  <2>3. CASE readDone \/ readEOF
    BY <2>3 DEF readDone, readEOF, end, Sends, Finished
  <2>4. CASE readFailure
    BY <2>4 DEF readFailure, failure, Sends
  <2>5. CASE closeBody \/ closeEvents
    BY <1>2, <1>3, <2>5 DEF closeBody, closeEvents, Sends
  <2> QED BY <2>1, <2>2, <2>3, <2>4, <2>5 DEF readSSE
<1>6. Frames'
  <2>1. CASE select \/ closeBody \/ closeEvents
    <3>1. upstream' = upstream
      BY <2>1 DEF select, closeBody, closeEvents, source
    <3> QED BY <1>1, <1>2, <3>1 DEF Inv, Frames
  <2>2. CASE readLine \/ readDone \/ readEOF \/ readFailure
    <3>1. receiving
      BY <1>3, <2>2 DEF readLine, readDone, readEOF, readFailure
    <3>2. handler \in {"range", "write"} /\ (handler = "write" => event \notin Ends)
      BY <3>1 DEF receiving, Plain, Ends
    <3> QED BY <1>1, <1>2, <3>2 DEF Inv, Frames
  <2> QED BY <2>1, <2>2 DEF readSSE
<1>7. TypeOK'
  BY ReadTyped DEF Inv
<1> QED BY <1>2, <1>4, <1>5, <1>6, <1>7 DEF Inv

-----------------------------------------------------------------------------
(* Steps of the handler                                                    *)

LEMMA PassStep == Inv /\ pass => Inv'
<1> SUFFICES ASSUME Inv, pass PROVE Inv'
  OBVIOUS
<1>1. handler = "range" /\ receiving /\ reader = "send" /\ ~closed
  BY DEF pass, Inv, Places, receiving
<1>2. /\ event' = toSend[1] /\ handler' = "write"
      /\ toSend' = Tail(toSend) /\ reader' = afterSend
      /\ UNCHANGED <<ctx, connected, buffer, client, upstream, closed>>
  BY <1>1 DEF pass, wire, source
<1>3. UNCHANGED wrote /\ OneEnd'
  BY <1>2 DEF wrote, Inv, OneEnd
<1>4. CASE toSend \in Seq(Plain) /\ upstream = "open"
  <2>1. toSend # <<>>
    BY <1>1 DEF Inv, TypeOK
  <2>2. /\ toSend[1] \in Plain /\ Tail(toSend) \in Seq(Plain)
    <3>1. Len(toSend) \in Nat \ {0} /\ Tail(toSend) \in Seq(Plain)
      BY <1>4, <2>1, HeadTailProperties, EmptySeq
    <3>2. 1 \in 1..Len(toSend)
      BY <3>1
    <3> QED BY <1>4, <3>1, <3>2, ElementOfSeq
  <2>3. reader' \in {"select", "send"}
    BY <1>2, <2>2 DEF afterSend, Plain
  <2>4. receiving' /\ event' \in Plain /\ event' \notin Ends /\ upstream' = "open"
    BY <1>2, <1>4, <2>2 DEF receiving, Plain, Ends
  <2>5. Places'
    BY <1>1, <1>2, <2>3, <2>4 DEF Inv, Places
  <2>6. Sends'
    BY <1>2, <2>2, <2>4 DEF Sends
  <2>7. Frames'
    BY <1>1, <1>2, <1>3, <2>4 DEF Inv, Frames
  <2> QED BY <1>3, <2>5, <2>6, <2>7, PassTyped DEF Inv
<1>5. CASE \/ toSend = <<Done>> /\ upstream \in Finished
           \/ toSend = <<Error, Done>> /\ upstream = "broken"
           \/ toSend = <<Error>> /\ ~connected
  <2>1. /\ event' \in Ends /\ reader' \in {"send", "closeBody"}
        /\ connected => event' = endOf(upstream) /\ upstream \in Finished \cup {"broken"}
    BY <1>2, <1>5, Kinds DEF afterSend, Ends, endOf, Finished
  <2>2. ~receiving' /\ event' \notin Plain
    BY <1>2, <2>1 DEF receiving, Plain, Ends
  <2>3. Places'
    BY <1>1, <1>2, <2>1, <2>2 DEF Inv, Places
  <2>4. Sends'
    BY <2>2 DEF Sends
  <2>5. Frames'
    BY <1>1, <1>2, <1>3, <2>1 DEF Inv, Frames
  <2> QED BY <1>3, <2>3, <2>4, <2>5, PassTyped DEF Inv
<1> QED BY <1>1, <1>4, <1>5 DEF Inv, Sends

\* Who has the frames of Frames has one end.
LEMMA OneEndKept ==
    ASSUME client' \in Seq(Event), buffer' \in Seq(Event), OneEnd,
           ~connected' => client' = client,
           connected' => \E e \in Ends : \/ AllPlain(wrote') \/ Ended(wrote', e)
                                        \/ Marked(wrote', e)
    PROVE  OneEnd'
<1>1. CASE connected'
  <2>1. OneEndOf(client')
    BY <1>1, PrefixHasOneEnd DEF wrote
  <2> QED BY <2>1 DEF OneEnd, OneEndOf
<1>2. CASE ~connected'
  BY <1>2 DEF OneEnd
<1> QED BY <1>1, <1>2

LEMMA EndOf == \A how : endOf(how) \in Ends
BY DEF endOf, Ends

LEMMA HandlerStep == Inv /\ handleStreamingChat => Inv'
<1> SUFFICES ASSUME Inv, handleStreamingChat PROVE Inv'
  OBVIOUS
<1>1. TypeOK'
  BY HandlerTyped DEF Inv
<1>2. /\ buffer \in Seq(Event) /\ client \in Seq(Event) /\ event \in Event
      /\ buffer' \in Seq(Event) /\ client' \in Seq(Event)
      /\ wrote \in Seq(Event)
  BY <1>1, ConcatProperties DEF Inv, TypeOK, wrote
<1>3. CASE open
  <2>1. /\ handler = "start" /\ handler' = "range" /\ reader' = "select"
        /\ UNCHANGED <<event, toSend, closed, ctx, connected, buffer, client, upstream>>
    BY <1>3 DEF open, wire, source
  <2>2. UNCHANGED wrote /\ OneEnd' /\ receiving'
    BY <2>1 DEF wrote, Inv, OneEnd, receiving
  <2>3. Places'
    BY <2>1, <2>2 DEF Inv, Places
  <2>4. Sends' /\ Frames'
    BY <2>1, <2>2 DEF Inv, Sends, Frames
  <2> QED BY <1>1, <2>2, <2>3, <2>4 DEF Inv
<1>4. CASE refuse
  <2>1. /\ handler = "start" /\ handler' = "return" /\ upstream' = "refused"
        /\ UNCHANGED <<event, reader, toSend, closed, ctx>>
        /\ SSEData(Error)
    BY <1>4 DEF refuse
  <2>2. /\ connected' = connected
        /\ connected => wrote' = Append(wrote, Error)
        /\ ~connected => client' = client
    BY <1>2, <2>1, Kinds, Written
  <2>3. reader' = "none" /\ ~receiving' /\ ~receiving
    BY <2>1 DEF Inv, Places, receiving
  <2>4. connected' => Ended(wrote', Error)
    BY <1>2, <2>1, <2>2, Kinds, Growth DEF Inv, Frames
  <2>5. Places' /\ Sends'
    BY <2>1, <2>2, <2>3 DEF Inv, Places, Sends
  <2>6. Frames'
    BY <2>1, <2>4 DEF Frames
  <2>7. OneEnd'
    BY <1>2, <2>2, <2>4, OneEndKept DEF Inv, Ends
  <2> QED BY <1>1, <2>5, <2>6, <2>7 DEF Inv
<1>5. CASE writeEvent
  <2>1. /\ handler = "write" /\ SSEData(event)
        /\ handler' = IF breaks(event) THEN "marker" ELSE "range"
        /\ UNCHANGED <<event, reader, toSend, closed, ctx, upstream>>
    BY <1>5 DEF writeEvent, source
  <2>2. /\ connected' = connected
        /\ connected => wrote' = Append(wrote, event)
        /\ ~connected => client' = client
    BY <1>2, <2>1, Written
  <2>3. connected => AllPlain(wrote)
    BY <2>1 DEF Inv, Frames
  <2>4. CASE event \in Plain
    <3>1. handler' = "range" /\ receiving /\ receiving'
      BY <2>1, <2>4 DEF breaks, receiving, Plain
    <3>2. connected' => AllPlain(wrote')
      BY <1>2, <2>2, <2>3, <2>4, Growth
    <3>3. Places' /\ Sends'
      BY <2>1, <2>2, <3>1 DEF Inv, Places, Sends
    <3>4. Frames'
      BY <3>1, <3>2 DEF Frames
    <3>5. OneEnd'
      BY <1>2, <2>2, <3>2, OneEndKept DEF Inv, Ends
    <3> QED BY <1>1, <3>3, <3>4, <3>5 DEF Inv
  <2>5. CASE event \in Ends
    <3>1. handler' = "marker" /\ ~receiving /\ ~receiving'
      BY <2>1, <2>5 DEF breaks, receiving, Plain, Ends
    <3>2. connected' => /\ Ended(wrote', endOf(upstream))
                        /\ upstream \in Finished \cup {"broken"}
      BY <1>2, <2>1, <2>2, <2>3, <2>5, Growth DEF Inv, Frames
    <3>3. Places' /\ Sends'
      BY <2>1, <2>2, <3>1 DEF Inv, Places, Sends
    <3>4. Frames'
      BY <2>1, <3>1, <3>2 DEF Frames, endOf
    <3>5. OneEnd'
      BY <1>2, <2>2, <3>2, EndOf, OneEndKept DEF Inv
    <3> QED BY <1>1, <3>3, <3>4, <3>5 DEF Inv
  <2> QED BY <2>1, <2>4, <2>5 DEF Inv, Places
<1>6. CASE writeMarker
  <2>1. /\ handler = "marker" /\ SSEData(Marker) /\ handler' = "return"
        /\ UNCHANGED <<event, reader, toSend, closed, ctx, upstream>>
    BY <1>6 DEF writeMarker, source
  <2>2. /\ connected' = connected
        /\ connected => wrote' = Append(wrote, Marker)
        /\ ~connected => client' = client
    BY <1>2, <2>1, Kinds, Written
  <2>3. connected' => /\ Marked(wrote', endOf(upstream))
                      /\ upstream \in Finished \cup {"broken"}
    BY <1>2, <2>1, <2>2, Kinds, Growth DEF Inv, Frames
  <2>4. ~receiving /\ ~receiving'
    BY <2>1 DEF receiving
  <2>5. Places' /\ Sends'
    BY <2>1, <2>2, <2>4 DEF Inv, Places, Sends
  <2>6. Frames'
    BY <2>1, <2>3 DEF Frames, endOf
  <2>7. OneEnd'
    BY <1>2, <2>2, <2>3, EndOf, OneEndKept DEF Inv
  <2> QED BY <1>1, <2>5, <2>6, <2>7 DEF Inv
<1>7. CASE return
  <2>1. /\ handler = "return" /\ handler' = "returned" /\ buffer' = <<>>
        /\ client' = IF connected THEN client \o buffer ELSE client
        /\ UNCHANGED <<event, reader, toSend, closed, connected, upstream>>
    BY <1>7 DEF return, deliver, source
  <2>2. connected => wrote' = wrote
    <3>1. connected => client' = wrote
      BY <2>1 DEF wrote
    <3>2. wrote \o <<>> = wrote
      BY <1>2, ConcatEmptySeq
    <3>3. wrote' = client' \o buffer'
      BY DEF wrote
    <3> QED BY <2>1, <3>1, <3>2, <3>3
  <2>3. ~receiving /\ ~receiving'
    BY <2>1 DEF receiving
  <2>4. Places' /\ Sends'
    BY <2>1, <2>3 DEF Inv, Places, Sends
  <2>5. Frames'
    BY <2>1, <2>2 DEF Inv, Frames, endOf
  <2>6. connected' => \E e \in Ends : \/ AllPlain(wrote') \/ Ended(wrote', e)
                                     \/ Marked(wrote', e)
    BY <2>1, <2>5, EndOf DEF Frames, Ends
  <2>7. ~connected' => client' = client
    BY <2>1
  <2>8. OneEnd'
    BY <1>2, <2>6, <2>7, OneEndKept DEF Inv
  <2> QED BY <1>1, <2>4, <2>5, <2>8 DEF Inv
<1> QED BY <1>3, <1>4, <1>5, <1>6, <1>7 DEF handleStreamingChat

LEMMA ConnectionStep == Inv /\ (disconnect \/ notice) => Inv'
<1> SUFFICES ASSUME Inv, disconnect \/ notice PROVE Inv'
  OBVIOUS
<1>1. /\ UNCHANGED <<handler, event, reader, toSend, closed, buffer, client, upstream>>
      /\ ~connected'
  BY DEF disconnect, notice, wire, source
<1>2. UNCHANGED receiving /\ OneEnd'
  BY <1>1 DEF receiving, Inv, OneEnd
<1>3. Places' /\ Sends' /\ Frames'
  BY <1>1, <1>2 DEF Inv, Places, Sends, Frames
<1> QED BY <1>2, <1>3, HandlerTyped DEF Inv

LEMMA InvStep == Inv /\ [Next]_vars => Inv'
<1>1. Inv /\ UNCHANGED vars => Inv'
  <2> SUFFICES ASSUME Inv, UNCHANGED vars PROVE Inv'
    OBVIOUS
  <2>1. UNCHANGED <<handler, event, reader, toSend, closed, ctx, connected, buffer,
                    client, upstream>>
    BY DEF vars, wire, source
  <2>2. UNCHANGED <<receiving, wrote>>
    BY <2>1 DEF receiving, wrote
  <2>3. TypeOK'
    BY Typed DEF Inv
  <2>4. Places' /\ Sends' /\ Frames' /\ OneEnd'
    BY <2>1, <2>2 DEF Inv, Places, Sends, Frames, OneEnd
  <2> QED BY <2>3, <2>4 DEF Inv
<1> QED BY <1>1, ReadStep, PassStep, HandlerStep, ConnectionStep DEF Next

LEMMA StreamInv == Spec => []Inv
BY InvInit, InvStep, PTL DEF Spec

-----------------------------------------------------------------------------
\* Every variable has its type, and readSSE is at its send as long as something
\* is left to send.
THEOREM Typing == Spec => []TypeOK
<1>1. Inv => TypeOK
  BY DEF Inv
<1> QED BY <1>1, StreamInv, PTL

\* A client never sees a second end, nor anything after the end but the marker,
\* whichever of its events readSSE sends and wherever the client leaves.
THEOREM OneEndSeen == Spec => []OneEnd
<1>1. Inv => OneEnd
  BY DEF Inv
<1> QED BY <1>1, StreamInv, PTL

\* A client that stays is told the end readSSE saw: an error, or the end of the
\* body, which it takes for the end of the answer.
THEOREM EndTold == Spec => []EndIsTold
<1>1. Inv => EndIsTold
  <2> SUFFICES ASSUME Inv, handler = "returned", connected
               PROVE  /\ seen("done") <=> upstream \in Finished
                      /\ seen("error") <=> upstream \in {"broken", "refused"}
    BY DEF EndIsTold
  <2>1. wrote = client /\ client \in Seq(Event)
    BY ConcatEmptySeq DEF Inv, TypeOK, Frames, wrote
  <2>2. /\ \A e \in Event : e.kind = "done" <=> e = Done
        /\ \A e \in Event : e.kind = "error" <=> e = Error
    BY DEF Event, Done, Error, Of
  <2>3. /\ \A k \in DOMAIN client : client[k] \in Event
        /\ DOMAIN client = 1..Len(client) /\ Len(client) \in Nat
    BY <2>1, ElementOfSeq, LenProperties
  <2>4. /\ seen("done") <=> \E k \in DOMAIN client : client[k] = Done
        /\ seen("error") <=> \E k \in DOMAIN client : client[k] = Error
    BY <2>2, <2>3 DEF seen
  <2>5. \A p \in Plain : p # Done /\ p # Error
    BY DEF Plain
  <2>6. CASE upstream = "refused" /\ Ended(client, Error)
    BY <2>3, <2>4, <2>5, <2>6, Kinds DEF Ended, Finished
  <2>7. CASE upstream \in Finished \cup {"broken"} /\ Marked(client, endOf(upstream))
    <3>1. \A k \in DOMAIN client : \/ client[k] \in Plain \/ client[k] = Marker
                                  \/ client[k] = endOf(upstream)
      BY <2>3, <2>7 DEF Marked
    <3>2. \E k \in DOMAIN client : client[k] = endOf(upstream)
      BY <2>3, <2>7 DEF Marked
    <3>3. endOf(upstream) = IF upstream \in Finished THEN Done ELSE Error
      BY DEF endOf
    <3> QED BY <2>4, <2>5, <2>7, <3>1, <3>2, <3>3, Kinds DEF Finished
  <2> QED BY <2>1, <2>6, <2>7 DEF Inv, Frames
<1> QED BY <1>1, StreamInv, PTL
-----------------------------------------------------------------------------
(* What the client sees of the answer                                      *)

\* The frames of w are in the order of the answer whose lines are ls, and whole.
Before(d, e) == d.line < e.line \/ (d.line = e.line /\ rank(d.kind) <= rank(e.kind))
framesOf(w, kind, k) == {j \in 1..Len(w) : w[j] = Of(kind, k)}
WholeIn(w, line, k) ==
    /\ Cardinality(framesOf(w, "content", k)) = IF line.content THEN 1 ELSE 0
    /\ Cardinality(framesOf(w, "tool_call", k)) = line.tools
    /\ Cardinality(framesOf(w, "finish", k)) = IF line.finish THEN 1 ELSE 0

Ordered(w) == \A i, j \in 1..Len(w) : i < j /\ w[j].line > 0 => Before(w[i], w[j])
Faithful(w, ls) ==
    /\ Ordered(w)
    /\ \A j \in 1..Len(w) : w[j].line <= Len(ls)
    /\ \A k \in 1..Len(ls) : WholeIn(w, ls[k], k)

\* The answer on its way: what was written, is being written, and will be sent.
inHand == IF handler = "write" /\ event \in Plain THEN <<event>> ELSE <<>>
coming == IF upstream = "open" THEN toSend ELSE <<>>
stream == (wrote \o inHand) \o coming

\* What the client knows, whether it is still there or not.
Reported ==
    /\ SeenInOrder /\ DoneMeansWhole
    /\ seen("done") => upstream \in Finished
    /\ \A j \in DOMAIN client : client[j].line <= Len(lines)

\* The inductive invariant: a connected client will get the whole answer.
Delivered == connected => Faithful(stream, lines)

LEMMA Fields ==
    /\ \A kind, k : Of(kind, k).kind = kind /\ Of(kind, k).line = k
    /\ \A e \in Event : e.line \in Nat /\ e = Of(e.kind, e.line)
    /\ rank("content") = 1 /\ rank("tool_call") = 2 /\ rank("finish") = 3
<1>1. \A e \in Event : e.line \in Nat
  BY BoundAssumption DEF Event
<1> QED BY <1>1 DEF Of, Event, rank

texts(line) == IF line.content THEN 1 ELSE 0
finishes(line) == IF line.finish THEN 1 ELSE 0
\* The i-th event of the k-th line.
part(line, k, i) ==
    IF i <= texts(line) THEN Of("content", k)
    ELSE IF i <= texts(line) + line.tools THEN Of("tool_call", k) ELSE Of("finish", k)

LEMMA PartsOfLine ==
    ASSUME NEW line \in Line, NEW k \in 1..MaxLines
    PROVE  /\ texts(line) \in 0..1 /\ line.tools \in Nat /\ finishes(line) \in 0..1
           /\ events(line, k) \in Seq(Event)
           /\ Len(events(line, k)) = texts(line) + line.tools + finishes(line)
           /\ \A i \in 1..Len(events(line, k)) : events(line, k)[i] = part(line, k, i)
<1> DEFINE a == IF line.content THEN <<Of("content", k)>> ELSE <<>>
           b == [n \in 1..line.tools |-> Of("tool_call", k)]
           c == IF line.finish THEN <<Of("finish", k)>> ELSE <<>>
<1>1. line.tools \in Nat
  BY BoundAssumption DEF Line
<1>2. \A kind \in {"content", "tool_call", "finish"} : Of(kind, k) \in Event
  BY Kinds DEF Plain
<1>3. /\ a \in Seq(Event) /\ Len(a) = texts(line) /\ texts(line) \in 0..1
      /\ \A i \in 1..Len(a) : a[i] = Of("content", k)
  BY <1>2 DEF texts
<1>4. b \in Seq(Event) /\ Len(b) = line.tools /\ \A i \in 1..Len(b) : b[i] = Of("tool_call", k)
  <2>1. b \in [1..line.tools -> Event]
    BY <1>2
  <2> QED BY <1>1, <2>1
<1>5. /\ c \in Seq(Event) /\ Len(c) = finishes(line) /\ finishes(line) \in 0..1
      /\ \A i \in 1..Len(c) : c[i] = Of("finish", k)
  BY <1>2 DEF finishes
<1>6. events(line, k) = (a \o b) \o c
  BY DEF events
<1> HIDE DEF a, b, c
<1> DEFINE d == a \o b
           e == d \o c
<1>7. /\ d \in Seq(Event) /\ Len(d) = texts(line) + line.tools
      /\ \A i \in 1..Len(d) : d[i] = IF i <= texts(line) THEN a[i] ELSE b[i - texts(line)]
  BY <1>3, <1>4, ConcatProperties
<1> HIDE DEF d
<1>8. \A i \in 1..Len(d) : d[i] = part(line, k, i)
  BY <1>1, <1>3, <1>4, <1>7 DEF part
<1>9. /\ e \in Seq(Event) /\ Len(e) = Len(d) + Len(c)
      /\ \A i \in 1..Len(d) + Len(c) : e[i] = IF i <= Len(d) THEN d[i] ELSE c[i - Len(d)]
  BY <1>5, <1>7, ConcatProperties
<1> HIDE DEF e
<1>10. \A i \in 1..Len(e) : e[i] = part(line, k, i)
  <2> TAKE i \in 1..Len(e)
  <2>1. CASE i <= Len(d)
    <3>1. i \in 1..Len(d) /\ i \in 1..Len(d) + Len(c)
      BY <1>1, <1>3, <1>5, <1>7, <1>9, <2>1
    <3> QED BY <1>8, <1>9, <2>1, <3>1
  <2>2. CASE i > Len(d)
    <3>1. e[i] = c[i - Len(d)] /\ i - Len(d) \in 1..Len(c)
      BY <1>1, <1>3, <1>5, <1>7, <1>9, <2>2
    <3>2. e[i] = Of("finish", k)
      BY <1>5, <3>1
    <3> QED BY <1>1, <1>3, <1>7, <2>2, <3>2 DEF part
  <2> QED BY <1>1, <1>3, <1>7, <2>1, <2>2
<1>11. events(line, k) = e
  BY <1>6 DEF d, e
<1> QED BY <1>1, <1>3, <1>5, <1>7, <1>9, <1>10, <1>11

\* Where which parts are.
LEMMA PartKinds ==
    ASSUME NEW line, NEW k, NEW i \in Int, texts(line) \in 0..1, line.tools \in Nat
    PROVE  /\ part(line, k, i).line = k
           /\ part(line, k, i) = Of("content", k) <=> i <= texts(line)
           /\ part(line, k, i) = Of("tool_call", k) <=>
                  texts(line) < i /\ i <= texts(line) + line.tools
           /\ part(line, k, i) = Of("finish", k) <=> texts(line) + line.tools < i
           /\ rank(part(line, k, i).kind) = IF i <= texts(line) THEN 1
                 ELSE IF i <= texts(line) + line.tools THEN 2 ELSE 3
<1>1. /\ Of("content", k) # Of("tool_call", k) /\ Of("content", k) # Of("finish", k)
      /\ Of("tool_call", k) # Of("finish", k)
  BY DEF Of
<1>2. \A kind : Of(kind, k).kind = kind /\ Of(kind, k).line = k
  BY Fields
<1>3. CASE i <= texts(line)
  <2>1. part(line, k, i) = Of("content", k)
    BY <1>3 DEF part
  <2> QED BY <1>1, <1>2, <1>3, <2>1, Fields
<1>4. CASE texts(line) < i /\ i <= texts(line) + line.tools
  <2>1. part(line, k, i) = Of("tool_call", k)
    BY <1>4 DEF part
  <2> QED BY <1>1, <1>2, <1>4, <2>1, Fields
<1>5. CASE texts(line) + line.tools < i
  <2>1. part(line, k, i) = Of("finish", k)
    BY <1>5 DEF part
  <2> QED BY <1>1, <1>2, <1>5, <2>1, Fields
<1> QED BY <1>3, <1>4, <1>5

\* The events of the next line keep what was faithful faithful.
LEMMA Extended ==
    ASSUME NEW w \in Seq(Event), NEW ls \in Seq(Line), NEW line \in Line,
           Len(ls) + 1 <= MaxLines, Faithful(w, ls)
    PROVE  Faithful(w \o events(line, Len(ls) + 1), Append(ls, line))
<1> DEFINE k == Len(ls) + 1
           es == events(line, k)
           v == w \o es
           n == Len(w)
           c == texts(line)
           t == line.tools
           f == finishes(line)
           ms == Append(ls, line)
<1>1. n \in Nat /\ Len(ls) \in Nat /\ k \in 1..MaxLines /\ k > Len(ls)
  BY LenProperties, BoundAssumption
<1>2. /\ c \in 0..1 /\ t \in Nat /\ f \in 0..1 /\ es \in Seq(Event) /\ Len(es) = c + t + f
      /\ \A i \in 1..(c + t + f) : es[i] = part(line, k, i)
  BY <1>1, PartsOfLine
<1>3. /\ v \in Seq(Event) /\ Len(v) = n + (c + t + f)
      /\ \A i \in 1..n : v[i] = w[i]
      /\ \A i \in (n + 1)..Len(v) : v[i] = es[i - n]
  <2> HIDE DEF es, c, t, f
  <2>1. /\ v \in Seq(Event) /\ Len(v) = n + Len(es)
        /\ \A i \in 1..n + Len(es) : v[i] = IF i <= n THEN w[i] ELSE es[i - n]
    BY <1>2, ConcatProperties
  <2> HIDE DEF v, n
  <2> QED BY <1>1, <1>2, <2>1
<1>4. Len(ms) = k /\ ms[k] = line /\ \A j \in 1..Len(ls) : ms[j] = ls[j]
  BY AppendProperties
<1>5. \A j \in 1..n : w[j].line \in Nat /\ w[j].line <= Len(ls)
  BY ElementOfSeq, Fields DEF Faithful
<1> HIDE DEF v, es, n, ms, k, c, t, f
<1>6. \A i \in (n + 1)..Len(v) : v[i] = part(line, k, i - n) /\ v[i].line = k
  <2> TAKE i \in (n + 1)..Len(v)
  <2>1. i - n \in 1..(c + t + f)
    BY <1>1, <1>2, <1>3
  <2>2. v[i] = part(line, k, i - n)
    BY <1>2, <1>3, <2>1
  <2> QED BY <2>2, Fields DEF part
<1>7. Ordered(v)
  <2> SUFFICES ASSUME NEW i \in 1..Len(v), NEW j \in 1..Len(v), i < j, v[j].line > 0
               PROVE  Before(v[i], v[j])
    BY DEF Ordered
  <2>1. CASE j \in 1..n
    <3>1. i \in 1..n
      BY <1>1, <1>3, <2>1
    <3> QED BY <1>3, <2>1, <3>1 DEF Faithful, Ordered, n
  <2>2. CASE j \in (n + 1)..Len(v) /\ i \in 1..n
    BY <1>1, <1>3, <1>5, <1>6, <2>2 DEF Before
  <2>3. CASE j \in (n + 1)..Len(v) /\ i \in (n + 1)..Len(v)
    <3>1. i - n \in Int /\ j - n \in Int /\ i - n < j - n
      BY <1>1, <1>3
    <3>2. rank(part(line, k, i - n).kind) <= rank(part(line, k, j - n).kind)
      <4>1. ASSUME NEW m \in Int
            PROVE  rank(part(line, k, m).kind) = IF m <= c THEN 1 ELSE IF m <= c + t THEN 2 ELSE 3
        BY <1>2, PartKinds DEF c, t
      <4>2. rank(part(line, k, i - n).kind) =
                IF i - n <= c THEN 1 ELSE IF i - n <= c + t THEN 2 ELSE 3
        BY <3>1, <4>1
      <4>3. rank(part(line, k, j - n).kind) =
                IF j - n <= c THEN 1 ELSE IF j - n <= c + t THEN 2 ELSE 3
        BY <3>1, <4>1
      <4> QED BY <1>2, <3>1, <4>2, <4>3
    <3> QED BY <1>6, <2>3, <3>2 DEF Before
  <2> QED BY <1>1, <1>3, <2>1, <2>2, <2>3
<1>8. \A j \in 1..Len(v) : v[j].line <= Len(ms)
  <2> TAKE j \in 1..Len(v)
  <2>1. j \in 1..n \/ j \in (n + 1)..Len(v)
    BY <1>1, <1>3
  <2> QED BY <1>1, <1>3, <1>4, <1>5, <1>6, <2>1
<1>9. \A j \in 1..Len(ls) : WholeIn(v, ms[j], j)
  <2> TAKE j \in 1..Len(ls)
  <2>1. ASSUME NEW kind PROVE framesOf(v, kind, j) = framesOf(w, kind, j)
    <3>1. \A i \in 1..Len(v) : v[i] = Of(kind, j) => i \in 1..n
      BY <1>1, <1>3, <1>6, Fields
    <3>2. \A i : i \in 1..Len(v) /\ v[i] = Of(kind, j) <=> i \in 1..n /\ w[i] = Of(kind, j)
      <4>1. \A i \in 1..n : i \in 1..Len(v)
        BY <1>1, <1>2, <1>3
      <4> QED BY <1>3, <3>1, <4>1
    <3> QED BY <3>2, Zenon DEF framesOf, n
  <2> QED BY <1>4, <2>1 DEF Faithful, WholeIn
<1>10. /\ n \in Nat /\ c \in Nat /\ t \in Nat /\ f \in Nat
       /\ Len(v) = n + (c + t + f)
  BY <1>1, <1>2, <1>3
<1>11. WholeIn(v, ms[k], k)
  <2>1. \A i \in 1..n : \A kind : v[i] # Of(kind, k)
    BY <1>1, <1>3, <1>5, Fields
  <2>2. ASSUME NEW i
        PROVE  /\ i \in framesOf(v, "content", k) <=> i \in (n + 1)..(n + c)
               /\ i \in framesOf(v, "tool_call", k) <=> i \in (n + c + 1)..(n + c + t)
               /\ i \in framesOf(v, "finish", k) <=> i \in (n + c + t + 1)..(n + c + t + f)
    <3>1. \A kind : i \in framesOf(v, kind, k) <=>
                       i \in (n + 1)..Len(v) /\ part(line, k, i - n) = Of(kind, k)
      BY <1>10, <1>6, <2>1 DEF framesOf
    <3>2. CASE i \in (n + 1)..Len(v)
      <4>1. i - n \in Int /\ i \in Int /\ n < i /\ i <= n + c + t + f
        BY <1>10, <3>2
      <4>2. /\ part(line, k, i - n) = Of("content", k) <=> i - n <= c
            /\ part(line, k, i - n) = Of("tool_call", k) <=> c < i - n /\ i - n <= c + t
            /\ part(line, k, i - n) = Of("finish", k) <=> c + t < i - n
        BY <1>2, <4>1, PartKinds DEF c, t
      <4>3. /\ i - n <= c <=> i \in (n + 1)..(n + c)
            /\ c < i - n /\ i - n <= c + t <=> i \in (n + c + 1)..(n + c + t)
            /\ c + t < i - n <=> i \in (n + c + t + 1)..(n + c + t + f)
        BY <1>10, <4>1
      <4> QED BY <3>1, <3>2, <4>2, <4>3, Zenon
    <3>3. CASE i \notin (n + 1)..Len(v)
      <4>1. /\ (n + 1)..(n + c) \subseteq (n + 1)..Len(v)
            /\ (n + c + 1)..(n + c + t) \subseteq (n + 1)..Len(v)
            /\ (n + c + t + 1)..(n + c + t + f) \subseteq (n + 1)..Len(v)
        BY <1>10
      <4> QED BY <3>1, <3>3, <4>1, Zenon
    <3> QED BY <3>2, <3>3
  <2>3. /\ framesOf(v, "content", k) = (n + 1)..(n + c)
        /\ framesOf(v, "tool_call", k) = (n + c + 1)..(n + c + t)
        /\ framesOf(v, "finish", k) = (n + c + t + 1)..(n + c + t + f)
    BY <2>2, Zenon
  <2>4. \A a, m \in Nat : Cardinality((a + 1)..(a + m)) = m
    <3> TAKE a, m \in Nat
    <3>1. a + 1 \in Int /\ a + m \in Int
      OBVIOUS
    <3>2. Cardinality((a + 1)..(a + m)) = IF a + 1 > a + m THEN 0 ELSE (a + m) - (a + 1) + 1
      BY <3>1, FS_Interval
    <3> QED BY <3>2
  <2>5. /\ Cardinality((n + 1)..(n + c)) = c
        /\ Cardinality((n + c + 1)..(n + c + t)) = t
        /\ Cardinality((n + c + t + 1)..(n + c + t + f)) = f
    <3>1. n + c \in Nat /\ n + c + t \in Nat
      BY <1>10
    <3> QED BY <1>10, <2>4, <3>1
  <2> QED BY <1>4, <2>3, <2>5 DEF WholeIn, c, t, f, texts, finishes
<1>12. \A j \in 1..Len(ms) : j \in 1..Len(ls) \/ j = k
  BY <1>1, <1>4 DEF k
<1> QED BY <1>7, <1>8, <1>9, <1>11, <1>12 DEF Faithful, v, es, ms, k

\* An end, or the marker, is no part of the answer.
LEMMA Closing ==
    ASSUME NEW w \in Seq(Event), NEW ls, NEW e \in {Error, Done, Marker}, Faithful(w, ls),
           Len(ls) \in Nat
    PROVE  Faithful(Append(w, e), ls)
<1> DEFINE v == Append(w, e)
<1>1. e \in Event /\ e.line = 0
  BY Kinds, Fields DEF Error, Done, Marker
<1>2. /\ Len(w) \in Nat /\ Len(v) = Len(w) + 1 /\ v[Len(v)] = e
      /\ \A i \in 1..Len(w) : v[i] = w[i]
  BY <1>1, AppendProperties, LenProperties
<1> HIDE DEF v
<1>3. Ordered(v)
  <2> SUFFICES ASSUME NEW i \in 1..Len(v), NEW j \in 1..Len(v), i < j, v[j].line > 0
               PROVE  Before(v[i], v[j])
    BY DEF Ordered
  <2>1. j \in 1..Len(w) /\ i \in 1..Len(w)
    BY <1>1, <1>2
  <2> QED BY <1>2, <2>1 DEF Faithful, Ordered
<1>4. \A j \in 1..Len(v) : v[j].line <= Len(ls)
  BY <1>1, <1>2 DEF Faithful
<1>5. \A k \in 1..Len(ls) : WholeIn(v, ls[k], k)
  <2> TAKE k \in 1..Len(ls)
  <2>1. ASSUME NEW kind PROVE framesOf(v, kind, k) = framesOf(w, kind, k)
    <3>1. \A i \in 1..Len(v) : v[i] = Of(kind, k) => i \in 1..Len(w)
      BY <1>1, <1>2, Fields
    <3> QED BY <1>2, <3>1 DEF framesOf
  <2> QED BY <2>1 DEF Faithful, WholeIn
<1> QED BY <1>3, <1>4, <1>5 DEF Faithful, v

-----------------------------------------------------------------------------
(* The answer on its way, step by step                                     *)

LEMMA StreamParts ==
    ASSUME Inv
    PROVE  /\ client \in Seq(Event) /\ buffer \in Seq(Event) /\ wrote \in Seq(Event)
           /\ inHand \in Seq(Event) /\ coming \in Seq(Event) /\ stream \in Seq(Event)
           /\ lines \in Seq(Line) /\ toSend \in Seq(Event) /\ event \in Event
<1>1. /\ client \in Seq(Event) /\ buffer \in Seq(Event) /\ toSend \in Seq(Event)
      /\ lines \in Seq(Line) /\ event \in Event
  BY DEF Inv, TypeOK
<1>2. inHand \in Seq(Event) /\ coming \in Seq(Event) /\ wrote \in Seq(Event)
  BY <1>1, ConcatProperties DEF inHand, coming, wrote
<1>3. wrote \o inHand \in Seq(Event)
  BY <1>2, ConcatProperties
<1>4. (wrote \o inHand) \o coming \in Seq(Event)
  BY <1>2, <1>3, ConcatProperties
<1> QED BY <1>1, <1>2, <1>4 DEF stream

\* A step of readSSE adds the events of the line it read, if it read one.
LEMMA Reading ==
    ASSUME Inv, readSSE, connected', Faithful(stream, lines)
    PROVE  Faithful(stream', lines')
<1>1. UNCHANGED <<handler, event, ctx, connected, buffer, client>>
  BY DEF readSSE, select, readLine, readDone, readEOF, readFailure, closeBody,
         closeEvents, wire
<1>2. UNCHANGED <<wrote, inHand>>
  BY <1>1 DEF wrote, inHand
<1>3. coming' = coming => stream' = stream
  BY <1>2 DEF stream
<1>4. ASSUME reader \in {"select", "read"}
      PROVE  toSend = <<>> /\ coming = <<>> /\ upstream = "open" /\ ctx # "cancelled"
  <2>1. toSend = <<>> /\ upstream = "open" /\ receiving
    BY <1>4 DEF Inv, TypeOK, Places
  <2>2. ctx # "cancelled"
    BY <1>1, <2>1 DEF Inv, Places, receiving
  <2> QED BY <2>1, <2>2 DEF coming
<1>5. CASE select
  <2>1. reader = "select" /\ lines' = lines /\ upstream' = upstream
    BY <1>5 DEF select, source
  <2>2. toSend' = <<>>
    BY <1>4, <1>5, <2>1 DEF select
  <2> QED BY <1>3, <1>4, <2>1, <2>2 DEF coming
<1>6. CASE readLine
  <2>1. PICK line \in Line : /\ lines' = Append(lines, line)
                             /\ toSend' = events(line, Len(lines'))
    BY <1>6 DEF readLine
  <2>2. /\ reader = "read" /\ upstream' = upstream /\ Len(lines) < MaxLines
    BY <1>6 DEF readLine
  <2>3. lines \in Seq(Line) /\ Len(lines) \in Nat /\ Len(lines') = Len(lines) + 1
    BY <2>1, StreamParts, AppendProperties, LenProperties
  <2>4. coming = <<>> /\ coming' = events(line, Len(lines) + 1)
    BY <1>4, <2>1, <2>2, <2>3 DEF coming
  <2>5. stream = wrote \o inHand
    <3>1. wrote \o inHand \in Seq(Event)
      BY StreamParts, ConcatProperties
    <3> QED BY <2>4, <3>1, ConcatEmptySeq DEF stream
  <2>6. stream' = stream \o events(line, Len(lines) + 1)
    BY <1>2, <2>4, <2>5 DEF stream
  <2>7. Len(lines) + 1 <= MaxLines
    BY <2>2, <2>3, BoundAssumption
  <2> QED BY <2>1, <2>3, <2>6, <2>7, StreamParts, Extended
<1>7. CASE readDone \/ readEOF \/ readFailure
  <2>1. reader = "read" /\ lines' = lines /\ upstream' # "open"
    BY <1>7 DEF readDone, readEOF, readFailure
  <2> QED BY <1>3, <1>4, <2>1 DEF coming
<1>8. CASE closeBody \/ closeEvents
  <2>1. lines' = lines /\ upstream' = upstream /\ toSend' = toSend
    BY <1>8 DEF closeBody, closeEvents, source
  <2> QED BY <1>3, <2>1 DEF coming
<1> QED BY <1>5, <1>6, <1>7, <1>8 DEF readSSE

LEMMA MoveOne ==
    ASSUME NEW w \in Seq(Event), NEW es \in Seq(Event), es # <<>>
    PROVE  (w \o <<>>) \o es = (w \o <<es[1]>>) \o Tail(es)
<1>1. /\ Len(es) \in Nat \ {0} /\ Tail(es) \in Seq(Event) /\ es[1] \in Event
      /\ Len(Tail(es)) = Len(es) - 1 /\ \A i \in 1..Len(Tail(es)) : Tail(es)[i] = es[i + 1]
  BY EmptySeq, HeadTailProperties, ElementOfSeq
<1>2. w \o <<>> = w
  BY ConcatEmptySeq
<1>3. <<es[1]>> \in Seq(Event) /\ Len(<<es[1]>>) = 1 /\ <<es[1]>>[1] = es[1]
  BY <1>1
<1> DEFINE one == <<es[1]>>
           rest == Tail(es)
<1>4. one \in Seq(Event) /\ Len(one) = 1 /\ one[1] = es[1] /\ rest \in Seq(Event)
      /\ Len(rest) = Len(es) - 1 /\ \A i \in 1..Len(rest) : rest[i] = es[i + 1]
  BY <1>1, <1>3
<1> HIDE DEF one, rest
<1>5. one \o rest \in Seq(Event) /\ Len(one \o rest) = Len(es)
      /\ \A i \in 1..Len(es) : (one \o rest)[i] = IF i <= 1 THEN one[i] ELSE rest[i - 1]
  <2>1. /\ one \o rest \in Seq(Event) /\ Len(one \o rest) = Len(one) + Len(rest)
        /\ \A i \in 1..Len(one) + Len(rest) :
              (one \o rest)[i] = IF i <= Len(one) THEN one[i] ELSE rest[i - Len(one)]
    <3>1. one \in Seq(Event) /\ rest \in Seq(Event)
      BY <1>4
    <3> QED BY <3>1, ConcatProperties
  <2>2. Len(one) + Len(rest) = Len(es)
    BY <1>1, <1>4
  <2> QED BY <1>4, <2>1, <2>2
<1>6. \A i \in 1..Len(es) : (one \o rest)[i] = es[i]
  <2> TAKE i \in 1..Len(es)
  <2>1. CASE i = 1
    BY <1>4, <1>5, <2>1
  <2>2. CASE i > 1
    <3>1. i - 1 \in 1..Len(rest) /\ (i - 1) + 1 = i
      BY <1>1, <1>4, <2>2
    <3> QED BY <1>4, <1>5, <2>2, <3>1
  <2>3. i = 1 \/ i > 1
    OBVIOUS
  <2> QED BY <2>1, <2>2, <2>3
<1>7. one \o rest = es
  BY <1>5, <1>6, SeqEqual
<1>8. (w \o one) \o rest = w \o (one \o rest)
  <2>1. \A x, y, z \in Seq(Event) : (x \o y) \o z = x \o (y \o z)
    BY ConcatAssociative, SMTT(30)
  <2> QED BY <1>4, <2>1, Zenon
<1> QED BY <1>2, <1>7, <1>8 DEF one, rest

\* What is received was coming and is in hand.
LEMMA Passing ==
    ASSUME Inv, pass, connected', Faithful(stream, lines)
    PROVE  Faithful(stream', lines')
<1>1. handler = "range" /\ receiving /\ reader = "send" /\ ~closed
  BY DEF pass, Inv, Places, receiving
<1>2. /\ event' = toSend[1] /\ handler' = "write" /\ toSend' = Tail(toSend)
      /\ UNCHANGED <<connected, buffer, client, upstream, lines>>
  BY <1>1 DEF pass, wire, source
<1>3. wrote' = wrote /\ inHand = <<>>
  BY <1>1, <1>2 DEF wrote, inHand
<1>4. CASE toSend \in Seq(Plain) /\ upstream = "open"
  <2>1. toSend # <<>> /\ toSend \in Seq(Event)
    BY <1>1 DEF Inv, TypeOK
  <2>2. toSend[1] \in Plain
    BY <1>4, <2>1, EmptySeq, ElementOfSeq
  <2>3. coming = toSend /\ coming' = Tail(toSend) /\ inHand' = <<toSend[1]>>
    BY <1>2, <1>4, <2>2 DEF coming, inHand
  <2> QED BY <1>2, <1>3, <2>1, <2>3, StreamParts, MoveOne DEF stream
<1>5. CASE toSend \in {<<Done>>, <<Error, Done>>} /\ upstream \in Finished \cup {"broken"}
  <2>1. event' \in {Done, Error}
    BY <1>2, <1>5
  <2>2. coming = <<>> /\ coming' = <<>> /\ inHand' = <<>>
    BY <1>2, <1>5, <2>1 DEF coming, inHand, Plain, Finished
  <2> QED BY <1>2, <1>3, <2>2 DEF stream
<1> QED BY <1>1, <1>2, <1>4, <1>5 DEF Inv, Sends

\* What is written was in hand, and an end is written after all else.
LEMMA Writing ==
    ASSUME Inv, handleStreamingChat, connected', Faithful(stream, lines)
    PROVE  Faithful(stream', lines')
<1>1. /\ wrote \in Seq(Event) /\ inHand \in Seq(Event) /\ coming \in Seq(Event)
      /\ stream \in Seq(Event) /\ Len(lines) \in Nat /\ event \in Event
      /\ buffer \in Seq(Event) /\ client \in Seq(Event)
  BY StreamParts, LenProperties
<1>2. ASSUME NEW e \in {Error, Done, Marker}, wrote' = Append(wrote, e), lines' = lines,
             inHand = <<>>, inHand' = <<>>, coming = <<>>, coming' = <<>>
      PROVE  Faithful(stream', lines')
  <2>1. stream = wrote
    <3>1. wrote \o <<>> = wrote
      BY <1>1, ConcatEmptySeq
    <3> QED BY <1>2, <3>1 DEF stream
  <2>2. stream' = Append(wrote, e)
    <3>1. Append(wrote, e) \in Seq(Event)
      BY <1>1, Kinds, AppendProperties
    <3>2. Append(wrote, e) \o <<>> = Append(wrote, e)
      BY <3>1, ConcatEmptySeq
    <3> QED BY <1>2, <3>2 DEF stream
  <2>3. Faithful(Append(stream, e), lines)
    BY <1>1, Closing
  <2> QED BY <1>2, <2>1, <2>2, <2>3
<1>3. CASE open
  <2>1. UNCHANGED <<event, toSend, connected, buffer, client, lines, upstream>>
        /\ handler # "write" /\ handler' # "write"
    BY <1>3 DEF open, wire, source
  <2> QED BY <2>1 DEF stream, wrote, inHand, coming
<1>4. CASE refuse
  <2>1. /\ handler = "start" /\ handler' = "return" /\ upstream' = "refused" /\ lines' = lines
        /\ SSEData(Error)
    BY <1>4 DEF refuse
  <2>2. toSend = <<>>
    BY <2>1 DEF Inv, Places, TypeOK
  <2>3. wrote' = Append(wrote, Error)
    BY <1>1, <2>1, Kinds, Written
  <2>4. inHand = <<>> /\ inHand' = <<>> /\ coming = <<>> /\ coming' = <<>>
    BY <2>1, <2>2 DEF inHand, coming
  <2> QED BY <1>2, <2>1, <2>3, <2>4
<1>5. CASE writeEvent
  <2>1. /\ handler = "write" /\ handler' \in {"marker", "range"} /\ SSEData(event)
        /\ UNCHANGED <<toSend, upstream, lines>>
    BY <1>5 DEF writeEvent, source
  <2>2. connected /\ wrote' = Append(wrote, event)
    BY <1>1, <2>1, Written
  <2>3. inHand' = <<>> /\ coming' = coming
    BY <2>1 DEF inHand, coming
  <2>4. CASE event \in Plain
    <3>1. inHand = <<event>>
      BY <2>1, <2>4 DEF inHand
    <3>2. wrote \o <<event>> = Append(wrote, event)
      BY <1>1, AppendIsConcat
    <3>3. Append(wrote, event) \o <<>> = Append(wrote, event)
      <4>1. Append(wrote, event) \in Seq(Event)
        BY <1>1, AppendProperties
      <4> QED BY <4>1, ConcatEmptySeq
    <3>4. stream' = stream
      BY <2>2, <2>3, <3>1, <3>2, <3>3 DEF stream
    <3> QED BY <2>1, <3>4
  <2>5. CASE event \in Ends
    <3>1. upstream \in Finished \cup {"broken"}
      BY <2>1, <2>2, <2>5 DEF Inv, Frames
    <3>2. inHand = <<>> /\ coming = <<>>
      BY <2>5, <3>1 DEF inHand, coming, Ends, Plain, Finished
    <3>3. event \in {Error, Done, Marker}
      BY <2>5 DEF Ends
    <3> QED BY <1>2, <2>1, <2>2, <2>3, <3>2, <3>3
  <2> QED BY <2>1, <2>4, <2>5 DEF Inv, Places
<1>6. CASE writeMarker
  <2>1. /\ handler = "marker" /\ handler' = "return" /\ SSEData(Marker)
        /\ UNCHANGED <<upstream, lines>>
    BY <1>6 DEF writeMarker, source
  <2>2. connected /\ wrote' = Append(wrote, Marker)
    BY <1>1, <2>1, Kinds, Written
  <2>3. upstream \in Finished \cup {"broken"}
    BY <2>1, <2>2 DEF Inv, Frames
  <2>4. inHand = <<>> /\ inHand' = <<>> /\ coming = <<>> /\ coming' = <<>>
    BY <2>1, <2>3 DEF inHand, coming, Finished
  <2> QED BY <1>2, <2>1, <2>2, <2>4
<1>7. CASE return
  <2>1. /\ handler = "return" /\ handler' = "returned" /\ buffer' = <<>>
        /\ client' = client \o buffer /\ UNCHANGED <<toSend, upstream, lines>>
    BY <1>7 DEF return, deliver, source
  <2>2. wrote' = wrote
    <3>1. wrote \o <<>> = wrote
      BY <1>1, ConcatEmptySeq
    <3>2. client' = wrote
      BY <2>1 DEF wrote
    <3>3. wrote' = client' \o buffer'
      BY DEF wrote
    <3> QED BY <2>1, <3>1, <3>2, <3>3
  <2>3. inHand' = inHand /\ coming' = coming
    BY <2>1 DEF inHand, coming
  <2> QED BY <2>1, <2>2, <2>3 DEF stream
<1> QED BY <1>3, <1>4, <1>5, <1>6, <1>7 DEF handleStreamingChat

-----------------------------------------------------------------------------
(* What has reached the client                                             *)

\* w starts with c.
Begins(c, w) == Len(c) <= Len(w) /\ \A i \in 1..Len(c) : w[i] = c[i]

LEMMA ClientFirst ==
    ASSUME Inv
    PROVE  Begins(client, wrote) /\ Begins(client, stream)
<1> USE DEF Begins
<1>1. \A x, y \in Seq(Event) : Begins(x, x \o y)
  BY ConcatProperties, LenProperties
<1>2. \A x, y, z \in Seq(Event) : Begins(x, y) /\ Begins(y, z) => Begins(x, z)
  BY LenProperties
<1> HIDE DEF Begins
<1>3. wrote \o inHand \in Seq(Event)
  BY StreamParts, ConcatProperties
<1>4. Begins(client, wrote)
  BY <1>1, StreamParts DEF wrote
<1>5. Begins(client, wrote \o inHand)
  <2>1. Begins(wrote, wrote \o inHand)
    BY <1>1, StreamParts
  <2> QED BY <1>2, <1>3, <1>4, <2>1, StreamParts
<1>6. Begins(client, stream)
  <2>1. Begins(wrote \o inHand, stream)
    BY <1>1, <1>3, StreamParts DEF stream
  <2> QED BY <1>2, <1>3, <1>5, <2>1, StreamParts
<1> QED BY <1>4, <1>6

\* Who has every frame of a line has the whole line.
LEMMA SameParts ==
    ASSUME NEW c \in Seq(Event), NEW w \in Seq(Event), Begins(c, w), NEW line, NEW k,
           \A i \in 1..Len(w) : w[i].line = k => i <= Len(c),
           WholeIn(w, line, k)
    PROVE  WholeIn(c, line, k)
<1>1. Len(c) \in Nat /\ Len(w) \in Nat
  BY LenProperties
<1>2. ASSUME NEW kind PROVE framesOf(c, kind, k) = framesOf(w, kind, k)
  <2>1. \A i : i \in 1..Len(w) /\ w[i] = Of(kind, k) => i \in 1..Len(c)
    BY <1>1, Fields
  <2>2. \A i \in 1..Len(c) : i \in 1..Len(w) /\ w[i] = c[i]
    BY <1>1 DEF Begins
  <2>3. \A i : i \in 1..Len(w) /\ w[i] = Of(kind, k) <=> i \in 1..Len(c) /\ c[i] = Of(kind, k)
    BY <2>1, <2>2
  <2> QED BY <2>3, Zenon DEF framesOf
<1> QED BY <1>2 DEF WholeIn

LEMMA WholeIsWholeIn ==
    ASSUME client \in Seq(Event), NEW k
    PROVE  whole(k) <=> WholeIn(client, lines[k], k)
<1>1. \A kind : count(kind, k) = Cardinality(framesOf(client, kind, k))
  BY LenProperties DEF count, framesOf
<1> QED BY <1>1 DEF whole, WholeIn

LEMMA ConnectedClient ==
    ASSUME Inv, connected, Faithful(stream, lines)
    PROVE  Reported
<1>1. /\ client \in Seq(Event) /\ wrote \in Seq(Event) /\ stream \in Seq(Event)
      /\ Len(client) \in Nat /\ Len(wrote) \in Nat /\ Len(stream) \in Nat
      /\ DOMAIN client = 1..Len(client) /\ DOMAIN lines = 1..Len(lines) /\ Len(lines) \in Nat
  BY StreamParts, LenProperties
<1>2. Begins(client, wrote) /\ Begins(client, stream)
  BY ClientFirst
<1>3. \A j \in 1..Len(client) : j \in 1..Len(stream) /\ stream[j] = client[j]
  BY <1>1, <1>2 DEF Begins
<1>4. \A j \in 1..Len(stream) : stream[j].line \in Nat /\ stream[j].line <= Len(lines)
  BY <1>1, ElementOfSeq, Fields DEF Faithful
<1>5. \A j \in DOMAIN client : client[j].line <= Len(lines)
  BY <1>1, <1>3, <1>4
<1>6. SeenInOrder
  <2> SUFFICES ASSUME NEW j \in 1..Len(client), client[j].line > 0
               PROVE  /\ \A i \in 1..(j - 1) :
                            \/ client[i].line < client[j].line
                            \/ /\ client[i].line = client[j].line
                               /\ rank(client[i].kind) <= rank(client[j].kind)
                      /\ \A k \in 1..(client[j].line - 1) : whole(k)
    BY <1>1 DEF SeenInOrder
  <2>1. stream[j] = client[j] /\ j \in 1..Len(stream)
    BY <1>3
  <2>2. \A i \in 1..(j - 1) : Before(client[i], client[j])
    <3> TAKE i \in 1..(j - 1)
    <3>1. i \in 1..Len(client) /\ i < j
      BY <1>1
    <3>2. stream[i] = client[i] /\ i \in 1..Len(stream)
      BY <1>3, <3>1
    <3> QED BY <2>1, <3>1, <3>2 DEF Faithful, Ordered
  <2>3. ASSUME NEW k \in 1..(client[j].line - 1) PROVE whole(k)
    <3>1. k \in 1..Len(lines) /\ k < stream[j].line
      BY <1>1, <1>4, <2>1, <2>3
    <3>2. ASSUME NEW i \in 1..Len(stream), stream[i].line = k PROVE i <= Len(client)
      <4>1. ASSUME j < i PROVE FALSE
        <5>1. Before(stream[j], stream[i])
          BY <2>1, <3>1, <3>2, <4>1 DEF Faithful, Ordered
        <5> QED BY <1>4, <2>1, <3>1, <3>2, <5>1 DEF Before
      <4> QED BY <1>1, <4>1
    <3>3. WholeIn(stream, lines[k], k)
      BY <3>1 DEF Faithful
    <3> QED BY <1>1, <1>2, <3>2, <3>3, SameParts, WholeIsWholeIn
  <2> QED BY <2>2, <2>3 DEF Before
<1>7. ASSUME seen("done")
      PROVE  upstream \in Finished /\ \A k \in DOMAIN lines : whole(k)
  <2>1. PICK m \in 1..Len(client) : client[m].kind = "done"
    BY <1>1, <1>7 DEF seen
  <2>2. client[m] = Done
    <3>1. client[m] \in Event
      BY <1>1, ElementOfSeq
    <3> QED BY <2>1, <3>1 DEF Event, Done, Of
  <2>3. m \in 1..Len(wrote) /\ wrote[m] = Done
    BY <1>1, <1>2, <2>2 DEF Begins
  <2>4. \A p \in Plain : p # Done
    BY DEF Plain
  <2>5. ~AllPlain(wrote) /\ ~Ended(wrote, Error) /\ ~Marked(wrote, Error)
    BY <1>1, <2>3, <2>4, Kinds DEF AllPlain, Ended, Marked
  <2>6. /\ handler \in {"marker", "return", "returned"} /\ upstream \in Finished
        /\ Ended(wrote, Done) \/ Marked(wrote, Done)
    BY <2>5 DEF Inv, TypeOK, Frames, endOf
  <2>7. stream = wrote
    <3>1. inHand = <<>> /\ coming = <<>>
      BY <2>6 DEF inHand, coming, Finished
    <3> QED BY <1>1, <3>1, ConcatEmptySeq DEF stream
  <2>8. \A i \in 1..Len(wrote) : i > m => wrote[i] = Marker
    BY <1>1, <2>3, <2>4, <2>6, Kinds DEF Ended, Marked
  <2>9. ASSUME NEW k \in 1..Len(lines) PROVE whole(k)
    <3>1. \A i \in 1..Len(stream) : stream[i].line = k => i <= Len(client)
      <4>1. Marker.line = 0 /\ k > 0
        BY <1>1, Fields DEF Marker
      <4> QED BY <1>1, <2>7, <2>8, <4>1
    <3>2. WholeIn(stream, lines[k], k)
      BY DEF Faithful
    <3> QED BY <1>1, <1>2, <3>1, <3>2, SameParts, WholeIsWholeIn
  <2> QED BY <1>1, <2>6, <2>9
<1> QED BY <1>5, <1>6, <1>7 DEF Reported, DoneMeansWhole

\* What a client knows that nothing reaches any more stays true.
LEMMA LostClient ==
    ASSUME Inv, Reported, [Next]_vars, client' = client
    PROVE  Reported'
<1>1. client \in Seq(Event) /\ DOMAIN client = 1..Len(client) /\ lines \in Seq(Line)
      /\ Len(lines) \in Nat /\ DOMAIN lines = 1..Len(lines)
  BY StreamParts, LenProperties
<1>2. \/ lines' = lines
      \/ upstream = "open" /\ \E line \in Line : lines' = Append(lines, line)
  <2>1. CASE readLine
    BY <2>1 DEF readLine, Inv, Places
  <2>2. CASE Next /\ ~readLine
    BY <2>2 DEF Next, readSSE, select, readDone, readEOF, readFailure, closeBody,
       closeEvents, pass, handleStreamingChat, open, refuse, writeEvent, writeMarker, return, disconnect,
       notice, source
  <2>3. CASE UNCHANGED vars
    BY <2>3 DEF vars, source
  <2> QED BY <2>1, <2>2, <2>3
<1>3. upstream \in Finished => upstream' \in Finished
  <2>1. CASE readSSE
    BY <2>1 DEF readSSE, select, readLine, readDone, readEOF, readFailure, closeBody,
       closeEvents, source, Inv, Places, Finished
  <2>2. CASE Next /\ ~readSSE
    BY <2>2 DEF Next, pass, handleStreamingChat, open, refuse, writeEvent, writeMarker,
       return, disconnect, notice, source, Inv, Places, Finished
  <2>3. CASE UNCHANGED vars
    BY <2>3 DEF vars, source
  <2> QED BY <2>1, <2>2, <2>3
<1>4. /\ Len(lines') \in Nat /\ Len(lines) <= Len(lines') /\ lines' \in Seq(Line)
      /\ \A k \in 1..Len(lines) : lines'[k] = lines[k]
  <2>1. CASE lines' = lines
    BY <1>1, <2>1
  <2>2. ASSUME NEW line \in Line, lines' = Append(lines, line)
        PROVE  /\ Len(lines') = Len(lines) + 1 /\ lines' \in Seq(Line)
               /\ \A k \in 1..Len(lines) : lines'[k] = lines[k]
    BY <1>1, <2>2, AppendProperties
  <2> QED BY <1>1, <1>2, <2>1, <2>2
<1>5. \A k \in 1..Len(lines) : whole(k)' <=> whole(k)
  <2> TAKE k \in 1..Len(lines)
  <2>1. (\A kind, line : count(kind, line)' = count(kind, line)) /\ lines'[k] = lines[k]
    BY <1>4 DEF count
  <2> QED BY <2>1 DEF whole
<1>6. \A j \in DOMAIN client : client[j].line \in Nat /\ client[j].line <= Len(lines)
  BY <1>1, ElementOfSeq, Fields DEF Reported
<1>7. SeenInOrder'
  <2> SUFFICES ASSUME NEW j \in DOMAIN client, client[j].line > 0
               PROVE  /\ \A i \in 1..(j - 1) :
                            \/ client[i].line < client[j].line
                            \/ /\ client[i].line = client[j].line
                               /\ rank(client[i].kind) <= rank(client[j].kind)
                      /\ \A k \in 1..(client[j].line - 1) : whole(k)'
    BY DEF SeenInOrder
  <2>1. \A k \in 1..(client[j].line - 1) : k \in 1..Len(lines)
    BY <1>1, <1>6
  <2> QED BY <1>5, <2>1 DEF Reported, SeenInOrder
<1>8. seen("done")' <=> seen("done")
  BY DEF seen
<1>9. DoneMeansWhole'
  <2> SUFFICES ASSUME seen("done") PROVE \A k \in DOMAIN lines' : whole(k)'
    BY <1>8 DEF DoneMeansWhole
  <2>1. lines' = lines /\ \A k \in DOMAIN lines : whole(k)
    BY <1>2 DEF Reported, DoneMeansWhole, Finished
  <2> QED BY <1>1, <1>5, <2>1
<1>10. \A j \in DOMAIN client' : client'[j].line <= Len(lines')
  BY <1>1, <1>4, <1>6
<1> QED BY <1>3, <1>7, <1>8, <1>9, <1>10 DEF Reported

LEMMA DeliveredInit == Init => Delivered /\ Reported
<1> SUFFICES ASSUME Init PROVE Delivered /\ Reported
  OBVIOUS
<1>1. client = <<>> /\ buffer = <<>> /\ lines = <<>> /\ toSend = <<>> /\ handler = "start"
  BY DEF Init
<1>2. stream = <<>> /\ Len(stream) = 0 /\ Len(lines) = 0
  BY <1>1 DEF stream, wrote, inHand, coming
<1>3. Faithful(stream, lines)
  BY <1>2 DEF Faithful, Ordered
<1>4. DOMAIN client = {}
  BY <1>1
<1> QED BY <1>3, <1>4 DEF Delivered, Reported, SeenInOrder, DoneMeansWhole, seen

LEMMA NoReturn == [Next]_vars /\ connected' => connected
BY DEF Next, readSSE, select, readLine, readDone, readEOF, readFailure, closeBody,
   closeEvents, pass,
   handleStreamingChat, open, refuse, writeEvent, writeMarker, return, SSEData,
   disconnect, notice, wire, vars

LEMMA DeliveredStep == Inv /\ Delivered /\ [Next]_vars => Delivered'
<1> SUFFICES ASSUME Inv, Delivered, [Next]_vars, connected'
             PROVE  Faithful(stream', lines')
  BY DEF Delivered
<1>1. Faithful(stream, lines)
  BY NoReturn DEF Delivered
<1>2. ~disconnect /\ ~notice
  BY NoReturn DEF disconnect, notice, wire
<1>3. CASE UNCHANGED vars
  BY <1>1, <1>3 DEF vars, wire, source, stream, wrote, inHand, coming
<1> QED BY <1>1, <1>2, <1>3, Reading, Passing, Writing DEF Next

LEMMA ClientLeft == [Next]_vars /\ ~connected' => client' = client
<1> SUFFICES ASSUME [Next]_vars, ~connected' PROVE client' = client
  OBVIOUS
<1>1. CASE refuse \/ writeEvent \/ writeMarker \/ return
  BY <1>1 DEF refuse, writeEvent, writeMarker, return, SSEData, deliver
<1>2. CASE [Next]_vars /\ ~(refuse \/ writeEvent \/ writeMarker \/ return)
  BY <1>2 DEF Next, readSSE, select, readLine, readDone, readEOF, readFailure, closeBody,
     closeEvents, pass, handleStreamingChat, open, disconnect, notice, wire, vars
<1> QED BY <1>1, <1>2

LEMMA AlwaysReported == Spec => []Reported
<1>1. Inv /\ Delivered => Reported \/ ~connected
  BY ConnectedClient DEF Delivered
<1>2. Inv /\ Reported /\ [Next]_vars => Reported' \/ connected'
  BY ClientLeft, LostClient
<1> QED BY <1>1, <1>2, DeliveredInit, DeliveredStep, StreamInv, PTL DEF Spec

\* The client sees the LLM's answer in its order and without gaps, however much of
\* it the buffer, the channel or a lost connection keeps from it.
THEOREM InOrder == Spec => []SeenInOrder
<1>1. Reported => SeenInOrder
  BY DEF Reported
<1> QED BY <1>1, AlwaysReported, PTL

\* A client that is told "done" has seen every part of every line readSSE read
\* once.
THEOREM Whole == Spec => []DoneMeansWhole
<1>1. Reported => DoneMeansWhole
  BY DEF Reported
<1> QED BY <1>1, AlwaysReported, PTL
=============================================================================
