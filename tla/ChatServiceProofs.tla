-------------------------- MODULE ChatServiceProofs --------------------------
(* What holds of a conversation however its requests interleave and fail,   *)
(* for any number of requests and users.                                    *)
EXTENDS ChatService, TLAPS, FiniteSetTheorems, SequenceTheorems

BeforeEngine == {"save user message", "run", "resume"}
AfterEngine == {"save reply", "persist pause", "update"}
Decisions == {"approve", "reject"}
Places == {"idle", "resume", "get messages", "count", "done", "save user message",
           "run", "save reply", "persist pause", "update"}

\* What a request has in hand at each place.
Placed(r) ==
    /\ pc[r] = "idle" => input[r] = NoInput
    /\ pc[r] # "done" => reply[r] = "none"
    /\ pc[r] \in {"idle", "done"} => conv[r] = None
    /\ pc[r] \in BeforeEngine \cup AfterEngine \cup {"get messages"} => conv[r] # None
    /\ pc[r] \in {"save user message", "run"} => input[r].op = "send"
    /\ pc[r] = "resume" => input[r].op \in Decisions /\ conv[r].paused_state # 0
    /\ pc[r] \in AfterEngine => /\ input[r].op \in Decisions \cup {"send"}
                                /\ result[r].kind # "none"
    /\ pc[r] \notin AfterEngine \cup {"done"} => result[r] = NoResult
    /\ result[r].kind = "none" => result[r] = NoResult
    /\ result[r].kind = "paused" => result[r].saved # 0
    /\ pc[r] = "persist pause" => result[r].kind = "paused"
    /\ pc[r] = "save reply" /\ input[r].op = "send" => result[r].kind # "paused"
    /\ pc[r] \in {"get messages", "count"} => input[r].op \in {"get", "list"}

\* A copy is one of a row, and every state either refers to is one the engine
\* saved.
Known ==
    /\ row # None => row.paused_state <= Len(pauses)
    /\ \A r \in Requests : conv[r] # None =>
          row # None /\ conv[r].paused_state <= Len(pauses)

Sound == TypeOK /\ (\A r \in Requests : Placed(r)) /\ Known

-----------------------------------------------------------------------------
\* A request that has a copy, a result or a message, or was shown the
\* conversation, is one of the owner's.
HasMessage(r) == \E k \in DOMAIN messages : messages[k].by = r

Acting(r) ==
    conv[r] # None \/ result[r] # NoResult \/ reply[r] = "shown" \/ HasMessage(r)

Owner(r) ==
    /\ Acting(r) => row # None /\ input[r].user = row.UserID /\ pc[r] # "idle"
    /\ conv[r] # None => conv[r].UserID = row.UserID

Owned == \A r \in Requests : Owner(r)

-----------------------------------------------------------------------------
Once(role, r) == \A j, k \in positions(role, r) : j = k

\* Where the messages of a request are, by how far it has come.
Written(r) ==
    /\ Once("user", r) /\ Once("assistant", r)
    /\ pc[r] \in {"idle", "save user message"} => positions("user", r) = {}
    /\ pc[r] \notin {"persist pause", "update", "done"} => positions("assistant", r) = {}
    /\ input[r].op = "send" /\ pc[r] \in {"run"} \cup AfterEngine =>
          positions("user", r) # {}
    /\ input[r].op = "send" /\ pc[r] = "update" /\ result[r].kind # "paused" =>
          positions("assistant", r) # {}
    /\ input[r].op = "send" =>
          \A k \in positions("assistant", r) : \E j \in positions("user", r) : j < k
    /\ reply[r] = "answered" =>
          positions("user", r) # {} /\ positions("assistant", r) # {}
    /\ pc[r] = "persist pause" /\ input[r].op = "send" => positions("assistant", r) = {}

-----------------------------------------------------------------------------
\* No saved state's costs were handed on twice.
HandedOnOnce == \A k \in DOMAIN pauses : passedOn(k) <= 1

\* A row or a copy of it, when there were `most` turns, with `tokens`, and the engine
\* saved `saved` states: what it may be pending on and, as long as no costs were handed
\* on twice, what it may have counted.
Fair(c, once, most, tokens, saved) ==
    /\ IsPendingApproval(c) => c.pending_approval /\ saved > 0
    /\ once => c.MessageCount <= most /\ c.TotalTokens <= tokens

Counts ==
    /\ row # None => Fair(row, HandedOnOnce, turns, spent, Len(pauses))
    /\ \A r \in Requests : conv[r] # None =>
          Fair(conv[r], HandedOnOnce, turns, spent, Len(pauses))

-----------------------------------------------------------------------------
\* As long as requests come one after the other and none has failed.
Serial == ~overlapped /\ \A r \in Requests : reply[r] # "error"

\* `most` turns counted, with `tokens`: none is missing.  And no saved state to resume.
Exact(c, most, tokens) ==
    c.MessageCount = most /\ c.TotalTokens = tokens /\ c.paused_state = 0

waiting == \E r \in Requests : reply[r] = "pending_approval"

\* The row between two turns: it is pending once some turn paused.
RowInTurn ==
    /\ row = None => turns = 0 /\ spent = 0 /\ ~waiting
    /\ row # None =>
        /\ (\A r \in Requests : pc[r] \notin AfterEngine) => Exact(row, turns, spent)
        /\ IsPendingApproval(row) <=> waiting

\* The turn in progress.  Its copy has counted all turns, its own included once
\* the engine returned; it is pending, or not, like the row, unless this turn
\* paused.
CopyInTurn(r) ==
    /\ pc[r] \in BeforeEngine \cup AfterEngine => Exact(conv[r], turns, spent)
    /\ pc[r] \in BeforeEngine => conv[r].Status = row.Status
    /\ pc[r] \in AfterEngine =>
         IF pc[r] = "update" /\ result[r].kind = "paused"
         THEN IsPendingApproval(conv[r]) ELSE conv[r].Status = row.Status
    /\ pc[r] \in {"run", "save reply"} /\ input[r].op = "send" =>
         Len(messages) \in positions("user", r)

Paired(r) ==
    input[r].op = "send" =>
        \A k \in positions("assistant", r) : k - 1 \in positions("user", r)

InTurn ==
    /\ \A q, r \in Requests : inFlight(q) /\ inFlight(r) => q = r
    /\ RowInTurn
    /\ \A r \in Requests : CopyInTurn(r) /\ Paired(r)

-----------------------------------------------------------------------------
(* What each action does, request by request                               *)

Others(r) ==
    \A q \in Requests \ {r} :
        /\ pc'[q] = pc[q] /\ input'[q] = input[q] /\ conv'[q] = conv[q]
        /\ result'[q] = result[q] /\ reply'[q] = reply[q]

Arrives(r, user, op, place, c) ==
    /\ pc[r] = "idle" /\ pc'[r] = place
    /\ input'[r] = [user |-> user, op |-> op]
    /\ conv'[r] = c /\ result'[r] = result[r] /\ Others(r)
    /\ overlapped' = (overlapped \/ \E q \in Requests : inFlight(q))
    /\ UNCHANGED <<messages, engine>>

Created(r, user) ==
    /\ row = None /\ row' = NewConversation(user)
    /\ Arrives(r, user, "send", "save user message", row')
    /\ reply'[r] = reply[r]

Loaded(r, user, op, place) ==
    /\ row # None /\ row.UserID = user /\ row' = row
    /\ Arrives(r, user, op, place, row)
    /\ reply'[r] = reply[r]
    /\ \/ op = "send" /\ place = "save user message"
       \/ op \in Decisions /\ place = "resume" /\ row.paused_state # 0
       \/ op = "get" /\ place = "get messages"
       \/ op = "list" /\ place = "count"

Unlisted(r, user) ==
    /\ row' = row /\ Arrives(r, user, "list", "count", None)
    /\ reply'[r] = reply[r]

Refused(r, user, op) ==
    /\ op \in {"send", "get"} \cup Decisions
    /\ row' = row /\ Arrives(r, user, op, "done", None)
    /\ reply'[r] = "refused"

\* The ways in which a request arrives.
Entered(r, user) ==
    \/ Created(r, user) \/ Unlisted(r, user)
    \/ \E op \in {"send", "get", "list"} \cup Decisions :
         Refused(r, user, op) \/ \E place \in Places : Loaded(r, user, op, place)

Ended(r, told) ==
    /\ \/ told = "shown" /\ conv[r] # None /\ pc[r] \in {"get messages", "count"}
       \/ told = "empty" /\ pc[r] = "count"
       \/ told = "error" /\ inFlight(r)
    /\ pc'[r] = "done" /\ input'[r] = input[r] /\ conv'[r] = None
    /\ result'[r] = result[r] /\ reply'[r] = told /\ Others(r)
    /\ UNCHANGED <<db, engine, overlapped>>

Stays(r) == input'[r] = input[r] /\ reply'[r] = reply[r] /\ overlapped' = overlapped

Paused(r, tokens, place, c) ==
    /\ pc'[r] = place /\ conv'[r] = c /\ Stays(r) /\ Others(r) /\ UNCHANGED db
    /\ \E tools \in Amount : pauses' = Append(pauses, [tokens |-> tokens, tools |-> tools])
    /\ result'[r] = [kind |-> "paused", tokens |-> tokens, saved |-> Len(pauses) + 1]

Completed(r, tokens, place, c) ==
    /\ pc'[r] = place /\ conv'[r] = c /\ Stays(r) /\ Others(r) /\ UNCHANGED db
    /\ pauses' = pauses
    /\ result'[r] = [kind |-> "completed", tokens |-> tokens, saved |-> 0]

RunPaused(r, tokens) ==
    /\ pc[r] = "run" /\ Paused(r, tokens, "persist pause", conv[r])
    /\ decided' = Append(decided, 0)
    /\ again' = again /\ turns' = turns /\ spent' = spent

RunCompleted(r, tokens) ==
    /\ pc[r] = "run"
    /\ Completed(r, tokens, "save reply", AddMessageStats(conv[r], tokens))
    /\ decided' = decided /\ again' = again /\ turns' = turns + 1 /\ spent' = spent + tokens

\* What a Resume that returns `tokens` adds to the ledger.
Charged(k, tokens) ==
    /\ pauses[k].tokens <= tokens
    /\ turns' = turns + IF passedOn(k) = 0 THEN 1 ELSE 0
    /\ spent' = spent + tokens - IF passedOn(k) = 0 THEN 0 ELSE pauses[k].tokens

ResumePaused(r, tokens, place) ==
    /\ pc[r] = "resume" /\ place \in {"save reply", "persist pause"}
    /\ Paused(r, tokens, place, AddMessageStats(conv[r], tokens))
    /\ decided' = Append([decided EXCEPT ![conv[r].paused_state] = @ + 1], 0)
    /\ again' = again \cup {Len(pauses) + 1} /\ Charged(conv[r].paused_state, tokens)

ResumeCompleted(r, tokens, place) ==
    /\ pc[r] = "resume" /\ place \in {"save reply", "update"}
    /\ Completed(r, tokens, place, settled(r, AddMessageStats(conv[r], tokens)))
    /\ decided' = [decided EXCEPT ![conv[r].paused_state] = @ + 1]
    /\ again' = again /\ Charged(conv[r].paused_state, tokens)

Wrote(role, r, place) ==
    /\ messages' = Append(messages, [role |-> role, by |-> r])
    /\ \/ role = "user" /\ pc[r] = "save user message" /\ place = "run"
       \/ role = "assistant" /\ pc[r] = "save reply" /\ place = afterReply(result[r])
    /\ pc'[r] = place /\ conv'[r] = conv[r] /\ result'[r] = result[r]
    /\ Stays(r) /\ Others(r) /\ UNCHANGED <<row, engine>>

Persisted(r) ==
    /\ pc[r] = "persist pause" /\ pc'[r] = "update"
    /\ row' = [row EXCEPT !.paused_state = result[r].saved]
    /\ conv'[r] = RequestApproval(conv[r]) /\ result'[r] = result[r]
    /\ Stays(r) /\ Others(r) /\ UNCHANGED <<messages, engine>>

Updated(r, told) ==
    /\ pc[r] = "update" /\ pc'[r] = "done"
    /\ row' = conv[r] /\ conv'[r] = None
    /\ told \in {answer(r), "error"} /\ reply'[r] = told
    /\ input'[r] = input[r] /\ result'[r] = result[r] /\ overlapped' = overlapped
    /\ Others(r) /\ UNCHANGED <<messages, engine>>

Did(r) ==
    \/ \E user \in Users : Entered(r, user)
    \/ \E told \in {"shown", "empty", "error"} : Ended(r, told)
    \/ \E tokens \in Amount :
        \/ RunPaused(r, tokens) \/ RunCompleted(r, tokens)
        \/ \E place \in Places :
             ResumePaused(r, tokens, place) \/ ResumeCompleted(r, tokens, place)
    \/ \E role \in {"user", "assistant"}, place \in Places : Wrote(role, r, place)
    \/ Persisted(r)
    \/ \E told \in Replies : Updated(r, told)

LEMMA Arriving ==
    ASSUME Sound, NEW r \in Requests, NEW user, NEW op, NEW place, NEW c,
           arrive(r, user, op), pc' = [pc EXCEPT ![r] = place],
           conv' = [conv EXCEPT ![r] = c],
           \A q \in Requests \ {r} : reply'[q] = reply[q]
    PROVE  Arrives(r, user, op, place, c)
<1>1. /\ pc[r] = "idle"
      /\ overlapped' = (overlapped \/ \E q \in Requests : inFlight(q))
      /\ UNCHANGED <<messages, engine>>
      /\ input' = [input EXCEPT ![r] = [user |-> user, op |-> op]]
  BY DEF arrive
<1>2. /\ pc'[r] = place /\ conv'[r] = c
      /\ input'[r] = [user |-> user, op |-> op]
      /\ result'[r] = result[r] /\ Others(r)
  BY <1>1 DEF Others, engine, Sound, TypeOK
<1> QED BY <1>1, <1>2 DEF Arrives

LEMMA Beginning ==
    ASSUME Sound, NEW r \in Requests, NEW user \in Users, begin(r, user)
    PROVE  Entered(r, user)
<1>1. ASSUME NEW op \in {"send", "get"} \cup Decisions, refuse(r, user, op)
      PROVE  Refused(r, user, op)
  <2>1. reply' = [reply EXCEPT ![r] = "refused"] /\ row' = row
    BY <1>1 DEF refuse, finish
  <2>2. Arrives(r, user, op, "done", None)
    BY <1>1, <2>1, Arriving DEF refuse, finish, Sound, TypeOK
  <2> QED BY <2>1, <2>2 DEF Refused, Sound, TypeOK
<1>2. ASSUME NEW op \in {"send", "get", "list"} \cup Decisions, NEW place \in Places,
             owns(user), arrive(r, user, op), goTo(r, place, row), UNCHANGED <<row, reply>>,
             \/ op = "send" /\ place = "save user message"
             \/ op \in Decisions /\ place = "resume" /\ row.paused_state # 0
             \/ op = "get" /\ place = "get messages"
             \/ op = "list" /\ place = "count"
      PROVE  Loaded(r, user, op, place)
  <2>1. Arrives(r, user, op, place, row)
    BY <1>2, Arriving DEF goTo
  <2> QED BY <1>2, <2>1 DEF Loaded, owns
<1>3. CASE createConversation(r, user)
  <2>1. Arrives(r, user, "send", "save user message", row')
    BY <1>3, Arriving DEF createConversation, goTo
  <2> QED BY <1>3, <2>1 DEF createConversation, Created, Entered
<1>4. CASE loadToSend(r, user)
  BY <1>2, <1>4 DEF loadToSend, Places, Entered
<1>5. CASE loadToShow(r, user)
  BY <1>2, <1>5 DEF loadToShow, Places, Entered
<1>6. ASSUME NEW op \in Decisions, loadToDecide(r, user, op)
      PROVE  Loaded(r, user, op, "resume")
  BY <1>2, <1>6 DEF loadToDecide, mayDecide, Places, Decisions
<1>7. CASE loadToList(r, user)
  <2>1. CASE owns(user)
    <3>1. FindByUserID(user) = row
      BY <2>1 DEF owns, FindByUserID
    <3>2. Loaded(r, user, "list", "count")
      BY <1>2, <1>7, <2>1, <3>1 DEF loadToList, Places
    <3> QED BY <3>2 DEF Places, Entered
  <2>2. CASE ~owns(user)
    <3>1. FindByUserID(user) = None
      BY <2>2 DEF owns, FindByUserID
    <3>2. Arrives(r, user, "list", "count", None)
      BY <1>7, <3>1, Arriving DEF loadToList, goTo
    <3>3. Unlisted(r, user)
      BY <1>7, <3>2 DEF loadToList, Unlisted
    <3> QED BY <3>3 DEF Entered
  <2> QED BY <2>1, <2>2
<1>8. \/ createConversation(r, user) \/ loadToSend(r, user) \/ loadToShow(r, user)
      \/ loadToList(r, user)
      \/ \E op \in Decisions : loadToDecide(r, user, op)
      \/ \E op \in {"send", "get"} \cup Decisions : refuse(r, user, op)
  BY DEF begin, CreateConversation, SendMessage, ApproveAction, GetConversation,
         ListConversations, turnAway, Decisions
<1> QED BY <1>1, <1>3, <1>4, <1>5, <1>6, <1>7, <1>8 DEF Entered, Places, Decisions

LEMMA Ending ==
    ASSUME Sound, NEW r \in Requests, getMessages(r) \/ count(r) \/ fail(r)
    PROVE  \E told \in {"shown", "empty", "error"} : Ended(r, told)
<1>1. PICK told \in {"shown", "empty", "error"} :
          /\ \/ told = "shown" /\ conv[r] # None /\ pc[r] \in {"get messages", "count"}
             \/ told = "empty" /\ pc[r] = "count"
             \/ told = "error" /\ inFlight(r)
          /\ finish(r, told) /\ UNCHANGED <<db, engine, input, overlapped>>
  <2>1. CASE getMessages(r)
    BY <2>1 DEF getMessages, Sound, Placed
  <2>2. CASE count(r)
    BY <2>2 DEF count
  <2>3. CASE fail(r)
    BY <2>3 DEF fail
  <2> QED BY <2>1, <2>2, <2>3
<1>2. Ended(r, told)
  BY <1>1 DEF finish, Ended, Others, engine, Sound, TypeOK
<1> QED BY <1>2

\* What the engine may return to a request, with its pause saved.
LEMMA Returning ==
    ASSUME Sound, NEW r \in Requests, NEW o, engineReturns(r, o),
           NEW place, NEW c, goTo(r, place, c), UNCHANGED <<input, reply, overlapped>>
    PROVE  Stays(r) /\ pc'[r] = place /\ conv'[r] = c /\ Others(r)
<1>1. Stays(r)
  BY DEF Stays
<1>2. pc'[r] = place /\ conv'[r] = c
  BY DEF goTo, Sound, TypeOK
<1>3. Others(r)
  BY DEF Others, goTo, engineReturns, Sound, TypeOK
<1> QED BY <1>1, <1>2, <1>3

LEMMA Pausing ==
    ASSUME Sound, NEW r \in Requests, NEW o, o.kind = "paused", o.tools \in Amount,
           engineReturns(r, o), NEW place, NEW c, goTo(r, place, c),
           UNCHANGED <<db, input, reply, overlapped>>
    PROVE  Paused(r, o.tokens, place, c)
<1>1. Stays(r) /\ pc'[r] = place /\ conv'[r] = c /\ Others(r) /\ UNCHANGED db
  BY Returning
<1>2. /\ pauses' = Append(pauses, [tokens |-> o.tokens, tools |-> o.tools])
      /\ result'[r] = [kind |-> "paused", tokens |-> o.tokens, saved |-> Len(pauses) + 1]
  BY DEF engineReturns, CostOf, Sound, TypeOK
<1> QED BY <1>1, <1>2 DEF Paused

LEMMA Completing ==
    ASSUME Sound, NEW r \in Requests, NEW o, o.kind = "completed",
           engineReturns(r, o), NEW place, NEW c, goTo(r, place, c),
           UNCHANGED <<db, input, reply, overlapped>>
    PROVE  Completed(r, o.tokens, place, c)
<1>1. Stays(r) /\ pc'[r] = place /\ conv'[r] = c /\ Others(r) /\ UNCHANGED db
  BY Returning
<1>2. /\ pauses' = pauses
      /\ result'[r] = [kind |-> "completed", tokens |-> o.tokens, saved |-> 0]
  BY DEF engineReturns, Sound, TypeOK
<1> QED BY <1>1, <1>2 DEF Completed

LEMMA Running ==
    ASSUME Sound, NEW r \in Requests, run(r)
    PROVE  \E tokens \in Amount : RunPaused(r, tokens) \/ RunCompleted(r, tokens)
<1>1. PICK o \in oneCall(Free) :
          /\ engineReturns(r, o)
          /\ decided' = undecided(decided, o)
          /\ IF o.kind = "paused"
             THEN goTo(r, "persist pause", conv[r]) /\ UNCHANGED <<turns, spent>>
             ELSE /\ goTo(r, "save reply", AddMessageStats(conv[r], o.tokens))
                  /\ turns' = turns + 1 /\ spent' = spent + o.tokens
          /\ UNCHANGED again
  BY DEF run
<1>2. o.kind \in {"completed", "paused"} /\ o.tokens \in Amount /\ o.tools \in Amount
  BY DEF oneCall, Outcomes
<1>3. pc[r] = "run" /\ UNCHANGED <<db, input, reply, overlapped>>
  BY DEF run
<1>4. CASE o.kind = "paused"
  <2>1. /\ engineReturns(r, o) /\ goTo(r, "persist pause", conv[r])
        /\ again' = again /\ turns' = turns /\ spent' = spent
    BY <1>1, <1>4
  <2>2. Paused(r, o.tokens, "persist pause", conv[r])
    BY <1>2, <1>3, <1>4, <2>1, Pausing
  <2> QED BY <1>1, <1>2, <1>3, <1>4, <2>1, <2>2 DEF RunPaused, undecided
<1>5. CASE o.kind = "completed"
  <2>1. /\ engineReturns(r, o)
        /\ goTo(r, "save reply", AddMessageStats(conv[r], o.tokens))
        /\ again' = again /\ turns' = turns + 1 /\ spent' = spent + o.tokens
    BY <1>1, <1>5
  <2>2. Completed(r, o.tokens, "save reply", AddMessageStats(conv[r], o.tokens))
    BY <1>2, <1>3, <1>5, <2>1, Completing
  <2> QED BY <1>1, <1>2, <1>3, <1>5, <2>1, <2>2 DEF RunCompleted, undecided
<1> QED BY <1>2, <1>4, <1>5

\* The state resumed is one of those the engine saved.
LEMMA Resumable ==
    ASSUME Sound, NEW r \in Requests, pc[r] = "resume"
    PROVE  /\ conv[r] \in Conversation
           /\ conv[r].paused_state \in 1..Len(pauses)
           /\ pauses[conv[r].paused_state] \in [tokens : Amount, tools : Amount]
           /\ input[r].op \in Decisions
<1>1. conv[r] # None /\ conv[r].paused_state # 0 /\ input[r].op \in Decisions
  BY DEF Sound, Placed, BeforeEngine
<1>2. conv[r] \in Conversation /\ conv[r].paused_state <= Len(pauses)
  BY <1>1 DEF Sound, TypeOK, Known
<1>3. conv[r].paused_state \in Nat /\ pauses \in Seq([tokens : Amount, tools : Amount])
  BY <1>2 DEF Conversation, Sound, TypeOK
<1>4. conv[r].paused_state \in 1..Len(pauses)
  BY <1>1, <1>2, <1>3
<1>5. pauses[conv[r].paused_state] \in [tokens : Amount, tools : Amount]
  BY <1>3, <1>4, ElementOfSeq
<1> QED BY <1>1, <1>2, <1>4, <1>5

LEMMA Resuming ==
    ASSUME Sound, NEW r \in Requests, resume(r)
    PROVE  \E tokens \in Amount, place \in Places :
              ResumePaused(r, tokens, place) \/ ResumeCompleted(r, tokens, place)
<1> DEFINE k == conv[r].paused_state
           outcomes == IF input[r].op = "approve" THEN oneCall(pauses[k])
                                                  ELSE {Refusal(pauses[k])}
           counting(o) == AddMessageStats(conv[r], o.tokens)
           next(o, text) == IF text THEN "save reply" ELSE afterReply(o)
           copy(o) == IF o.kind = "paused" THEN counting(o) ELSE settled(r, counting(o))
<1>1. PICK o \in outcomes, text \in BOOLEAN :
          /\ engineReturns(r, o)
          /\ decided' = undecided([decided EXCEPT ![k] = @ + 1], o)
          /\ enter(k, o)
          /\ goTo(r, next(o, text), copy(o))
  BY DEF resume
<1>2. pc[r] = "resume" /\ UNCHANGED <<db, input, reply, overlapped>>
  BY DEF resume
<1>3. pauses[k] \in [tokens : Amount, tools : Amount]
  BY <1>2, Resumable
<1>4. /\ o.kind \in {"completed", "paused"} /\ o.tokens \in Amount /\ o.tools \in Amount
      /\ pauses[k].tokens <= o.tokens
  <2>1. /\ o.kind \in {"completed", "paused"} /\ o.tokens \in Amount /\ o.tools \in Amount
        /\ o.tokens = pauses[k].tokens \/ o.tokens >= pauses[k].tokens
    BY <1>3 DEF oneCall, Outcomes, Refusal
  <2>2. pauses[k].tokens \in Nat /\ o.tokens \in Nat
    BY <1>3, <2>1, AmountAssumption
  <2> HIDE DEF k
  <2> QED BY <2>1, <2>2
<1>7. /\ Charged(k, o.tokens)
      /\ o.kind = "paused" => again' = again \cup {Len(pauses) + 1}
      /\ o.kind = "completed" => again' = again
  BY <1>1, <1>4 DEF enter, Charged
<1>5. CASE o.kind = "paused"
  <2>1. /\ next(o, text) \in {"save reply", "persist pause"}
        /\ copy(o) = AddMessageStats(conv[r], o.tokens)
    BY <1>5 DEF afterReply
  <2>2. Paused(r, o.tokens, next(o, text), copy(o))
    BY <1>1, <1>2, <1>4, <1>5, Pausing
  <2>3. ResumePaused(r, o.tokens, next(o, text))
    BY <1>1, <1>2, <1>5, <1>7, <2>1, <2>2 DEF ResumePaused, undecided
  <2> QED BY <1>4, <2>1, <2>3 DEF Places
<1>6. CASE o.kind = "completed"
  <2>1. /\ next(o, text) \in {"save reply", "update"}
        /\ copy(o) = settled(r, AddMessageStats(conv[r], o.tokens))
    BY <1>6 DEF afterReply
  <2>2. Completed(r, o.tokens, next(o, text), copy(o))
    BY <1>1, <1>2, <1>4, <1>6, Completing
  <2>3. ResumeCompleted(r, o.tokens, next(o, text))
    BY <1>1, <1>2, <1>6, <1>7, <2>1, <2>2 DEF ResumeCompleted, undecided
  <2> QED BY <1>4, <2>1, <2>3 DEF Places
<1> QED BY <1>4, <1>5, <1>6

LEMMA Writing ==
    ASSUME Sound, NEW r \in Requests,
           saveUserMessage(r) \/ saveReply(r) \/ persistPause(r) \/ update(r)
    PROVE  \/ \E role \in {"user", "assistant"}, place \in Places : Wrote(role, r, place)
           \/ Persisted(r)
           \/ \E told \in Replies : Updated(r, told)
<1>1. CASE saveUserMessage(r)
  <2>1. Wrote("user", r, "run")
    BY <1>1 DEF saveUserMessage, createMessage, goTo, Wrote, Stays, Others, engine,
                Sound, TypeOK
  <2> QED BY <2>1 DEF Places
<1>2. CASE saveReply(r)
  <2>1. Wrote("assistant", r, afterReply(result[r]))
    BY <1>2 DEF saveReply, createMessage, goTo, Wrote, Stays, Others, engine,
                Sound, TypeOK
  <2> QED BY <2>1 DEF Places, afterReply
<1>3. CASE persistPause(r)
  BY <1>3 DEF persistPause, UpdateWorkflowState, goTo, Persisted, Stays, Others, engine,
              Sound, TypeOK
<1>4. CASE update(r)
  <2>1. PICK told \in {answer(r), "error"} : finish(r, told)
    BY <1>4 DEF update
  <2>2. Updated(r, told)
    BY <1>4, <2>1 DEF update, rowAfterUpdate, finish, Updated, Others, engine, Sound, TypeOK
  <2>3. input[r].op \in Decisions \cup {"send"} /\ pc[r] = "update"
    BY <1>4 DEF update, Sound, Placed, AfterEngine
  <2>4. answer(r) \in Replies
    BY <2>3 DEF answer, Replies, Decisions
  <2> QED BY <2>1, <2>2, <2>4 DEF Replies
<1> QED BY <1>1, <1>2, <1>3, <1>4

LEMMA Doing == ASSUME Sound, Next PROVE \E r \in Requests : Did(r)
<1>1. PICK r \in Requests : step(r) \/ fail(r) \/ \E user \in Users : begin(r, user)
  BY DEF Next
<1>2. CASE getMessages(r) \/ count(r) \/ fail(r)
  BY <1>2, Ending DEF Did
<1>3. CASE run(r)
  BY <1>3, Running DEF Did
<1>4. CASE resume(r)
  BY <1>4, Resuming DEF Did
<1>5. CASE saveUserMessage(r) \/ saveReply(r) \/ persistPause(r) \/ update(r)
  BY <1>5, Writing DEF Did
<1>6. CASE \E user \in Users : begin(r, user)
  BY <1>6, Beginning DEF Did
<1> QED BY <1>1, <1>2, <1>3, <1>4, <1>5, <1>6 DEF step

-----------------------------------------------------------------------------
(* Types and places                                                        *)

IsMap(f) == f = [r \in Requests |-> f[r]]

LEMMA Changing ==
    ASSUME NEW S, NEW f \in [Requests -> S], NEW r \in Requests, NEW x
    PROVE  IsMap([f EXCEPT ![r] = x])
BY DEF IsMap

LEMMA TypedIsMap == ASSUME NEW S, NEW f \in [Requests -> S] PROVE IsMap(f)
BY DEF IsMap

LEMMA MapIsTyped ==
    ASSUME NEW S, NEW f, IsMap(f), \A r \in Requests : f[r] \in S
    PROVE  f \in [Requests -> S]
BY DEF IsMap

AreMaps == IsMap(pc) /\ IsMap(conv) /\ IsMap(input) /\ IsMap(result) /\ IsMap(reply)

LEMMA StayMaps == ASSUME Sound, Next PROVE AreMaps'
<1>1. AreMaps
  BY TypedIsMap DEF AreMaps, Sound, TypeOK
<1>2. PICK r \in Requests : step(r) \/ fail(r) \/ \E user \in Users : begin(r, user)
  BY DEF Next
<1>3. ASSUME NEW place, NEW c, goTo(r, place, c) PROVE IsMap(pc') /\ IsMap(conv')
  BY <1>3, Changing DEF goTo, Sound, TypeOK
<1>4. ASSUME NEW told, finish(r, told) PROVE IsMap(pc') /\ IsMap(conv') /\ IsMap(reply')
  BY <1>4, Changing DEF finish, Sound, TypeOK
<1>5. ASSUME NEW o, engineReturns(r, o) PROVE IsMap(result')
  <2>1. \E res : result' = [result EXCEPT ![r] = res]
    <3>1. CASE o.kind = "paused"
      BY <1>5, <3>1 DEF engineReturns
    <3>2. CASE o.kind # "paused"
      BY <1>5, <3>2 DEF engineReturns
    <3> QED BY <3>1, <3>2
  <2>2. PICK res : result' = [result EXCEPT ![r] = res]
    BY <2>1
  <2>3. result \in [Requests -> [kind : {"none", "completed", "paused"},
                                tokens : Amount, saved : 0..Len(pauses)]]
    BY DEF Sound, TypeOK
  <2> QED BY <2>2, <2>3, Changing
<1>6. ASSUME NEW user, NEW op, arrive(r, user, op) PROVE IsMap(input') /\ IsMap(result')
  BY <1>6, <1>1, Changing DEF arrive, Sound, TypeOK, AreMaps, engine
<1>7. CASE saveUserMessage(r) \/ saveReply(r) \/ persistPause(r)
  BY <1>7, <1>1, <1>3 DEF saveUserMessage, saveReply, persistPause, AreMaps, engine
<1>8. CASE update(r) \/ getMessages(r) \/ count(r) \/ fail(r)
  BY <1>8, <1>1, <1>4 DEF update, getMessages, count, fail, AreMaps, engine
<1>9. CASE run(r)
  BY <1>9, <1>1, <1>3, <1>5 DEF run, AreMaps
<1>10. CASE resume(r)
  BY <1>10, <1>1, <1>3, <1>5 DEF resume, AreMaps
<1>11. ASSUME NEW user \in Users, begin(r, user) PROVE AreMaps'
  BY <1>11, <1>1, <1>3, <1>4, <1>6
     DEF AreMaps, begin, CreateConversation, SendMessage, ApproveAction, GetConversation,
         ListConversations, turnAway, createConversation, loadToSend, loadToShow,
         loadToDecide, loadToList, refuse
<1> QED BY <1>2, <1>7, <1>8, <1>9, <1>10, <1>11 DEF step

\* Sound, one request at a time.
Seated(r) ==
    /\ pc[r] \in Places
    /\ input[r] \in [user : Users \cup {None},
                     op : {"none", "send", "approve", "reject", "get", "list"}]
    /\ conv[r] \in Conversation \cup {None}
    /\ result[r] \in [kind : {"none", "completed", "paused"},
                      tokens : Amount, saved : 0..Len(pauses)]
    /\ reply[r] \in Replies
    /\ Placed(r)
    /\ conv[r] # None => row # None /\ conv[r].paused_state <= Len(pauses)

Shared ==
    /\ row \in Conversation \cup {None}
    /\ row # None => row.paused_state <= Len(pauses)
    /\ messages \in Seq([role : {"user", "assistant"}, by : Requests])
    /\ pauses \in Seq([tokens : Amount, tools : Amount])
    /\ decided \in Seq(Nat) /\ Len(decided) = Len(pauses)
    /\ again \subseteq DOMAIN pauses /\ turns \in Nat /\ spent \in Nat
    /\ overlapped \in BOOLEAN

Kept == row # None => row' # None

LEMMA SoundParts == Sound => AreMaps /\ Shared /\ \A r \in Requests : Seated(r)
<1> SUFFICES ASSUME Sound PROVE AreMaps /\ Shared /\ \A r \in Requests : Seated(r)
  OBVIOUS
<1>1. AreMaps
  BY TypedIsMap DEF AreMaps, Sound, TypeOK
<1>2. Shared
  BY DEF Shared, Sound, TypeOK, Known
<1>3. ASSUME NEW r \in Requests PROVE Seated(r)
  BY <1>3 DEF Seated, Sound, TypeOK, Known, Places
<1> QED BY <1>1, <1>2, <1>3

LEMMA SoundNext ==
    ASSUME AreMaps', Shared', \A r \in Requests : Seated(r)'
    PROVE  Sound'
<1>1. /\ pc' \in [Requests -> Places] /\ conv' \in [Requests -> Conversation \cup {None}]
      /\ input' \in [Requests -> [user : Users \cup {None},
                 op : {"none", "send", "approve", "reject", "get", "list"}]]
      /\ result' \in [Requests -> [kind : {"none", "completed", "paused"},
                 tokens : Amount, saved : 0..Len(pauses')]]
      /\ reply' \in [Requests -> Replies]
  BY MapIsTyped DEF AreMaps, Seated
<1>2. TypeOK'
  BY <1>1 DEF TypeOK, Shared, Places
<1>3. Known' /\ \A r \in Requests : Placed(r)'
  BY DEF Shared, Seated, Known
<1> QED BY <1>2, <1>3 DEF Sound

LEMMA SoundInit == Init => Sound
<1> SUFFICES ASSUME Init PROVE Sound
  OBVIOUS
<1>1. TypeOK
  <2>1. /\ row = None /\ messages = <<>> /\ pauses = <<>> /\ decided = <<>>
        /\ again = {} /\ turns = 0 /\ spent = 0 /\ overlapped = FALSE
        /\ pc = [r \in Requests |-> "idle"]
        /\ input = [r \in Requests |-> NoInput]
        /\ conv = [r \in Requests |-> None]
        /\ result = [r \in Requests |-> NoResult]
        /\ reply = [r \in Requests |-> "none"]
    BY DEF Init
  <2>2. /\ NoInput \in [user : Users \cup {None},
                   op : {"none", "send", "approve", "reject", "get", "list"}]
        /\ NoResult \in [kind : {"none", "completed", "paused"},
                         tokens : Amount, saved : 0..Len(pauses)]
    BY <2>1, AmountAssumption DEF NoInput, NoResult
  <2>3. Len(decided) = Len(pauses)
    BY <2>1
  <2>4. /\ messages \in Seq([role : {"user", "assistant"}, by : Requests])
        /\ pauses \in Seq([tokens : Amount, tools : Amount])
        /\ decided \in Seq(Nat)
    BY <2>1
  <2>5. /\ input \in [Requests -> [user : Users \cup {None},
                   op : {"none", "send", "approve", "reject", "get", "list"}]]
        /\ result \in [Requests -> [kind : {"none", "completed", "paused"},
                         tokens : Amount, saved : 0..Len(pauses)]]
    BY <2>1, <2>2
  <2>6. /\ row \in Conversation \cup {None} /\ conv \in [Requests -> Conversation \cup {None}]
        /\ pc \in [Requests -> Places]
        /\ reply \in [Requests -> Replies] /\ overlapped \in BOOLEAN
        /\ again \subseteq DOMAIN pauses /\ turns \in Nat /\ spent \in Nat
    BY <2>1 DEF Places, Replies
  <2> QED BY <2>3, <2>4, <2>5, <2>6 DEF TypeOK, Places
<1>2. ASSUME NEW r \in Requests PROVE Placed(r)
  BY <1>2 DEF Init, Placed, NoInput, NoResult, BeforeEngine, AfterEngine
<1>3. Known
  BY DEF Init, Known
<1> QED BY <1>1, <1>2, <1>3 DEF Sound

\* What one request does leaves the others sound.
LEMMA OthersSeated ==
    ASSUME Sound, NEW r, Others(r), pauses' \in Seq([tokens : Amount, tools : Amount]),
           Len(pauses') >= Len(pauses), row # None => row' # None,
           NEW q \in Requests \ {r}
    PROVE  Seated(q)'
<1>1. /\ pc'[q] = pc[q] /\ input'[q] = input[q] /\ conv'[q] = conv[q]
      /\ result'[q] = result[q] /\ reply'[q] = reply[q]
  BY DEF Others
<1>2. Seated(q) /\ pauses \in Seq([tokens : Amount, tools : Amount])
  BY SoundParts DEF Shared
<1>3. Placed(q)'
  BY <1>1, <1>2 DEF Seated, Placed
<1>4. /\ result'[q] \in [kind : {"none", "completed", "paused"},
                      tokens : Amount, saved : 0..Len(pauses')]
      /\ conv'[q] # None => row' # None /\ conv'[q].paused_state <= Len(pauses')
  <2>1. Len(pauses) \in Nat /\ Len(pauses') \in Nat
    BY <1>2
  <2>2. conv[q] # None => conv[q].paused_state \in Nat /\ conv[q].paused_state <= Len(pauses)
    BY <1>2 DEF Seated, Conversation
  <2> QED BY <1>1, <1>2, <2>1, <2>2 DEF Seated
<1> QED BY <1>1, <1>2, <1>3, <1>4 DEF Seated

\* The entity's operations, field by field.
LEMMA Counting ==
    ASSUME NEW c \in Conversation, NEW tokens \in Nat, NEW d,
           d = AddMessageStats(c, tokens)
    PROVE  /\ d \in Conversation /\ d.UserID = c.UserID /\ d.Status = c.Status
           /\ d.paused_state = c.paused_state /\ d.pending_approval = c.pending_approval
           /\ d.MessageCount = c.MessageCount + 1 /\ d.TotalTokens = c.TotalTokens + tokens
<1>1. /\ c.MessageCount \in Nat /\ c.TotalTokens \in Nat
      /\ DOMAIN c = {"UserID", "Status", "paused_state", "pending_approval",
                     "MessageCount", "TotalTokens"}
  BY DEF Conversation
<1>2. /\ d.UserID = c.UserID /\ d.Status = c.Status
      /\ d.paused_state = c.paused_state /\ d.pending_approval = c.pending_approval
      /\ d.MessageCount = c.MessageCount + 1 /\ d.TotalTokens = c.TotalTokens + tokens
  BY <1>1 DEF AddMessageStats
<1>3. d.MessageCount \in Nat /\ d.TotalTokens \in Nat
  BY <1>1, <1>2
<1>4. d \in Conversation
  BY <1>3 DEF AddMessageStats, Conversation
<1> QED BY <1>2, <1>4

LEMMA Requesting ==
    ASSUME NEW c \in Conversation, NEW d, d = RequestApproval(c)
    PROVE  /\ d \in Conversation /\ d.UserID = c.UserID
           /\ IsPendingApproval(d) /\ d.pending_approval
           /\ d.paused_state = c.paused_state
           /\ d.MessageCount = c.MessageCount /\ d.TotalTokens = c.TotalTokens
BY DEF Conversation, RequestApproval, IsPendingApproval

LEMMA Settling ==
    ASSUME NEW c \in Conversation, NEW r, NEW d, d = settled(r, c)
    PROVE  /\ d \in Conversation /\ d.UserID = c.UserID /\ ~IsPendingApproval(d)
           /\ d.paused_state = c.paused_state
           /\ d.MessageCount = c.MessageCount /\ d.TotalTokens = c.TotalTokens
<1>1. d = Approve(c) \/ d = Reject(c)
  BY DEF settled
<1> QED BY <1>1 DEF Conversation, Approve, Reject, IsPendingApproval

LEMMA Creating ==
    ASSUME NEW user \in Users
    PROVE  /\ NewConversation(user) \in Conversation
           /\ NewConversation(user).UserID = user
           /\ ~IsPendingApproval(NewConversation(user))
           /\ NewConversation(user).paused_state = 0
           /\ NewConversation(user).MessageCount = 0
           /\ NewConversation(user).TotalTokens = 0
BY DEF Conversation, NewConversation, IsPendingApproval

\* A conversation is not None.
LEMMA SomeCopy == ASSUME NEW c \in Conversation PROVE c # None
BY NoneAssumption

\* What a request that asks for `op` may have in hand where it goes first.
Fits(op, place, c) ==
    /\ op \in {"send", "get", "list"} \cup Decisions
    /\ place \in {"save user message", "resume", "get messages", "count", "done"}
    /\ place = "save user message" => op = "send"
    /\ place = "resume" => op \in Decisions /\ c.paused_state # 0
    /\ place \in {"get messages", "count"} => op \in {"get", "list"}
    /\ place \in {"save user message", "resume", "get messages"} => c # None
    /\ place = "done" => c = None

LEMMA SoundArrives ==
    ASSUME Sound, NEW r \in Requests, NEW user \in Users, NEW op, NEW place, NEW c,
           Arrives(r, user, op, place, c), Fits(op, place, c),
           c \in Conversation \cup {None}, c # None => c.paused_state <= Len(pauses),
           row' = row \/ (row' = c /\ c # None), c # None => row' # None,
           IF place = "done" THEN reply'[r] = "refused" ELSE reply'[r] = reply[r]
    PROVE  Shared' /\ Others(r) /\ pauses' = pauses /\ Seated(r)' /\ Kept
<1>1. Shared /\ Seated(r)
  BY SoundParts
<1>2. /\ pc[r] = "idle" /\ pc'[r] = place /\ conv'[r] = c /\ result'[r] = result[r]
      /\ input'[r] = [user |-> user, op |-> op]
      /\ messages' = messages /\ pauses' = pauses /\ decided' = decided /\ ledger' = ledger
      /\ Others(r) /\ overlapped' \in BOOLEAN
  BY DEF Arrives, engine
<1>3. result[r] = NoResult /\ reply[r] = "none"
  BY <1>1, <1>2 DEF Seated, Placed, AfterEngine
<1>4. Shared'
  BY <1>1, <1>2 DEF Shared, ledger
<1>5. reply'[r] \in {"none", "refused"} /\ (place # "done" => reply'[r] = "none")
  BY <1>3
<1>6. /\ pc'[r] = place /\ conv'[r] = c /\ input'[r].op = op /\ result'[r] = NoResult
      /\ result'[r].kind = "none"
  BY <1>2, <1>3 DEF NoResult
<1>7. Placed(r)'
  BY <1>5, <1>6 DEF Fits, Placed, BeforeEngine, AfterEngine
<1>8. input'[r] \in [user : Users \cup {None},
                    op : {"none", "send", "approve", "reject", "get", "list"}]
  <2>1. op \in {"none", "send", "approve", "reject", "get", "list"}
    BY DEF Fits, Decisions
  <2> QED BY <1>2, <2>1
<1>9. result'[r] \in [kind : {"none", "completed", "paused"},
                     tokens : Amount, saved : 0..Len(pauses')]
  BY <1>1, <1>2 DEF Seated
<1>10. Seated(r)'
  BY <1>2, <1>5, <1>7, <1>8, <1>9 DEF Seated, Fits, Places, Replies
<1> QED BY <1>2, <1>4, <1>10 DEF Kept

LEMMA SoundEnters ==
    ASSUME Sound, NEW r \in Requests, NEW user \in Users, Entered(r, user)
    PROVE  Shared' /\ Others(r) /\ pauses' = pauses /\ Seated(r)' /\ Kept
<1>1. Shared
  BY SoundParts
<1>2. CASE Created(r, user)
  <2>1. row' \in Conversation /\ row'.paused_state = 0 /\ row' # None
    BY <1>2, Creating, SomeCopy DEF Created
  <2>2. Len(pauses) >= 0 /\ Fits("send", "save user message", row')
    BY <1>1, <2>1 DEF Shared, Fits
  <2>3. Arrives(r, user, "send", "save user message", row') /\ reply'[r] = reply[r]
    BY <1>2 DEF Created
  <2> QED BY <2>1, <2>2, <2>3, SoundArrives
<1>3. CASE Unlisted(r, user)
  <2>1. Fits("list", "count", None)
    BY DEF Fits
  <2> QED BY <1>3, <2>1, SoundArrives DEF Unlisted
<1>4. ASSUME NEW op \in {"send", "get", "list"} \cup Decisions, Refused(r, user, op)
      PROVE  Shared' /\ Others(r) /\ pauses' = pauses /\ Seated(r)' /\ Kept
  <2>1. Fits(op, "done", None)
    BY <1>4 DEF Fits
  <2> QED BY <1>4, <2>1, SoundArrives DEF Refused
<1>5. ASSUME NEW op \in {"send", "get", "list"} \cup Decisions, NEW place \in Places,
             Loaded(r, user, op, place)
      PROVE  Shared' /\ Others(r) /\ pauses' = pauses /\ Seated(r)' /\ Kept
  <2>1. row \in Conversation \cup {None} /\ (row # None => row.paused_state <= Len(pauses))
    BY <1>1 DEF Shared
  <2>2. Fits(op, place, row) /\ place # "done"
    BY <1>5 DEF Loaded, Fits
  <2>3. /\ Arrives(r, user, op, place, row) /\ row' = row /\ row # None
        /\ reply'[r] = reply[r]
    BY <1>5 DEF Loaded
  <2> QED BY <2>1, <2>2, <2>3, SoundArrives
<1> QED BY <1>2, <1>3, <1>4, <1>5 DEF Entered

LEMMA SoundEnds ==
    ASSUME Sound, NEW r \in Requests, NEW told, Ended(r, told)
    PROVE  Shared' /\ Others(r) /\ pauses' = pauses /\ Seated(r)' /\ Kept
<1>1. Shared /\ Seated(r)
  BY SoundParts
<1>2. /\ pc'[r] = "done" /\ input'[r] = input[r] /\ conv'[r] = None
      /\ result'[r] = result[r] /\ reply'[r] = told /\ told \in {"shown", "empty", "error"}
      /\ row' = row /\ messages' = messages /\ pauses' = pauses /\ decided' = decided
      /\ ledger' = ledger /\ overlapped' = overlapped /\ Others(r)
  BY DEF Ended, db, engine
<1>3. Placed(r)'
  BY <1>1, <1>2 DEF Seated, Placed, BeforeEngine, AfterEngine
<1>4. Shared'
  BY <1>1, <1>2 DEF Shared, ledger
<1> QED BY <1>1, <1>2, <1>3, <1>4 DEF Seated, Places, Replies, Kept

Costs == [tokens : Amount, tools : Amount]
Result(n) == [kind : {"none", "completed", "paused"}, tokens : Amount, saved : 0..n]

\* What the engine hands back, and what it saved.
LEMMA AfterPause ==
    ASSUME Sound, NEW r \in Requests, NEW tokens \in Amount, NEW place, NEW c,
           Paused(r, tokens, place, c)
    PROVE  /\ pauses' \in Seq(Costs) /\ Len(pauses') = Len(pauses) + 1
           /\ Len(pauses) \in Nat
           /\ result'[r] \in Result(Len(pauses'))
           /\ result'[r].kind = "paused" /\ result'[r].saved # 0
<1>1. pauses \in Seq(Costs) /\ Len(pauses) \in Nat
  <2>1. pauses \in Seq(Costs)
    BY DEF Sound, TypeOK, Costs
  <2> QED BY <2>1
<1>2. PICK tools \in Amount :
          pauses' = Append(pauses, [tokens |-> tokens, tools |-> tools])
  BY DEF Paused
<1>3. [tokens |-> tokens, tools |-> tools] \in Costs
  BY DEF Costs
<1>4. pauses' \in Seq(Costs) /\ Len(pauses') = Len(pauses) + 1
  BY <1>1, <1>2, <1>3, AppendProperties
<1>5. result'[r] = [kind |-> "paused", tokens |-> tokens, saved |-> Len(pauses) + 1]
  BY DEF Paused
<1>6. Len(pauses) + 1 \in 0..Len(pauses') /\ Len(pauses) + 1 # 0
  BY <1>1, <1>4
<1> QED BY <1>1, <1>4, <1>5, <1>6 DEF Result

LEMMA AfterCompletion ==
    ASSUME Sound, NEW r \in Requests, NEW tokens \in Amount, NEW place, NEW c,
           Completed(r, tokens, place, c)
    PROVE  /\ pauses' \in Seq(Costs) /\ Len(pauses') = Len(pauses)
           /\ Len(pauses) \in Nat
           /\ result'[r] \in Result(Len(pauses'))
           /\ result'[r].kind = "completed"
<1>1. pauses \in Seq(Costs) /\ Len(pauses) \in Nat
  <2>1. pauses \in Seq(Costs)
    BY DEF Sound, TypeOK, Costs
  <2> QED BY <2>1
<1>2. /\ pauses' = pauses
      /\ result'[r] = [kind |-> "completed", tokens |-> tokens, saved |-> 0]
  BY DEF Completed
<1>3. 0 \in 0..Len(pauses')
  BY <1>1, <1>2
<1> QED BY <1>1, <1>2, <1>3 DEF Result

\* The engine returned: r has its result and goes on with a copy of the
\* conversation that refers to no other saved state.
Continues(r, place, c) ==
    /\ pc'[r] = place /\ conv'[r] = c /\ Stays(r) /\ Others(r) /\ UNCHANGED db
    /\ place \in AfterEngine /\ c \in Conversation
    /\ c.paused_state = conv[r].paused_state

Tells(r, place, kind) ==
    /\ kind \in {"completed", "paused"}
    /\ place = "persist pause" => kind = "paused"
    /\ input[r].op = "send" /\ place = "save reply" => kind # "paused"

LEMMA SoundReturns ==
    ASSUME Sound, NEW r \in Requests, pc[r] \in {"run", "resume"}, NEW place, NEW c,
           Continues(r, place, c), Tells(r, place, result'[r].kind),
           pauses' \in Seq(Costs), Len(pauses') >= Len(pauses),
           result'[r] \in Result(Len(pauses')),
           result'[r].kind = "paused" => result'[r].saved # 0,
           decided' \in Seq(Nat), Len(decided') = Len(pauses'),
           again' \subseteq DOMAIN pauses', turns' \in Nat, spent' \in Nat
    PROVE  Shared' /\ Others(r) /\ Len(pauses') >= Len(pauses) /\ Seated(r)' /\ Kept
<1>1. Shared /\ Seated(r)
  BY SoundParts
<1>2. /\ pc'[r] = place /\ conv'[r] = c /\ input'[r] = input[r] /\ reply'[r] = reply[r]
      /\ row' = row /\ messages' = messages /\ overlapped' = overlapped /\ Others(r)
      /\ place \in AfterEngine /\ c \in Conversation /\ c # None
      /\ c.paused_state = conv[r].paused_state
  BY SomeCopy DEF Continues, Stays, db
<1>3. Len(pauses) \in Nat /\ Len(pauses') \in Nat
  BY <1>1 DEF Shared
<1>4. Shared'
  <2>1. row # None => row.paused_state \in Nat /\ row.paused_state <= Len(pauses)
    BY <1>1 DEF Shared, Conversation
  <2>2. row' # None => row'.paused_state <= Len(pauses')
    BY <1>2, <1>3, <2>1
  <2> QED BY <1>1, <1>2, <2>2 DEF Shared, Costs
<1>5. /\ conv[r] # None /\ reply[r] = "none" /\ input[r].op \in Decisions \cup {"send"}
      /\ row # None /\ conv[r].paused_state <= Len(pauses)
  BY <1>1 DEF Seated, Placed, BeforeEngine
<1>6. Placed(r)'
  BY <1>2, <1>5 DEF Placed, BeforeEngine, AfterEngine, Tells
<1>7. c.paused_state \in Nat
  BY <1>2 DEF Conversation
<1>8. row' # None /\ conv'[r].paused_state <= Len(pauses')
  BY <1>2, <1>3, <1>5, <1>7
<1>9. Seated(r)'
  <2>1. pc'[r] \in Places
    BY <1>2 DEF AfterEngine, Places
  <2>2. /\ input'[r] \in [user : Users \cup {None},
                     op : {"none", "send", "approve", "reject", "get", "list"}]
        /\ reply'[r] \in Replies
    BY <1>1, <1>2 DEF Seated
  <2>3. result'[r] \in [kind : {"none", "completed", "paused"},
                       tokens : Amount, saved : 0..Len(pauses')]
    BY DEF Result
  <2> QED BY <1>2, <1>6, <1>8, <2>1, <2>2, <2>3 DEF Seated
<1> QED BY <1>2, <1>4, <1>9 DEF Kept

\* What is in hand when the engine is called.
LEMMA AtEngine ==
    ASSUME Sound, NEW r \in Requests, pc[r] \in {"run", "resume"}
    PROVE  /\ conv[r] \in Conversation /\ conv[r].paused_state \in Nat
           /\ pc[r] = "run" => input[r].op = "send"
           /\ pc[r] = "resume" => /\ input[r].op \in Decisions
                                  /\ conv[r].paused_state \in 1..Len(decided)
           /\ result[r] = NoResult /\ reply[r] = "none"
<1>1. Seated(r) /\ Len(decided) = Len(pauses)
  BY SoundParts DEF Shared
<1>2. /\ conv[r] \in Conversation
      /\ pc[r] = "run" => input[r].op = "send"
      /\ pc[r] = "resume" => input[r].op \in Decisions
      /\ result[r] = NoResult /\ reply[r] = "none"
  BY <1>1 DEF Seated, Placed, BeforeEngine, AfterEngine
<1>3. conv[r].paused_state \in Nat
  BY <1>2 DEF Conversation
<1>4. pc[r] = "resume" => conv[r].paused_state \in 1..Len(decided)
  BY <1>1, Resumable
<1> QED BY <1>2, <1>3, <1>4

\* The saved states after an engine call, and the costs already handed on.
LEMMA SavedStates ==
    ASSUME Sound, pauses' \in Seq(Costs)
    PROVE  /\ Len(pauses') >= Len(pauses) => again \subseteq DOMAIN pauses'
           /\ Len(pauses') = Len(pauses) + 1 => Len(pauses) + 1 \in DOMAIN pauses'
<1>1. /\ pauses \in Seq(Costs) /\ again \subseteq DOMAIN pauses
  BY DEF Sound, TypeOK, Costs
<1>2. /\ DOMAIN pauses = 1..Len(pauses) /\ DOMAIN pauses' = 1..Len(pauses')
      /\ Len(pauses) \in Nat /\ Len(pauses') \in Nat
  BY <1>1
<1>3. ASSUME Len(pauses') >= Len(pauses), NEW j \in again PROVE j \in DOMAIN pauses'
  <2>1. j \in 1..Len(pauses)
    BY <1>1, <1>2
  <2> QED BY <1>2, <1>3, <2>1
<1>4. ASSUME Len(pauses') = Len(pauses) + 1 PROVE Len(pauses) + 1 \in DOMAIN pauses'
  BY <1>2, <1>4
<1> QED BY <1>3, <1>4

LEMMA SoundRuns ==
    ASSUME Sound, NEW r \in Requests, NEW tokens \in Amount,
           RunPaused(r, tokens) \/ RunCompleted(r, tokens)
    PROVE  Shared' /\ Others(r) /\ Len(pauses') >= Len(pauses) /\ Seated(r)' /\ Kept
<1>1. /\ decided \in Seq(Nat) /\ Len(decided) = Len(pauses)
      /\ turns \in Nat /\ spent \in Nat /\ tokens \in Nat
  BY AmountAssumption DEF Sound, TypeOK
<1>2. pc[r] = "run"
  BY DEF RunPaused, RunCompleted
<1>3. conv[r] \in Conversation /\ input[r].op = "send"
  BY <1>2, AtEngine
<1>4. CASE RunPaused(r, tokens)
  <2>1. Paused(r, tokens, "persist pause", conv[r])
    BY <1>4 DEF RunPaused
  <2>2. /\ pauses' \in Seq(Costs) /\ Len(pauses') = Len(pauses) + 1 /\ Len(pauses) \in Nat
        /\ result'[r] \in Result(Len(pauses'))
        /\ result'[r].kind = "paused" /\ result'[r].saved # 0
    BY <2>1, AfterPause
  <2>3. /\ decided' = Append(decided, 0)
        /\ again' = again /\ turns' = turns /\ spent' = spent
    BY <1>4 DEF RunPaused
  <2>4. decided' \in Seq(Nat) /\ Len(decided') = Len(decided) + 1
    BY <1>1, <2>3, AppendProperties
  <2>5. Continues(r, "persist pause", conv[r]) /\ Tells(r, "persist pause", "paused")
    BY <1>3, <2>1 DEF Paused, Continues, Tells, AfterEngine
  <2>6. /\ Len(pauses') >= Len(pauses) /\ Len(decided') = Len(pauses')
        /\ turns' \in Nat /\ spent' \in Nat
    BY <1>1, <2>2, <2>3, <2>4
  <2>7. again' \subseteq DOMAIN pauses'
    BY <2>2, <2>3, <2>6, SavedStates
  <2> QED BY <1>2, <2>2, <2>4, <2>5, <2>6, <2>7, SoundReturns
<1>5. CASE RunCompleted(r, tokens)
  <2> DEFINE c == AddMessageStats(conv[r], tokens)
  <2>1. Completed(r, tokens, "save reply", c)
    BY <1>5 DEF RunCompleted
  <2>2. /\ pauses' \in Seq(Costs) /\ Len(pauses') = Len(pauses) /\ Len(pauses) \in Nat
        /\ result'[r] \in Result(Len(pauses')) /\ result'[r].kind = "completed"
    BY <2>1, AfterCompletion
  <2>3. /\ decided' = decided
        /\ again' = again /\ turns' = turns + 1 /\ spent' = spent + tokens
    BY <1>5 DEF RunCompleted
  <2>4. c \in Conversation /\ c.paused_state = conv[r].paused_state
    <3>1. tokens \in Nat /\ conv[r] \in Conversation
      BY <1>1, <1>3
    <3> QED BY <3>1, Counting
  <2>5. Continues(r, "save reply", c) /\ Tells(r, "save reply", "completed")
    BY <2>1, <2>4 DEF Completed, Continues, Tells, AfterEngine
  <2>6. /\ Len(pauses') >= Len(pauses) /\ Len(decided') = Len(pauses')
        /\ turns' \in Nat /\ spent' \in Nat
    BY <1>1, <2>2, <2>3
  <2>7. again' \subseteq DOMAIN pauses'
    BY <2>2, <2>3, <2>6, SavedStates
  <2> HIDE DEF c
  <2> QED BY <1>1, <1>2, <2>2, <2>3, <2>5, <2>6, <2>7, SoundReturns
<1> QED BY <1>4, <1>5

LEMMA SoundResumes ==
    ASSUME Sound, NEW r \in Requests, NEW tokens \in Amount, NEW place,
           ResumePaused(r, tokens, place) \/ ResumeCompleted(r, tokens, place)
    PROVE  Shared' /\ Others(r) /\ Len(pauses') >= Len(pauses) /\ Seated(r)' /\ Kept
<1> DEFINE c == AddMessageStats(conv[r], tokens)
           d == [decided EXCEPT ![conv[r].paused_state] = @ + 1]
<1>1. /\ decided \in Seq(Nat) /\ Len(decided) = Len(pauses)
      /\ turns \in Nat /\ spent \in Nat /\ tokens \in Nat
  BY AmountAssumption DEF Sound, TypeOK
<1>2. pc[r] = "resume"
  BY DEF ResumePaused, ResumeCompleted
<1>3. /\ conv[r] \in Conversation /\ input[r].op \in Decisions
      /\ conv[r].paused_state \in 1..Len(decided)
  BY <1>2, AtEngine
<1>8. turns' \in Nat /\ spent' \in Nat
  <2>1. Charged(conv[r].paused_state, tokens)
    BY DEF ResumePaused, ResumeCompleted
  <2>2. pauses[conv[r].paused_state].tokens \in Nat
    BY <1>2, Resumable, AmountAssumption
  <2> DEFINE base == pauses[conv[r].paused_state].tokens
             first == passedOn(conv[r].paused_state) = 0
  <2>3. /\ base \in Nat /\ base <= tokens
        /\ turns' = turns + (IF first THEN 1 ELSE 0)
        /\ spent' = spent + tokens - (IF first THEN 0 ELSE base)
    BY <2>1, <2>2 DEF Charged
  <2> HIDE DEF base, first
  <2>4. CASE first
    BY <1>1, <2>3, <2>4
  <2>5. CASE ~first
    BY <1>1, <2>3, <2>5
  <2> QED BY <2>4, <2>5
<1>4. c \in Conversation /\ c.paused_state = conv[r].paused_state
  <2>1. tokens \in Nat /\ conv[r] \in Conversation
    BY <1>1, <1>3
  <2> QED BY <2>1, Counting
<1>5. d \in Seq(Nat) /\ Len(d) = Len(decided)
  <2>1. decided[conv[r].paused_state] + 1 \in Nat
    BY <1>1, <1>3
  <2> QED BY <1>1, <1>3, <2>1, ExceptSeq
<1>6. CASE ResumePaused(r, tokens, place)
  <2>1. Paused(r, tokens, place, c) /\ place \in {"save reply", "persist pause"}
    BY <1>6 DEF ResumePaused
  <2>2. /\ pauses' \in Seq(Costs) /\ Len(pauses') = Len(pauses) + 1 /\ Len(pauses) \in Nat
        /\ result'[r] \in Result(Len(pauses'))
        /\ result'[r].kind = "paused" /\ result'[r].saved # 0
    BY <2>1, AfterPause
  <2>3. decided' = Append(d, 0) /\ again' = again \cup {Len(pauses) + 1}
    BY <1>6 DEF ResumePaused
  <2>4. decided' \in Seq(Nat) /\ Len(decided') = Len(decided) + 1
    <3> HIDE DEF d
    <3> QED BY <1>5, <2>3, AppendProperties
  <2>5. Continues(r, place, c) /\ Tells(r, place, "paused")
    BY <1>3, <1>4, <2>1 DEF Paused, Continues, Tells, AfterEngine, Decisions
  <2>6. Len(pauses') >= Len(pauses) /\ Len(decided') = Len(pauses')
    BY <1>1, <2>2, <2>3, <2>4
  <2>7. again' \subseteq DOMAIN pauses'
    BY <2>2, <2>3, <2>6, SavedStates
  <2> HIDE DEF c, d
  <2> QED BY <1>2, <2>2, <2>4, <2>5, <2>6, <2>7, <1>8, SoundReturns
<1>7. CASE ResumeCompleted(r, tokens, place)
  <2> DEFINE e == settled(r, c)
  <2>1. Completed(r, tokens, place, e) /\ place \in {"save reply", "update"}
    BY <1>7 DEF ResumeCompleted
  <2>2. /\ pauses' \in Seq(Costs) /\ Len(pauses') = Len(pauses) /\ Len(pauses) \in Nat
        /\ result'[r] \in Result(Len(pauses')) /\ result'[r].kind = "completed"
    BY <2>1, AfterCompletion
  <2>3. decided' = d /\ again' = again
    BY <1>7 DEF ResumeCompleted
  <2>4. e \in Conversation /\ e.paused_state = conv[r].paused_state
    BY <1>4, Settling
  <2>5. Continues(r, place, e) /\ Tells(r, place, "completed")
    BY <1>3, <2>1, <2>4 DEF Completed, Continues, Tells, AfterEngine, Decisions
  <2> HIDE DEF c, d, e
  <2>6. Len(pauses') >= Len(pauses) /\ Len(decided') = Len(pauses')
    BY <1>1, <1>5, <2>2, <2>3
  <2>7. again' \subseteq DOMAIN pauses'
    BY <2>2, <2>3, <2>6, SavedStates
  <2> QED BY <1>2, <1>5, <2>2, <2>3, <2>5, <2>6, <2>7, <1>8, SoundReturns
<1> QED BY <1>6, <1>7

LEMMA SoundWrites ==
    ASSUME Sound, NEW r \in Requests, NEW role \in {"user", "assistant"}, NEW place,
           Wrote(role, r, place)
    PROVE  Shared' /\ Others(r) /\ pauses' = pauses /\ Seated(r)' /\ Kept
<1>1. Shared /\ Seated(r)
  BY SoundParts
<1>2. /\ pc'[r] = place /\ conv'[r] = conv[r] /\ result'[r] = result[r]
      /\ input'[r] = input[r] /\ reply'[r] = reply[r] /\ overlapped' = overlapped
      /\ row' = row /\ pauses' = pauses /\ decided' = decided /\ ledger' = ledger
      /\ Others(r)
  BY DEF Wrote, Stays, engine
<1>3. \/ pc[r] = "save user message" /\ place = "run"
      \/ /\ pc[r] = "save reply"
         /\ place = IF result[r].kind = "paused" THEN "persist pause" ELSE "update"
  BY DEF Wrote, afterReply
<1>4. Placed(r)'
  BY <1>1, <1>2, <1>3 DEF Seated, Placed, BeforeEngine, AfterEngine, NoResult
<1>5. messages' \in Seq([role : {"user", "assistant"}, by : Requests])
  <2>1. messages' = Append(messages, [role |-> role, by |-> r])
    BY DEF Wrote
  <2>2. messages \in Seq([role : {"user", "assistant"}, by : Requests])
    BY <1>1 DEF Shared
  <2> QED BY <2>1, <2>2, AppendProperties
<1>6. Shared'
  BY <1>1, <1>2, <1>5 DEF Shared, ledger
<1>7. place \in Places
  BY <1>3 DEF Places
<1> QED BY <1>1, <1>2, <1>4, <1>6, <1>7 DEF Seated, Kept

LEMMA SoundPersists ==
    ASSUME Sound, NEW r \in Requests, Persisted(r)
    PROVE  Shared' /\ Others(r) /\ pauses' = pauses /\ Seated(r)' /\ Kept
<1>1. Shared /\ Seated(r)
  BY SoundParts
<1>2. /\ pc[r] = "persist pause" /\ pc'[r] = "update" /\ result'[r] = result[r]
      /\ input'[r] = input[r] /\ reply'[r] = reply[r] /\ overlapped' = overlapped
      /\ messages' = messages /\ pauses' = pauses /\ decided' = decided /\ ledger' = ledger
      /\ Others(r)
  BY DEF Persisted, Stays, engine
<1>3. conv[r] \in Conversation /\ row # None
  BY <1>1, <1>2 DEF Seated, Placed, AfterEngine
<1>4. /\ conv'[r] \in Conversation /\ conv'[r].paused_state = conv[r].paused_state
      /\ conv'[r] # None
  BY <1>3, Requesting, SomeCopy DEF Persisted
<1>5. Placed(r)'
  BY <1>1, <1>2, <1>4 DEF Seated, Placed, BeforeEngine, AfterEngine
<1>6. row' \in Conversation /\ row'.paused_state <= Len(pauses)
  <2>1. result[r].saved \in 0..Len(pauses) /\ row \in Conversation /\ Len(pauses) \in Nat
    BY <1>1, <1>3 DEF Shared, Seated
  <2>2. row' = [row EXCEPT !.paused_state = result[r].saved]
    BY DEF Persisted
  <2>3. result[r].saved \in Nat /\ result[r].saved <= Len(pauses)
    BY <2>1
  <2> QED BY <2>1, <2>2, <2>3 DEF Conversation
<1>7. Shared'
  BY <1>1, <1>2, <1>6 DEF Shared, ledger
<1>8. conv'[r].paused_state <= Len(pauses') /\ row' # None
  BY <1>1, <1>2, <1>3, <1>4, <1>6, SomeCopy DEF Seated
<1> QED BY <1>1, <1>2, <1>4, <1>5, <1>7, <1>8 DEF Seated, Places, Kept

LEMMA SoundUpdates ==
    ASSUME Sound, NEW r \in Requests, NEW told \in Replies, Updated(r, told)
    PROVE  Shared' /\ Others(r) /\ pauses' = pauses /\ Seated(r)' /\ Kept
<1>1. Shared /\ Seated(r)
  BY SoundParts
<1>2. /\ pc[r] = "update" /\ pc'[r] = "done" /\ result'[r] = result[r]
      /\ input'[r] = input[r] /\ reply'[r] = told /\ overlapped' = overlapped
      /\ messages' = messages /\ pauses' = pauses /\ decided' = decided /\ ledger' = ledger
      /\ conv'[r] = None /\ row' = conv[r] /\ Others(r)
  BY DEF Updated, engine
<1>3. Placed(r)'
  BY <1>1, <1>2 DEF Seated, Placed, BeforeEngine, AfterEngine
<1>4. Shared'
  BY <1>1, <1>2 DEF Shared, ledger, Seated
<1>5. row' # None
  BY <1>1, <1>2 DEF Seated, Placed, AfterEngine
<1> QED BY <1>1, <1>2, <1>3, <1>4, <1>5 DEF Seated, Places, Kept

LEMMA SoundStep == ASSUME Sound, Next PROVE Sound'
<1>1. PICK r \in Requests : Did(r)
  BY Doing
<1>2. AreMaps'
  BY StayMaps
<1>3. Len(pauses) \in Nat
  BY SoundParts DEF Shared
<1>4. Shared' /\ Others(r) /\ Len(pauses') >= Len(pauses) /\ Seated(r)' /\ Kept
  <2>1. ASSUME NEW user \in Users, Entered(r, user)
        PROVE  Shared' /\ Others(r) /\ pauses' = pauses /\ Seated(r)' /\ Kept
    BY <2>1, SoundEnters
  <2>2. ASSUME NEW told \in {"shown", "empty", "error"}, Ended(r, told)
        PROVE  Shared' /\ Others(r) /\ pauses' = pauses /\ Seated(r)' /\ Kept
    BY <2>2, SoundEnds
  <2>3. ASSUME NEW tokens \in Amount, RunPaused(r, tokens) \/ RunCompleted(r, tokens)
        PROVE  Shared' /\ Others(r) /\ Len(pauses') >= Len(pauses) /\ Seated(r)' /\ Kept
    BY <2>3, SoundRuns
  <2>4. ASSUME NEW tokens \in Amount, NEW place \in Places,
               ResumePaused(r, tokens, place) \/ ResumeCompleted(r, tokens, place)
        PROVE  Shared' /\ Others(r) /\ Len(pauses') >= Len(pauses) /\ Seated(r)' /\ Kept
    BY <2>4, SoundResumes
  <2>5. ASSUME NEW role \in {"user", "assistant"}, NEW place \in Places, Wrote(role, r, place)
        PROVE  Shared' /\ Others(r) /\ pauses' = pauses /\ Seated(r)' /\ Kept
    BY <2>5, SoundWrites
  <2>6. ASSUME Persisted(r)
        PROVE  Shared' /\ Others(r) /\ pauses' = pauses /\ Seated(r)' /\ Kept
    BY <2>6, SoundPersists
  <2>7. ASSUME NEW told \in Replies, Updated(r, told)
        PROVE  Shared' /\ Others(r) /\ pauses' = pauses /\ Seated(r)' /\ Kept
    BY <2>7, SoundUpdates
  <2> QED BY <1>1, <1>3, <2>1, <2>2, <2>3, <2>4, <2>5, <2>6, <2>7 DEF Did
<1>5. ASSUME NEW q \in Requests \ {r} PROVE Seated(q)'
  BY <1>4, <1>5, OthersSeated DEF Shared, Kept
<1> QED BY <1>2, <1>4, <1>5, SoundNext

LEMMA SoundStutter == ASSUME Sound, UNCHANGED vars PROVE Sound'
<1>1. /\ row' = row /\ messages' = messages /\ pauses' = pauses /\ pc' = pc /\ input' = input
      /\ conv' = conv /\ result' = result /\ reply' = reply /\ decided' = decided
      /\ ledger' = ledger /\ overlapped' = overlapped
  BY DEF vars, db, engine
<1>2. TypeOK'
  BY <1>1 DEF Sound, TypeOK, ledger
<1>3. Known' /\ \A r \in Requests : Placed(r)'
  BY <1>1 DEF Sound, Known, Placed
<1> QED BY <1>2, <1>3 DEF Sound

-----------------------------------------------------------------------------
(* The owner                                                               *)

\* A message more.
LEMMA OneMore ==
    ASSUME Sound, NEW r \in Requests, NEW role \in {"user", "assistant"},
           messages' = Append(messages, [role |-> role, by |-> r])
    PROVE  /\ Len(messages) \in Nat /\ DOMAIN messages = 1..Len(messages)
           /\ DOMAIN messages' = 1..(Len(messages) + 1)
           /\ Len(messages') = Len(messages) + 1
           /\ \A k \in DOMAIN messages : messages'[k] = messages[k]
           /\ messages'[Len(messages) + 1].role = role
           /\ messages'[Len(messages) + 1].by = r
<1> DEFINE M == [role : {"user", "assistant"}, by : Requests]
           m == [role |-> role, by |-> r]
<1>1. messages \in Seq(M) /\ m \in M
  BY DEF Sound, TypeOK
<1>2. m.role = role /\ m.by = r
  OBVIOUS
<1> HIDE DEF M, m
<1>3. /\ Append(messages, m) \in Seq(M) /\ Len(Append(messages, m)) = Len(messages) + 1
      /\ \A i \in 1..Len(messages) : Append(messages, m)[i] = messages[i]
      /\ Append(messages, m)[Len(messages) + 1] = m
  BY <1>1, AppendProperties
<1>4. messages' = Append(messages, m)
  BY DEF m
<1>5. Len(messages) \in Nat /\ DOMAIN messages = 1..Len(messages)
  BY <1>1
<1>6. DOMAIN messages' = 1..Len(messages')
  BY <1>3, <1>4
<1> QED BY <1>2, <1>3, <1>4, <1>5, <1>6

\* Whether the transcript changes, and how.
Grows(r) ==
    \/ messages' = messages
    \/ \E role \in {"user", "assistant"} :
          messages' = Append(messages, [role |-> role, by |-> r])

LEMMA OnlyOneWrites ==
    ASSUME Sound, NEW r \in Requests, Grows(r), NEW q \in Requests \ {r}
    PROVE  HasMessage(q)' => HasMessage(q)
<1>1. CASE messages' = messages
  BY <1>1 DEF HasMessage
<1>2. ASSUME NEW role \in {"user", "assistant"},
             messages' = Append(messages, [role |-> role, by |-> r])
      PROVE  HasMessage(q)' => HasMessage(q)
  <2>1. /\ Len(messages) \in Nat /\ DOMAIN messages = 1..Len(messages)
        /\ DOMAIN messages' = 1..(Len(messages) + 1)
        /\ \A k \in DOMAIN messages : messages'[k] = messages[k]
        /\ messages'[Len(messages) + 1].by = r
    BY <1>2, OneMore
  <2> QED BY <2>1 DEF HasMessage
<1> QED BY <1>1, <1>2 DEF Grows

\* A row, once there, has the same owner.
SameOwner == row # None => row' # None /\ row'.UserID = row.UserID

LEMMA OthersOwned ==
    ASSUME Sound, Owned, NEW r \in Requests, Others(r), Grows(r), SameOwner,
           NEW q \in Requests \ {r}
    PROVE  Owner(q)'
<1>1. /\ pc'[q] = pc[q] /\ input'[q] = input[q] /\ conv'[q] = conv[q]
      /\ result'[q] = result[q] /\ reply'[q] = reply[q]
  BY DEF Others
<1>2. HasMessage(q)' => HasMessage(q)
  BY OnlyOneWrites
<1>3. Owner(q)
  BY DEF Owned
<1>4. Acting(q)' => Acting(q)
  BY <1>1, <1>2 DEF Acting
<1>5. conv[q] # None => Acting(q)
  BY DEF Acting
<1> QED BY <1>1, <1>3, <1>4, <1>5 DEF Owner, SameOwner

LEMMA OwnerEnters ==
    ASSUME Sound, Owned, NEW r \in Requests, NEW user \in Users, Entered(r, user)
    PROVE  Others(r) /\ Grows(r) /\ SameOwner /\ Owner(r)'
<1>1. Owner(r) /\ Placed(r)
  BY DEF Owned, Sound
<1>2. ASSUME NEW op, NEW place \in Places \ {"idle"}, NEW c,
             Arrives(r, user, op, place, c), reply'[r] = reply[r] \/ reply'[r] = "refused",
             SameOwner, c # None => row' # None /\ c.UserID = user /\ row'.UserID = user
      PROVE  Others(r) /\ Grows(r) /\ SameOwner /\ Owner(r)'
  <2>1. /\ pc[r] = "idle" /\ pc'[r] = place /\ input'[r].user = user
        /\ conv'[r] = c /\ result'[r] = result[r] /\ Others(r) /\ messages' = messages
    BY <1>2 DEF Arrives
  <2>2. ~Acting(r)
    BY <1>1, <2>1 DEF Owner
  <2>3. Acting(r)' => c # None
    BY <1>2, <2>1, <2>2 DEF Acting, HasMessage
  <2>4. place # "idle"
    OBVIOUS
  <2>5. Owner(r)'
    BY <1>2, <2>1, <2>3, <2>4 DEF Owner
  <2> QED BY <1>2, <2>1, <2>5 DEF Grows
<1>3. CASE Created(r, user)
  <2>1. row = None /\ row'.UserID = user /\ row' # None /\ reply'[r] = reply[r]
        /\ Arrives(r, user, "send", "save user message", row')
    BY <1>3, Creating, SomeCopy DEF Created
  <2>2. SameOwner
    BY <2>1 DEF SameOwner
  <2> QED BY <1>2, <2>1, <2>2 DEF Places
<1>4. CASE Unlisted(r, user)
  BY <1>2, <1>4 DEF Unlisted, Places, SameOwner
<1>5. ASSUME NEW op, Refused(r, user, op)
      PROVE  Others(r) /\ Grows(r) /\ SameOwner /\ Owner(r)'
  BY <1>2, <1>5 DEF Refused, Places, SameOwner
<1>6. ASSUME NEW op, NEW place \in Places, Loaded(r, user, op, place)
      PROVE  Others(r) /\ Grows(r) /\ SameOwner /\ Owner(r)'
  <2>1. /\ row # None /\ row.UserID = user /\ row' = row /\ reply'[r] = reply[r]
        /\ Arrives(r, user, op, place, row) /\ place # "idle"
    BY <1>6 DEF Loaded
  <2>2. SameOwner
    BY <2>1 DEF SameOwner
  <2> QED BY <1>2, <2>1, <2>2
<1> QED BY <1>3, <1>4, <1>5, <1>6 DEF Entered

\* A request with a copy goes on.
LEMMA OwnerGoesOn ==
    ASSUME Sound, Owned, NEW r \in Requests, conv[r] # None,
           row' \in {row, conv[r]} \/ row' = [row EXCEPT !.paused_state = result[r].saved],
           conv'[r] # None => conv'[r].UserID = conv[r].UserID,
           pc'[r] # "idle", input'[r] = input[r]
    PROVE  SameOwner /\ Owner(r)'
<1>1. /\ row # None /\ input[r].user = row.UserID /\ conv[r].UserID = row.UserID
  BY DEF Owned, Owner, Acting
<1>2. row \in Conversation
  BY <1>1 DEF Sound, TypeOK
<1>3. result[r].saved \in Nat
  BY SoundParts DEF Seated
<1>4. row' # None /\ row'.UserID = row.UserID
  <2>1. CASE row' \in {row, conv[r]}
    BY <1>1, <2>1
  <2>2. CASE row' = [row EXCEPT !.paused_state = result[r].saved]
    <3>1. row' \in Conversation /\ row'.UserID = row.UserID
      BY <1>2, <1>3, <2>2 DEF Conversation
    <3> QED BY <3>1, SomeCopy
  <2> QED BY <2>1, <2>2
<1> QED BY <1>1, <1>4 DEF SameOwner, Owner

LEMMA OwnerMoves ==
    ASSUME Sound, Owned, NEW r \in Requests, Did(r)
    PROVE  Others(r) /\ Grows(r) /\ SameOwner /\ Owner(r)'
<1>1. Seated(r) /\ Placed(r)
  BY SoundParts DEF Sound
<1>2. ASSUME NEW told \in {"shown", "empty", "error"}, Ended(r, told)
      PROVE  Others(r) /\ Grows(r) /\ SameOwner /\ Owner(r)'
  <2>1. /\ told = "shown" => conv[r] # None
        /\ pc'[r] = "done" /\ input'[r] = input[r] /\ conv'[r] = None
        /\ result'[r] = result[r] /\ reply'[r] = told /\ Others(r)
        /\ row' = row /\ messages' = messages
    BY <1>2 DEF Ended, db
  <2>2. Acting(r)' => Acting(r)
    BY <2>1 DEF Acting, HasMessage
  <2>3. Owner(r)
    BY DEF Owned
  <2> QED BY <2>1, <2>2, <2>3 DEF Grows, SameOwner, Owner
<1>3. ASSUME NEW tokens \in Amount, RunPaused(r, tokens) \/ RunCompleted(r, tokens)
      PROVE  Others(r) /\ Grows(r) /\ SameOwner /\ Owner(r)'
  <2>1. pc[r] = "run"
    BY <1>3 DEF RunPaused, RunCompleted
  <2>2. tokens \in Nat /\ conv[r] \in Conversation /\ conv[r] # None
    BY <2>1, AtEngine, AmountAssumption, SomeCopy
  <2>3. /\ pc'[r] # "idle" /\ Others(r) /\ row' = row /\ messages' = messages
        /\ input'[r] = input[r] /\ conv'[r] \in {conv[r], AddMessageStats(conv[r], tokens)}
    BY <1>3 DEF RunPaused, RunCompleted, Paused, Completed, Stays, db
  <2>4. AddMessageStats(conv[r], tokens).UserID = conv[r].UserID
    BY <2>2, Counting
  <2>5. conv'[r].UserID = conv[r].UserID
    BY <2>3, <2>4
  <2> QED BY <2>2, <2>3, <2>5, OwnerGoesOn DEF Grows
<1>4. ASSUME NEW tokens \in Amount, NEW place \in Places,
             ResumePaused(r, tokens, place) \/ ResumeCompleted(r, tokens, place)
      PROVE  Others(r) /\ Grows(r) /\ SameOwner /\ Owner(r)'
  <2>1. pc[r] = "resume"
    BY <1>4 DEF ResumePaused, ResumeCompleted
  <2>2. tokens \in Nat /\ conv[r] \in Conversation /\ conv[r] # None
    BY <2>1, AtEngine, AmountAssumption, SomeCopy
  <2>3. /\ pc'[r] # "idle" /\ Others(r) /\ row' = row /\ messages' = messages
        /\ input'[r] = input[r]
        /\ \/ conv'[r] = AddMessageStats(conv[r], tokens)
           \/ conv'[r] = settled(r, AddMessageStats(conv[r], tokens))
    BY <1>4 DEF ResumePaused, ResumeCompleted, Paused, Completed, Stays, db
  <2>4. /\ AddMessageStats(conv[r], tokens) \in Conversation
        /\ AddMessageStats(conv[r], tokens).UserID = conv[r].UserID
    BY <2>2, Counting
  <2>5. settled(r, AddMessageStats(conv[r], tokens)).UserID = conv[r].UserID
    BY <2>4, Settling
  <2>6. conv'[r].UserID = conv[r].UserID
    BY <2>3, <2>4, <2>5
  <2> QED BY <2>2, <2>3, <2>6, OwnerGoesOn DEF Grows
<1>5. ASSUME NEW role \in {"user", "assistant"}, NEW place \in Places, Wrote(role, r, place)
      PROVE  Others(r) /\ Grows(r) /\ SameOwner /\ Owner(r)'
  <2>1. conv[r] # None /\ pc'[r] # "idle"
    BY <1>1, <1>5 DEF Wrote, afterReply, Placed, BeforeEngine, AfterEngine
  <2>2. /\ row' = row /\ conv'[r] = conv[r] /\ input'[r] = input[r] /\ Others(r) /\ Grows(r)
    BY <1>5 DEF Wrote, Stays, Grows
  <2> QED BY <2>1, <2>2, OwnerGoesOn
<1>6. ASSUME Persisted(r)
      PROVE  Others(r) /\ Grows(r) /\ SameOwner /\ Owner(r)'
  <2>1. /\ conv[r] # None /\ pc'[r] # "idle" /\ conv[r] \in Conversation
        /\ conv'[r] = RequestApproval(conv[r])
        /\ row' = [row EXCEPT !.paused_state = result[r].saved]
    BY <1>1, <1>6 DEF Persisted, Placed, AfterEngine, Seated
  <2>2. conv'[r].UserID = conv[r].UserID
    BY <2>1, Requesting
  <2>3. input'[r] = input[r] /\ Others(r) /\ Grows(r)
    BY <1>6 DEF Persisted, Stays, Grows
  <2> QED BY <2>1, <2>2, <2>3, OwnerGoesOn
<1>7. ASSUME NEW told \in Replies, Updated(r, told)
      PROVE  Others(r) /\ Grows(r) /\ SameOwner /\ Owner(r)'
  <2>1. /\ conv[r] # None /\ pc'[r] # "idle" /\ row' = conv[r] /\ conv'[r] = None
        /\ input'[r] = input[r] /\ Others(r) /\ Grows(r)
    BY <1>1, <1>7 DEF Updated, Placed, AfterEngine, Grows
  <2> QED BY <2>1, OwnerGoesOn
<1> QED BY <1>2, <1>3, <1>4, <1>5, <1>6, <1>7, OwnerEnters DEF Did

LEMMA OwnedStep == ASSUME Sound, Owned, Next PROVE Owned'
<1>1. PICK r \in Requests : Did(r)
  BY Doing
<1>2. Others(r) /\ Grows(r) /\ SameOwner /\ Owner(r)'
  BY <1>1, OwnerMoves
<1>3. ASSUME NEW q \in Requests \ {r} PROVE Owner(q)'
  BY <1>2, <1>3, OthersOwned
<1> QED BY <1>2, <1>3 DEF Owned

-----------------------------------------------------------------------------
(* The transcript                                                          *)

SamePlaces(q) == \A role \in {"user", "assistant"} : positions(role, q)' = positions(role, q)

LEMMA NoneWritten == ASSUME messages' = messages, NEW q PROVE SamePlaces(q)
BY DEF SamePlaces, positions

LEMMA OneWritten ==
    ASSUME Sound, NEW r \in Requests, NEW role \in {"user", "assistant"},
           messages' = Append(messages, [role |-> role, by |-> r])
    PROVE  /\ \A q \in Requests \ {r} : SamePlaces(q)
           /\ positions(role, r)' = positions(role, r) \cup {Len(messages) + 1}
           /\ \A other \in {"user", "assistant"} \ {role} :
                 positions(other, r)' = positions(other, r)
           /\ \A k \in positions("user", r) : k < Len(messages) + 1
<1>1. /\ Len(messages) \in Nat /\ DOMAIN messages = 1..Len(messages)
      /\ DOMAIN messages' = 1..(Len(messages) + 1)
      /\ \A k \in DOMAIN messages : messages'[k] = messages[k]
      /\ messages'[Len(messages) + 1].role = role
      /\ messages'[Len(messages) + 1].by = r
  BY OneMore
<1> DEFINE n == Len(messages)
<1> HIDE DEF n
<1>2. /\ n \in Nat /\ DOMAIN messages = 1..n /\ DOMAIN messages' = 1..(n + 1)
      /\ \A k \in 1..n : messages'[k] = messages[k]
      /\ messages'[n + 1].role = role /\ messages'[n + 1].by = r
  BY <1>1 DEF n
<1>3. 1..(n + 1) = (1..n) \cup {n + 1} /\ n + 1 \notin 1..n
  BY <1>2
<1>4. ASSUME NEW q, NEW ro, q # r \/ ro # role PROVE positions(ro, q)' = positions(ro, q)
  BY <1>2, <1>3, <1>4 DEF positions
<1>5. positions(role, r)' = positions(role, r) \cup {n + 1}
  BY <1>2, <1>3 DEF positions
<1>6. \A k \in positions("user", r) : k < n + 1
  BY <1>2 DEF positions
<1> QED BY <1>4, <1>5, <1>6 DEF SamePlaces, n

LEMMA OthersWritten ==
    ASSUME Sound, NEW r \in Requests, Others(r), Grows(r),
           NEW q \in Requests \ {r}, Written(q)
    PROVE  Written(q)'
<1>1. /\ pc'[q] = pc[q] /\ input'[q] = input[q] /\ result'[q] = result[q]
      /\ reply'[q] = reply[q]
  BY DEF Others
<1>2. SamePlaces(q)
  BY NoneWritten, OneWritten DEF Grows
<1>3. /\ positions("user", q)' = positions("user", q)
      /\ positions("assistant", q)' = positions("assistant", q)
  BY <1>2 DEF SamePlaces
<1> QED BY <1>1, <1>3 DEF Written, Once

\* r writes nothing: what its new place asks for was there already.
LEMMA NothingWritten ==
    ASSUME NEW r, Written(r), SamePlaces(r),
           pc'[r] \in {"idle", "save user message"} => pc[r] = "idle",
           pc'[r] \notin {"persist pause", "update", "done"} =>
              pc[r] \notin {"persist pause", "update", "done"},
           input'[r].op = "send" => pc[r] = "idle" \/ input[r].op = "send",
           input'[r].op = "send" /\ pc'[r] \in {"run"} \cup AfterEngine =>
              pc[r] \in {"run"} \cup AfterEngine,
           input'[r].op = "send" => pc'[r] # "update" \/ result'[r].kind = "paused",
           pc'[r] = "persist pause" /\ input'[r].op = "send" => pc[r] = "run",
           reply'[r] = "answered" =>
              pc[r] = "update" /\ input[r].op = "send" /\ result[r].kind # "paused"
    PROVE  Written(r)'
<1>1. /\ positions("user", r)' = positions("user", r)
      /\ positions("assistant", r)' = positions("assistant", r)
  BY DEF SamePlaces
<1>2. pc[r] = "idle" => positions("user", r) = {} /\ positions("assistant", r) = {}
  BY DEF Written
<1>3. Once("user", r)' /\ Once("assistant", r)'
  BY <1>1 DEF Written, Once
<1>4. pc[r] = "idle" => ~(pc[r] \in {"run"} \cup AfterEngine)
  BY DEF AfterEngine
<1> QED BY <1>1, <1>2, <1>3, <1>4 DEF Written, AfterEngine

\* What a client is told once its turn is over.
LEMMA Answering ==
    ASSUME NEW r, input[r].op \in Decisions \cup {"send"}
    PROVE  /\ answer(r) = "answered" => input[r].op = "send" /\ result[r].kind # "paused"
           /\ answer(r) = "pending_approval" <=> result[r].kind = "paused"
           /\ answer(r) \in {"approved", "rejected"} <=>
                 input[r].op \in Decisions /\ result[r].kind # "paused"
           /\ answer(r) \notin {"error", "none"}
<1>1. CASE result[r].kind = "paused"
  <2>1. answer(r) = "pending_approval"
    BY <1>1 DEF answer
  <2> QED BY <1>1, <2>1
<1>2. CASE result[r].kind # "paused" /\ input[r].op = "send"
  <2>1. answer(r) = "answered"
    BY <1>2 DEF answer
  <2> QED BY <1>2, <2>1 DEF Decisions
<1>3. CASE result[r].kind # "paused" /\ input[r].op = "approve"
  <2>1. answer(r) = "approved"
    BY <1>3 DEF answer
  <2> QED BY <1>3, <2>1 DEF Decisions
<1>4. CASE result[r].kind # "paused" /\ input[r].op = "reject"
  <2>1. answer(r) = "rejected"
    BY <1>4 DEF answer
  <2> QED BY <1>4, <2>1 DEF Decisions
<1> QED BY <1>1, <1>2, <1>3, <1>4 DEF Decisions

LEMMA WrittenMoves ==
    ASSUME Sound, NEW r \in Requests, Written(r), Did(r)
    PROVE  Written(r)'
<1>1. Placed(r)
  BY DEF Sound
<1>2. ASSUME NEW user \in Users, Entered(r, user) PROVE Written(r)'
  <2>1. PICK op, place, c :
            /\ Arrives(r, user, op, place, c)
            /\ place \in {"save user message", "resume", "get messages", "count", "done"}
            /\ reply'[r] \in {reply[r], "refused"}
    <3>1. CASE Created(r, user)
      BY <3>1 DEF Created
    <3>2. CASE Unlisted(r, user)
      BY <3>2 DEF Unlisted
    <3>3. ASSUME NEW op, Refused(r, user, op)
          PROVE  /\ Arrives(r, user, op, "done", None)
                 /\ reply'[r] \in {reply[r], "refused"}
      BY <3>3 DEF Refused
    <3>4. ASSUME NEW op, NEW place, Loaded(r, user, op, place)
          PROVE  /\ Arrives(r, user, op, place, row)
                 /\ place \in {"save user message", "resume", "get messages", "count"}
                 /\ reply'[r] \in {reply[r], "refused"}
      BY <3>4 DEF Loaded
    <3> QED BY <1>2, <3>1, <3>2, <3>3, <3>4 DEF Entered
  <2>2. pc[r] = "idle" /\ pc'[r] = place /\ messages' = messages
    BY <2>1 DEF Arrives
  <2>3. reply'[r] # "answered" /\ SamePlaces(r)
    BY <1>1, <2>1, <2>2, NoneWritten DEF Placed
  <2> QED BY <2>1, <2>2, <2>3, NothingWritten DEF AfterEngine
<1>3. ASSUME NEW told \in {"shown", "empty", "error"}, Ended(r, told) PROVE Written(r)'
  <2>1. pc'[r] = "done" /\ input'[r] = input[r] /\ reply'[r] = told /\ messages' = messages
    BY <1>3 DEF Ended, db
  <2>2. SamePlaces(r)
    BY <2>1, NoneWritten
  <2> QED BY <2>1, <2>2, NothingWritten DEF AfterEngine
<1>4. ASSUME NEW tokens \in Amount, RunPaused(r, tokens) \/ RunCompleted(r, tokens)
      PROVE  Written(r)'
  <2>1. /\ pc[r] = "run" /\ pc'[r] \in {"persist pause", "save reply"}
        /\ input'[r] = input[r] /\ reply'[r] = reply[r] /\ messages' = messages
    BY <1>4 DEF RunPaused, RunCompleted, Paused, Completed, Stays, db
  <2>2. SamePlaces(r) /\ reply[r] = "none"
    BY <1>1, <2>1, NoneWritten DEF Placed
  <2> QED BY <2>1, <2>2, NothingWritten DEF AfterEngine
<1>5. ASSUME NEW tokens \in Amount, NEW place \in Places,
             ResumePaused(r, tokens, place) \/ ResumeCompleted(r, tokens, place)
      PROVE  Written(r)'
  <2>1. /\ pc[r] = "resume" /\ pc'[r] \in AfterEngine
        /\ input'[r] = input[r] /\ reply'[r] = reply[r] /\ messages' = messages
    BY <1>5 DEF ResumePaused, ResumeCompleted, Paused, Completed, Stays, db, AfterEngine
  <2>2. SamePlaces(r) /\ reply[r] = "none" /\ input[r].op # "send"
    BY <1>1, <2>1, NoneWritten DEF Placed, Decisions
  <2> QED BY <2>1, <2>2, NothingWritten DEF AfterEngine
<1>6. ASSUME NEW place, Wrote("user", r, place) PROVE Written(r)'
  <2> DEFINE n == Len(messages)
  <2>1. /\ pc[r] = "save user message" /\ pc'[r] = "run" /\ result'[r] = result[r]
        /\ input'[r] = input[r] /\ reply'[r] = reply[r]
        /\ messages' = Append(messages, [role |-> "user", by |-> r])
    BY <1>6 DEF Wrote, Stays
  <2>2. positions("user", r) = {} /\ positions("assistant", r) = {} /\ reply[r] = "none"
    BY <1>1, <2>1 DEF Written, Placed
  <2>3. /\ positions("user", r)' = positions("user", r) \cup {n + 1}
        /\ positions("assistant", r)' = positions("assistant", r)
    BY <2>1, OneWritten
  <2> HIDE DEF n
  <2>4. positions("user", r)' = {n + 1} /\ positions("assistant", r)' = {}
    BY <2>2, <2>3
  <2>5. Once("user", r)' /\ Once("assistant", r)'
    BY <2>4 DEF Once
  <2> QED BY <2>1, <2>2, <2>4, <2>5 DEF Written
<1>7. ASSUME NEW place, Wrote("assistant", r, place) PROVE Written(r)'
  <2> DEFINE n == Len(messages)
  <2>1. /\ pc[r] = "save reply"
        /\ pc'[r] = IF result[r].kind = "paused" THEN "persist pause" ELSE "update"
        /\ input'[r] = input[r] /\ reply'[r] = reply[r] /\ result'[r] = result[r]
        /\ messages' = Append(messages, [role |-> "assistant", by |-> r])
    BY <1>7 DEF Wrote, Stays, afterReply
  <2>2. /\ positions("assistant", r) = {} /\ Once("user", r) /\ reply[r] = "none"
        /\ input[r].op = "send" => result[r].kind # "paused" /\ positions("user", r) # {}
    BY <1>1, <2>1 DEF Written, Placed, AfterEngine
  <2>3. /\ positions("user", r)' = positions("user", r)
        /\ positions("assistant", r)' = positions("assistant", r) \cup {n + 1}
        /\ \A k \in positions("user", r) : k < n + 1
    BY <2>1, OneWritten
  <2> HIDE DEF n
  <2>4. positions("assistant", r)' = {n + 1}
    BY <2>2, <2>3
  <2>5. Once("user", r)' /\ Once("assistant", r)'
    BY <2>2, <2>3, <2>4 DEF Once
  <2>6. input[r].op = "send" => \E j \in positions("user", r)' : j < n + 1
    BY <2>2, <2>3
  <2> QED BY <2>1, <2>2, <2>3, <2>4, <2>5, <2>6 DEF Written
<1>8. ASSUME Persisted(r) PROVE Written(r)'
  <2>1. /\ pc[r] = "persist pause" /\ pc'[r] = "update" /\ input'[r] = input[r]
        /\ reply'[r] = reply[r] /\ result'[r] = result[r] /\ messages' = messages
    BY <1>8 DEF Persisted, Stays
  <2>2. SamePlaces(r) /\ reply[r] = "none" /\ result[r].kind = "paused"
    BY <1>1, <2>1, NoneWritten DEF Placed
  <2> QED BY <2>1, <2>2, NothingWritten DEF AfterEngine
<1>9. ASSUME NEW told \in Replies, Updated(r, told) PROVE Written(r)'
  <2>1. /\ pc[r] = "update" /\ pc'[r] = "done" /\ input'[r] = input[r]
        /\ reply'[r] = told /\ told \in {answer(r), "error"} /\ messages' = messages
    BY <1>9 DEF Updated
  <2>2. SamePlaces(r) /\ input[r].op \in Decisions \cup {"send"}
    BY <1>1, <2>1, NoneWritten DEF Placed, AfterEngine
  <2>3. told = "answered" => input[r].op = "send" /\ result[r].kind # "paused"
    BY <2>1, <2>2, Answering
  <2> QED BY <2>1, <2>2, <2>3, NothingWritten DEF AfterEngine
<1> QED BY <1>2, <1>3, <1>4, <1>5, <1>6, <1>7, <1>8, <1>9 DEF Did

AllWritten == \A r \in Requests : Written(r)

LEMMA WrittenStep == ASSUME Sound, Owned, AllWritten, Next PROVE AllWritten'
<1>1. PICK r \in Requests : Did(r)
  BY Doing
<1>2. Others(r) /\ Grows(r)
  BY <1>1, OwnerMoves
<1>3. Written(r)'
  BY <1>1, WrittenMoves DEF AllWritten
<1>4. ASSUME NEW q \in Requests \ {r} PROVE Written(q)'
  BY <1>2, <1>4, OthersWritten DEF AllWritten
<1> QED BY <1>3, <1>4 DEF AllWritten

-----------------------------------------------------------------------------
(* The statistics, and what a pending row is pending on                    *)

LEMMA FairLater ==
    ASSUME NEW c \in Conversation, NEW b \in BOOLEAN, NEW d \in BOOLEAN, d => b,
           NEW m \in Nat, NEW n \in Nat, m <= n,
           NEW t \in Nat, NEW u \in Nat, t <= u, NEW p \in Nat, NEW q \in Nat, p <= q,
           Fair(c, b, m, t, p)
    PROVE  Fair(c, d, n, u, q)
<1>1. c.MessageCount \in Nat /\ c.TotalTokens \in Nat
  BY DEF Conversation
<1> QED BY <1>1 DEF Fair

LEMMA Numbers ==
    ASSUME Sound, Sound'
    PROVE  /\ turns \in Nat /\ turns' \in Nat /\ spent \in Nat /\ spent' \in Nat
           /\ Len(pauses) \in Nat /\ Len(pauses') \in Nat
           /\ HandedOnOnce \in BOOLEAN /\ HandedOnOnce' \in BOOLEAN
<1>1. /\ pauses \in Seq([tokens : Amount, tools : Amount])
      /\ pauses' \in Seq([tokens : Amount, tools : Amount])
      /\ turns \in Nat /\ turns' \in Nat /\ spent \in Nat /\ spent' \in Nat
  BY DEF Sound, TypeOK
<1>2. HandedOnOnce \in BOOLEAN /\ HandedOnOnce' \in BOOLEAN
  BY DEF HandedOnOnce
<1> QED BY <1>1, <1>2

\* What was handed on stays so; turns, tokens and saved states only grow.
Later ==
    /\ HandedOnOnce' => HandedOnOnce
    /\ turns' >= turns /\ spent' >= spent /\ Len(pauses') >= Len(pauses)

LEMMA FairStays ==
    ASSUME Sound, Sound', Later, NEW c \in Conversation,
           Fair(c, HandedOnOnce, turns, spent, Len(pauses))
    PROVE  Fair(c, HandedOnOnce', turns', spent', Len(pauses'))
<1>1. /\ turns \in Nat /\ turns' \in Nat /\ spent \in Nat /\ spent' \in Nat
      /\ Len(pauses) \in Nat /\ Len(pauses') \in Nat
      /\ HandedOnOnce \in BOOLEAN /\ HandedOnOnce' \in BOOLEAN
  BY Numbers
<1>2. /\ HandedOnOnce' => HandedOnOnce
      /\ turns <= turns' /\ spent <= spent' /\ Len(pauses) <= Len(pauses')
  BY <1>1 DEF Later
<1> QED BY <1>1, <1>2, FairLater

\* Nothing is handed on while the engine is not called.
LEMMA QuietLater ==
    ASSUME Sound, Sound', pauses' = pauses, decided' = decided, ledger' = ledger
    PROVE  Later
<1>1. turns' = turns /\ spent' = spent /\ again' = again
  BY DEF ledger
<1>2. HandedOnOnce' => HandedOnOnce
  BY <1>1 DEF HandedOnOnce, passedOn
<1> QED BY <1>1, <1>2, Numbers DEF Later

\* What was handed on is not forgotten.
LEMMA HandedOnStays ==
    ASSUME Sound, Sound', Len(pauses') >= Len(pauses), again \subseteq again',
           \A j \in DOMAIN pauses : decided'[j] >= decided[j]
    PROVE  HandedOnOnce' => HandedOnOnce
<1> SUFFICES ASSUME HandedOnOnce', NEW j \in DOMAIN pauses PROVE passedOn(j) <= 1
  BY DEF HandedOnOnce
<1>1. /\ pauses \in Seq([tokens : Amount, tools : Amount]) /\ decided \in Seq(Nat)
      /\ pauses' \in Seq([tokens : Amount, tools : Amount]) /\ decided' \in Seq(Nat)
      /\ Len(decided) = Len(pauses) /\ Len(decided') = Len(pauses')
  BY DEF Sound, TypeOK
<1>2. /\ DOMAIN pauses = 1..Len(pauses) /\ DOMAIN pauses' = 1..Len(pauses')
      /\ Len(pauses) \in Nat /\ Len(pauses') \in Nat
  BY <1>1
<1>3. j \in 1..Len(decided) /\ j \in 1..Len(decided') /\ j \in DOMAIN pauses'
  BY <1>1, <1>2
<1>4. decided[j] \in Nat /\ decided'[j] \in Nat
  BY <1>1, <1>3, ElementOfSeq
<1>5. passedOn(j)' <= 1
  BY <1>3 DEF HandedOnOnce
<1> QED BY <1>4, <1>5 DEF passedOn

\* A Resume hands on the costs it starts from; if that is the first time, its turn
\* is a new one in the ledger.
LEMMA HandingOn ==
    ASSUME Sound, Sound', NEW k, k \in 1..Len(pauses), Len(pauses') >= Len(pauses),
           again \subseteq again', decided'[k] = decided[k] + 1, NEW tokens \in Nat,
           Charged(k, tokens)
    PROVE  /\ turns' >= turns /\ spent' >= spent
           /\ HandedOnOnce' => turns' = turns + 1 /\ spent' = spent + tokens
<1>1. /\ pauses \in Seq([tokens : Amount, tools : Amount]) /\ decided \in Seq(Nat)
      /\ pauses' \in Seq([tokens : Amount, tools : Amount])
      /\ Len(decided) = Len(pauses)
  BY DEF Sound, TypeOK
<1>2. /\ k \in 1..Len(decided) /\ k \in DOMAIN pauses'
      /\ pauses[k] \in [tokens : Amount, tools : Amount]
  <2>1. /\ DOMAIN pauses' = 1..Len(pauses') /\ Len(pauses) \in Nat /\ Len(pauses') \in Nat
    BY <1>1
  <2>2. pauses[k] \in [tokens : Amount, tools : Amount]
    BY <1>1, ElementOfSeq
  <2> QED BY <1>1, <2>1, <2>2
<1>3. decided[k] \in Nat /\ pauses[k].tokens \in Nat
  BY <1>1, <1>2, ElementOfSeq, AmountAssumption
<1>4. passedOn(k) \in Nat
  BY <1>3 DEF passedOn
<1>5. turns \in Nat /\ spent \in Nat
  BY Numbers
<1>6. HandedOnOnce' => passedOn(k) = 0
  <2> SUFFICES ASSUME HandedOnOnce' PROVE passedOn(k) = 0
    OBVIOUS
  <2>1. passedOn(k)' <= 1
    BY <1>2 DEF HandedOnOnce
  <2> QED BY <1>3, <2>1 DEF passedOn
<1>7. /\ pauses[k].tokens <= tokens
      /\ turns' = turns + IF passedOn(k) = 0 THEN 1 ELSE 0
      /\ spent' = spent + tokens - IF passedOn(k) = 0 THEN 0 ELSE pauses[k].tokens
  BY DEF Charged
<1>8. CASE passedOn(k) = 0
  BY <1>5, <1>7, <1>8
<1>9. CASE passedOn(k) # 0
  BY <1>3, <1>5, <1>6, <1>7, <1>9
<1> QED BY <1>8, <1>9

\* The counts stay right when only r's copy, or the row, is another.
LEMMA CountsKept ==
    ASSUME Sound, Sound', Counts, Later, NEW r \in Requests, Others(r),
           conv'[r] # None => Fair(conv'[r], HandedOnOnce', turns', spent', Len(pauses')),
           row' # None =>
               row' = row \/ Fair(row', HandedOnOnce', turns', spent', Len(pauses'))
    PROVE  Counts'
<1>2. row' # None => Fair(row', HandedOnOnce', turns', spent', Len(pauses'))
  BY FairStays DEF Counts, Sound, TypeOK
<1>3. ASSUME NEW q \in Requests, conv'[q] # None
      PROVE  Fair(conv'[q], HandedOnOnce', turns', spent', Len(pauses'))
  <2>1. CASE q = r
    BY <1>3, <2>1
  <2>2. CASE q # r
    <3>1. conv'[q] = conv[q] /\ conv[q] \in Conversation
      BY <1>3, <2>2 DEF Others, Sound, TypeOK
    <3>2. Fair(conv[q], HandedOnOnce, turns, spent, Len(pauses))
      BY <1>3, <3>1 DEF Counts
    <3> QED BY <3>1, <3>2, FairStays
  <2> QED BY <2>1, <2>2
<1> QED BY <1>2, <1>3 DEF Counts

LEMMA CountsEnter ==
    ASSUME Sound, Sound', Counts, NEW r \in Requests, NEW user \in Users, Entered(r, user)
    PROVE  Counts'
<1>1. ASSUME NEW op, NEW place, NEW c, Arrives(r, user, op, place, c)
      PROVE  Others(r) /\ Later /\ conv'[r] = c
  <2>1. /\ Others(r) /\ conv'[r] = c
        /\ pauses' = pauses /\ decided' = decided /\ ledger' = ledger
    BY <1>1 DEF Arrives, engine
  <2> QED BY <2>1, QuietLater
<1>2. CASE Created(r, user)
  <2>1. row = None /\ row' = NewConversation(user)
        /\ Arrives(r, user, "send", "save user message", row')
    BY <1>2 DEF Created
  <2>2. Others(r) /\ Later /\ conv'[r] = row'
    BY <1>1, <2>1
  <2>3. Fair(row', HandedOnOnce', turns', spent', Len(pauses'))
    <3>1. turns' \in Nat /\ spent' \in Nat
      BY <2>2, Numbers
    <3>2. ~IsPendingApproval(row') /\ row'.MessageCount = 0 /\ row'.TotalTokens = 0
      BY <2>1, Creating
    <3> QED BY <3>1, <3>2 DEF Fair
  <2> QED BY <2>2, <2>3, CountsKept
<1>3. CASE Unlisted(r, user)
  <2>1. row' = row /\ Arrives(r, user, "list", "count", None)
    BY <1>3 DEF Unlisted
  <2>2. Others(r) /\ Later /\ conv'[r] = None
    BY <1>1, <2>1
  <2> QED BY <2>1, <2>2, CountsKept
<1>4. ASSUME NEW op, Refused(r, user, op) PROVE Counts'
  <2>1. row' = row /\ Arrives(r, user, op, "done", None)
    BY <1>4 DEF Refused
  <2>2. Others(r) /\ Later /\ conv'[r] = None
    BY <1>1, <2>1
  <2> QED BY <2>1, <2>2, CountsKept
<1>5. ASSUME NEW op, NEW place, Loaded(r, user, op, place) PROVE Counts'
  <2>1. row' = row /\ row # None /\ Arrives(r, user, op, place, row)
    BY <1>5 DEF Loaded
  <2>2. Others(r) /\ Later /\ conv'[r] = row
    BY <1>1, <2>1
  <2>3. row \in Conversation /\ Fair(row, HandedOnOnce, turns, spent, Len(pauses))
    BY <2>1 DEF Counts, Sound, TypeOK
  <2>4. Fair(row, HandedOnOnce', turns', spent', Len(pauses'))
    BY <2>2, <2>3, FairStays
  <2> QED BY <2>1, <2>2, <2>4, CountsKept
<1> QED BY <1>2, <1>3, <1>4, <1>5 DEF Entered

\* A copy, before and after the engine returned.
LEMMA FairCounting ==
    ASSUME Sound, Sound', Later, NEW c \in Conversation, NEW tokens \in Nat,
           Fair(c, HandedOnOnce, turns, spent, Len(pauses)),
           HandedOnOnce' => turns' = turns + 1 /\ spent' = spent + tokens
    PROVE  LET d == AddMessageStats(c, tokens)
           IN  /\ Fair(d, HandedOnOnce', turns', spent', Len(pauses'))
               /\ \A r : Fair(settled(r, d), HandedOnOnce', turns', spent', Len(pauses'))
<1> DEFINE d == AddMessageStats(c, tokens)
<1>1. /\ d \in Conversation /\ d.Status = c.Status /\ d.pending_approval = c.pending_approval
      /\ d.MessageCount = c.MessageCount + 1 /\ d.TotalTokens = c.TotalTokens + tokens
      /\ c.MessageCount \in Nat /\ c.TotalTokens \in Nat
  <2>1. c.MessageCount \in Nat /\ c.TotalTokens \in Nat
    BY DEF Conversation
  <2>2. ASSUME NEW e, e = AddMessageStats(c, tokens)
        PROVE  /\ e \in Conversation /\ e.Status = c.Status
               /\ e.pending_approval = c.pending_approval
               /\ e.MessageCount = c.MessageCount + 1 /\ e.TotalTokens = c.TotalTokens + tokens
    BY <2>2, Counting
  <2> QED BY <2>1, <2>2
<1> HIDE DEF d
<1>2. /\ turns \in Nat /\ spent \in Nat /\ Len(pauses) \in Nat /\ Len(pauses') \in Nat
      /\ Len(pauses) <= Len(pauses') /\ (HandedOnOnce' => HandedOnOnce)
  BY Numbers DEF Later
<1>3. /\ HandedOnOnce => c.MessageCount <= turns /\ c.TotalTokens <= spent
      /\ c.Status = "pending_approval" => c.pending_approval /\ Len(pauses) > 0
  BY DEF Fair, IsPendingApproval
<1>4. HandedOnOnce' => d.MessageCount <= turns' /\ d.TotalTokens <= spent'
  BY <1>1, <1>2, <1>3
<1>5. Fair(d, HandedOnOnce', turns', spent', Len(pauses'))
  <2>1. d.Status = "pending_approval" => d.pending_approval /\ Len(pauses') > 0
    BY <1>1, <1>2, <1>3
  <2> QED BY <1>4, <2>1 DEF Fair, IsPendingApproval
<1>6. ASSUME NEW r PROVE Fair(settled(r, d), HandedOnOnce', turns', spent', Len(pauses'))
  <2> DEFINE e == settled(r, d)
  <2>1. /\ ~IsPendingApproval(e) /\ e.MessageCount = d.MessageCount
        /\ e.TotalTokens = d.TotalTokens
    BY <1>1, Settling
  <2> HIDE DEF e
  <2>2. Fair(e, HandedOnOnce', turns', spent', Len(pauses'))
    BY <1>4, <2>1 DEF Fair
  <2> QED BY <2>2 DEF e
<1> QED BY <1>5, <1>6 DEF d

LEMMA MoreSaved ==
    ASSUME Sound, NEW r \in Requests, NEW tokens \in Amount,
           \E place, c : Paused(r, tokens, place, c) \/ Completed(r, tokens, place, c)
    PROVE  Len(pauses') >= Len(pauses)
<1>1. PICK place, c : Paused(r, tokens, place, c) \/ Completed(r, tokens, place, c)
  OBVIOUS
<1>2. /\ Len(pauses) \in Nat
      /\ Len(pauses') = Len(pauses) \/ Len(pauses') = Len(pauses) + 1
  BY <1>1, AfterPause, AfterCompletion
<1> QED BY <1>2

LEMMA RunsLater ==
    ASSUME Sound, Sound', NEW r \in Requests, NEW tokens \in Amount,
           RunPaused(r, tokens) \/ RunCompleted(r, tokens)
    PROVE  Later
<1>1. /\ turns \in Nat /\ spent \in Nat /\ tokens \in Nat /\ Len(pauses) \in Nat
      /\ decided \in Seq(Nat) /\ Len(decided) = Len(pauses)
      /\ DOMAIN pauses = 1..Len(pauses)
  <2>1. /\ pauses \in Seq([tokens : Amount, tools : Amount]) /\ decided \in Seq(Nat)
        /\ Len(decided) = Len(pauses) /\ turns \in Nat /\ spent \in Nat
    BY DEF Sound, TypeOK
  <2> QED BY <2>1, AmountAssumption
<1>2. /\ again' = again /\ turns' >= turns /\ spent' >= spent
      /\ decided' = decided \/ decided' = Append(decided, 0)
      /\ \E place, c : Paused(r, tokens, place, c) \/ Completed(r, tokens, place, c)
  <2>1. CASE RunPaused(r, tokens)
    <3>1. Paused(r, tokens, "persist pause", conv[r])
      BY <2>1 DEF RunPaused
    <3>2. \E place, c : Paused(r, tokens, place, c)
      BY <3>1
    <3>3. /\ decided' = Append(decided, 0)
          /\ again' = again /\ turns' = turns /\ spent' = spent
      BY <2>1 DEF RunPaused
    <3> QED BY <1>1, <3>2, <3>3
  <2>2. CASE RunCompleted(r, tokens)
    <3>1. Completed(r, tokens, "save reply", AddMessageStats(conv[r], tokens))
      BY <2>2 DEF RunCompleted
    <3>2. \E place, c : Completed(r, tokens, place, c)
      BY <3>1
    <3>3. /\ decided' = decided
          /\ again' = again /\ turns' = turns + 1 /\ spent' = spent + tokens
      BY <2>2 DEF RunCompleted
    <3> QED BY <1>1, <3>2, <3>3
  <2> QED BY <2>1, <2>2
<1>3. Len(pauses') >= Len(pauses)
  BY <1>2, MoreSaved
<1>4. ASSUME NEW j \in DOMAIN pauses PROVE decided'[j] >= decided[j]
  <2>1. j \in 1..Len(decided)
    BY <1>1
  <2>2. decided[j] \in Nat
    BY <1>1, <2>1, ElementOfSeq
  <2>3. Append(decided, 0)[j] = decided[j]
    BY <1>1, <2>1, AppendProperties
  <2>4. decided'[j] = decided[j]
    BY <1>2, <2>3
  <2> QED BY <2>2, <2>4
<1>5. HandedOnOnce' => HandedOnOnce
  BY <1>2, <1>3, <1>4, HandedOnStays
<1> QED BY <1>2, <1>3, <1>5 DEF Later

LEMMA ResumesLater ==
    ASSUME Sound, Sound', NEW r \in Requests, NEW tokens \in Amount, NEW place,
           ResumePaused(r, tokens, place) \/ ResumeCompleted(r, tokens, place)
    PROVE  /\ Later
           /\ HandedOnOnce' => turns' = turns + 1 /\ spent' = spent + tokens
<1> DEFINE k == conv[r].paused_state
           d == [decided EXCEPT ![k] = @ + 1]
<1>1. /\ tokens \in Nat /\ decided \in Seq(Nat) /\ Len(decided) = Len(pauses)
      /\ DOMAIN pauses = 1..Len(pauses) /\ Len(pauses) \in Nat
  <2>1. /\ pauses \in Seq([tokens : Amount, tools : Amount]) /\ decided \in Seq(Nat)
        /\ Len(decided) = Len(pauses)
    BY DEF Sound, TypeOK
  <2> QED BY <2>1, AmountAssumption
<1>2. k \in 1..Len(pauses)
  BY Resumable DEF ResumePaused, ResumeCompleted
<1>3. /\ again \subseteq again' /\ Charged(k, tokens)
      /\ decided' = d \/ decided' = Append(d, 0)
      /\ \E p, c : Paused(r, tokens, p, c) \/ Completed(r, tokens, p, c)
  BY DEF ResumePaused, ResumeCompleted
<1>4. Len(pauses') >= Len(pauses)
  BY <1>3, MoreSaved
<1>5. /\ d \in Seq(Nat) /\ Len(d) = Len(decided)
  <2>1. decided[k] + 1 \in Nat
    BY <1>1, <1>2
  <2> QED BY <1>1, <1>2, <2>1, ExceptSeq
<1>6. ASSUME NEW j \in 1..Len(decided)
      PROVE  decided[j] \in Nat /\ d[j] = IF j = k THEN decided[j] + 1 ELSE decided[j]
  <2>1. decided[j] \in Nat
    BY <1>1, ElementOfSeq
  <2>2. j \in DOMAIN decided
    BY <1>1
  <2> QED BY <2>1, <2>2
<1>7. ASSUME NEW j \in 1..Len(decided)
      PROVE  decided'[j] = IF j = k THEN decided[j] + 1 ELSE decided[j]
  <2>1. d[j] = IF j = k THEN decided[j] + 1 ELSE decided[j]
    BY <1>6
  <2> HIDE DEF d
  <2>2. Append(d, 0)[j] = d[j]
    BY <1>5, AppendProperties
  <2> QED BY <1>3, <2>1, <2>2
<1> HIDE DEF d, k
<1>8. \A j \in DOMAIN pauses : decided'[j] >= decided[j]
  BY <1>1, <1>6, <1>7
<1>9. HandedOnOnce' => HandedOnOnce
  BY <1>3, <1>4, <1>8, HandedOnStays
<1>10. decided'[k] = decided[k] + 1
  BY <1>1, <1>2, <1>7
<1>11. /\ turns' >= turns /\ spent' >= spent
       /\ HandedOnOnce' => turns' = turns + 1 /\ spent' = spent + tokens
  BY <1>1, <1>2, <1>3, <1>4, <1>10, HandingOn
<1> QED BY <1>4, <1>9, <1>11 DEF Later

LEMMA CountsEngine ==
    ASSUME Sound, Sound', Counts, NEW r \in Requests, NEW tokens \in Amount,
           \/ RunPaused(r, tokens) \/ RunCompleted(r, tokens)
           \/ \E place \in Places :
                 ResumePaused(r, tokens, place) \/ ResumeCompleted(r, tokens, place)
    PROVE  Counts'
<1>1. pc[r] \in {"run", "resume"} /\ tokens \in Nat
  BY AmountAssumption DEF RunPaused, RunCompleted, ResumePaused, ResumeCompleted
<1>2. /\ conv[r] \in Conversation /\ conv[r] # None
      /\ Fair(conv[r], HandedOnOnce, turns, spent, Len(pauses))
  BY <1>1, AtEngine, SomeCopy DEF Counts
<1>3. ASSUME NEW place, NEW c, Paused(r, tokens, place, c) \/ Completed(r, tokens, place, c)
      PROVE  Others(r) /\ row' = row /\ conv'[r] = c
  BY <1>3 DEF Paused, Completed, db
<1>4. CASE RunPaused(r, tokens)
  <2>1. Others(r) /\ row' = row /\ conv'[r] = conv[r]
    BY <1>3, <1>4 DEF RunPaused
  <2>2. Later
    BY <1>4, RunsLater
  <2>3. Fair(conv'[r], HandedOnOnce', turns', spent', Len(pauses'))
    BY <1>2, <2>1, <2>2, FairStays
  <2> QED BY <2>1, <2>2, <2>3, CountsKept
<1>5. CASE RunCompleted(r, tokens)
  <2>1. /\ Others(r) /\ row' = row /\ conv'[r] = AddMessageStats(conv[r], tokens)
        /\ turns' = turns + 1 /\ spent' = spent + tokens
    BY <1>3, <1>5 DEF RunCompleted
  <2>2. Later
    BY <1>5, RunsLater
  <2>3. Fair(conv'[r], HandedOnOnce', turns', spent', Len(pauses'))
    BY <1>1, <1>2, <2>1, <2>2, FairCounting
  <2> QED BY <2>1, <2>2, <2>3, CountsKept
<1>6. ASSUME NEW place \in Places, ResumePaused(r, tokens, place) PROVE Counts'
  <2>1. Others(r) /\ row' = row /\ conv'[r] = AddMessageStats(conv[r], tokens)
    BY <1>3, <1>6 DEF ResumePaused
  <2>2. Later /\ (HandedOnOnce' => turns' = turns + 1 /\ spent' = spent + tokens)
    BY <1>6, ResumesLater
  <2>3. Fair(conv'[r], HandedOnOnce', turns', spent', Len(pauses'))
    BY <1>1, <1>2, <2>1, <2>2, FairCounting
  <2> QED BY <2>1, <2>2, <2>3, CountsKept
<1>7. ASSUME NEW place \in Places, ResumeCompleted(r, tokens, place) PROVE Counts'
  <2>1. /\ Others(r) /\ row' = row
        /\ conv'[r] = settled(r, AddMessageStats(conv[r], tokens))
    BY <1>3, <1>7 DEF ResumeCompleted
  <2>2. Later /\ (HandedOnOnce' => turns' = turns + 1 /\ spent' = spent + tokens)
    BY <1>7, ResumesLater
  <2>3. Fair(conv'[r], HandedOnOnce', turns', spent', Len(pauses'))
    BY <1>1, <1>2, <2>1, <2>2, FairCounting
  <2> QED BY <2>1, <2>2, <2>3, CountsKept
<1> QED BY <1>4, <1>5, <1>6, <1>7

LEMMA CountsPersist ==
    ASSUME Sound, Sound', Counts, NEW r \in Requests, Persisted(r)
    PROVE  Counts'
<1>1. /\ pc[r] = "persist pause" /\ input'[r] = input[r] /\ result'[r] = result[r]
      /\ conv'[r] = RequestApproval(conv[r]) /\ Others(r)
      /\ row' = [row EXCEPT !.paused_state = result[r].saved]
      /\ pauses' = pauses /\ decided' = decided /\ ledger' = ledger
  BY DEF Persisted, Stays, engine
<1>2. Later
  BY <1>1, QuietLater
<1>3. /\ conv[r] \in Conversation /\ conv[r] # None /\ row \in Conversation /\ row # None
      /\ result[r].saved \in 0..Len(pauses) /\ result[r].saved # 0
  <2>1. Seated(r) /\ Shared
    BY SoundParts
  <2>2. conv[r] # None /\ result[r].saved # 0
    BY <1>1, <2>1 DEF Seated, Placed, AfterEngine
  <2> QED BY <2>1, <2>2 DEF Seated, Shared
<1>4. Len(pauses) > 0
  BY <1>3, Numbers
<1>5. Fair(conv'[r], HandedOnOnce', turns', spent', Len(pauses'))
  <2>1. Fair(conv[r], HandedOnOnce, turns, spent, Len(pauses))
    BY <1>3 DEF Counts
  <2>2. Fair(conv[r], HandedOnOnce', turns', spent', Len(pauses'))
    BY <1>2, <1>3, <2>1, FairStays
  <2>3. /\ conv'[r].pending_approval /\ conv'[r].MessageCount = conv[r].MessageCount
        /\ conv'[r].TotalTokens = conv[r].TotalTokens
    BY <1>1, <1>3, Requesting
  <2> QED BY <1>1, <1>4, <2>2, <2>3 DEF Fair
<1>6. Fair(row', HandedOnOnce', turns', spent', Len(pauses'))
  <2>1. Fair(row, HandedOnOnce', turns', spent', Len(pauses'))
    BY <1>2, <1>3, FairStays DEF Counts
  <2>2. /\ row'.Status = row.Status /\ row'.pending_approval = row.pending_approval
        /\ row'.MessageCount = row.MessageCount /\ row'.TotalTokens = row.TotalTokens
    BY <1>1, <1>3 DEF Conversation
  <2> QED BY <2>1, <2>2 DEF Fair, IsPendingApproval
<1> QED BY <1>1, <1>2, <1>5, <1>6, CountsKept

LEMMA CountsStep == ASSUME Sound, Sound', Counts, Next PROVE Counts'
<1>1. PICK r \in Requests : Did(r)
  BY Doing
<1>2. ASSUME NEW user \in Users, Entered(r, user) PROVE Counts'
  BY <1>2, CountsEnter
<1>3. ASSUME NEW told \in {"shown", "empty", "error"}, Ended(r, told) PROVE Counts'
  <2>1. /\ input'[r] = input[r] /\ result'[r] = result[r] /\ conv'[r] = None /\ row' = row
        /\ Others(r) /\ pauses' = pauses /\ decided' = decided /\ ledger' = ledger
    BY <1>3 DEF Ended, db, engine
  <2>2. Later
    BY <2>1, QuietLater
  <2> QED BY <2>1, <2>2, CountsKept
<1>4. ASSUME NEW tokens \in Amount,
             \/ RunPaused(r, tokens) \/ RunCompleted(r, tokens)
             \/ \E place \in Places :
                   ResumePaused(r, tokens, place) \/ ResumeCompleted(r, tokens, place)
      PROVE  Counts'
  BY <1>4, CountsEngine
<1>5. ASSUME NEW role \in {"user", "assistant"}, NEW place \in Places, Wrote(role, r, place)
      PROVE  Counts'
  <2>1. /\ input'[r] = input[r] /\ result'[r] = result[r] /\ conv'[r] = conv[r] /\ row' = row
        /\ Others(r) /\ pauses' = pauses /\ decided' = decided /\ ledger' = ledger
    BY <1>5 DEF Wrote, Stays, engine
  <2>2. Later
    BY <2>1, QuietLater
  <2>3. conv'[r] # None => Fair(conv'[r], HandedOnOnce', turns', spent', Len(pauses'))
    BY <2>1, <2>2, FairStays DEF Counts, Sound, TypeOK
  <2> QED BY <2>1, <2>2, <2>3, CountsKept
<1>6. ASSUME Persisted(r) PROVE Counts'
  BY <1>6, CountsPersist
<1>7. ASSUME NEW told \in Replies, Updated(r, told) PROVE Counts'
  <2>1. /\ pc[r] = "update" /\ input'[r] = input[r] /\ result'[r] = result[r]
        /\ conv'[r] = None /\ row' = conv[r]
        /\ Others(r) /\ pauses' = pauses /\ decided' = decided /\ ledger' = ledger
    BY <1>7 DEF Updated, engine
  <2>2. Later
    BY <2>1, QuietLater
  <2>3. conv[r] \in Conversation /\ Fair(conv[r], HandedOnOnce, turns, spent, Len(pauses))
    BY <2>1 DEF Counts, Sound, Placed, TypeOK, AfterEngine
  <2>4. Fair(row', HandedOnOnce', turns', spent', Len(pauses'))
    BY <2>1, <2>2, <2>3, FairStays
  <2> QED BY <2>1, <2>2, <2>4, CountsKept
<1> QED BY <1>1, <1>2, <1>3, <1>4, <1>5, <1>6, <1>7 DEF Did

-----------------------------------------------------------------------------
Consistent == Sound /\ Owned /\ AllWritten /\ Counts

LEMMA ConsistentInit == Init => Consistent
<1> SUFFICES ASSUME Init PROVE Consistent
  OBVIOUS
<1>1. Sound
  BY SoundInit
<1>2. /\ row = None /\ messages = <<>> /\ pauses = <<>> /\ DOMAIN messages = {}
      /\ \A r \in Requests : /\ pc[r] = "idle" /\ conv[r] = None /\ result[r] = NoResult
                             /\ reply[r] = "none" /\ input[r] = NoInput
  BY DEF Init
<1>3. Owned
  BY <1>2 DEF Owned, Owner, Acting, HasMessage
<1>4. AllWritten
  <2>1. ASSUME NEW r \in Requests
        PROVE  positions("user", r) = {} /\ positions("assistant", r) = {}
    BY <1>2 DEF positions
  <2> QED BY <1>2, <2>1 DEF AllWritten, Written, Once, AfterEngine
<1>5. Counts
  BY <1>2 DEF Counts
<1> QED BY <1>1, <1>3, <1>4, <1>5 DEF Consistent

LEMMA ConsistentStep == Consistent /\ [Next]_vars => Consistent'
<1>1. ASSUME Consistent, Next PROVE Consistent'
  BY <1>1, SoundStep, OwnedStep, WrittenStep, CountsStep DEF Consistent
<1>2. ASSUME Consistent, UNCHANGED vars PROVE Consistent'
  <2>1. /\ row' = row /\ messages' = messages /\ pauses' = pauses /\ pc' = pc
        /\ input' = input /\ conv' = conv /\ result' = result /\ reply' = reply
        /\ decided' = decided /\ ledger' = ledger
    BY <1>2 DEF vars, db, engine
  <2>2. Sound'
    BY <1>2, SoundStutter DEF Consistent
  <2>3. Owned'
    BY <1>2, <2>1 DEF Consistent, Owned, Owner, Acting, HasMessage
  <2>4. ASSUME NEW r \in Requests PROVE Written(r)'
    <3>1. /\ positions("user", r)' = positions("user", r)
          /\ positions("assistant", r)' = positions("assistant", r)
      BY <2>1 DEF positions
    <3>2. Written(r)
      BY <1>2 DEF Consistent, AllWritten
    <3> QED BY <2>1, <3>1, <3>2 DEF Written, Once
  <2>5. turns' = turns /\ spent' = spent /\ HandedOnOnce' = HandedOnOnce
    BY <2>1 DEF ledger, HandedOnOnce, passedOn
  <2>6. Counts'
    BY <1>2, <2>1, <2>5 DEF Consistent, Counts
  <2> QED BY <2>2, <2>3, <2>4, <2>6 DEF Consistent, AllWritten
<1> QED BY <1>1, <1>2

LEMMA AlwaysConsistent == Spec => []Consistent
BY ConsistentInit, ConsistentStep, PTL DEF Spec

\* A workflow state in a row, or on its way into one, is one the engine saved,
\* and nothing ever leaves its type.
THEOREM Typing == Spec => []TypeOK
<1>1. Consistent => TypeOK
  BY DEF Consistent, Sound
<1> QED BY <1>1, AlwaysConsistent, PTL

\* Ownership: the conversation never changes hands, no message in it comes from
\* anybody else, and nobody else is shown it or has the engine run on it.
THEOREM OwnerOnly == Spec => []OnlyOwnerActs
<1>1. ASSUME Consistent PROVE OnlyOwnerActs
  <2>1. ASSUME row # None, NEW k \in DOMAIN messages
        PROVE  input[messages[k].by].user = row.UserID
    <3>1. messages[k].by \in Requests
      <4>1. messages \in Seq([role : {"user", "assistant"}, by : Requests])
        BY <1>1 DEF Consistent, Sound, TypeOK
      <4>2. messages[k] \in [role : {"user", "assistant"}, by : Requests]
        <5>1. k \in 1..Len(messages)
          BY <2>1, <4>1
        <5> QED BY <4>1, <5>1, ElementOfSeq
      <4> QED BY <4>2
    <3>2. HasMessage(messages[k].by)
      BY <2>1 DEF HasMessage
    <3> QED BY <1>1, <3>1, <3>2 DEF Consistent, Owned, Owner, Acting
  <2>2. ASSUME NEW r \in Requests, result[r] # NoResult \/ reply[r] = "shown"
        PROVE  input[r].user = row.UserID
    BY <1>1, <2>2 DEF Consistent, Owned, Owner, Acting
  <2> QED BY <2>1, <2>2 DEF OnlyOwnerActs
<1> QED BY <1>1, AlwaysConsistent, PTL

LEMMA AtMostOne ==
    ASSUME NEW S, \A j, k \in S : j = k
    PROVE  Cardinality(S) <= 1
<1>1. CASE S = {}
  BY <1>1, FS_EmptySet
<1>2. ASSUME NEW x \in S PROVE Cardinality(S) <= 1
  <2>1. S = {x}
    BY <1>2
  <2> QED BY <2>1, FS_Singleton
<1> QED BY <1>1, <1>2

\* The transcript: at most one message of each role per request, and a reply
\* to a message only after it, however requests interleave and fail.
THEOREM TranscriptOrdered == Spec => []TranscriptInOrder
<1>1. ASSUME Consistent PROVE TranscriptInOrder
  <2>1. ASSUME NEW r \in Requests
        PROVE  /\ Cardinality(positions("user", r)) <= 1
               /\ Cardinality(positions("assistant", r)) <= 1
    BY <1>1, <2>1, AtMostOne DEF Consistent, AllWritten, Written, Once
  <2> QED BY <1>1, <2>1 DEF TranscriptInOrder, Consistent, AllWritten, Written
<1> QED BY <1>1, AlwaysConsistent, PTL

\* A client that was given an answer finds both halves of the turn stored.
THEOREM AnswersStored == Spec => []AnsweredTurnsAreStored
<1>1. ASSUME Consistent PROVE AnsweredTurnsAreStored
  BY <1>1 DEF Consistent, AllWritten, Written, AnsweredTurnsAreStored
<1> QED BY <1>1, AlwaysConsistent, PTL

\* A pending row says what it is pending on: a late write never makes up a pause.
THEOREM PauseExplained == Spec => []PendingIsExplained
<1>1. ASSUME Consistent PROVE PendingIsExplained
  <2>1. ASSUME row # None, IsPendingApproval(row) PROVE row.pending_approval /\ pauses # <<>>
    <3>1. row.pending_approval /\ Len(pauses) > 0
      BY <1>1, <2>1 DEF Consistent, Counts, Fair
    <3> QED BY <3>1
  <2> QED BY <2>1 DEF PendingIsExplained
<1> QED BY <1>1, AlwaysConsistent, PTL

\* The statistics: whatever copies are written back late, a conversation counts no
\* more turns, and no more tokens, than there were, as long as no saved state's
\* costs were handed on twice.
THEOREM CountedOnce == Spec => []CountedAtMostOnce
<1>1. ASSUME Consistent PROVE CountedAtMostOnce
  BY <1>1 DEF Consistent, Counts, Fair, HandedOnOnce, CountedAtMostOnce
<1> QED BY <1>1, AlwaysConsistent, PTL

-----------------------------------------------------------------------------
(* Turns one after the other                                               *)

Alone(r) == \A q \in Requests \ {r} : ~inFlight(q)

LEMMA InTurnNext ==
    ASSUME Sound, NEW r \in Requests, Others(r), Grows(r), Alone(r), InTurn,
           RowInTurn', CopyInTurn(r)', Paired(r)'
    PROVE  InTurn'
<1>1. ASSUME NEW q \in Requests \ {r} PROVE ~inFlight(q)' /\ CopyInTurn(q)' /\ Paired(q)'
  <2>1. pc'[q] = pc[q] /\ input'[q] = input[q]
    BY DEF Others
  <2>2. ~inFlight(q)'
    BY <2>1 DEF Alone, inFlight
  <2>3. pc'[q] \in {"idle", "done"}
    BY <2>2 DEF inFlight
  <2>4. CopyInTurn(q)'
    BY <2>3 DEF CopyInTurn, BeforeEngine, AfterEngine
  <2>5. SamePlaces(q)
    BY NoneWritten, OneWritten DEF Grows
  <2>6. Paired(q)'
    BY <2>1, <2>5 DEF InTurn, Paired, SamePlaces
  <2> QED BY <2>2, <2>4, <2>6
<1>2. ASSUME NEW p \in Requests, NEW q \in Requests, inFlight(p)', inFlight(q)' PROVE p = q
  BY <1>1, <1>2
<1> QED BY <1>1, <1>2 DEF InTurn

LEMMA PairsStay ==
    ASSUME NEW r, Paired(r), messages' = messages, input'[r] = input[r]
    PROVE  Paired(r)'
<1>1. SamePlaces(r)
  BY NoneWritten
<1> QED BY <1>1 DEF SamePlaces, Paired

\* What clients were told, after r was told something.
LEMMA Hearing ==
    ASSUME NEW r \in Requests, Others(r), reply[r] = "none"
    PROVE  waiting' <=> waiting \/ reply'[r] = "pending_approval"
BY DEF waiting, Others

\* Nobody is told anything and the row's status stays: neither is at odds with
\* the other, whatever the engine spent.
LEMMA RowMidTurn ==
    ASSUME RowInTurn, NEW r \in Requests, Others(r), reply[r] = "none", reply'[r] = "none",
           row # None, row' # None, row'.Status = row.Status, pc'[r] \in AfterEngine
    PROVE  RowInTurn'
<1>1. waiting' <=> waiting
  BY Hearing
<1>2. IsPendingApproval(row)' <=> IsPendingApproval(row)
  BY DEF IsPendingApproval
<1>3. ~(\A q \in Requests : pc'[q] \notin AfterEngine)
  OBVIOUS
<1> QED BY <1>1, <1>2, <1>3 DEF RowInTurn

\* Nothing changes but where r is, and what it is told if that is of no pause.
LEMMA RowSameTurn ==
    ASSUME RowInTurn, NEW r \in Requests, Others(r), reply[r] = "none",
           reply'[r] # "pending_approval",
           row' = row, turns' = turns, spent' = spent,
           pc[r] \notin AfterEngine
    PROVE  RowInTurn'
<1>1. waiting' <=> waiting
  BY Hearing
<1>2. IsPendingApproval(row)' <=> IsPendingApproval(row)
  BY DEF IsPendingApproval
<1>3. (\A q \in Requests : pc'[q] \notin AfterEngine) =>
          \A q \in Requests : pc[q] \notin AfterEngine
  BY DEF Others
<1> QED BY <1>1, <1>2, <1>3 DEF RowInTurn

LEMMA TurnsEnter ==
    ASSUME Consistent, InTurn, NEW r \in Requests, Alone(r),
           NEW user \in Users, Entered(r, user)
    PROVE  InTurn'
<1>1. Sound /\ Owned /\ Counts /\ Placed(r) /\ RowInTurn
  BY DEF Consistent, Sound, InTurn
<1>2. Grows(r) /\ Others(r)
  BY <1>1, OwnerEnters
<1>3. ASSUME NEW op, NEW place, NEW c, Arrives(r, user, op, place, c)
      PROVE  /\ turns' = turns /\ spent' = spent /\ reply[r] = "none" /\ pc[r] = "idle"
             /\ pc'[r] = place /\ conv'[r] = c /\ Paired(r)'
             /\ \A q \in Requests : pc[q] \notin AfterEngine
  <2>1. /\ pc[r] = "idle" /\ pc'[r] = place /\ conv'[r] = c /\ result'[r] = result[r]
        /\ messages' = messages /\ turns' = turns /\ spent' = spent
    BY <1>3 DEF Arrives, engine, ledger
  <2>2. reply[r] = "none" /\ result[r] = NoResult
    BY <1>1, <2>1 DEF Placed, AfterEngine
    <2>4. positions("assistant", r) = {}
    BY <2>1 DEF Consistent, AllWritten, Written
  <2>5. SamePlaces(r)
    BY <2>1, NoneWritten
  <2>6. Paired(r)'
    BY <2>4, <2>5 DEF SamePlaces, Paired
  <2>7. \A q \in Requests : pc[q] \notin AfterEngine
    BY <2>1 DEF Alone, inFlight, AfterEngine
  <2> QED BY <2>1, <2>2, <2>6, <2>7
<1>4. CASE Created(r, user)
  <2>1. /\ row = None /\ row' = NewConversation(user) /\ reply'[r] = reply[r]
        /\ Arrives(r, user, "send", "save user message", row')
    BY <1>4 DEF Created
  <2>2. /\ turns' = turns /\ spent' = spent /\ reply[r] = "none" /\ Paired(r)'
        /\ pc'[r] = "save user message" /\ conv'[r] = row'
    BY <1>3, <2>1
  <2>3. turns = 0 /\ spent = 0 /\ ~waiting
    BY <1>1, <2>1 DEF RowInTurn
  <2>5. /\ row' # None /\ ~IsPendingApproval(row') /\ Exact(row', turns', spent')
    BY <2>1, <2>2, <2>3, Creating, SomeCopy DEF Exact
  <2>6. ~waiting'
    BY <1>2, <2>1, <2>2, <2>3, Hearing
  <2>7. RowInTurn'
    BY <2>5, <2>6 DEF RowInTurn
  <2>8. CopyInTurn(r)'
    BY <2>2, <2>5 DEF CopyInTurn, BeforeEngine, AfterEngine
  <2> QED BY <1>1, <1>2, <2>2, <2>7, <2>8, InTurnNext
<1>5. ASSUME NEW op, NEW place, NEW c, Arrives(r, user, op, place, c), row' = row,
             reply'[r] \in {"none", "refused"}, c # None => c = row,
             \/ c # None /\ place \in {"save user message", "resume", "get messages", "count"}
             \/ place \in {"count", "done"}
      PROVE  InTurn'
  <2>1. /\ turns' = turns /\ spent' = spent /\ reply[r] = "none" /\ Paired(r)'
        /\ pc'[r] = place /\ conv'[r] = c /\ pc[r] = "idle"
        /\ \A q \in Requests : pc[q] \notin AfterEngine
    BY <1>3, <1>5
  <2>2. RowInTurn'
    BY <1>1, <1>2, <1>5, <2>1, RowSameTurn DEF AfterEngine
  <2>3. CopyInTurn(r)'
    <3>1. place \in BeforeEngine \cup AfterEngine => c = row /\ row # None
      BY <1>5 DEF BeforeEngine, AfterEngine
    <3>2. row # None => Exact(row, turns, spent)
      BY <1>1, <2>1 DEF RowInTurn
    <3>3. place \notin AfterEngine \cup {"run", "save reply"}
      BY <1>5 DEF AfterEngine
    <3> QED BY <1>5, <2>1, <3>1, <3>2, <3>3 DEF CopyInTurn
  <2> QED BY <1>1, <1>2, <2>1, <2>2, <2>3, InTurnNext
<1>6. CASE Unlisted(r, user)
  <2>1. Arrives(r, user, "list", "count", None) /\ row' = row /\ reply'[r] = reply[r]
    BY <1>6 DEF Unlisted
  <2>2. reply[r] = "none"
    BY <1>3, <2>1
  <2> QED BY <1>5, <2>1, <2>2
<1>7. ASSUME NEW op, Refused(r, user, op) PROVE InTurn'
  BY <1>5, <1>7 DEF Refused
<1>8. ASSUME NEW op, NEW place, Loaded(r, user, op, place) PROVE InTurn'
  <2>1. /\ Arrives(r, user, op, place, row) /\ row' = row /\ reply'[r] = reply[r]
        /\ row # None /\ place \in {"save user message", "resume", "get messages", "count"}
    BY <1>8 DEF Loaded
  <2>2. reply[r] = "none"
    BY <1>3, <2>1
  <2> QED BY <1>5, <2>1, <2>2
<1> QED BY <1>4, <1>6, <1>7, <1>8 DEF Entered

LEMMA TurnsEnd ==
    ASSUME Consistent, InTurn, NEW r \in Requests, Alone(r),
           NEW told \in {"shown", "empty", "error"}, Ended(r, told), told # "error"
    PROVE  InTurn'
<1>1. /\ pc[r] \in {"get messages", "count"} /\ pc'[r] = "done" /\ input'[r] = input[r]
      /\ result'[r] = result[r] /\ reply'[r] = told /\ Others(r)
      /\ row' = row /\ messages' = messages 
      /\ turns' = turns /\ spent' = spent
  BY DEF Ended, db, engine, ledger
<1>2. Sound /\ Placed(r) /\ RowInTurn /\ Paired(r)
  BY DEF Consistent, Sound, InTurn
<1>3. reply[r] = "none"
  BY <1>1, <1>2 DEF Placed
<1>5. RowInTurn'
  BY <1>1, <1>2, <1>3, RowSameTurn DEF AfterEngine
<1>6. CopyInTurn(r)'
  BY <1>1 DEF CopyInTurn, BeforeEngine, AfterEngine
<1>7. Paired(r)'
  BY <1>1, <1>2, PairsStay
<1> QED BY <1>1, <1>2, <1>5, <1>6, <1>7, InTurnNext DEF Grows

\* The engine returns to the one request in progress.
LEMMA TurnsReturn ==
    ASSUME Consistent, InTurn, NEW r \in Requests, Alone(r), pc[r] = "run",
           NEW place \in AfterEngine, place # "update", NEW c, Others(r), Stays(r),
           UNCHANGED db, pc'[r] = place, conv'[r] = c, Exact(c, turns', spent'),
           c.Status = conv[r].Status
    PROVE  InTurn'
<1>1. /\ input'[r] = input[r] /\ reply'[r] = reply[r] /\ row' = row /\ messages' = messages
  BY DEF Stays, db
<1>2. Sound /\ Placed(r) /\ RowInTurn /\ Paired(r) /\ CopyInTurn(r)
  BY DEF Consistent, Sound, InTurn
<1>3. reply[r] = "none" /\ row # None
  BY <1>2 DEF Placed, Sound, Known, BeforeEngine
<1>4. RowInTurn'
  BY <1>1, <1>2, <1>3, RowMidTurn
<1>5. Paired(r)'
  BY <1>1, <1>2, PairsStay
<1>6. conv[r].Status = row.Status
  BY <1>2 DEF CopyInTurn, BeforeEngine
<1>7. input[r].op = "send" => Len(messages') \in positions("user", r)'
  <2>1. SamePlaces(r)
    BY <1>1, NoneWritten
  <2> QED BY <1>1, <1>2, <2>1 DEF CopyInTurn, SamePlaces
<1>8. CopyInTurn(r)'
  BY <1>1, <1>6, <1>7 DEF CopyInTurn, BeforeEngine, AfterEngine
<1> QED BY <1>1, <1>2, <1>4, <1>5, <1>8, InTurnNext DEF Grows

LEMMA ExactCounting ==
    ASSUME NEW c \in Conversation, NEW m \in Nat, NEW t \in Nat, NEW tokens \in Nat,
           Exact(c, m, t)
    PROVE  /\ Exact(AddMessageStats(c, tokens), m + 1, t + tokens)
           /\ AddMessageStats(c, tokens).Status = c.Status
<1> DEFINE d == AddMessageStats(c, tokens)
<1>1. /\ d.Status = c.Status /\ d.paused_state = c.paused_state
      /\ d.MessageCount = c.MessageCount + 1 /\ d.TotalTokens = c.TotalTokens + tokens
  BY Counting
<1> HIDE DEF d
<1>2. Exact(d, m + 1, t + tokens)
  BY <1>1 DEF Exact
<1> QED BY <1>1, <1>2 DEF d

\* A Resume is out of the question: no copy refers to a saved state.
LEMMA TurnsEngine ==
    ASSUME Consistent, InTurn, NEW r \in Requests, Alone(r), NEW tokens \in Amount,
           \/ RunPaused(r, tokens) \/ RunCompleted(r, tokens)
           \/ \E place \in Places :
                 ResumePaused(r, tokens, place) \/ ResumeCompleted(r, tokens, place)
    PROVE  InTurn'
<1>1. pc[r] \in {"run", "resume"} /\ tokens \in Nat
  BY AmountAssumption DEF RunPaused, RunCompleted, ResumePaused, ResumeCompleted
<1>2. Sound /\ turns \in Nat /\ spent \in Nat
  BY DEF Consistent, Sound, TypeOK
<1>3. conv[r] \in Conversation /\ Exact(conv[r], turns, spent)
  <2>1. CopyInTurn(r)
    BY DEF InTurn
  <2> QED BY <1>1, <1>2, <2>1, AtEngine DEF CopyInTurn, BeforeEngine
<1>4. pc[r] # "resume"
  <2>1. Placed(r)
    BY <1>2 DEF Sound
  <2> QED BY <1>3, <2>1 DEF Placed, Exact
<1>5. ASSUME NEW place, NEW c, Paused(r, tokens, place, c) \/ Completed(r, tokens, place, c)
      PROVE  Others(r) /\ Stays(r) /\ UNCHANGED db /\ pc'[r] = place /\ conv'[r] = c
  BY <1>5 DEF Paused, Completed
<1>6. CASE RunPaused(r, tokens)
  <2>1. /\ Others(r) /\ Stays(r) /\ UNCHANGED db /\ pc'[r] = "persist pause"
        /\ conv'[r] = conv[r] /\ turns' = turns /\ spent' = spent /\ pc[r] = "run"
    BY <1>5, <1>6 DEF RunPaused
  <2>2. Exact(conv[r], turns', spent')
    BY <1>3, <2>1
  <2> QED BY <2>1, <2>2, TurnsReturn DEF AfterEngine
<1>7. CASE RunCompleted(r, tokens)
  <2>1. /\ Others(r) /\ Stays(r) /\ UNCHANGED db /\ pc'[r] = "save reply"
        /\ conv'[r] = AddMessageStats(conv[r], tokens)
        /\ turns' = turns + 1 /\ spent' = spent + tokens /\ pc[r] = "run"
    BY <1>5, <1>7 DEF RunCompleted
  <2>2. /\ Exact(AddMessageStats(conv[r], tokens), turns', spent')
        /\ AddMessageStats(conv[r], tokens).Status = conv[r].Status
    <3>1. /\ Exact(AddMessageStats(conv[r], tokens), turns + 1, spent + tokens)
          /\ AddMessageStats(conv[r], tokens).Status = conv[r].Status
      BY <1>1, <1>2, <1>3, ExactCounting
    <3> QED BY <2>1, <3>1
  <2> QED BY <2>1, <2>2, TurnsReturn DEF AfterEngine
<1>8. ASSUME NEW place \in Places,
             ResumePaused(r, tokens, place) \/ ResumeCompleted(r, tokens, place)
      PROVE  FALSE
  BY <1>4, <1>8 DEF ResumePaused, ResumeCompleted
<1> QED BY <1>6, <1>7, <1>8

LEMMA TurnsWrite ==
    ASSUME Consistent, InTurn, NEW r \in Requests, Alone(r),
           NEW role \in {"user", "assistant"}, NEW place \in Places, Wrote(role, r, place)
    PROVE  InTurn'
<1> DEFINE n == Len(messages)
<1>1. /\ pc'[r] = place /\ conv'[r] = conv[r] /\ input'[r] = input[r]
      /\ result'[r] = result[r] /\ reply'[r] = reply[r] /\ Others(r) /\ row' = row
      /\ turns' = turns /\ spent' = spent /\ messages' = Append(messages, [role |-> role, by |-> r])
      /\ \/ role = "user" /\ pc[r] = "save user message" /\ place = "run"
         \/ /\ role = "assistant" /\ pc[r] = "save reply"
            /\ place = IF result[r].kind = "paused" THEN "persist pause" ELSE "update"
  BY DEF Wrote, Stays, engine, ledger, afterReply
<1>2. Sound /\ Placed(r) /\ Written(r) /\ RowInTurn /\ Paired(r) /\ CopyInTurn(r)
  BY DEF Consistent, AllWritten, Sound, InTurn
<1>4. reply[r] = "none" /\ row # None /\ result[r].kind \in {"none", "completed", "paused"}
  BY <1>1, <1>2, SoundParts DEF Placed, Sound, Known, Seated, BeforeEngine, AfterEngine
<1>5. Grows(r)
  BY <1>1 DEF Grows
<1>6. /\ positions(role, r)' = positions(role, r) \cup {n + 1}
      /\ \A other \in {"user", "assistant"} \ {role} :
            positions(other, r)' = positions(other, r)
  BY <1>1, <1>2, OneWritten
<1>7. n \in Nat /\ Len(messages') = n + 1
  BY <1>1, <1>2, OneMore
<1> HIDE DEF n
<1>8. CASE role = "user"
  <2>1. pc[r] = "save user message" /\ pc'[r] = "run"
    BY <1>1, <1>8
  <2>2. positions("assistant", r)' = {} /\ n + 1 \in positions("user", r)'
    BY <1>2, <1>6, <1>8, <2>1 DEF Written
  <2>3. RowInTurn'
    BY <1>1, <1>2, <1>4, <2>1, RowSameTurn DEF AfterEngine
  <2>4. CopyInTurn(r)'
    BY <1>1, <1>2, <1>7, <2>1, <2>2 DEF CopyInTurn, BeforeEngine, AfterEngine
  <2>5. Paired(r)'
    BY <2>2 DEF Paired
  <2> QED BY <1>1, <1>2, <1>5, <2>3, <2>4, <2>5, InTurnNext
<1>9. CASE role = "assistant"
  <2>1. /\ pc[r] = "save reply"
        /\ pc'[r] = IF result[r].kind = "paused" THEN "persist pause" ELSE "update"
    BY <1>1, <1>9
  <2>2. /\ positions("assistant", r) = {}
        /\ positions("assistant", r)' = {n + 1} /\ positions("user", r)' = positions("user", r)
    BY <1>2, <1>6, <1>9, <2>1 DEF Written
  <2>3. RowInTurn'
    BY <1>1, <1>2, <1>4, <2>1, RowMidTurn DEF AfterEngine
  <2>4. CopyInTurn(r)'
    <3>1. /\ Exact(conv'[r], turns', spent')
          /\ conv'[r].Status = row'.Status
      BY <1>1, <1>2, <2>1 DEF CopyInTurn, AfterEngine
    <3>2. pc'[r] = "update" => result'[r].kind # "paused"
      BY <1>1, <2>1
    <3>3. pc'[r] \notin BeforeEngine \cup {"run", "save reply"}
      BY <2>1 DEF BeforeEngine
    <3> QED BY <3>1, <3>2, <3>3 DEF CopyInTurn
  <2>5. Paired(r)'
    <3>1. input[r].op = "send" => n \in positions("user", r)
      BY <1>2, <2>1 DEF CopyInTurn, n
    <3>2. (n + 1) - 1 = n
      BY <1>7
    <3> QED BY <1>1, <2>2, <3>1, <3>2 DEF Paired
  <2> QED BY <1>1, <1>2, <1>5, <2>3, <2>4, <2>5, InTurnNext
<1> QED BY <1>8, <1>9

LEMMA TurnsPersist ==
    ASSUME Consistent, InTurn, NEW r \in Requests, Alone(r), Persisted(r)
    PROVE  InTurn'
<1>1. /\ pc[r] = "persist pause" /\ pc'[r] = "update" /\ input'[r] = input[r]
      /\ result'[r] = result[r] /\ reply'[r] = reply[r] /\ Others(r)
      /\ turns' = turns /\ spent' = spent
      /\ conv'[r] = RequestApproval(conv[r]) /\ messages' = messages
      /\ row' = [row EXCEPT !.paused_state = result[r].saved]
  BY DEF Persisted, Stays, engine, ledger
<1>2. Sound /\ Placed(r) /\ RowInTurn /\ Paired(r) /\ CopyInTurn(r)
  BY DEF Consistent, Sound, InTurn
<1>4. /\ conv[r] \in Conversation /\ reply[r] = "none" /\ result[r].kind = "paused"
      /\ row \in Conversation /\ row # None /\ result[r].saved \in Nat
  <2>1. Seated(r) /\ Shared
    BY <1>2, SoundParts
  <2>2. conv[r] # None /\ reply[r] = "none" /\ result[r].kind = "paused"
    BY <1>1, <1>2 DEF Placed, AfterEngine
  <2> QED BY <2>1, <2>2 DEF Seated, Shared
<1>5. /\ conv'[r].MessageCount = conv[r].MessageCount
      /\ conv'[r].TotalTokens = conv[r].TotalTokens /\ IsPendingApproval(conv'[r])
      /\ conv'[r].paused_state = conv[r].paused_state
  BY <1>1, <1>4, Requesting
<1>6. row' \in Conversation /\ row'.Status = row.Status
  BY <1>1, <1>4 DEF Conversation
<1>7. RowInTurn'
  BY <1>1, <1>2, <1>4, <1>6, RowMidTurn, SomeCopy DEF AfterEngine
<1>8. CopyInTurn(r)'
  <2>1. Exact(conv'[r], turns', spent')
    BY <1>1, <1>2, <1>5 DEF CopyInTurn, AfterEngine, Exact
  <2> QED BY <1>1, <1>4, <1>5, <2>1 DEF CopyInTurn, BeforeEngine, AfterEngine
<1>9. Paired(r)'
  BY <1>1, <1>2, PairsStay
<1> QED BY <1>1, <1>2, <1>7, <1>8, <1>9, InTurnNext DEF Grows

LEMMA TurnsUpdate ==
    ASSUME Consistent, InTurn, NEW r \in Requests, Alone(r), NEW told \in Replies,
           Updated(r, told), told # "error"
    PROVE  InTurn'
<1>1. /\ pc[r] = "update" /\ pc'[r] = "done" /\ input'[r] = input[r]
      /\ result'[r] = result[r] /\ reply'[r] = answer(r) /\ Others(r)
      /\ turns' = turns /\ spent' = spent
      /\ conv'[r] = None /\ messages' = messages /\ row' = conv[r]
  BY DEF Updated, engine, ledger
<1>2. Sound /\ Placed(r) /\ RowInTurn /\ Paired(r) /\ CopyInTurn(r)
  BY DEF Consistent, Sound, InTurn
<1>4. /\ conv[r] # None /\ reply[r] = "none" /\ row # None
      /\ input[r].op \in Decisions \cup {"send"}
  BY <1>1, <1>2 DEF Placed, AfterEngine, Sound, Known
<1>5. waiting' <=> waiting \/ result[r].kind = "paused"
  BY <1>1, <1>4, Hearing, Answering
<1>6. /\ Exact(conv[r], turns, spent)
      /\ IF result[r].kind = "paused" THEN IsPendingApproval(conv[r])
                                      ELSE conv[r].Status = row.Status
  BY <1>1, <1>2 DEF CopyInTurn, AfterEngine
<1>7. IsPendingApproval(row) <=> waiting
  BY <1>2, <1>4 DEF RowInTurn
<1>8. IsPendingApproval(conv[r]) <=> waiting'
  BY <1>5, <1>6, <1>7 DEF IsPendingApproval
<1>10. RowInTurn'
  BY <1>1, <1>4, <1>6, <1>8 DEF RowInTurn
<1>11. CopyInTurn(r)'
  BY <1>1 DEF CopyInTurn, BeforeEngine, AfterEngine
<1>12. Paired(r)'
  BY <1>1, <1>2, PairsStay
<1> QED BY <1>1, <1>2, <1>10, <1>11, <1>12, InTurnNext DEF Grows

\* A step that leaves the requests serial found them so, and nobody else in
\* flight.
LEMMA SerialBefore ==
    ASSUME Consistent, NEW r \in Requests, Did(r), Serial'
    PROVE  Serial /\ (InTurn => Alone(r))
<1>1. Sound /\ Owned /\ Placed(r)
  BY DEF Consistent, Sound
<1>2. Others(r)
  BY <1>1, OwnerMoves
<1>3. /\ pc[r] # "done"
      /\ \/ inFlight(r) /\ overlapped' = overlapped
         \/ overlapped' = (overlapped \/ \E q \in Requests : inFlight(q))
  <2>1. ASSUME NEW user \in Users, Entered(r, user)
        PROVE  /\ pc[r] = "idle"
               /\ overlapped' = (overlapped \/ \E q \in Requests : inFlight(q))
    BY <2>1 DEF Entered, Created, Unlisted, Refused, Loaded, Arrives
  <2>2. ASSUME NEW told \in {"shown", "empty", "error"}, Ended(r, told)
        PROVE  inFlight(r) /\ overlapped' = overlapped
    BY <2>2 DEF Ended, inFlight
  <2>3. ASSUME NEW tokens \in Amount, NEW place \in Places,
               \/ RunPaused(r, tokens) \/ RunCompleted(r, tokens)
               \/ ResumePaused(r, tokens, place) \/ ResumeCompleted(r, tokens, place)
        PROVE  inFlight(r) /\ overlapped' = overlapped
    BY <2>3 DEF RunPaused, RunCompleted, ResumePaused, ResumeCompleted, Paused, Completed,
                Stays, inFlight
  <2>4. ASSUME NEW role \in {"user", "assistant"}, NEW place \in Places, Wrote(role, r, place)
        PROVE  inFlight(r) /\ overlapped' = overlapped
    BY <2>4 DEF Wrote, Stays, inFlight
  <2>5. ASSUME Persisted(r) PROVE inFlight(r) /\ overlapped' = overlapped
    BY <2>5 DEF Persisted, Stays, inFlight
  <2>6. ASSUME NEW told \in Replies, Updated(r, told)
        PROVE  inFlight(r) /\ overlapped' = overlapped
    BY <2>6 DEF Updated, inFlight
  <2>7. inFlight(r) => pc[r] # "done"
    BY DEF inFlight
  <2>8. "idle" \in Places
    BY DEF Places
  <2> QED BY <2>1, <2>2, <2>3, <2>4, <2>5, <2>6, <2>7, <2>8 DEF Did
<1>4. ~overlapped
  BY <1>3 DEF Serial
<1>5. ASSUME NEW q \in Requests PROVE reply[q] # "error"
  <2>1. CASE q = r
    BY <1>1, <1>3, <2>1 DEF Placed
  <2>2. CASE q # r
    BY <1>2, <2>2 DEF Others, Serial
  <2> QED BY <2>1, <2>2
<1>6. ASSUME InTurn PROVE Alone(r)
  <2>1. CASE inFlight(r)
    BY <1>6, <2>1 DEF InTurn, Alone
  <2>2. CASE overlapped' = (overlapped \/ \E q \in Requests : inFlight(q))
    BY <2>2 DEF Serial, Alone
  <2> QED BY <1>3, <2>1, <2>2
<1> QED BY <1>4, <1>5, <1>6 DEF Serial

SerialInv == Serial => InTurn

LEMMA SerialInit == Init => SerialInv
<1> SUFFICES ASSUME Init PROVE InTurn
  BY DEF SerialInv
<1>1. /\ row = None /\ messages = <<>> /\ turns = 0 /\ spent = 0 /\ DOMAIN messages = {}
      /\ \A r \in Requests : pc[r] = "idle" /\ reply[r] = "none" /\ input[r] = NoInput
  BY DEF Init
<1>2. RowInTurn
  BY <1>1 DEF RowInTurn, waiting
<1>3. ASSUME NEW r \in Requests PROVE ~inFlight(r) /\ CopyInTurn(r) /\ Paired(r)
  <2>1. positions("assistant", r) = {}
    BY <1>1 DEF positions
  <2>2. pc[r] = "idle"
    BY <1>1
  <2>3. ~inFlight(r)
    BY <2>2 DEF inFlight
  <2>4. CopyInTurn(r)
    BY <2>2 DEF CopyInTurn, BeforeEngine, AfterEngine
  <2>5. Paired(r)
    BY <2>1 DEF Paired
  <2> QED BY <2>3, <2>4, <2>5
<1> QED BY <1>2, <1>3 DEF InTurn

LEMMA SerialStep == ASSUME Consistent, Consistent', SerialInv, Next PROVE SerialInv'
<1> SUFFICES ASSUME Serial' PROVE InTurn'
  BY DEF SerialInv
<1>1. PICK r \in Requests : Did(r)
  <2>1. Sound
    BY DEF Consistent
  <2> QED BY <2>1, Doing
<1>2. InTurn /\ Alone(r)
  BY <1>1, SerialBefore DEF SerialInv
<1>3. reply'[r] # "error"
  BY DEF Serial
<1>4. ASSUME NEW user \in Users, Entered(r, user) PROVE InTurn'
  BY <1>2, <1>4, TurnsEnter
<1>5. ASSUME NEW told \in {"shown", "empty", "error"}, Ended(r, told) PROVE InTurn'
  <2>1. told # "error"
    BY <1>3, <1>5 DEF Ended
  <2> QED BY <1>2, <1>5, <2>1, TurnsEnd
<1>6. ASSUME NEW tokens \in Amount,
             \/ RunPaused(r, tokens) \/ RunCompleted(r, tokens)
             \/ \E place \in Places :
                   ResumePaused(r, tokens, place) \/ ResumeCompleted(r, tokens, place)
      PROVE  InTurn'
  BY <1>2, <1>6, TurnsEngine
<1>7. ASSUME NEW role \in {"user", "assistant"}, NEW place \in Places, Wrote(role, r, place)
      PROVE  InTurn'
  BY <1>2, <1>7, TurnsWrite
<1>8. ASSUME Persisted(r) PROVE InTurn'
  BY <1>2, <1>8, TurnsPersist
<1>9. ASSUME NEW told \in Replies, Updated(r, told) PROVE InTurn'
  <2>1. told # "error"
    BY <1>3, <1>9 DEF Updated
  <2> QED BY <1>2, <1>9, <2>1, TurnsUpdate
<1> QED BY <1>1, <1>4, <1>5, <1>6, <1>7, <1>8, <1>9 DEF Did

LEMMA SerialStutter == ASSUME SerialInv, UNCHANGED vars PROVE SerialInv'
<1>1. /\ row' = row /\ messages' = messages /\ pc' = pc /\ input' = input /\ conv' = conv
      /\ result' = result /\ reply' = reply /\ overlapped' = overlapped
      /\ turns' = turns /\ spent' = spent
  BY DEF vars, db, engine, ledger
<1> SUFFICES ASSUME Serial' PROVE InTurn'
  BY DEF SerialInv
<1>2. InTurn
  BY <1>1 DEF Serial, SerialInv
<1>4. RowInTurn'
  BY <1>1, <1>2 DEF InTurn, RowInTurn, waiting
<1>5. ASSUME NEW r \in Requests PROVE CopyInTurn(r)' /\ Paired(r)'
  <2>1. /\ positions("user", r)' = positions("user", r)
        /\ positions("assistant", r)' = positions("assistant", r)
    BY <1>1 DEF positions
  <2>2. CopyInTurn(r) /\ Paired(r)
    BY <1>2 DEF InTurn
  <2>3. CopyInTurn(r)'
    BY <1>1, <2>1, <2>2 DEF CopyInTurn
  <2>4. Paired(r)'
    BY <1>1, <2>1, <2>2 DEF Paired
  <2> QED BY <2>3, <2>4
<1>6. \A q, r \in Requests : inFlight(q)' /\ inFlight(r)' => q = r
  BY <1>1, <1>2 DEF InTurn, inFlight
<1> QED BY <1>4, <1>5, <1>6 DEF InTurn

LEMMA AlwaysSerial == Spec => [](Consistent /\ SerialInv)
<1>1. Init => Consistent /\ SerialInv
  BY ConsistentInit, SerialInit
<1>2. Consistent /\ SerialInv /\ [Next]_vars => Consistent' /\ SerialInv'
  BY ConsistentStep, SerialStep, SerialStutter
<1> QED BY <1>1, <1>2, PTL DEF Spec

\* Requests served one after the other, none of which failed midway: every turn
\* is counted, with its tokens; each reply to a message is next to it; and the
\* conversation is pending just when some turn paused.
THEOREM SerialExact == Spec => []SerialTurnsExact
<1>1. ASSUME Consistent, SerialInv, quiet, row # None
      PROVE  /\ row.MessageCount = turns /\ row.TotalTokens = spent
             /\ \A r \in Requests : input[r].op = "send" =>
                   \A k \in positions("assistant", r) : k - 1 \in positions("user", r)
             /\ IsPendingApproval(row) <=> waiting
  <2>1. InTurn
    BY <1>1 DEF quiet, Serial, SerialInv
  <2>2. \A r \in Requests : pc[r] \notin AfterEngine
    BY <1>1 DEF quiet, inFlight, AfterEngine
  <2>3. Exact(row, turns, spent) /\ (IsPendingApproval(row) <=> waiting)
    BY <1>1, <2>1, <2>2 DEF InTurn, RowInTurn
  <2>4. \A r \in Requests : Paired(r)
    BY <2>1 DEF InTurn
  <2> QED BY <2>3, <2>4 DEF Exact, Paired
<1>2. Consistent /\ SerialInv => SerialTurnsExact
  BY <1>1 DEF SerialTurnsExact, waiting
<1> QED BY <1>2, AlwaysSerial, PTL
=============================================================================
