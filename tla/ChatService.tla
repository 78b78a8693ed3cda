----------------------------- MODULE ChatService -----------------------------
(***************************************************************************)
(* The stateful chat use cases (application/usecase/chat), two that change *)
(* a conversation and two queries, over the conversation and message       *)
(* tables, with the handlers that call them.                               *)
(*                                                                         *)
(* One conversation, and requests that the HTTP server serves at the same  *)
(* time: each loads its own copy of the conversation row, calls the        *)
(* workflow engine, and writes rows back with no transaction and no        *)
(* version check.  One action per database or engine call, since another   *)
(* request's call, a database error, a cancelled request or a crash of the *)
(* server can come between any two.                                        *)
(*                                                                         *)
(* The engine is what EngineContract says it is, at some charge for each   *)
(* call; ChatbotGraph is shown to keep that contract.                      *)
(***************************************************************************)
EXTENDS EngineContract, Sequences, FiniteSets

CONSTANTS
    Requests,       \* the HTTP requests, each served once
    Users,
    None,           \* no row, no value
    Charges         \* what one call of the engine may cost, tokens and tool calls

ASSUME AmountAssumption == Amount \subseteq Nat /\ 0 \in Amount

VARIABLES
    row,            \* the row in table conversations, or None
    messages,       \* the rows in table messages, by sequence_number
    pauses,         \* history: the costs in each state the engine saved;
                    \* its index stands for the PausedStateJSON
    pc,             \* the next call a request makes
    input,          \* what it was sent: the user and the operation
    conv,           \* its in-memory *entity.Conversation
    result,         \* its *port.WorkflowOutput
    reply,          \* what its client was told
    decided,        \* history: how often each saved state was resumed
    again,          \* history: the saved states that Resume saved, of turns
                    \* that paused more than once
    turns,          \* history: how many turns were answered or decided on
    spent,          \* history: the tokens the engine spent on those turns
    overlapped      \* history: two requests were ever in flight together

db == <<row, messages>>
ledger == <<again, turns, spent>>
engine == <<pauses, result, decided, ledger>>
vars == <<db, engine, pc, input, conv, reply, overlapped>>

-----------------------------------------------------------------------------
(* entity.Conversation                                                     *)

\* WorkflowState["paused_state"] is the number of a saved state, 0 for none;
\* Metadata["pending_approval"] is present or not.
Conversation ==
    [UserID : Users, Status : {"active", "pending_approval"},
     paused_state : Nat, pending_approval : BOOLEAN,
     MessageCount : Nat, TotalTokens : Nat]

ASSUME NoneAssumption == None \notin Conversation

NewConversation(user) ==
    [UserID |-> user, Status |-> "active", paused_state |-> 0,
     pending_approval |-> FALSE, MessageCount |-> 0, TotalTokens |-> 0]

IsPendingApproval(c) == c.Status = "pending_approval"

\* Faulty variant: the pause is not recorded in the metadata.
RequestApprovalUnexplained(c) == [c EXCEPT !.Status = "pending_approval"]
RequestApproval(c) ==
    [c EXCEPT !.Status = "pending_approval", !.pending_approval = TRUE]
\* Faulty variant: a status the domain does not know.
ApproveMisnamed(c) == [c EXCEPT !.Status = "approved"]
Approve(c) == [c EXCEPT !.Status = "active", !.pending_approval = FALSE]
Reject(c) == [c EXCEPT !.Status = "active"]

\* Faulty variant: both messages of the turn are counted.
AddMessageStatsTwice(c, tokens) ==
    [c EXCEPT !.MessageCount = @ + 2, !.TotalTokens = @ + tokens]
AddMessageStats(c, tokens) ==
    [c EXCEPT !.MessageCount = @ + 1, !.TotalTokens = @ + tokens]

-----------------------------------------------------------------------------
(* Requests                                                                *)

NoInput == [user |-> None, op |-> "none"]
NoResult == [kind |-> "none", tokens |-> 0, saved |-> 0]

inFlight(r) == pc[r] \notin {"idle", "done"}

Init ==
    /\ row = None /\ messages = <<>> /\ pauses = <<>> /\ decided = <<>>
    /\ again = {} /\ turns = 0 /\ spent = 0
    /\ pc = [r \in Requests |-> "idle"]
    /\ input = [r \in Requests |-> NoInput]
    /\ conv = [r \in Requests |-> None]
    /\ result = [r \in Requests |-> NoResult]
    /\ reply = [r \in Requests |-> "none"]
    /\ overlapped = FALSE

\* r goes on to the call named `step` with the in-memory conversation c.
goTo(r, step, c) ==
    /\ pc' = [pc EXCEPT ![r] = step]
    /\ conv' = [conv EXCEPT ![r] = c]

\* r ends, and its client is told `answer`.
finish(r, answer) ==
    /\ pc' = [pc EXCEPT ![r] = "done"]
    /\ conv' = [conv EXCEPT ![r] = None]
    /\ reply' = [reply EXCEPT ![r] = answer]

\* r arrives from `user`, asking for `op`.
arrive(r, user, op) ==
    /\ pc[r] = "idle"
    /\ input' = [input EXCEPT ![r] = [user |-> user, op |-> op]]
    /\ overlapped' = (overlapped \/ \E q \in Requests : inFlight(q))
    /\ UNCHANGED <<messages, engine>>

\* POST /v1/conversations: the conversation is created, then the turn runs.
createConversation(r, user) ==
    /\ row = None
    /\ arrive(r, user, "send")
    /\ row' = NewConversation(user)
    /\ goTo(r, "save user message", row')
    /\ UNCHANGED reply

\* Faulty variant: the owner check is missing.
ownsAny(user) == row # None
owns(user) == row # None /\ row.UserID = user

\* Faulty variant: the turn runs without its message being saved.
loadToSendUnsaved(r, user) ==
    /\ owns(user)
    /\ arrive(r, user, "send")
    /\ goTo(r, "run", row)
    /\ UNCHANGED <<row, reply>>

\* SendMessage on a conversation that exists: FindByID and the owner check.
\* The status of the conversation is not looked at.
loadToSend(r, user) ==
    /\ owns(user)
    /\ arrive(r, user, "send")
    /\ goTo(r, "save user message", row)
    /\ UNCHANGED <<row, reply>>

mayDecide(user) == owns(user) /\ IsPendingApproval(row) /\ row.paused_state # 0

\* ApproveAction: FindByID, the owner check, the status check, and the saved
\* state that Resume will start from.
loadToDecide(r, user, op) ==
    /\ mayDecide(user)
    /\ arrive(r, user, op)
    /\ goTo(r, "resume", row)
    /\ UNCHANGED <<row, reply>>

refuse(r, user, op) ==
    /\ arrive(r, user, op)
    /\ finish(r, "refused")
    /\ UNCHANGED row

\* The early returns: no such conversation, not its owner, not pending, or no
\* saved state in the row.
turnAway(r, user, op) ==
    /\ IF op \in {"send", "get"} THEN ~owns(user) ELSE ~mayDecide(user)
    /\ refuse(r, user, op)

-----------------------------------------------------------------------------
(* The queries                                                             *)

\* GetConversation: FindByID and the owner check, and then the messages.
loadToShow(r, user) ==
    /\ owns(user)
    /\ arrive(r, user, "get")
    /\ goTo(r, "get messages", row)
    /\ UNCHANGED <<row, reply>>

getMessages(r) ==
    /\ pc[r] = "get messages"
    /\ finish(r, "shown")
    /\ UNCHANGED <<db, engine, input, overlapped>>

\* FindByUserID: the conversation if it is the user's, or None.
FindByUserID(user) == IF row # None /\ row.UserID = user THEN row ELSE None

\* ListConversations: the user's conversations, and then how many there are.
loadToList(r, user) ==
    /\ arrive(r, user, "list")
    /\ goTo(r, "count", FindByUserID(user))
    /\ UNCHANGED <<row, reply>>

count(r) ==
    /\ pc[r] = "count"
    /\ finish(r, IF conv[r] = None THEN "empty" ELSE "shown")
    /\ UNCHANGED <<db, engine, input, overlapped>>

-----------------------------------------------------------------------------
(* The engine                                                              *)

oneCall(base) ==
    {o \in Outcomes(base) :
        [tokens |-> o.tokens - base.tokens, tools |-> o.tools - base.tools] \in Charges}

\* The engine returns o to r; a pause comes with a newly saved state.
engineReturns(r, o) ==
    IF o.kind = "paused"
    THEN /\ pauses' = Append(pauses, CostOf(o))
         /\ result' = [result EXCEPT ![r] =
               [kind |-> o.kind, tokens |-> o.tokens, saved |-> Len(pauses) + 1]]
    ELSE /\ pauses' = pauses
         /\ result' = [result EXCEPT ![r] =
               [kind |-> o.kind, tokens |-> o.tokens, saved |-> 0]]

\* How many saved states there are to decide on, after r's engine returned.
undecided(d, o) == IF o.kind = "paused" THEN Append(d, 0) ELSE d

\* engine.Run over the history just read.  A paused turn is not counted in
\* the conversation's statistics.
run(r) ==
    /\ pc[r] = "run"
    /\ \E o \in oneCall(Free) :
         /\ engineReturns(r, o)
         /\ decided' = undecided(decided, o)
         /\ IF o.kind = "paused"
            THEN goTo(r, "persist pause", conv[r]) /\ UNCHANGED <<turns, spent>>
            ELSE /\ goTo(r, "save reply", AddMessageStats(conv[r], o.tokens))
                 /\ turns' = turns + 1 /\ spent' = spent + o.tokens
    /\ UNCHANGED again
    /\ UNCHANGED <<db, input, reply, overlapped>>

\* How often the costs in the saved state k were handed on to a Resume, or were
\* handed on already when it was saved.
passedOn(k) == decided[k] + IF k \in again THEN 1 ELSE 0

\* What really happened when Resume goes from k to o: a turn that is in the
\* ledger only costs what this call adds.
enter(k, o) ==
    /\ turns' = turns + IF passedOn(k) = 0 THEN 1 ELSE 0
    /\ spent' = spent + o.tokens - IF passedOn(k) = 0 THEN 0 ELSE pauses[k].tokens
    /\ again' = again \cup IF o.kind = "paused" THEN {Len(pauses) + 1} ELSE {}

\* The conversation after the decision on a turn that did not pause again.
settled(r, c) == IF input[r].op = "approve" THEN Approve(c) ELSE Reject(c)

\* What follows the engine: the reply, unless it has no text; the new saved
\* state, if the turn paused again; and the row.
afterReply(o) == IF o.kind = "paused" THEN "persist pause" ELSE "update"

\* engine.Resume from the state saved in the copy of the row loaded before.  All
\* the costs it returns are added, those in the saved state included.
resume(r) ==
    /\ pc[r] = "resume"
    /\ LET k == conv[r].paused_state
           outcomes == IF input[r].op = "approve" THEN oneCall(pauses[k])
                                                  ELSE {Refusal(pauses[k])}
       IN  \E o \in outcomes, text \in BOOLEAN :
             LET counted == AddMessageStats(conv[r], o.tokens)
             IN  /\ input[r].op = "reject" => text
                 /\ engineReturns(r, o)
                 /\ decided' = undecided([decided EXCEPT ![k] = @ + 1], o)
                 /\ enter(k, o)
                 /\ goTo(r, IF text THEN "save reply" ELSE afterReply(o),
                            IF o.kind = "paused" THEN counted
                                                 ELSE settled(r, counted))
    /\ UNCHANGED <<db, input, reply, overlapped>>

-----------------------------------------------------------------------------
(* The writes                                                              *)

\* MessageRepository.Create: the table numbers its rows in the order they come.
createMessage(role, r) == messages' = Append(messages, [role |-> role, by |-> r])

saveUserMessage(r) ==
    /\ pc[r] = "save user message"
    /\ createMessage("user", r)
    /\ goTo(r, "run", conv[r])
    /\ UNCHANGED <<row, engine, input, reply, overlapped>>

\* Faulty variant: the reply goes to the client alone.
saveReplyNowhere(r) ==
    /\ pc[r] = "save reply"
    /\ goTo(r, afterReply(result[r]), conv[r])
    /\ UNCHANGED <<db, engine, input, reply, overlapped>>

saveReply(r) ==
    /\ pc[r] = "save reply"
    /\ createMessage("assistant", r)
    /\ goTo(r, afterReply(result[r]), conv[r])
    /\ UNCHANGED <<row, engine, input, reply, overlapped>>

\* UpdateWorkflowState writes one column of the row.
UpdateWorkflowState(saved) == row' = [row EXCEPT !.paused_state = saved]

\* The copy in memory keeps the workflow state it was loaded with, and becomes
\* pending.
persistPause(r) ==
    /\ pc[r] = "persist pause"
    /\ UpdateWorkflowState(result[r].saved)
    /\ goTo(r, "update", RequestApproval(conv[r]))
    /\ UNCHANGED <<messages, engine, input, reply, overlapped>>

answer(r) ==
    IF result[r].kind = "paused" THEN "pending_approval" ELSE
    CASE input[r].op = "send"    -> "answered"
      [] input[r].op = "approve" -> "approved"
      [] input[r].op = "reject"  -> "rejected"

\* Faulty variant: one column is missing from the UPDATE.
rowWithoutTokens(c) == [c EXCEPT !.TotalTokens = row.TotalTokens]

\* Update writes every column of the row from the copy in memory.  The write
\* may be done and its acknowledgement lost.
rowAfterUpdate(c) == c

update(r) ==
    /\ pc[r] = "update"
    /\ row' = rowAfterUpdate(conv[r])
    /\ \E told \in {answer(r), "error"} : finish(r, told)
    /\ UNCHANGED <<messages, engine, input, overlapped>>

\* The next call fails, or the server dies with the request in flight: nothing
\* already written is undone.
fail(r) ==
    /\ inFlight(r)
    /\ finish(r, "error")
    /\ UNCHANGED <<db, engine, input, overlapped>>

step(r) ==
    \/ saveUserMessage(r) \/ run(r) \/ resume(r) \/ saveReply(r)
    \/ persistPause(r) \/ update(r) \/ getMessages(r) \/ count(r)

\* The handlers.  An id or a body that does not parse ends a request at once.
CreateConversation(r, user) == createConversation(r, user) \/ refuse(r, user, "send")
SendMessage(r, user) ==
    loadToSend(r, user) \/ turnAway(r, user, "send") \/ refuse(r, user, "send")
ApproveAction(r, user) ==
    \E op \in {"approve", "reject"} :
        loadToDecide(r, user, op) \/ turnAway(r, user, op) \/ refuse(r, user, op)
GetConversation(r, user) ==
    loadToShow(r, user) \/ turnAway(r, user, "get") \/ refuse(r, user, "get")
ListConversations(r, user) == loadToList(r, user)

begin(r, user) ==
    \/ CreateConversation(r, user) \/ SendMessage(r, user) \/ ApproveAction(r, user)
    \/ GetConversation(r, user) \/ ListConversations(r, user)

Next == \E r \in Requests :
            step(r) \/ fail(r) \/ \E user \in Users : begin(r, user)

Spec == Init /\ [][Next]_vars

-----------------------------------------------------------------------------
(* Properties                                                              *)

Replies == {"none", "refused", "error", "answered", "approved", "rejected",
            "pending_approval", "shown", "empty"}

\* The type invariant.  A workflow state in a row, in a copy of it or on its
\* way into it is one the engine saved.
TypeOK ==
    /\ row \in Conversation \cup {None}
    /\ messages \in Seq([role : {"user", "assistant"}, by : Requests])
    /\ pauses \in Seq([tokens : Amount, tools : Amount])
    /\ pc \in [Requests -> {"idle", "save user message", "run", "resume",
                            "save reply", "persist pause", "update",
                            "get messages", "count", "done"}]
    /\ input \in [Requests -> [user : Users \cup {None},
                               op : {"none", "send", "approve", "reject", "get", "list"}]]
    /\ conv \in [Requests -> Conversation \cup {None}]
    /\ result \in [Requests -> [kind : {"none", "completed", "paused"},
                                tokens : Amount, saved : 0..Len(pauses)]]
    /\ reply \in [Requests -> Replies]
    /\ decided \in Seq(Nat) /\ Len(decided) = Len(pauses)
    /\ again \subseteq DOMAIN pauses /\ turns \in Nat /\ spent \in Nat
    /\ overlapped \in BOOLEAN

positions(role, r) ==
    {k \in DOMAIN messages : messages[k].role = role /\ messages[k].by = r}

\* Nobody but the owner sees a conversation or has any effect on it: every message
\* in it, and every request it was shown to or the engine ran for, is the owner's.
OnlyOwnerActs ==
    row # None =>
        /\ \A k \in DOMAIN messages : input[messages[k].by].user = row.UserID
        /\ \A r \in Requests : result[r] # NoResult \/ reply[r] = "shown" =>
              input[r].user = row.UserID

\* However requests interleave and fail, the transcript holds at most one
\* message of each role per request, and the reply to a message comes after it.
TranscriptInOrder ==
    \A r \in Requests :
        /\ Cardinality(positions("user", r)) <= 1
        /\ Cardinality(positions("assistant", r)) <= 1
        /\ input[r].op = "send" =>
              \A k \in positions("assistant", r) :
                  \E j \in positions("user", r) : j < k

\* A client that was given an answer finds both halves of the turn in the
\* transcript, whatever other requests and failures do.
AnsweredTurnsAreStored ==
    \A r \in Requests : reply[r] = "answered" =>
        positions("user", r) # {} /\ positions("assistant", r) # {}

\* A row that is pending says what it is pending on, and some turn did pause:
\* copies written back late never make up a pause.
PendingIsExplained ==
    row # None /\ IsPendingApproval(row) =>
        row.pending_approval /\ pauses # <<>>

\* As long as no saved state's costs are handed on twice, by two decisions on it
\* or because its turn paused before, the row never counts more turns, or more
\* tokens, than there were: statistics that concurrent requests write back late
\* are lost, never made up.  When they are handed on twice the code does count
\* them twice: each Resume returns, and ApproveAction adds, the whole turn's.
CountedAtMostOnce ==
    row # None /\ (\A k \in DOMAIN pauses : passedOn(k) <= 1) =>
        row.MessageCount <= turns /\ row.TotalTokens <= spent

\* Requests served one after the other, none of which failed midway, leave
\* exactly the conversation one expects: every turn counted, with its tokens;
\* each reply to a message next to it; and pending just when a turn paused (no
\* decision follows: PausedStateIsPersisted fails, and each is turned away).
quiet == ~overlapped /\ \A r \in Requests : ~inFlight(r) /\ reply[r] # "error"

SerialTurnsExact ==
    quiet /\ row # None =>
        /\ row.MessageCount = turns /\ row.TotalTokens = spent
        /\ \A r \in Requests : input[r].op = "send" =>
              \A k \in positions("assistant", r) : k - 1 \in positions("user", r)
        /\ IsPendingApproval(row) <=> \E r \in Requests : reply[r] = "pending_approval"

-----------------------------------------------------------------------------
(* What the documentation says, and the code does not do                   *)

\* "The paused state being persisted (so a restart does not lose it)": when no
\* request is in flight, a pending conversation holds a saved state to resume.
PausedStateIsPersisted ==
    row # None /\ IsPendingApproval(row) /\ (\A r \in Requests : ~inFlight(r)) =>
        row.paused_state # 0

\* "(prevents double-approval)": a saved state is resumed at most once.
DecidedOnce == \A k \in DOMAIN decided : decided[k] <= 1
=============================================================================
