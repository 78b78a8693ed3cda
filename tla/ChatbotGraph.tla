---------------------------- MODULE ChatbotGraph ----------------------------
(***************************************************************************)
(* The agent workflow of infrastructure/eino/graphs/chatbot_graph.go: one  *)
(* user turn served by Run, and by Resume for as long as it pauses for a   *)
(* human decision.  Every node of the graph is an action, and the loop of  *)
(* actNode is one action per tool call, because each tool call is an       *)
(* effect on the world that a failure in the next step does not undo.      *)
(*                                                                         *)
(* The LLM is external: it answers with any text and any tool calls.  A    *)
(* tool call is the number under which `calls` logs the tool it names.     *)
(* Tool results, prompts, agent personas and model names are data no       *)
(* property reads and are left out.                                        *)
(***************************************************************************)
EXTENDS Integers, Sequences

CONSTANTS
    Tools,          \* the names in the tool registry
    Gated,          \* the tools whose RequiresApproval() is true
    Invalid,        \* stands for a call whose arguments do not parse, or
                    \* whose name is not in the registry
    None,           \* nil
    MaxIterations,  \* AgentState.MaxIterations (10 in NewAgentState)
    Usage,          \* the TotalTokens an LLM answer may report; 0 when the
                    \* provider reports no usage
    MaxCalls,       \* bound: tool calls in one LLM answer
    MaxResumes      \* bound: approvals in one turn

ASSUME ToolAssumption == Gated \subseteq Tools /\ Invalid \notin Tools
ASSUME BoundAssumption ==
    MaxIterations \in Nat \ {0} /\ MaxCalls \in Nat /\ MaxResumes \in Nat
ASSUME UsageAssumption == Usage \subseteq Nat

VARIABLES
    pc,             \* where Run or Resume is; "idle" when none is running
    at,             \* the loop index of actNode
    s,              \* the *state.AgentState of the invocation
    output,         \* what the last Run or Resume returned
    checkpoint,     \* the PausedStateJSON the caller holds, or None
    calls,          \* history: the tool named by each call the LLM made
    runs,           \* history: how often Execute ran for each call
    ran,            \* history: how often Execute ran altogether
    granted,        \* history: the calls a human approved
    resumes         \* history: how many approved Resumes began

history == <<calls, runs, ran, granted, resumes>>
vars == <<pc, at, s, output, checkpoint, history>>

-----------------------------------------------------------------------------
(* The data: chat messages and the agent state                             *)

\* What the assistant says and a user can be given; never a user's or a
\* tool's words.
Reply == {"empty", "earlier", "reply", "rejected"}

CallIds == Seq(Nat)

Message ==
    [role : {"user"}, content : {"input", "earlier"}, calls : {<<>>},
     answers : {0}]
    \cup [role : {"assistant"}, content : Reply, calls : CallIds,
          answers : {0}]
    \cup [role : {"tool"}, content : {"result"}, calls : {<<>>},
          answers : Nat]

Transcript == Seq(Message)

UserMessage(content) ==
    [role |-> "user", content |-> content, calls |-> <<>>, answers |-> 0]
AssistantMessage(content, toolCalls) ==
    [role |-> "assistant", content |-> content, calls |-> toolCalls,
     answers |-> 0]
\* Faulty variant: the result does not say which call it answers.
ToolResultUnlabelled(id) ==
    [role |-> "tool", content |-> "result", calls |-> <<>>, answers |-> 0]
ToolResult(id) ==
    [role |-> "tool", content |-> "result", calls |-> <<>>, answers |-> id]

AgentState ==
    [Messages : Transcript, CurrentOutput : Reply, PendingTools : CallIds,
     ToolResults : Transcript, RequiresApproval : BOOLEAN,
     ApprovalData : Nat, IsApproved : {"nil", "true", "false"},
     Iteration : Nat, ShouldStop : BOOLEAN, TokensUsed : Nat,
     ToolCallsCount : Nat]

\* nil is neither a state nor what is read of one.
ASSUME NoneAssumption ==
    None \notin AgentState /\ None \notin [tokens : Nat, tools : Nat]

NewAgentState(messages) ==
    [Messages |-> messages, CurrentOutput |-> "empty", PendingTools |-> <<>>,
     ToolResults |-> <<>>, RequiresApproval |-> FALSE, ApprovalData |-> 0,
     IsApproved |-> "nil", Iteration |-> 0, ShouldStop |-> FALSE,
     TokensUsed |-> 0, ToolCallsCount |-> 0]

\* The stored messages Run is given: this turn's user message, after those of an
\* earlier turn, or before the reply to a message that was served meanwhile.
Conversations ==
    LET now == UserMessage("input")
        then == UserMessage("earlier")
        said == AssistantMessage("earlier", <<>>)
    IN  {<<now>>, <<then, said, now>>, <<then, now, said>>}

\* The messages the next LLM request carries, after the system prompt.
buildMessages(st) ==
    LET m == st.Messages
    IN  IF m = <<>> \/ m[Len(m)].content # "input"
        THEN Append(m, UserMessage("input")) ELSE m

Output == [kind : {"none", "error", "completed", "paused"}, Response : Reply,
           TokensUsed : Nat, ToolCallsCount : Nat]

Returned(kind, st) ==
    [kind |-> kind, Response |-> st.CurrentOutput,
     TokensUsed |-> st.TokensUsed, ToolCallsCount |-> st.ToolCallsCount]

NoOutput == [kind |-> "none", Response |-> "empty", TokensUsed |-> 0,
             ToolCallsCount |-> 0]
ErrorOutput == [NoOutput EXCEPT !.kind = "error"]

-----------------------------------------------------------------------------
(* Routing                                                                 *)

routeAfterThink(st) ==
    IF st.PendingTools # <<>> THEN "act"
    ELSE IF st.RequiresApproval THEN "human_approval" ELSE "response"

\* Faulty variant: the iteration limit is not looked at.
routeAfterObserveForever(st) ==
    IF st.RequiresApproval THEN "human_approval" ELSE "think"
routeAfterObserve(st) ==
    IF st.ShouldStop THEN "response"
    ELSE IF st.RequiresApproval THEN "human_approval" ELSE "think"

\* Faulty variant: the graph waits for the decision instead of ending.
routeAfterApprovalWaiting(st) ==
    CASE st.IsApproved = "nil"   -> "human_approval"
      [] st.IsApproved = "true"  -> "act"
      [] st.IsApproved = "false" -> "response"

routeAfterApproval(st) ==
    CASE st.IsApproved = "nil"   -> "END"
      [] st.IsApproved = "true"  -> "act"
      [] st.IsApproved = "false" -> "response"

\* Who called actNode: the graph, or Resume itself.
afterAct == IF pc = "act" THEN "observe" ELSE "resume_observe"

-----------------------------------------------------------------------------
(* The workflow                                                            *)

Init ==
    /\ pc = "idle" /\ at = 0
    /\ s = NewAgentState(<<>>)
    /\ output = NoOutput /\ checkpoint = None
    /\ calls = <<>> /\ runs = <<>> /\ ran = 0 /\ granted = {} /\ resumes = 0

Run ==
    /\ pc = "idle" /\ output = NoOutput /\ checkpoint = None
    /\ \E messages \in Conversations : s' = NewAgentState(messages)
    /\ pc' = "think"
    /\ UNCHANGED <<at, output, checkpoint, history>>

\* Faulty variant: the costs of the turn start anew.
restoredFree(cp) ==
    [cp EXCEPT !.IsApproved = "true", !.RequiresApproval = FALSE,
               !.TokensUsed = 0]

\* The saved state with the decision taken.
restored(cp) ==
    [cp EXCEPT !.IsApproved = "true", !.RequiresApproval = FALSE]

\* Approved: Resume calls actNode and observeNode itself before it enters the
\* graph again.
ResumeApproved ==
    /\ pc = "idle" /\ checkpoint # None /\ resumes < MaxResumes
    /\ s' = restored(checkpoint)
    /\ pc' = "resume_act" /\ at' = 0
    /\ output' = NoOutput
    /\ granted' = granted \cup {checkpoint.ApprovalData}
    /\ resumes' = resumes + 1
    /\ UNCHANGED <<checkpoint, calls, runs, ran>>

ResumeRejected ==
    /\ pc = "idle" /\ checkpoint # None
    /\ s' = [checkpoint EXCEPT
                !.IsApproved = "false", !.RequiresApproval = FALSE,
                !.CurrentOutput = IF @ = "empty" THEN "rejected" ELSE @]
    /\ output' = Returned("completed", s')
    /\ checkpoint' = None
    /\ UNCHANGED <<pc, at, history>>

\* Faulty variant: tool calls are added to what was pending.
thoughtAppending(st, content, ids, usage) ==
    [st EXCEPT !.TokensUsed = @ + usage, !.CurrentOutput = content,
               !.PendingTools = @ \o ids,
               !.Messages = Append(@, AssistantMessage(content, ids))]

\* The state after an LLM answer: its tool calls overwrite what was pending,
\* and the tokens it reports are added up.
thought(st, content, ids, usage) ==
    [st EXCEPT !.TokensUsed = @ + usage, !.CurrentOutput = content,
               !.PendingTools = ids,
               !.Messages = Append(@, AssistantMessage(content, ids))]

thinkNode ==
    /\ pc = "think"
    /\ \E content \in {"empty", "reply"}, usage \in Usage, n \in 0..MaxCalls :
       \E requests \in [1..n -> Tools \cup {Invalid}] :
          LET ids == [k \in 1..n |-> Len(calls) + k]
          IN  /\ calls' = calls \o requests
              /\ runs' = runs \o [k \in 1..n |-> 0]
              /\ s' = thought(s, content, ids, usage)
    /\ pc' = routeAfterThink(s')
    /\ at' = 0
    /\ UNCHANGED <<output, checkpoint, ran, granted, resumes>>

inAct == pc \in {"act", "resume_act"}
current == s.PendingTools[at]
atCall == inAct /\ at \in 1..Len(s.PendingTools)
\* Faulty variant: no tool asks.
requiresNoApproval(id) == FALSE
requiresApproval(id) == calls[id] \in Gated

addToolResult(st, id) ==
    [st EXCEPT !.ToolResults = Append(@, ToolResult(id))]
\* Faulty variant: the call is not counted.
executedUncounted(st, id) == addToolResult(st, id)
executed(st, id) ==
    [addToolResult(st, id) EXCEPT !.ToolCallsCount = @ + 1]
\* Faulty variant: the pending calls are cleared, as when all have run.
pausedClearing(st, id) ==
    [st EXCEPT !.RequiresApproval = TRUE, !.ApprovalData = id,
               !.PendingTools = <<>>]
paused(st, id) ==
    [st EXCEPT !.RequiresApproval = TRUE, !.ApprovalData = id]

actBegin ==
    /\ inAct /\ at = 0
    /\ s' = [s EXCEPT !.ToolResults = <<>>]
    /\ at' = 1
    /\ UNCHANGED <<pc, output, checkpoint, history>>

\* Arguments that do not parse, or an unknown tool: an error result.
actRefuse ==
    /\ atCall /\ calls[current] = Invalid
    /\ s' = addToolResult(s, current)
    /\ at' = at + 1
    /\ UNCHANGED <<pc, output, checkpoint, history>>

\* A tool that needs approval: return at once, keeping every pending call.
actPause ==
    /\ atCall /\ calls[current] \in Tools /\ requiresApproval(current)
    /\ s' = paused(s, current)
    /\ pc' = afterAct
    /\ UNCHANGED <<at, output, checkpoint, history>>

\* Execute the tool; its result, or its error, becomes a tool message.
actExecute ==
    /\ atCall /\ calls[current] \in Tools /\ ~requiresApproval(current)
    /\ runs' = [runs EXCEPT ![current] = @ + 1] /\ ran' = ran + 1
    /\ s' = executed(s, current)
    /\ at' = at + 1
    /\ UNCHANGED <<pc, output, checkpoint, calls, granted, resumes>>

actEnd ==
    /\ inAct /\ at = Len(s.PendingTools) + 1
    /\ s' = [s EXCEPT !.PendingTools = <<>>]
    /\ pc' = afterAct
    /\ UNCHANGED <<at, output, checkpoint, history>>

\* Faulty variant: the results are dropped, not flushed.
observedWithoutFlush(st) ==
    [st EXCEPT !.ToolResults = <<>>, !.Iteration = @ + 1,
               !.ShouldStop = @ \/ st.Iteration + 1 >= MaxIterations]

\* FlushToolResults, the iteration count and the limit on it.
observed(st) ==
    [st EXCEPT !.Messages = @ \o st.ToolResults, !.ToolResults = <<>>,
               !.Iteration = @ + 1,
               !.ShouldStop = @ \/ st.Iteration + 1 >= MaxIterations]

observeNode ==
    /\ pc = "observe"
    /\ s' = observed(s)
    /\ pc' = routeAfterObserve(s')
    /\ UNCHANGED <<at, output, checkpoint, history>>

\* Resume: observeNode, the approval flags cleared, and the graph entered
\* from START with the state it has.
resumeObserve ==
    /\ pc = "resume_observe"
    /\ s' = [observed(s) EXCEPT !.IsApproved = "nil",
                                !.RequiresApproval = FALSE]
    /\ pc' = "think"
    /\ UNCHANGED <<at, output, checkpoint, history>>

humanApprovalNode ==
    /\ pc = "human_approval"
    /\ pc' = routeAfterApproval(s)
    /\ UNCHANGED <<at, s, output, checkpoint, history>>

\* Faulty variants: anybody's last words; nobody's.
lastWords(messages) ==
    IF messages = <<>> THEN "empty" ELSE messages[Len(messages)].content
lastSilence(messages) == "empty"

\* The last thing the assistant said, for an answer that came without text.
lastSaid(messages) ==
    LET said(k) == messages[k].role = "assistant" /\ messages[k].content # "empty"
        last(k) == said(k) /\ \A j \in DOMAIN messages : said(j) => j <= k
    IN  IF \E k \in DOMAIN messages : last(k)
        THEN messages[CHOOSE k \in DOMAIN messages : last(k)].content ELSE "empty"

responseNode ==
    /\ pc = "response"
    /\ s' = [s EXCEPT !.CurrentOutput = IF @ = "empty" THEN lastSaid(s.Messages)
                                                  ELSE @,
                      !.ShouldStop = TRUE]
    /\ pc' = "END"
    /\ UNCHANGED <<at, output, checkpoint, history>>

\* The end of Run and of Resume: a state that still requires approval is
\* serialised and handed to the caller.
finish ==
    /\ pc = "END"
    /\ output' = Returned(IF s.RequiresApproval THEN "paused" ELSE "completed", s)
    /\ checkpoint' = IF s.RequiresApproval THEN s ELSE None
    /\ pc' = "idle"
    /\ UNCHANGED <<at, s, history>>

\* The invocation ends in an error: the LLM call failed or answered without
\* choices, the request's context was cancelled, or the process died.
abort ==
    /\ pc # "idle"
    /\ pc' = "idle"
    /\ output' = ErrorOutput
    /\ UNCHANGED <<at, s, checkpoint, history>>

actNode == actBegin \/ actRefuse \/ actPause \/ actExecute \/ actEnd

nodes ==
    \/ thinkNode \/ actNode \/ observeNode \/ resumeObserve
    \/ humanApprovalNode \/ responseNode \/ finish

Next == Run \/ ResumeApproved \/ ResumeRejected \/ nodes \/ abort

\* The scheduler keeps running the goroutine that serves a request, and every
\* LLM or tool call ends, if only by its timeout.  Nothing makes a user send
\* a message or decide.
Spec == Init /\ [][Next]_vars /\ WF_vars(nodes)

-----------------------------------------------------------------------------
(* Properties                                                              *)

\* The type invariant.  What is returned to the user is the assistant's text,
\* and every pending call is one the LLM made.
TypeOK ==
    /\ pc \in {"idle", "think", "act", "observe", "human_approval", "response",
               "resume_act", "resume_observe", "END"}
    /\ at \in Nat
    /\ s \in AgentState
    /\ output \in Output
    /\ checkpoint \in AgentState \cup {None}
    /\ calls \in Seq(Tools \cup {Invalid})
    /\ runs \in Seq(Nat) /\ Len(runs) = Len(calls) /\ ran \in Nat
    /\ granted \subseteq Nat
    /\ resumes \in Nat

\* A tool that requires approval never runs before a human approved that very
\* call: whatever the LLM asks for, in whatever order, however often the turn
\* pauses, fails and is resumed (the check in actNode).
GateHolds ==
    \A id \in DOMAIN calls :
        calls[id] \in Gated /\ runs[id] > 0 => id \in granted

\* No tool call runs more often than once in Run and once more for each approved
\* Resume, failed ones included.  The bound is reached: the calls that ran
\* before a pause are still pending in the saved state, so the first Resume
\* runs them again, and so does each repetition of a Resume that failed.
RunsBounded == \A id \in DOMAIN runs : runs[id] <= 1 + resumes

\* m[k], an assistant message, is followed by the results of all its tool
\* calls, in the order of the calls.
answeredAt(m, k) ==
    \A j \in DOMAIN m[k].calls :
        k + j <= Len(m) /\ m[k + j].answers = m[k].calls[j]

\* Before any pause is resumed, each LLM request answers every earlier tool
\* call at once and in order, as the chat completion protocol demands:
\* executed, failed, unknown or unparsable alike.
PromptAnswered ==
    pc = "think" /\ resumes = 0 =>
        LET m == buildMessages(s) IN \A k \in DOMAIN m : answeredAt(m, k)

\* Even after a resume, a tool message in the transcript answers a call that
\* an earlier assistant message made.
NoForeignAnswer ==
    \A k \in DOMAIN s.Messages : s.Messages[k].role = "tool" =>
        \E j \in 1..(k - 1) : \E i \in DOMAIN s.Messages[j].calls :
            s.Messages[j].calls[i] = s.Messages[k].answers

\* st names a pending call of a gated tool, and everything pending before that
\* call could run without approval.
awaits(st) ==
    \E k \in DOMAIN st.PendingTools :
        /\ st.PendingTools[k] = st.ApprovalData
        /\ calls[st.ApprovalData] \in Gated
        /\ \A j \in 1..(k - 1) : calls[st.PendingTools[j]] \notin Gated

\* A saved state is one a human has yet to decide on: it says so, it names the
\* call to decide on, and no tool result is left outside the transcript.
PauseAwaitsDecision ==
    checkpoint # None =>
        /\ checkpoint.RequiresApproval /\ checkpoint.IsApproved = "nil"
        /\ checkpoint.ToolResults = <<>>
        /\ awaits(checkpoint)

\* The tool calls billed never exceed the tools run, and before a resume they
\* are exactly those: a refused call and a pause cost nothing.
BilledCallsRan ==
    /\ s.ToolCallsCount <= ran
    /\ output.ToolCallsCount <= ran
    /\ resumes = 0 => s.ToolCallsCount = ran

\* The agent loop is bounded: MaxIterations act-observe rounds, and at most two
\* more for each time a human lets it go on.
LoopBounded == s.Iteration <= MaxIterations + 2 * resumes

\* If the assistant said anything, the user is not given an empty answer, even
\* when the limit cuts the turn off after an LLM answer without text.
SpokenAnswerReturned ==
    output.kind = "completed" /\ output.Response = "empty" =>
        \A k \in DOMAIN s.Messages :
            s.Messages[k].role = "assistant" => s.Messages[k].content = "empty"

\* Every Run and every Resume returns.
Terminates == pc # "idle" ~> pc = "idle"

\* The graph keeps the promise of the WorkflowEngine interface.
engine == INSTANCE WorkflowEngine WITH
    Amount <- Nat,
    op <- IF pc = "idle" THEN "none"
          ELSE IF checkpoint = None THEN "run" ELSE "resume",
    result <- [kind |-> output.kind, tokens |-> output.TokensUsed,
               tools |-> output.ToolCallsCount],
    checkpoint <- IF checkpoint = None THEN None
                  ELSE [tokens |-> checkpoint.TokensUsed,
                        tools |-> checkpoint.ToolCallsCount]
ImplementsEngine == engine!Spec

-----------------------------------------------------------------------------
(* What the documentation says, and the code does not do                   *)

\* "actNode: executes delete_file", "the workflow resuming from exactly where
\* it stopped": when an approved turn completes, the approved call has run.
ApprovedActionRuns ==
    output.kind = "completed" /\ s.IsApproved # "false" =>
        \A id \in granted : runs[id] > 0

\* "resuming from exactly where it stopped": no tool call runs twice.
NothingRunsTwice == \A id \in DOMAIN runs : runs[id] <= 1
=============================================================================
