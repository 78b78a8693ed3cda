------------------------- MODULE ChatbotGraphProofs -------------------------
(***************************************************************************)
(* What holds of the agent workflow for every registry of tools, every     *)
(* iteration limit, and every number of calls and approvals.               *)
(***************************************************************************)
EXTENDS ChatbotGraph, SequenceTheorems, WellFoundedInduction, TLAPS

\* Every action has a step of its own in the proofs below.
LEMMA StepCases ==
    ASSUME [Next]_vars
    PROVE  \/ Run \/ ResumeApproved \/ ResumeRejected \/ thinkNode
           \/ actBegin \/ actRefuse \/ actPause \/ actExecute \/ actEnd
           \/ observeNode \/ resumeObserve \/ humanApprovalNode
           \/ responseNode \/ finish \/ abort \/ UNCHANGED vars
  BY DEF Next, nodes, actNode

-----------------------------------------------------------------------------
(* Types                                                                   *)

LEMMA NewStateType ==
    ASSUME NEW messages \in Transcript
    PROVE  NewAgentState(messages) \in AgentState
  BY DEF NewAgentState, AgentState, Reply, Transcript, CallIds

LEMMA ConversationType == Conversations \subseteq Transcript
  BY DEF Conversations, Transcript, CallIds, Message, UserMessage, AssistantMessage, Reply

\* The fields of a state, each of its type.
LEMMA FieldValues ==
    ASSUME NEW st \in AgentState
    PROVE  /\ st.Messages \in Transcript /\ st.ToolResults \in Transcript
           /\ st.PendingTools \in CallIds /\ st.CurrentOutput \in Reply
           /\ st.RequiresApproval \in BOOLEAN /\ st.ShouldStop \in BOOLEAN
           /\ st.ApprovalData \in Nat /\ st.Iteration \in Nat
           /\ st.TokensUsed \in Nat /\ st.ToolCallsCount \in Nat
           /\ st.IsApproved \in {"nil", "true", "false"}
  BY DEF AgentState

\* A field of the state may be replaced by any value of its type.
LEMMA FieldTypes ==
    ASSUME NEW st \in AgentState
    PROVE  /\ \A ms \in Transcript : [st EXCEPT !.ToolResults = ms] \in AgentState
           /\ \A n \in Nat : [st EXCEPT !.ToolCallsCount = n] \in AgentState
           /\ \A ids \in CallIds : [st EXCEPT !.PendingTools = ids] \in AgentState
           /\ \A text \in Reply, b \in BOOLEAN :
                [st EXCEPT !.CurrentOutput = text, !.ShouldStop = b] \in AgentState
           /\ \A n \in Nat, text \in Reply, ids \in CallIds, ms \in Transcript :
                [st EXCEPT !.TokensUsed = n, !.CurrentOutput = text,
                           !.PendingTools = ids, !.Messages = ms] \in AgentState
           /\ \A ms, rs \in Transcript, n \in Nat, b \in BOOLEAN :
                [st EXCEPT !.Messages = ms, !.ToolResults = rs,
                           !.Iteration = n, !.ShouldStop = b] \in AgentState
  BY DEF AgentState

\* The indices of the pending calls, and the calls at them.
LEMMA PendingDomain ==
    ASSUME NEW st \in AgentState
    PROVE  /\ Len(st.PendingTools) \in Nat
           /\ DOMAIN st.PendingTools = 1..Len(st.PendingTools)
           /\ \A k \in DOMAIN st.PendingTools : st.PendingTools[k] \in Nat
  BY FieldValues, LenProperties, ElementOfSeq DEF CallIds

LEMMA ResultType ==
    ASSUME NEW st \in AgentState, NEW id \in Nat
    PROVE  /\ addToolResult(st, id) \in AgentState
           /\ executed(st, id) \in AgentState
           /\ paused(st, id) \in AgentState
  <1>1. ToolResult(id) \in Message
    BY DEF ToolResult, Message
  <1>2. Append(st.ToolResults, ToolResult(id)) \in Transcript
    BY <1>1, FieldValues, AppendProperties DEF Transcript
  <1>3. addToolResult(st, id) \in AgentState
    BY <1>2, FieldTypes DEF addToolResult
  <1>4. addToolResult(st, id).ToolCallsCount + 1 \in Nat
    BY <1>3, FieldValues
  <1>5. executed(st, id) \in AgentState
    BY <1>3, <1>4, FieldTypes DEF executed
  <1>6. paused(st, id) \in AgentState
    BY DEF paused, AgentState
  <1> QED
    BY <1>3, <1>5, <1>6

LEMMA ThoughtType ==
    ASSUME NEW st \in AgentState, NEW content \in {"empty", "reply"},
           NEW ids \in CallIds, NEW usage \in Usage
    PROVE  thought(st, content, ids, usage) \in AgentState
  <1>1. AssistantMessage(content, ids) \in Message
    BY DEF AssistantMessage, Message, Reply
  <1>2. Append(st.Messages, AssistantMessage(content, ids)) \in Transcript
    BY <1>1, FieldValues, AppendProperties DEF Transcript
  <1>3. st.TokensUsed + usage \in Nat
    BY FieldValues, UsageAssumption
  <1>4. content \in Reply
    BY DEF Reply
  <1> QED
    BY <1>2, <1>3, <1>4, FieldTypes DEF thought

LEMMA ObservedType ==
    ASSUME NEW st \in AgentState
    PROVE  observed(st) \in AgentState
  <1>1. st.Messages \o st.ToolResults \in Transcript
    BY FieldValues, ConcatProperties DEF Transcript
  <1>2. <<>> \in Transcript
    BY DEF Transcript
  <1>3. /\ st.Iteration + 1 \in Nat
        /\ (st.ShouldStop \/ st.Iteration + 1 >= MaxIterations) \in BOOLEAN
    BY FieldValues
  <1> QED
    BY <1>1, <1>2, <1>3, FieldTypes DEF observed

LEMMA LastSaidType ==
    ASSUME NEW messages \in Transcript
    PROVE  lastSaid(messages) \in Reply
  <1> DEFINE said(k) == messages[k].role = "assistant" /\ messages[k].content # "empty"
             last(k) == said(k) /\ \A j \in DOMAIN messages : said(j) => j <= k
  <1>1. CASE ~ \E k \in DOMAIN messages : last(k)
    BY <1>1 DEF lastSaid, Reply
  <1>2. CASE \E k \in DOMAIN messages : last(k)
    <2> DEFINE final == CHOOSE k \in DOMAIN messages : last(k)
    <2>1. final \in DOMAIN messages /\ last(final)
      <3> HIDE DEF last
      <3> QED
        BY <1>2, Zenon
    <2> HIDE DEF final
    <2>2. messages[final] \in Message
      BY <2>1, LenProperties, ElementOfSeq DEF Transcript
    <2>3. messages[final].content \in Reply
      BY <2>1, <2>2 DEF Message
    <2>4. lastSaid(messages) = messages[final].content
      BY <1>2 DEF lastSaid, final
    <2> QED
      BY <2>3, <2>4
  <1> QED
    BY <1>1, <1>2

LEMMA ReturnedType ==
    ASSUME NEW kind \in {"none", "error", "completed", "paused"},
           NEW st \in AgentState
    PROVE  Returned(kind, st) \in Output
  BY FieldValues DEF Returned, Output

\* The LLM's calls are numbered on from those it made before.
LEMMA NewCallsType ==
    ASSUME TypeOK, NEW n \in Nat, NEW requests \in [1..n -> Tools \cup {Invalid}]
    PROVE  /\ [k \in 1..n |-> Len(calls) + k] \in CallIds
           /\ calls \o requests \in Seq(Tools \cup {Invalid})
           /\ runs \o [k \in 1..n |-> 0] \in Seq(Nat)
           /\ Len(calls \o requests) = Len(calls) + n
           /\ Len(runs \o [k \in 1..n |-> 0]) = Len(calls) + n
  <1>1. /\ calls \in Seq(Tools \cup {Invalid}) /\ Len(calls) \in Nat
        /\ runs \in Seq(Nat) /\ Len(runs) = Len(calls)
    BY LenProperties DEF TypeOK
  <1>2. requests \in Seq(Tools \cup {Invalid}) /\ Len(requests) = n
    BY IsASeq, LenProperties
  <1> DEFINE zeros == [k \in 1..n |-> 0]
  <1>3. zeros \in Seq(Nat) /\ Len(zeros) = n
    BY IsASeq, LenProperties
  <1>4. [k \in 1..n |-> Len(calls) + k] \in Seq(Nat)
    <2>1. \A k \in 1..n : Len(calls) + k \in Nat
      BY <1>1
    <2> QED
      BY <2>1, IsASeq
  <1>5. [k \in 1..n |-> Len(calls) + k] \in CallIds
    BY <1>4 DEF CallIds
  <1>6. /\ calls \o requests \in Seq(Tools \cup {Invalid})
        /\ Len(calls \o requests) = Len(calls) + n
    BY <1>1, <1>2, ConcatProperties
  <1>7. runs \o zeros \in Seq(Nat) /\ Len(runs \o zeros) = Len(calls) + n
    <2> HIDE DEF zeros
    <2>1. runs \o zeros \in Seq(Nat) /\ Len(runs \o zeros) = Len(runs) + Len(zeros)
      BY <1>1, <1>3, ConcatProperties, Zenon
    <2> QED
      BY <2>1, <1>1, <1>3
  <1> QED
    BY <1>5, <1>6, <1>7

\* Every step keeps the types.
LEMMA TypeStep == TypeOK /\ [Next]_vars => TypeOK'
  <1> SUFFICES ASSUME TypeOK, [Next]_vars
               PROVE  TypeOK'
    OBVIOUS
  <1>1. CASE Run
    <2>1. s' \in AgentState
      BY <1>1, NewStateType, ConversationType DEF Run
    <2> QED
      BY <1>1, <2>1 DEF Run, TypeOK, history
  <1>2. CASE ResumeApproved
    <2>1. checkpoint \in AgentState
      BY <1>2 DEF ResumeApproved, TypeOK
    <2>2. s' \in AgentState
      BY <1>2, <2>1 DEF ResumeApproved, restored, AgentState
    <2>3. granted' \subseteq Nat
      BY <1>2, <2>1, FieldValues DEF ResumeApproved, TypeOK
    <2>4. output' \in Output
      BY <1>2 DEF ResumeApproved, NoOutput, Output, Reply
    <2> QED
      BY <1>2, <2>2, <2>3, <2>4 DEF ResumeApproved, TypeOK
  <1>3. CASE ResumeRejected
    <2>1. checkpoint \in AgentState
      BY <1>3 DEF ResumeRejected, TypeOK
    <2>2. s' \in AgentState
      BY <1>3, <2>1 DEF ResumeRejected, AgentState, Reply
    <2>3. output' \in Output
      BY <1>3, <2>2, ReturnedType DEF ResumeRejected
    <2> QED
      BY <1>3, <2>2, <2>3 DEF ResumeRejected, TypeOK, history
  <1>4. CASE thinkNode
    <2>1. PICK content \in {"empty", "reply"}, usage \in Usage, n \in 0..MaxCalls :
            \E requests \in [1..n -> Tools \cup {Invalid}] :
              /\ calls' = calls \o requests
              /\ runs' = runs \o [k \in 1..n |-> 0]
              /\ s' = thought(s, content, [k \in 1..n |-> Len(calls) + k], usage)
      BY <1>4 DEF thinkNode
    <2>2. n \in Nat
      BY BoundAssumption
    <2>3. s' \in AgentState
      <3>1. [k \in 1..n |-> Len(calls) + k] \in CallIds
        BY <2>1, <2>2, NewCallsType
      <3>2. s \in AgentState
        BY DEF TypeOK
      <3> QED BY <2>1, <3>1, <3>2, ThoughtType
    <2>4. /\ calls' \in Seq(Tools \cup {Invalid})
          /\ runs' \in Seq(Nat) /\ Len(runs') = Len(calls')
      BY <2>1, <2>2, NewCallsType
    <2>5. pc' \in {"act", "human_approval", "response"}
      BY <1>4 DEF thinkNode, routeAfterThink
    <2> QED
      BY <1>4, <2>3, <2>4, <2>5 DEF thinkNode, TypeOK
  <1>5. CASE actBegin
    <2>1. s' \in AgentState
      <3>1. <<>> \in Transcript
        BY DEF Transcript
      <3> QED
        BY <1>5, <3>1, FieldTypes DEF actBegin, TypeOK
    <2> QED
      BY <1>5, <2>1 DEF actBegin, TypeOK, history
  <1>6. ASSUME atCall PROVE current \in Nat
    BY <1>6, FieldValues, LenProperties, ElementOfSeq
       DEF atCall, current, CallIds, TypeOK
  <1>7. CASE actRefuse
    <2>1. s' \in AgentState
      BY <1>7, <1>6, ResultType DEF actRefuse, TypeOK
    <2> QED
      BY <1>7, <2>1 DEF actRefuse, TypeOK, history
  <1>8. CASE actPause
    <2>1. s' \in AgentState
      BY <1>8, <1>6, ResultType DEF actPause, TypeOK
    <2> QED
      BY <1>8, <2>1 DEF actPause, afterAct, TypeOK, history
  <1>9. CASE actExecute
    <2>1. s' \in AgentState
      BY <1>9, <1>6, ResultType DEF actExecute, TypeOK
    <2>2. runs' \in Seq(Nat) /\ Len(runs') = Len(runs)
      <3>1. CASE current \in 1..Len(runs)
        <4>1. runs[current] + 1 \in Nat
          BY <3>1, ElementOfSeq DEF TypeOK
        <4> QED
          BY <1>9, <3>1, <4>1, ExceptSeq DEF actExecute, TypeOK
      <3>2. CASE current \notin 1..Len(runs)
        <4>1. runs' = runs
          BY <1>9, <3>2, LenProperties DEF actExecute, TypeOK
        <4> QED
          BY <4>1 DEF TypeOK
      <3> QED
        BY <3>1, <3>2
    <2> QED
      BY <1>9, <2>1, <2>2 DEF actExecute, TypeOK
  <1>10. CASE actEnd
    <2>1. s' \in AgentState
      <3>1. <<>> \in CallIds
        BY DEF CallIds
      <3> QED
        BY <1>10, <3>1, FieldTypes DEF actEnd, TypeOK
    <2> QED
      BY <1>10, <2>1 DEF actEnd, afterAct, TypeOK, history
  <1>11. CASE observeNode
    <2>1. s' \in AgentState
      BY <1>11, ObservedType DEF observeNode, TypeOK
    <2>2. pc' \in {"response", "human_approval", "think"}
      BY <1>11 DEF observeNode, routeAfterObserve
    <2> QED
      BY <1>11, <2>1, <2>2 DEF observeNode, TypeOK, history
  <1>12. CASE resumeObserve
    <2>1. observed(s) \in AgentState
      BY ObservedType DEF TypeOK
    <2>2. s' \in AgentState
      BY <1>12, <2>1 DEF resumeObserve, AgentState
    <2> QED
      BY <1>12, <2>2 DEF resumeObserve, TypeOK, history
  <1>13. CASE humanApprovalNode
    <2>1. pc' \in {"END", "act", "response"}
      BY <1>13, FieldValues DEF humanApprovalNode, routeAfterApproval, TypeOK
    <2> QED
      BY <1>13, <2>1 DEF humanApprovalNode, TypeOK, history
  <1>14. CASE responseNode
    <2>1. lastSaid(s.Messages) \in Reply
      BY LastSaidType, FieldValues DEF TypeOK
    <2>2. s' \in AgentState
      BY <1>14, <2>1, FieldTypes, FieldValues DEF responseNode, TypeOK
    <2> QED
      BY <1>14, <2>2 DEF responseNode, TypeOK, history
  <1>15. CASE finish
    <2>1. output' \in Output
      BY <1>15, ReturnedType DEF finish, TypeOK
    <2> QED
      BY <1>15, <2>1 DEF finish, TypeOK, history
  <1>16. CASE abort
    <2>1. output' \in Output
      BY <1>16 DEF abort, ErrorOutput, NoOutput, Output, Reply
    <2> QED
      BY <1>16, <2>1 DEF abort, TypeOK, history
  <1>17. CASE UNCHANGED vars
    BY <1>17 DEF vars, history, TypeOK
  <1> QED
    BY <1>1, <1>2, <1>3, <1>4, <1>5, <1>7, <1>8, <1>9, <1>10, <1>11,
       <1>12, <1>13, <1>14, <1>15, <1>16, <1>17, StepCases

\* The type invariant holds in every reachable state.
THEOREM Typing == Spec => []TypeOK
  <1>1. Init => TypeOK
    <2> SUFFICES ASSUME Init PROVE TypeOK
      OBVIOUS
    <2>1. s \in AgentState
      <3>1. <<>> \in Transcript
        BY DEF Transcript
      <3> QED
        BY <3>1, NewStateType DEF Init
    <2>2. output \in Output
      BY DEF Init, NoOutput, Output, Reply
    <2> QED
      BY <2>1, <2>2 DEF Init, TypeOK
  <1> QED
    BY <1>1, TypeStep, PTL DEF Spec

-----------------------------------------------------------------------------
(* What the steps do, field by field                                       *)

\* An LLM answer replaces the pending calls and costs what it reports.
LEMMA ThoughtFields ==
    ASSUME NEW st \in AgentState, NEW content, NEW ids, NEW usage
    PROVE  LET new == thought(st, content, ids, usage)
           IN  /\ new.PendingTools = ids
               /\ new.TokensUsed = st.TokensUsed + usage
               /\ new.ToolCallsCount = st.ToolCallsCount
               /\ new.Iteration = st.Iteration
               /\ new.ToolResults = st.ToolResults
               /\ new.RequiresApproval = st.RequiresApproval
               /\ new.IsApproved = st.IsApproved
  BY DEF thought, AgentState

\* A tool result, executed or not, leaves everything else alone but the count.
LEMMA ResultFields ==
    ASSUME NEW st \in AgentState, NEW id,
           NEW new \in {addToolResult(st, id), executed(st, id)}
    PROVE  /\ new.PendingTools = st.PendingTools
           /\ new.TokensUsed = st.TokensUsed
           /\ new.ToolCallsCount >= st.ToolCallsCount
           /\ new.Iteration = st.Iteration
           /\ new.RequiresApproval = st.RequiresApproval
           /\ new.IsApproved = st.IsApproved
  <1>1. CASE new = addToolResult(st, id)
    BY <1>1 DEF addToolResult, AgentState
  <1>2. CASE new = executed(st, id)
    <2> DEFINE mid == addToolResult(st, id)
    <2>1. /\ mid = [st EXCEPT !.ToolResults = Append(@, ToolResult(id))]
          /\ new = [mid EXCEPT !.ToolCallsCount = @ + 1]
      BY <1>2 DEF addToolResult, executed
    <2> HIDE DEF mid
    <2> QED
      BY <2>1 DEF AgentState
  <1> QED
    BY <1>1, <1>2

LEMMA PausedFields ==
    ASSUME NEW st \in AgentState, NEW id
    PROVE  LET new == paused(st, id)
           IN  /\ new.RequiresApproval /\ new.ApprovalData = id
               /\ new.PendingTools = st.PendingTools
               /\ new.TokensUsed = st.TokensUsed
               /\ new.ToolCallsCount = st.ToolCallsCount
               /\ new.Iteration = st.Iteration
               /\ new.IsApproved = st.IsApproved
  BY DEF paused, AgentState

\* Observing counts an iteration and leaves no result outside the transcript.
LEMMA ObservedFields ==
    ASSUME NEW st \in AgentState
    PROVE  LET new == observed(st)
           IN  /\ new.ToolResults = <<>>
               /\ new.Iteration = st.Iteration + 1
               /\ ~new.ShouldStop => st.Iteration + 1 < MaxIterations
               /\ new.PendingTools = st.PendingTools
               /\ new.ApprovalData = st.ApprovalData
               /\ new.RequiresApproval = st.RequiresApproval
               /\ new.IsApproved = st.IsApproved
               /\ new.TokensUsed = st.TokensUsed
               /\ new.ToolCallsCount = st.ToolCallsCount
  <1> DEFINE new == observed(st)
  <1>1. /\ st.Iteration \in Nat /\ st.ShouldStop \in BOOLEAN
        /\ DOMAIN st = DOMAIN NewAgentState(<<>>)
    BY DEF AgentState, NewAgentState
  <1>2. new.ShouldStop = (st.ShouldStop \/ st.Iteration + 1 >= MaxIterations)
    BY <1>1 DEF observed, NewAgentState
  <1>3. ~new.ShouldStop => st.Iteration + 1 < MaxIterations
    <2>1. CASE st.Iteration + 1 >= MaxIterations
      BY <1>2, <2>1, Zenon
    <2>2. CASE ~(st.Iteration + 1 >= MaxIterations)
      BY <1>1, <2>2, BoundAssumption
    <2> QED
      BY <2>1, <2>2
  <1>4. /\ new.ToolResults = <<>>
        /\ new.Iteration = st.Iteration + 1
        /\ new.PendingTools = st.PendingTools
        /\ new.ApprovalData = st.ApprovalData
        /\ new.RequiresApproval = st.RequiresApproval
        /\ new.IsApproved = st.IsApproved
        /\ new.TokensUsed = st.TokensUsed
        /\ new.ToolCallsCount = st.ToolCallsCount
    BY DEF observed, AgentState
  <1> QED
    BY <1>3, <1>4

\* What thinkNode does to the log of calls: it only adds to it, calls that
\* have not run, and those are exactly what is pending then.
LEMMA ThinkStep ==
    ASSUME TypeOK, thinkNode
    PROVE  /\ \A id \in DOMAIN calls :
                id \in DOMAIN calls' /\ calls'[id] = calls[id] /\ runs'[id] = runs[id]
           /\ \A id \in DOMAIN calls' : id \notin DOMAIN calls => runs'[id] = 0
           /\ \A k \in DOMAIN s'.PendingTools :
                s'.PendingTools[k] \in DOMAIN calls' /\ s'.PendingTools[k] \notin DOMAIN calls
           /\ \A j, k \in DOMAIN s'.PendingTools :
                s'.PendingTools[j] = s'.PendingTools[k] => j = k
           /\ s'.TokensUsed \in Nat /\ s'.TokensUsed >= s.TokensUsed
           /\ s'.ToolCallsCount = s.ToolCallsCount
           /\ s'.Iteration = s.Iteration
           /\ s'.ToolResults = s.ToolResults
           /\ s'.RequiresApproval = s.RequiresApproval
           /\ s'.IsApproved = s.IsApproved
           /\ pc = "think" /\ at' = 0
           /\ pc' = routeAfterThink(s') /\ pc' \in {"act", "human_approval", "response"}
           /\ UNCHANGED <<output, checkpoint, granted, resumes>>
  <1>1. PICK content \in {"empty", "reply"}, usage \in Usage, n \in 0..MaxCalls :
          \E requests \in [1..n -> Tools \cup {Invalid}] :
            /\ calls' = calls \o requests
            /\ runs' = runs \o [k \in 1..n |-> 0]
            /\ s' = thought(s, content, [k \in 1..n |-> Len(calls) + k], usage)
    BY DEF thinkNode
  <1>2. PICK requests \in [1..n -> Tools \cup {Invalid}] :
          /\ calls' = calls \o requests
          /\ runs' = runs \o [k \in 1..n |-> 0]
          /\ s' = thought(s, content, [k \in 1..n |-> Len(calls) + k], usage)
    BY <1>1
  <1> DEFINE zeros == [k \in 1..n |-> 0]
             ids == [k \in 1..n |-> Len(calls) + k]
  <1>3. n \in Nat
    BY BoundAssumption
  <1>4. /\ calls \in Seq(Tools \cup {Invalid}) /\ DOMAIN calls = 1..Len(calls)
        /\ runs \in Seq(Nat) /\ Len(runs) = Len(calls) /\ Len(calls) \in Nat
    BY LenProperties DEF TypeOK
  <1>5. requests \in Seq(Tools \cup {Invalid}) /\ Len(requests) = n
    BY <1>3, IsASeq, LenProperties
  <1>6. zeros \in Seq(Nat) /\ Len(zeros) = n /\ \A k \in 1..n : zeros[k] = 0
    BY <1>3, IsASeq, LenProperties
  <1>7. /\ DOMAIN calls' = 1..(Len(calls) + n)
        /\ \A id \in 1..Len(calls) : calls'[id] = calls[id]
    <2>1. calls' = calls \o requests
      BY <1>2
    <2>2. /\ calls \o requests \in Seq(Tools \cup {Invalid})
          /\ Len(calls \o requests) = Len(calls) + n
          /\ \A id \in 1..(Len(calls) + n) : id <= Len(calls) =>
                (calls \o requests)[id] = calls[id]
      BY <1>3, <1>4, <1>5, ConcatProperties
    <2>3. DOMAIN (calls \o requests) = 1..Len(calls \o requests)
      BY <2>2, LenProperties
    <2>4. \A id \in 1..Len(calls) : id \in 1..(Len(calls) + n) /\ id <= Len(calls)
      BY <1>3, <1>4
    <2> QED
      BY <2>1, <2>2, <2>3, <2>4
  <1>8. /\ \A id \in 1..Len(calls) : runs'[id] = runs[id]
        /\ \A id \in 1..(Len(calls) + n) : id > Len(calls) => runs'[id] = 0
    <2>1. runs' = runs \o zeros
      BY <1>2
    <2> HIDE DEF zeros
    <2>2. /\ \A id \in 1..Len(calls) : runs'[id] = runs[id]
          /\ \A id \in 1..(Len(calls) + n) :
               id > Len(calls) => runs'[id] = zeros[id - Len(calls)]
      BY <2>1, <1>3, <1>4, <1>6, ConcatProperties
    <2>3. \A id \in 1..(Len(calls) + n) : id > Len(calls) => id - Len(calls) \in 1..n
      BY <1>3, <1>4
    <2> QED
      BY <2>2, <2>3, <1>6
  <1>9. s' = thought(s, content, ids, usage) /\ s \in AgentState
    BY <1>2 DEF TypeOK
  <1>10. s'.PendingTools = ids
    BY <1>9, ThoughtFields
  <1>11. /\ DOMAIN ids = 1..n
         /\ \A k \in 1..n : ids[k] = Len(calls) + k
    OBVIOUS
  <1>12. \A k \in DOMAIN s'.PendingTools :
           s'.PendingTools[k] \in DOMAIN calls' /\ s'.PendingTools[k] \notin DOMAIN calls
    <2> HIDE DEF ids
    <2> QED
      BY <1>3, <1>4, <1>7, <1>10, <1>11
  <1>13. \A j, k \in DOMAIN s'.PendingTools :
           s'.PendingTools[j] = s'.PendingTools[k] => j = k
    <2> HIDE DEF ids
    <2> QED
      BY <1>3, <1>4, <1>10, <1>11
  <1>14. /\ s'.TokensUsed \in Nat /\ s'.TokensUsed >= s.TokensUsed
    <2>1. s'.TokensUsed = s.TokensUsed + usage
      BY <1>9, ThoughtFields
    <2>2. s.TokensUsed \in Nat /\ usage \in Nat
      BY <1>9, FieldValues, UsageAssumption
    <2> QED
      BY <2>1, <2>2
  <1>15. /\ s'.ToolCallsCount = s.ToolCallsCount
         /\ s'.Iteration = s.Iteration
         /\ s'.ToolResults = s.ToolResults
         /\ s'.RequiresApproval = s.RequiresApproval
         /\ s'.IsApproved = s.IsApproved
    BY <1>9, ThoughtFields
  <1>16. \A id \in DOMAIN calls :
            id \in DOMAIN calls' /\ calls'[id] = calls[id] /\ runs'[id] = runs[id]
    BY <1>3, <1>4, <1>7, <1>8
  <1>17. \A id \in DOMAIN calls' : id \notin DOMAIN calls => runs'[id] = 0
    BY <1>3, <1>4, <1>7, <1>8
  <1>18. /\ pc = "think" /\ at' = 0
         /\ pc' = routeAfterThink(s') /\ pc' \in {"act", "human_approval", "response"}
         /\ UNCHANGED <<output, checkpoint, granted, resumes>>
    BY DEF thinkNode, routeAfterThink
  <1> QED
    BY <1>12, <1>13, <1>14, <1>15, <1>16, <1>17, <1>18

-----------------------------------------------------------------------------
(* The approval gate                                                       *)

\* The inductive invariant: a call that requires approval has never run.  No
\* approval has to be remembered, because the code runs such a call on no path.
NeverRun == \A id \in DOMAIN calls : calls[id] \in Gated => runs[id] = 0

\* Only actExecute runs a tool, and only one that needs no approval.
THEOREM Gate == Spec => []GateHolds
  <1>1. Init => NeverRun
    BY DEF Init, NeverRun
  <1>2. TypeOK /\ NeverRun /\ [Next]_vars => NeverRun'
    <2> SUFFICES ASSUME TypeOK, NeverRun, [Next]_vars
                 PROVE  NeverRun'
      OBVIOUS
    <2>1. CASE thinkNode
      BY <2>1, ThinkStep DEF NeverRun
    <2>2. CASE actExecute
      <3>1. calls' = calls /\ runs' = [runs EXCEPT ![current] = @ + 1]
        BY <2>2 DEF actExecute
      <3>2. calls[current] \notin Gated
        BY <2>2 DEF actExecute, requiresApproval
      <3>3. \A id \in DOMAIN calls : id # current => runs'[id] = runs[id]
        BY <3>1 DEF TypeOK
      <3> QED
        BY <3>1, <3>2, <3>3 DEF NeverRun
    <2>3. CASE UNCHANGED <<calls, runs>>
      BY <2>3 DEF NeverRun
    <2>4. Run \/ ResumeApproved \/ ResumeRejected \/ actBegin \/ actRefuse
          \/ actPause \/ actEnd \/ observeNode \/ resumeObserve
          \/ humanApprovalNode \/ responseNode \/ finish \/ abort
          \/ UNCHANGED vars => UNCHANGED <<calls, runs>>
      BY DEF Run, ResumeApproved, ResumeRejected, actBegin, actRefuse,
             actPause, actEnd, observeNode, resumeObserve,
             humanApprovalNode, responseNode, finish, abort, history, vars
    <2> QED
      BY <2>1, <2>2, <2>3, <2>4, StepCases
  <1>3. TypeOK /\ NeverRun => GateHolds
    <2> SUFFICES ASSUME TypeOK, NeverRun, NEW id \in DOMAIN calls,
                        calls[id] \in Gated, runs[id] > 0
                 PROVE  id \in granted
      BY DEF GateHolds
    <2>1. runs[id] = 0
      BY DEF NeverRun
    <2> QED
      BY <2>1
  <1> QED
    BY <1>1, <1>2, <1>3, Typing, PTL DEF Spec

-----------------------------------------------------------------------------
(* The bound on the loop                                                   *)

\* The inductive invariant: how many rounds are left at each node.  A round
\* starts only below the limit, or after a human resumed the turn, and a
\* resumed turn may make two rounds, one in Resume and one in the graph,
\* before the limit is looked at.
RoundsLeft ==
    /\ s.Iteration <= MaxIterations + 2 * resumes
    /\ pc \in {"think", "act", "observe", "human_approval"} =>
          s.Iteration + 1 <= MaxIterations + 2 * resumes
    /\ pc \in {"resume_act", "resume_observe"} =>
          s.Iteration + 2 <= MaxIterations + 2 * resumes
    /\ checkpoint # None => checkpoint.Iteration <= MaxIterations + 2 * resumes

\* However often a human approves, the loop of thinkNode, actNode and
\* observeNode stays within its limit and two rounds per approval.
THEOREM Loop == Spec => []LoopBounded
  <1>1. Init => RoundsLeft
    BY BoundAssumption DEF Init, RoundsLeft, NewAgentState
  <1>2. TypeOK /\ RoundsLeft /\ [Next]_vars => RoundsLeft'
    <2> SUFFICES ASSUME TypeOK, RoundsLeft, [Next]_vars
                 PROVE  RoundsLeft'
      OBVIOUS
    <2>1. /\ MaxIterations \in Nat /\ MaxIterations > 0 /\ resumes \in Nat
          /\ s \in AgentState /\ s.Iteration \in Nat
      BY BoundAssumption, FieldValues DEF TypeOK
    <2>2. CASE Run
      BY <2>1, <2>2 DEF Run, RoundsLeft, NewAgentState, history
    <2>3. CASE ResumeApproved
      <3>1. checkpoint \in AgentState
        BY <2>3 DEF ResumeApproved, TypeOK
      <3>2. s'.Iteration = checkpoint.Iteration /\ checkpoint.Iteration \in Nat
        BY <2>3, <3>1 DEF ResumeApproved, restored, AgentState
      <3> QED
        BY <2>1, <2>3, <3>2 DEF ResumeApproved, RoundsLeft
    <2>4. CASE ResumeRejected
      <3>1. checkpoint \in AgentState
        BY <2>4 DEF ResumeRejected, TypeOK
      <3>2. s'.Iteration = checkpoint.Iteration
        BY <2>4, <3>1 DEF ResumeRejected, AgentState
      <3> QED
        BY <2>1, <2>4, <3>2 DEF ResumeRejected, RoundsLeft, history
    <2>5. CASE thinkNode
      BY <2>1, <2>5, ThinkStep DEF RoundsLeft
    <2>6. CASE actBegin \/ actEnd
      <3>1. s'.Iteration = s.Iteration
        BY <2>1, <2>6 DEF actBegin, actEnd, AgentState
      <3> QED
        BY <2>1, <2>6, <3>1 DEF actBegin, actEnd, inAct, afterAct, RoundsLeft, history
    <2>7. CASE actRefuse \/ actPause \/ actExecute
      <3>1. s'.Iteration = s.Iteration
        BY <2>1, <2>7, ResultFields, PausedFields DEF actRefuse, actPause, actExecute
      <3> QED
        BY <2>1, <2>7, <3>1 DEF actRefuse, actPause, actExecute, atCall, inAct,
                                afterAct, RoundsLeft, history
    <2>8. CASE observeNode
      <3>1. /\ s'.Iteration = s.Iteration + 1
            /\ ~s'.ShouldStop => s.Iteration + 1 < MaxIterations
        BY <2>1, <2>8, ObservedFields DEF observeNode
      <3>2. pc' = "response" \/ ~s'.ShouldStop
        BY <2>8 DEF observeNode, routeAfterObserve
      <3>3. pc' \notin {"resume_act", "resume_observe"}
        BY <2>8 DEF observeNode, routeAfterObserve
      <3> QED
        BY <2>1, <2>8, <3>1, <3>2, <3>3 DEF observeNode, RoundsLeft, history
    <2>9. CASE resumeObserve
      <3>1. s'.Iteration = s.Iteration + 1
        <4>1. observed(s) \in AgentState /\ observed(s).Iteration = s.Iteration + 1
          BY <2>1, ObservedType, ObservedFields
        <4> QED
          BY <2>9, <4>1 DEF resumeObserve, AgentState
      <3> QED
        BY <2>1, <2>9, <3>1 DEF resumeObserve, RoundsLeft, history
    <2>10. CASE humanApprovalNode
      <3>1. pc' \in {"END", "act", "response"}
        BY <2>10, FieldValues DEF humanApprovalNode, routeAfterApproval, TypeOK
      <3> QED
        BY <2>10, <3>1 DEF humanApprovalNode, RoundsLeft, history
    <2>11. CASE responseNode
      <3>1. s'.Iteration = s.Iteration
        BY <2>1, <2>11 DEF responseNode, AgentState
      <3> QED
        BY <2>11, <3>1 DEF responseNode, RoundsLeft, history
    <2>12. CASE finish \/ abort
      BY <2>12 DEF finish, abort, RoundsLeft, history
    <2>13. CASE UNCHANGED vars
      BY <2>13 DEF vars, history, RoundsLeft
    <2> QED
      BY <2>2, <2>3, <2>4, <2>5, <2>6, <2>7, <2>8, <2>9, <2>10, <2>11, <2>12,
         <2>13, StepCases
  <1>3. RoundsLeft => LoopBounded
    BY DEF RoundsLeft, LoopBounded
  <1> QED
    BY <1>1, <1>2, <1>3, Typing, PTL DEF Spec

-----------------------------------------------------------------------------
(* How often a tool call runs                                              *)

\* The pending calls of st are calls the LLM made, each pending once.
OwnCalls(st) ==
    /\ \A k \in DOMAIN st.PendingTools : st.PendingTools[k] \in DOMAIN calls
    /\ \A j, k \in DOMAIN st.PendingTools :
          st.PendingTools[j] = st.PendingTools[k] => j = k

\* The inductive invariant: while actNode works on the pending calls, those it
\* has yet to reach have not run in this pass.
PassLeft ==
    /\ RunsBounded
    /\ OwnCalls(s)
    /\ checkpoint # None => OwnCalls(checkpoint)
    /\ pc \in {"think", "act", "observe", "human_approval"} => s.IsApproved = "nil"
    /\ inAct => \A k \in DOMAIN s.PendingTools :
                    k >= at => runs[s.PendingTools[k]] <= resumes

LEMMA PassLeftStep == TypeOK /\ PassLeft /\ [Next]_vars => PassLeft'
  <1> SUFFICES ASSUME TypeOK, PassLeft, [Next]_vars
               PROVE  PassLeft'
    OBVIOUS
  <1>1. /\ DOMAIN runs = DOMAIN calls /\ resumes \in Nat /\ s \in AgentState
        /\ at \in Nat /\ \A id \in DOMAIN runs : runs[id] \in Nat
    BY LenProperties, ElementOfSeq DEF TypeOK
  <1>2. CASE Run
    <2>1. s'.PendingTools = <<>> /\ s'.IsApproved = "nil"
      BY <1>2 DEF Run, NewAgentState
    <2> QED
      BY <1>2, <2>1 DEF Run, PassLeft, RunsBounded, OwnCalls, inAct, history
  <1>3. CASE ResumeApproved
    <2>1. checkpoint \in AgentState
      BY <1>3 DEF ResumeApproved, TypeOK
    <2>2. s'.PendingTools = checkpoint.PendingTools
      BY <1>3, <2>1 DEF ResumeApproved, restored, AgentState
    <2>3. OwnCalls(checkpoint) /\ RunsBounded
      BY <1>3 DEF ResumeApproved, PassLeft
    <2>4. /\ pc' = "resume_act" /\ resumes' = resumes + 1
          /\ UNCHANGED <<checkpoint, calls, runs>>
      BY <1>3 DEF ResumeApproved
    <2>5. RunsBounded'
      BY <1>1, <2>3, <2>4 DEF RunsBounded
    <2>6. OwnCalls(s)' /\ OwnCalls(checkpoint)'
      BY <2>2, <2>3, <2>4 DEF OwnCalls
    <2>7. \A k \in DOMAIN s'.PendingTools : runs'[s'.PendingTools[k]] <= resumes'
      BY <1>1, <2>2, <2>3, <2>4 DEF OwnCalls, RunsBounded
    <2> QED
      BY <2>4, <2>5, <2>6, <2>7 DEF PassLeft
  <1>4. CASE ResumeRejected
    <2>1. checkpoint \in AgentState
      BY <1>4 DEF ResumeRejected, TypeOK
    <2>2. s'.PendingTools = checkpoint.PendingTools
      BY <1>4, <2>1 DEF ResumeRejected, AgentState
    <2> QED
      BY <1>4, <2>2 DEF ResumeRejected, PassLeft, RunsBounded, OwnCalls, inAct, history
  <1>5. CASE thinkNode
    <2>1. RunsBounded'
      <3> SUFFICES ASSUME NEW id \in DOMAIN runs'
                   PROVE  runs'[id] <= 1 + resumes'
        BY DEF RunsBounded
      <3>1. id \in DOMAIN calls'
        <4>1. TypeOK'
          BY TypeStep
        <4> QED
          BY <4>1, LenProperties DEF TypeOK
      <3>2. resumes' = resumes
        BY <1>5, ThinkStep
      <3>3. CASE id \in DOMAIN calls
        BY <1>1, <1>5, <3>2, <3>3, ThinkStep DEF PassLeft, RunsBounded
      <3>4. CASE id \notin DOMAIN calls
        BY <1>1, <1>5, <3>1, <3>2, <3>4, ThinkStep
      <3> QED
        BY <3>3, <3>4
    <2>2. OwnCalls(s)'
      BY <1>5, ThinkStep DEF OwnCalls
    <2>3. checkpoint' # None => OwnCalls(checkpoint)'
      BY <1>5, ThinkStep DEF PassLeft, OwnCalls
    <2>4. \A k \in DOMAIN s'.PendingTools : runs'[s'.PendingTools[k]] <= resumes'
      BY <1>1, <1>5, ThinkStep
    <2>5. s'.IsApproved = "nil"
      BY <1>5, ThinkStep DEF PassLeft
    <2> QED
      BY <2>1, <2>2, <2>3, <2>4, <2>5 DEF PassLeft
  <1>6. CASE actBegin
    <2>1. s'.PendingTools = s.PendingTools /\ s'.IsApproved = s.IsApproved
      BY <1>1, <1>6 DEF actBegin, AgentState
    <2>2. \A k \in DOMAIN s.PendingTools : k >= 0
      BY <1>1, PendingDomain
    <2> QED
      BY <1>1, <1>6, <2>1, <2>2
         DEF actBegin, PassLeft, RunsBounded, OwnCalls, inAct, history
  <1>7. CASE actRefuse
    <2>1. s'.PendingTools = s.PendingTools /\ s'.IsApproved = s.IsApproved
      BY <1>1, <1>7, ResultFields DEF actRefuse
    <2>2. \A k \in DOMAIN s.PendingTools : k >= at + 1 => k >= at
      BY <1>1, PendingDomain
    <2> QED
      BY <1>7, <2>1, <2>2
         DEF actRefuse, PassLeft, RunsBounded, OwnCalls, atCall, inAct, history
  <1>8. CASE actPause
    <2>1. s'.PendingTools = s.PendingTools /\ s'.IsApproved = s.IsApproved
      BY <1>1, <1>8, PausedFields DEF actPause
    <2> QED
      BY <1>8, <2>1 DEF actPause, PassLeft, RunsBounded, OwnCalls, atCall, inAct,
                        afterAct, history
  <1>9. CASE actExecute
    <2>1. s'.PendingTools = s.PendingTools /\ s'.IsApproved = s.IsApproved
      BY <1>1, <1>9, ResultFields DEF actExecute
    <2>2. /\ at \in DOMAIN s.PendingTools /\ current \in DOMAIN runs
          /\ inAct
      BY <1>1, <1>9, PendingDomain DEF actExecute, atCall, current, PassLeft, OwnCalls
    <2>3. /\ runs' = [runs EXCEPT ![current] = runs[current] + 1] /\ at' = at + 1
          /\ UNCHANGED <<pc, calls, resumes, checkpoint>>
      BY <1>9 DEF actExecute
    <2>4. runs[current] <= resumes
      BY <1>1, <2>2 DEF PassLeft, current
    <2>5. RunsBounded'
      BY <1>1, <2>2, <2>3, <2>4 DEF PassLeft, RunsBounded
    <2>6. \A k \in DOMAIN s.PendingTools : k >= at + 1 =>
             s.PendingTools[k] # current /\ k >= at
      BY <1>1, <2>2, PendingDomain DEF PassLeft, OwnCalls, current
    <2>7. \A k \in DOMAIN s.PendingTools : k >= at + 1 =>
             runs'[s.PendingTools[k]] <= resumes
      BY <1>1, <2>2, <2>3, <2>6 DEF PassLeft, OwnCalls
    <2>8. OwnCalls(s)' /\ (checkpoint' # None => OwnCalls(checkpoint)')
      BY <2>1, <2>3 DEF PassLeft, OwnCalls
    <2> QED
      BY <2>1, <2>3, <2>5, <2>7, <2>8 DEF PassLeft
  <1>10. CASE actEnd
    <2>1. s'.PendingTools = <<>> /\ s'.IsApproved = s.IsApproved
      BY <1>1, <1>10 DEF actEnd, AgentState
    <2> QED
      BY <1>10, <2>1 DEF actEnd, PassLeft, RunsBounded, OwnCalls, inAct,
                         afterAct, history
  <1>11. CASE observeNode
    <2>1. s'.PendingTools = s.PendingTools /\ s'.IsApproved = s.IsApproved
      BY <1>1, <1>11, ObservedFields DEF observeNode
    <2>2. pc' \in {"response", "human_approval", "think"}
      BY <1>11 DEF observeNode, routeAfterObserve
    <2> QED
      BY <1>11, <2>1, <2>2 DEF observeNode, PassLeft, RunsBounded, OwnCalls, inAct,
                               history
  <1>12. CASE resumeObserve
    <2>1. observed(s) \in AgentState /\ observed(s).PendingTools = s.PendingTools
      BY <1>1, ObservedType, ObservedFields
    <2>2. s'.PendingTools = s.PendingTools /\ s'.IsApproved = "nil"
      BY <1>12, <2>1 DEF resumeObserve, AgentState
    <2> QED
      BY <1>12, <2>2 DEF resumeObserve, PassLeft, RunsBounded, OwnCalls, inAct,
                         history
  <1>13. CASE humanApprovalNode
    <2>1. pc' = "END"
      BY <1>13 DEF humanApprovalNode, routeAfterApproval, PassLeft
    <2> QED
      BY <1>13, <2>1 DEF humanApprovalNode, PassLeft, RunsBounded, OwnCalls, inAct,
                         history
  <1>14. CASE responseNode
    <2>1. s'.PendingTools = s.PendingTools
      BY <1>1, <1>14 DEF responseNode, AgentState
    <2> QED
      BY <1>14, <2>1 DEF responseNode, PassLeft, RunsBounded, OwnCalls, inAct, history
  <1>15. CASE finish
    BY <1>15 DEF finish, PassLeft, RunsBounded, OwnCalls, inAct, history
  <1>16. CASE abort
    BY <1>16 DEF abort, PassLeft, RunsBounded, OwnCalls, inAct, history
  <1>17. CASE UNCHANGED vars
    BY <1>17 DEF vars, history, PassLeft, RunsBounded, OwnCalls, inAct
  <1> QED
    BY <1>2, <1>3, <1>4, <1>5, <1>6, <1>7, <1>8, <1>9, <1>10, <1>11, <1>12,
       <1>13, <1>14, <1>15, <1>16, <1>17, StepCases

\* That the strengthened invariant holds, which the pause needs as well.
LEMMA PassLeftHolds == Spec => []PassLeft
  <1>1. Init => PassLeft
    BY DEF Init, NewAgentState, PassLeft, RunsBounded, OwnCalls, inAct
  <1> QED
    BY <1>1, PassLeftStep, Typing, PTL DEF Spec

\* A tool call runs at most once in Run, and once more in each approved Resume.
THEOREM AtMostOncePerPass == Spec => []RunsBounded
  <1>1. PassLeft => RunsBounded
    BY DEF PassLeft
  <1> QED
    BY <1>1, PassLeftHolds, PTL

-----------------------------------------------------------------------------
(* What a saved state is                                                   *)

\* The inductive invariant follows a pause from the check in actNode, through
\* the routing, to the state handed to the caller.
PauseKept ==
    /\ PauseAwaitsDecision
    /\ pc \in {"think", "act", "observe", "human_approval", "response", "END"} =>
          s.IsApproved = "nil"
    /\ pc \in {"think", "act", "resume_act"} => ~s.RequiresApproval
    /\ pc \in {"observe", "human_approval", "response", "END"} /\ s.RequiresApproval =>
          awaits(s)
    /\ pc \in {"think", "human_approval", "response", "END"} => s.ToolResults = <<>>
    /\ inAct => \A j \in 1..(at - 1) :
                    j \in DOMAIN s.PendingTools => calls[s.PendingTools[j]] \notin Gated

\* What a state awaits depends on its pending calls and on what they name.
LEMMA AwaitsKept ==
    ASSUME TypeOK, NEW st \in AgentState, OwnCalls(st), awaits(st),
           \A id \in DOMAIN calls : calls'[id] = calls[id]
    PROVE  \E k \in DOMAIN st.PendingTools :
             /\ st.PendingTools[k] = st.ApprovalData
             /\ calls'[st.ApprovalData] \in Gated
             /\ \A j \in 1..(k - 1) : calls'[st.PendingTools[j]] \notin Gated
  <1>1. PICK k \in DOMAIN st.PendingTools :
          /\ st.PendingTools[k] = st.ApprovalData
          /\ calls[st.ApprovalData] \in Gated
          /\ \A j \in 1..(k - 1) : calls[st.PendingTools[j]] \notin Gated
    BY DEF awaits
  <1>2. \A j \in 1..(k - 1) : j \in DOMAIN st.PendingTools
    BY PendingDomain
  <1> QED
    BY <1>1, <1>2 DEF OwnCalls

LEMMA PauseKeptStep ==
    TypeOK /\ PassLeft /\ PauseKept /\ [Next]_vars => PauseKept'
  <1> SUFFICES ASSUME TypeOK, PassLeft, PauseKept, [Next]_vars
               PROVE  PauseKept'
    OBVIOUS
  <1>1. /\ s \in AgentState /\ at \in Nat
        /\ OwnCalls(s) /\ (checkpoint # None => OwnCalls(checkpoint))
    BY DEF TypeOK, PassLeft
  <1>2. CASE Run
    <2>1. /\ s'.IsApproved = "nil" /\ ~s'.RequiresApproval /\ s'.ToolResults = <<>>
      BY <1>2 DEF Run, NewAgentState
    <2> QED
      BY <1>2, <2>1 DEF Run, PauseKept, PauseAwaitsDecision, inAct, history
  <1>3. CASE ResumeApproved
    <2>1. checkpoint \in AgentState
      BY <1>3 DEF ResumeApproved, TypeOK
    <2>2. ~s'.RequiresApproval
      BY <1>3, <2>1 DEF ResumeApproved, restored, AgentState
    <2>3. PauseAwaitsDecision'
      BY <1>3 DEF ResumeApproved, PauseKept, PauseAwaitsDecision, awaits
    <2> QED
      BY <1>3, <2>2, <2>3 DEF ResumeApproved, PauseKept, inAct
  <1>4. CASE ResumeRejected
    BY <1>4 DEF ResumeRejected, PauseKept, PauseAwaitsDecision, inAct
  <1>5. CASE thinkNode
    <2>1. /\ s'.IsApproved = "nil" /\ ~s'.RequiresApproval /\ s'.ToolResults = <<>>
          /\ pc' \in {"act", "human_approval", "response"} /\ at' = 0
      BY <1>5, ThinkStep DEF PauseKept
    <2>2. PauseAwaitsDecision'
      <3> SUFFICES ASSUME checkpoint' # None
                   PROVE  /\ checkpoint'.RequiresApproval
                          /\ checkpoint'.IsApproved = "nil"
                          /\ checkpoint'.ToolResults = <<>>
                          /\ awaits(checkpoint)'
        BY DEF PauseAwaitsDecision
      <3>1. checkpoint' = checkpoint /\ checkpoint \in AgentState
        BY <1>5, ThinkStep DEF TypeOK
      <3>2. awaits(checkpoint)'
        BY <1>1, <1>5, <3>1, ThinkStep, AwaitsKept
           DEF PauseKept, PauseAwaitsDecision, awaits
      <3> QED
        BY <3>1, <3>2 DEF PauseKept, PauseAwaitsDecision
    <2> QED
      BY <2>1, <2>2 DEF PauseKept, inAct
  <1>6. CASE actBegin
    <2>1. /\ s'.IsApproved = s.IsApproved /\ s'.RequiresApproval = s.RequiresApproval
      BY <1>1, <1>6 DEF actBegin, AgentState
    <2>2. PauseAwaitsDecision'
      BY <1>6 DEF actBegin, PauseKept, PauseAwaitsDecision, awaits, history
    <2>3. pc' = pc /\ pc \in {"act", "resume_act"} /\ at' = 1
      BY <1>6 DEF actBegin, inAct
    <2> QED
      BY <2>1, <2>2, <2>3 DEF PauseKept, inAct
  <1>7. CASE actRefuse \/ actExecute
    <2>1. /\ s'.IsApproved = s.IsApproved /\ s'.RequiresApproval = s.RequiresApproval
          /\ s'.PendingTools = s.PendingTools
      BY <1>1, <1>7, ResultFields DEF actRefuse, actExecute
    <2>2. /\ pc' = pc /\ pc \in {"act", "resume_act"} /\ at' = at + 1
          /\ UNCHANGED <<calls, checkpoint>>
      BY <1>7 DEF actRefuse, actExecute, atCall, inAct, history
    <2>3. PauseAwaitsDecision'
      BY <2>2 DEF PauseKept, PauseAwaitsDecision, awaits
    <2>4. calls[s.PendingTools[at]] \notin Gated
      BY <1>7, ToolAssumption
         DEF actRefuse, actExecute, requiresApproval, current
    <2>5. \A j \in 1..((at + 1) - 1) :
             j \in DOMAIN s.PendingTools => calls[s.PendingTools[j]] \notin Gated
      BY <1>1, <2>2, <2>4 DEF PauseKept, inAct
    <2> QED
      BY <2>1, <2>2, <2>3, <2>5 DEF PauseKept, inAct
  <1>8. CASE actPause
    <2>1. /\ s'.RequiresApproval /\ s'.ApprovalData = current
          /\ s'.PendingTools = s.PendingTools /\ s'.IsApproved = s.IsApproved
      BY <1>1, <1>8, PausedFields DEF actPause
    <2>2. /\ UNCHANGED <<calls, checkpoint>>
          /\ \/ pc = "act" /\ pc' = "observe"
             \/ pc = "resume_act" /\ pc' = "resume_observe"
          /\ at \in 1..Len(s.PendingTools) /\ calls[current] \in Gated
      BY <1>8 DEF actPause, atCall, inAct, afterAct, requiresApproval, history
    <2>3. PauseAwaitsDecision'
      BY <2>2 DEF PauseKept, PauseAwaitsDecision, awaits
    <2>4. awaits(s)'
      <3>1. at \in DOMAIN s.PendingTools /\ s.PendingTools[at] = current
        BY <1>1, <2>2, PendingDomain DEF current
      <3>2. \A j \in 1..(at - 1) : calls[s.PendingTools[j]] \notin Gated
        <4>1. \A j \in 1..(at - 1) : j \in DOMAIN s.PendingTools
          BY <1>1, <2>2, PendingDomain
        <4> QED
          BY <2>2, <4>1 DEF PauseKept, inAct
      <3> QED
        BY <2>1, <2>2, <3>1, <3>2 DEF awaits
    <2>5. pc' = "observe" => s'.IsApproved = "nil"
      BY <2>1, <2>2 DEF PauseKept
    <2> QED
      BY <2>2, <2>3, <2>4, <2>5 DEF PauseKept, inAct
  <1>9. CASE actEnd
    <2>1. /\ s'.IsApproved = s.IsApproved /\ s'.RequiresApproval = s.RequiresApproval
      BY <1>1, <1>9 DEF actEnd, AgentState
    <2>2. \/ pc = "act" /\ pc' = "observe"
          \/ pc = "resume_act" /\ pc' = "resume_observe"
      BY <1>9 DEF actEnd, inAct, afterAct
    <2>3. PauseAwaitsDecision'
      BY <1>9 DEF actEnd, PauseKept, PauseAwaitsDecision, awaits, history
    <2> QED
      BY <2>1, <2>2, <2>3 DEF PauseKept, inAct
  <1>10. CASE observeNode
    <2>1. /\ s'.ToolResults = <<>> /\ s'.PendingTools = s.PendingTools
          /\ s'.ApprovalData = s.ApprovalData /\ s'.IsApproved = s.IsApproved
          /\ s'.RequiresApproval = s.RequiresApproval
      BY <1>1, <1>10, ObservedFields DEF observeNode
    <2>2. /\ pc = "observe" /\ pc' \in {"response", "human_approval", "think"}
          /\ pc' = "think" => ~s'.RequiresApproval
          /\ UNCHANGED <<calls, checkpoint>>
      BY <1>10 DEF observeNode, routeAfterObserve, history
    <2>3. PauseAwaitsDecision'
      BY <2>2 DEF PauseKept, PauseAwaitsDecision, awaits
    <2>4. s'.RequiresApproval => awaits(s)'
      BY <2>1, <2>2 DEF PauseKept, awaits
    <2> QED
      BY <2>1, <2>2, <2>3, <2>4 DEF PauseKept, inAct
  <1>11. CASE resumeObserve
    <2>1. observed(s) \in AgentState /\ observed(s).ToolResults = <<>>
      BY <1>1, ObservedType, ObservedFields
    <2>2. /\ s'.IsApproved = "nil" /\ ~s'.RequiresApproval /\ s'.ToolResults = <<>>
      BY <1>11, <2>1 DEF resumeObserve, AgentState
    <2>3. PauseAwaitsDecision'
      BY <1>11 DEF resumeObserve, PauseKept, PauseAwaitsDecision, awaits, history
    <2> QED
      BY <1>11, <2>2, <2>3 DEF resumeObserve, PauseKept, inAct
  <1>12. CASE humanApprovalNode
    <2>1. pc' = "END"
      BY <1>12 DEF humanApprovalNode, routeAfterApproval, PauseKept
    <2> QED
      BY <1>12, <2>1 DEF humanApprovalNode, PauseKept, PauseAwaitsDecision, awaits,
                         inAct, history
  <1>13. CASE responseNode
    <2>1. /\ s'.ToolResults = s.ToolResults /\ s'.PendingTools = s.PendingTools
          /\ s'.ApprovalData = s.ApprovalData /\ s'.IsApproved = s.IsApproved
          /\ s'.RequiresApproval = s.RequiresApproval
      BY <1>1, <1>13 DEF responseNode, AgentState
    <2> QED
      BY <1>13, <2>1 DEF responseNode, PauseKept, PauseAwaitsDecision, awaits,
                         inAct, history
  <1>14. CASE finish
    <2>1. PauseAwaitsDecision'
      BY <1>14 DEF finish, PauseKept, PauseAwaitsDecision, awaits, history
    <2> QED
      BY <1>14, <2>1 DEF finish, PauseKept, inAct
  <1>15. CASE abort
    BY <1>15 DEF abort, PauseKept, PauseAwaitsDecision, awaits, inAct, history
  <1>16. CASE UNCHANGED vars
    BY <1>16 DEF vars, history, PauseKept, PauseAwaitsDecision, awaits, inAct
  <1> QED
    BY <1>2, <1>3, <1>4, <1>5, <1>6, <1>7, <1>8, <1>9, <1>10, <1>11, <1>12,
       <1>13, <1>14, <1>15, <1>16, StepCases

\* The pause, with what it rests on.
LEMMA PauseKeptHolds == Spec => [](TypeOK /\ PauseKept)
  <1>1. Init => PauseKept
    BY DEF Init, PauseKept, PauseAwaitsDecision, inAct
  <1> QED
    BY <1>1, PauseKeptStep, PassLeftHolds, Typing, PTL DEF Spec

\* Every state saved for a human names a pending call that needs the decision.
THEOREM Pause == Spec => []PauseAwaitsDecision
  <1>1. PauseKept => PauseAwaitsDecision
    BY DEF PauseKept
  <1> QED
    BY <1>1, PauseKeptHolds, PTL

-----------------------------------------------------------------------------
(* The promise of the WorkflowEngine interface                             *)

\* The costs a call started from: none, or those in the saved state.
baseTokens == IF checkpoint = None THEN 0 ELSE checkpoint.TokensUsed
baseTools == IF checkpoint = None THEN 0 ELSE checkpoint.ToolCallsCount

\* The invariant the refinement needs: while a call is served nothing is
\* returned yet and no cost is forgotten.
CostsKept ==
    pc # "idle" =>
        /\ output = NoOutput
        /\ s.TokensUsed >= baseTokens
        /\ s.ToolCallsCount >= baseTools

LEMMA CostsKeptStep == TypeOK /\ CostsKept /\ [Next]_vars => CostsKept'
  <1> SUFFICES ASSUME TypeOK, CostsKept, [Next]_vars
               PROVE  CostsKept'
    OBVIOUS
  <1>1. /\ s \in AgentState /\ s.TokensUsed \in Nat /\ s.ToolCallsCount \in Nat
        /\ baseTokens \in Nat /\ baseTools \in Nat
    BY FieldValues DEF TypeOK, baseTokens, baseTools
  <1> DEFINE SameBase == baseTokens' = baseTokens /\ baseTools' = baseTools
  <1>2. checkpoint' = checkpoint => SameBase
    BY DEF baseTokens, baseTools
  <1> HIDE DEF SameBase
  <1>3. CASE Run
    <2>1. s'.TokensUsed = 0 /\ s'.ToolCallsCount = 0
      BY <1>3 DEF Run, NewAgentState
    <2>2. baseTokens' = 0 /\ baseTools' = 0
      BY <1>3 DEF Run, baseTokens, baseTools
    <2> QED
      BY <1>3, <2>1, <2>2 DEF Run, CostsKept
  <1>4. CASE ResumeApproved
    <2>1. checkpoint \in AgentState /\ checkpoint' = checkpoint
      BY <1>4 DEF ResumeApproved, TypeOK
    <2>2. s'.TokensUsed = checkpoint.TokensUsed
          /\ s'.ToolCallsCount = checkpoint.ToolCallsCount
      BY <1>4, <2>1 DEF ResumeApproved, restored, AgentState
    <2>3. baseTokens' = checkpoint.TokensUsed /\ baseTools' = checkpoint.ToolCallsCount
      BY <1>4, <2>1 DEF ResumeApproved, baseTokens, baseTools
    <2>4. checkpoint.TokensUsed \in Nat /\ checkpoint.ToolCallsCount \in Nat
      BY <2>1, FieldValues
    <2> QED
      BY <1>4, <2>2, <2>3, <2>4 DEF ResumeApproved, CostsKept
  <1>5. CASE ResumeRejected \/ finish \/ abort
    <2>1. pc' = "idle"
      BY <1>5 DEF ResumeRejected, finish, abort
    <2> QED
      BY <2>1 DEF CostsKept
  <1>6. CASE thinkNode
    <2>1. /\ s'.TokensUsed \in Nat /\ s'.TokensUsed >= s.TokensUsed
          /\ s'.ToolCallsCount = s.ToolCallsCount
          /\ pc = "think" /\ UNCHANGED <<output, checkpoint>>
      BY <1>6, ThinkStep
    <2> QED
      BY <1>1, <1>2, <2>1 DEF SameBase, CostsKept
  <1>7. CASE actBegin \/ actEnd
    <2>1. s'.TokensUsed = s.TokensUsed /\ s'.ToolCallsCount = s.ToolCallsCount
      BY <1>1, <1>7 DEF actBegin, actEnd, AgentState
    <2>2. UNCHANGED <<output, checkpoint>> /\ inAct
      BY <1>7 DEF actBegin, actEnd, history
    <2>3. \/ pc' = pc
          \/ pc = "act" /\ pc' = "observe"
          \/ pc = "resume_act" /\ pc' = "resume_observe"
      BY <1>7 DEF actBegin, actEnd, inAct, afterAct
    <2> QED
      BY <1>2, <2>1, <2>2, <2>3 DEF SameBase, CostsKept, inAct
  <1>8. CASE actRefuse \/ actPause \/ actExecute
    <2>1. s'.TokensUsed = s.TokensUsed /\ s'.ToolCallsCount >= s.ToolCallsCount
          /\ s'.ToolCallsCount \in Nat
      <3>1. s' \in AgentState
        BY <1>8, TypeStep DEF TypeOK
      <3>2. s'.ToolCallsCount \in Nat
        BY <3>1, FieldValues
      <3> QED
        BY <1>1, <1>8, <3>2, ResultFields, PausedFields
           DEF actRefuse, actPause, actExecute
    <2>2. UNCHANGED <<output, checkpoint>> /\ inAct
      BY <1>8 DEF actRefuse, actPause, actExecute, atCall, history
    <2>3. \/ pc' = pc
          \/ pc = "act" /\ pc' = "observe"
          \/ pc = "resume_act" /\ pc' = "resume_observe"
      BY <1>8 DEF actRefuse, actPause, actExecute, atCall, inAct, afterAct
    <2> QED
      BY <1>1, <1>2, <2>1, <2>2, <2>3 DEF SameBase, CostsKept, inAct
  <1>9. CASE observeNode
    <2>1. s'.TokensUsed = s.TokensUsed /\ s'.ToolCallsCount = s.ToolCallsCount
      BY <1>1, <1>9, ObservedFields DEF observeNode
    <2> QED
      BY <1>2, <1>9, <2>1 DEF observeNode, SameBase, CostsKept
  <1>10. CASE resumeObserve
    <2>1. /\ observed(s) \in AgentState
          /\ observed(s).TokensUsed = s.TokensUsed
          /\ observed(s).ToolCallsCount = s.ToolCallsCount
      BY <1>1, ObservedType, ObservedFields
    <2>2. s'.TokensUsed = s.TokensUsed /\ s'.ToolCallsCount = s.ToolCallsCount
      BY <1>10, <2>1 DEF resumeObserve, AgentState
    <2> QED
      BY <1>2, <1>10, <2>2 DEF resumeObserve, SameBase, CostsKept
  <1>11. CASE humanApprovalNode
    BY <1>2, <1>11 DEF humanApprovalNode, SameBase, CostsKept
  <1>12. CASE responseNode
    <2>1. s'.TokensUsed = s.TokensUsed /\ s'.ToolCallsCount = s.ToolCallsCount
      BY <1>1, <1>12 DEF responseNode, AgentState
    <2> QED
      BY <1>2, <1>12, <2>1 DEF responseNode, SameBase, CostsKept
  <1>13. CASE UNCHANGED vars
    BY <1>2, <1>13 DEF vars, history, SameBase, CostsKept
  <1> QED
    BY <1>3, <1>4, <1>5, <1>6, <1>7, <1>8, <1>9, <1>10, <1>11, <1>12, <1>13,
       StepCases

\* Every step of the graph is one of the interface's, or changes nothing its
\* caller can see: finish answers, abort fails, the nodes are hidden.
LEMMA EngineStep ==
    TypeOK /\ CostsKept /\ [Next]_vars => [engine!Next]_(engine!engineVars)
  <1> SUFFICES ASSUME TypeOK, CostsKept, [Next]_vars
               PROVE  [engine!Next]_(engine!engineVars)
    OBVIOUS
  <1>1. checkpoint # None => checkpoint \in AgentState
    BY DEF TypeOK
  <1>2. CASE Run
    <2>1. engine!Run
      BY <1>2 DEF Run, engine!Run, engine!Nothing, NoOutput
    <2> QED
      BY <2>1 DEF engine!Next
  <1>3. CASE ResumeApproved
    <2>1. engine!Approve
      BY <1>3, NoneAssumption, FieldValues
         DEF ResumeApproved, TypeOK, engine!Approve, engine!Nothing, NoOutput
    <2> QED
      BY <2>1 DEF engine!Next
  <1>4. CASE ResumeRejected
    <2>1. /\ s'.TokensUsed = checkpoint.TokensUsed
          /\ s'.ToolCallsCount = checkpoint.ToolCallsCount
      BY <1>1, <1>4 DEF ResumeRejected, AgentState
    <2>2. checkpoint.TokensUsed \in Nat /\ checkpoint.ToolCallsCount \in Nat
      BY <1>1, <1>4, FieldValues DEF ResumeRejected
    <2>3. engine!Reject
      BY <1>4, <2>1, <2>2, NoneAssumption
         DEF ResumeRejected, Returned, engine!Reject, engine!Refusal
    <2> QED
      BY <2>3 DEF engine!Next
  <1>5. CASE thinkNode \/ actNode \/ observeNode \/ resumeObserve
             \/ humanApprovalNode \/ responseNode
    <2>1. pc # "idle" /\ pc' # "idle" /\ UNCHANGED <<output, checkpoint>>
      BY <1>5, FieldValues
         DEF thinkNode, routeAfterThink, actNode, actBegin, actRefuse, actPause,
             actExecute, actEnd, atCall, inAct, afterAct, observeNode,
             routeAfterObserve, resumeObserve, humanApprovalNode,
             routeAfterApproval, responseNode, TypeOK
    <2> QED
      BY <2>1 DEF engine!engineVars
  <1>6. CASE finish
    <2> DEFINE kind == IF s.RequiresApproval THEN "paused" ELSE "completed"
               told == [kind |-> output'.kind, tokens |-> output'.TokensUsed,
                        tools |-> output'.ToolCallsCount]
    <2>1. /\ output'.kind = kind /\ output'.TokensUsed = s.TokensUsed
          /\ output'.ToolCallsCount = s.ToolCallsCount
      BY <1>6 DEF finish, Returned
    <2>2. /\ s \in AgentState /\ s # None
          /\ s.TokensUsed \in Nat /\ s.ToolCallsCount \in Nat
      BY NoneAssumption, FieldValues DEF TypeOK
    <2>3. s.TokensUsed >= baseTokens /\ s.ToolCallsCount >= baseTools
      BY <1>6 DEF finish, CostsKept
    <2>4. told \in engine!Outcomes(IF checkpoint = None THEN engine!Free
                                   ELSE [tokens |-> checkpoint.TokensUsed,
                                         tools |-> checkpoint.ToolCallsCount])
      BY <2>1, <2>2, <2>3 DEF engine!Outcomes, engine!Free, baseTokens, baseTools
    <2>5. engine!Answer
      BY <1>6, <2>1, <2>2, <2>4, NoneAssumption
         DEF finish, engine!Answer, engine!CostOf
    <2> QED
      BY <2>5 DEF engine!Next
  <1>7. CASE abort
    <2>1. engine!Fail
      BY <1>7 DEF abort, ErrorOutput, NoOutput, engine!Fail, engine!Failure
    <2> QED
      BY <2>1 DEF engine!Next
  <1>8. CASE UNCHANGED vars
    BY <1>8 DEF vars, history, engine!engineVars
  <1> QED
    BY <1>2, <1>3, <1>4, <1>5, <1>6, <1>7, <1>8 DEF Next, nodes

\* The graph keeps the safety part of what port.WorkflowEngine promises: each
\* call ends in an answer, a pause with a saved state, or an error, and no cost
\* of an earlier part of the turn is forgotten.
THEOREM EngineRefinement ==
    Spec => engine!Init /\ [][engine!Next]_(engine!engineVars)
  <1>1. Init => engine!Init /\ CostsKept
    BY DEF Init, engine!Init, engine!Nothing, NoOutput, CostsKept
  <1> QED
    BY <1>1, CostsKeptStep, EngineStep, Typing, PTL DEF Spec
-----------------------------------------------------------------------------
(* Transcripts                                                             *)

\* n is m, and perhaps more after it.
Continues(m, n) == Len(m) <= Len(n) /\ \A k \in 1..Len(m) : n[k] = m[k]

CalledAt(m, k, id) == \E i \in DOMAIN m[k].calls : m[k].calls[i] = id
CalledBefore(m, k, id) == \E j \in 1..(k - 1) : CalledAt(m, j, id)

\* Every tool message answers an earlier call.
Traced(m) ==
    \A k \in DOMAIN m : m[k].role = "tool" => CalledBefore(m, k, m[k].answers)

LEMMA TranscriptDomain ==
    ASSUME NEW m \in Transcript
    PROVE  Len(m) \in Nat /\ DOMAIN m = 1..Len(m) /\ \A k \in 1..Len(m) : m[k] \in Message
  <1>1. m \in Seq(Message)
    BY DEF Transcript
  <1> QED
    BY <1>1, LenProperties, ElementOfSeq

LEMMA CallsDomain ==
    ASSUME NEW a \in Message
    PROVE  a.calls \in Seq(Nat) /\ Len(a.calls) \in Nat /\ DOMAIN a.calls = 1..Len(a.calls)
  <1>1. <<>> \in Seq(Nat)
    OBVIOUS
  <1>2. a.calls \in Seq(Nat)
    BY <1>1 DEF Message, CallIds
  <1> QED
    BY <1>2, LenProperties

LEMMA Appended ==
    ASSUME NEW m \in Transcript, NEW a \in Message
    PROVE  /\ Append(m, a) \in Transcript /\ Continues(m, Append(m, a))
           /\ Len(Append(m, a)) = Len(m) + 1 /\ Append(m, a)[Len(m) + 1] = a
  <1>1. m \in Seq(Message) /\ Len(m) \in Nat
    BY TranscriptDomain DEF Transcript
  <1>2. /\ Append(m, a) \in Seq(Message) /\ Len(Append(m, a)) = Len(m) + 1
        /\ \A k \in 1..Len(m) : Append(m, a)[k] = m[k]
        /\ Append(m, a)[Len(m) + 1] = a
    BY <1>1, AppendProperties
  <1> QED
    BY <1>1, <1>2 DEF Transcript, Continues

LEMMA Concatenated ==
    ASSUME NEW m \in Transcript, NEW rs \in Transcript
    PROVE  /\ m \o rs \in Transcript /\ Continues(m, m \o rs)
           /\ Len(m \o rs) = Len(m) + Len(rs)
           /\ \A k \in 1..Len(rs) : (m \o rs)[Len(m) + k] = rs[k]
  <1>1. /\ m \in Seq(Message) /\ Len(m) \in Nat
        /\ rs \in Seq(Message) /\ Len(rs) \in Nat
    BY TranscriptDomain DEF Transcript
  <1> DEFINE n == m \o rs
  <1>2. /\ n \in Seq(Message) /\ Len(n) = Len(m) + Len(rs)
        /\ \A k \in 1..(Len(m) + Len(rs)) :
              n[k] = IF k <= Len(m) THEN m[k] ELSE rs[k - Len(m)]
    BY <1>1, ConcatProperties
  <1> HIDE DEF n
  <1>3. \A k \in 1..Len(m) : n[k] = m[k]
    BY <1>1, <1>2
  <1>4. ASSUME NEW k \in 1..Len(rs) PROVE n[Len(m) + k] = rs[k]
    <2>1. /\ Len(m) + k \in 1..(Len(m) + Len(rs)) /\ ~(Len(m) + k <= Len(m))
          /\ (Len(m) + k) - Len(m) = k
      BY <1>1
    <2> QED
      BY <1>2, <2>1
  <1>5. n \in Transcript /\ Continues(m, n)
    BY <1>1, <1>2, <1>3 DEF Transcript, Continues
  <1> QED
    BY <1>2, <1>4, <1>5 DEF n

\* What was called, and what was answered, stays so as the transcript goes on.
LEMMA Continuing ==
    ASSUME NEW m \in Transcript, NEW n \in Transcript, Continues(m, n)
    PROVE  /\ \A k \in 1..(Len(m) + 1) : \A id : CalledBefore(m, k, id) => CalledBefore(n, k, id)
           /\ \A k \in 1..Len(m) : answeredAt(m, k) => answeredAt(n, k)
  <1>1. Len(m) \in Nat /\ Len(n) \in Nat /\ Len(m) <= Len(n)
    BY TranscriptDomain DEF Continues
  <1>2. ASSUME NEW k \in 1..(Len(m) + 1), NEW id, CalledBefore(m, k, id)
        PROVE  CalledBefore(n, k, id)
    <2>1. PICK j \in 1..(k - 1) : CalledAt(m, j, id)
      BY <1>2 DEF CalledBefore
    <2>2. n[j] = m[j]
      BY <1>1, <2>1 DEF Continues
    <2>3. CalledAt(n, j, id)
      BY <2>1, <2>2 DEF CalledAt
    <2> QED
      BY <2>3 DEF CalledBefore
  <1>3. ASSUME NEW k \in 1..Len(m), answeredAt(m, k) PROVE answeredAt(n, k)
    <2>1. n[k] = m[k] /\ m[k] \in Message
      BY TranscriptDomain DEF Continues
    <2>2. ASSUME NEW j \in DOMAIN n[k].calls
          PROVE  k + j <= Len(n) /\ n[k + j].answers = n[k].calls[j]
      <3>1. j \in DOMAIN m[k].calls /\ j \in Nat \ {0}
        BY <2>1, <2>2, CallsDomain
      <3>2. k + j <= Len(m) /\ m[k + j].answers = m[k].calls[j]
        BY <1>3, <3>1 DEF answeredAt
      <3>3. k + j \in 1..Len(m)
        BY <1>1, <3>1, <3>2
      <3>4. n[k + j] = m[k + j]
        BY <3>3 DEF Continues
      <3> QED
        BY <1>1, <2>1, <3>1, <3>2, <3>3, <3>4
    <2> QED
      BY <2>2 DEF answeredAt
  <1> QED
    BY <1>2, <1>3

LEMMA TracedLonger ==
    ASSUME NEW m \in Transcript, NEW n \in Transcript, Continues(m, n), Traced(m),
           \A k \in (Len(m) + 1)..Len(n) :
              n[k].role = "tool" => CalledBefore(m, Len(m) + 1, n[k].answers)
    PROVE  Traced(n)
  <1>1. /\ Len(m) \in Nat /\ Len(n) \in Nat
        /\ DOMAIN m = 1..Len(m) /\ DOMAIN n = 1..Len(n)
    BY TranscriptDomain
  <1> SUFFICES ASSUME NEW k \in 1..Len(n), n[k].role = "tool"
               PROVE  CalledBefore(n, k, n[k].answers)
    BY <1>1 DEF Traced
  <1>2. CASE k <= Len(m)
    <2>1. k \in DOMAIN m /\ n[k] = m[k] /\ k \in 1..(Len(m) + 1)
      BY <1>1, <1>2 DEF Continues
    <2>2. CalledBefore(m, k, m[k].answers)
      BY <2>1 DEF Traced
    <2> QED
      BY <2>1, <2>2, Continuing
  <1>3. CASE k > Len(m)
    <2>1. CalledBefore(m, Len(m) + 1, n[k].answers)
      BY <1>1, <1>3
    <2>2. Len(m) + 1 \in 1..(Len(m) + 1)
      BY <1>1
    <2>3. CalledBefore(n, Len(m) + 1, n[k].answers)
      BY <2>1, <2>2, Continuing
    <2>4. 1..((Len(m) + 1) - 1) \subseteq 1..(k - 1)
      BY <1>1, <1>3
    <2> QED
      BY <2>3, <2>4 DEF CalledBefore
  <1> QED
    BY <1>1, <1>2, <1>3

-----------------------------------------------------------------------------
(* What becomes of the transcript, node by node                            *)

LEMMA NewTalk ==
    ASSUME NEW messages \in Conversations
    PROVE  LET new == NewAgentState(messages)
           IN  /\ new.Messages = messages /\ messages \in Transcript
               /\ new.ToolResults = <<>> /\ new.PendingTools = <<>>
               /\ new.ToolCallsCount = 0
               /\ \A k \in DOMAIN messages :
                     messages[k].role # "tool" /\ messages[k].calls = <<>>
  <1>1. messages \in Transcript
    BY ConversationType
  <1>2. /\ UserMessage("input").role # "tool" /\ UserMessage("input").calls = <<>>
        /\ UserMessage("earlier").role # "tool" /\ UserMessage("earlier").calls = <<>>
        /\ AssistantMessage("earlier", <<>>).role # "tool"
        /\ AssistantMessage("earlier", <<>>).calls = <<>>
    BY DEF UserMessage, AssistantMessage
  <1>3. \A k \in DOMAIN messages :
           messages[k] \in {UserMessage("input"), UserMessage("earlier"),
                            AssistantMessage("earlier", <<>>)}
    BY DEF Conversations
  <1> QED
    BY <1>1, <1>2, <1>3 DEF NewAgentState

LEMMA ThoughtTalk ==
    ASSUME NEW st \in AgentState, NEW content, NEW ids, NEW usage
    PROVE  LET new == thought(st, content, ids, usage)
           IN  /\ new.Messages = Append(st.Messages, AssistantMessage(content, ids))
               /\ new.CurrentOutput = content
  BY DEF thought, AgentState

LEMMA ResultTalk ==
    ASSUME NEW st \in AgentState, NEW id,
           NEW new \in {addToolResult(st, id), executed(st, id)}
    PROVE  /\ new.Messages = st.Messages
           /\ new.ToolResults = Append(st.ToolResults, ToolResult(id))
  <1>1. CASE new = addToolResult(st, id)
    BY <1>1 DEF addToolResult, AgentState
  <1>2. CASE new = executed(st, id)
    <2> DEFINE mid == addToolResult(st, id)
    <2>1. /\ mid = [st EXCEPT !.ToolResults = Append(@, ToolResult(id))]
          /\ new = [mid EXCEPT !.ToolCallsCount = @ + 1]
      BY <1>2 DEF addToolResult, executed
    <2> HIDE DEF mid
    <2> QED
      BY <2>1 DEF AgentState
  <1> QED
    BY <1>1, <1>2

LEMMA PausedTalk ==
    ASSUME NEW st \in AgentState, NEW id
    PROVE  LET new == paused(st, id)
           IN  new.Messages = st.Messages /\ new.ToolResults = st.ToolResults
  BY DEF paused, AgentState

LEMMA ObservedTalk ==
    ASSUME NEW st \in AgentState
    PROVE  observed(st).Messages = st.Messages \o st.ToolResults
  BY DEF observed, AgentState

\* After either of the two calls of observeNode.
LEMMA Observing ==
    ASSUME TypeOK, observeNode \/ resumeObserve
    PROVE  /\ s'.Messages = s.Messages \o s.ToolResults /\ s'.ToolResults = <<>>
           /\ s'.PendingTools = s.PendingTools /\ s'.ToolCallsCount = s.ToolCallsCount
           /\ checkpoint' = checkpoint /\ UNCHANGED <<output, history>>
  <1>1. s \in AgentState
    BY DEF TypeOK
  <1> DEFINE o == observed(s)
  <1>2. /\ o.Messages = s.Messages \o s.ToolResults /\ o.ToolResults = <<>>
        /\ o.PendingTools = s.PendingTools /\ o.ToolCallsCount = s.ToolCallsCount
        /\ o \in AgentState
    BY <1>1, ObservedTalk, ObservedFields, ObservedType
  <1>3. CASE observeNode
    BY <1>2, <1>3 DEF observeNode
  <1>4. CASE resumeObserve
    <2>1. s' = [o EXCEPT !.IsApproved = "nil", !.RequiresApproval = FALSE]
      BY <1>4 DEF resumeObserve
    <2> HIDE DEF o
    <2>2. /\ s'.Messages = o.Messages /\ s'.ToolResults = o.ToolResults
          /\ s'.PendingTools = o.PendingTools /\ s'.ToolCallsCount = o.ToolCallsCount
      BY <1>2, <2>1 DEF AgentState
    <2> QED
      BY <1>2, <1>4, <2>2 DEF resumeObserve
  <1> QED
    BY <1>3, <1>4

\* The call that is served is pending, and its result is a message.
LEMMA Serving ==
    ASSUME TypeOK, actRefuse \/ actExecute
    PROVE  /\ at \in 1..Len(s.PendingTools) /\ at \in DOMAIN s.PendingTools
           /\ current = s.PendingTools[at] /\ current \in Nat
           /\ ToolResult(current) \in Message
           /\ s'.Messages = s.Messages /\ s'.PendingTools = s.PendingTools
           /\ s'.ToolResults = Append(s.ToolResults, ToolResult(current))
           /\ checkpoint' = checkpoint /\ pc' = pc /\ at' = at + 1
           /\ resumes' = resumes /\ output' = output /\ inAct
  <1>1. s \in AgentState
    BY DEF TypeOK
  <1>2. /\ at \in 1..Len(s.PendingTools) /\ inAct
        /\ \/ s' = addToolResult(s, current)
           \/ s' = executed(s, current)
        /\ checkpoint' = checkpoint /\ pc' = pc /\ at' = at + 1
        /\ resumes' = resumes /\ output' = output
    BY DEF actRefuse, actExecute, atCall, history
  <1>3. at \in DOMAIN s.PendingTools /\ current = s.PendingTools[at] /\ current \in Nat
    BY <1>1, <1>2, PendingDomain DEF current
  <1>4. /\ s'.Messages = s.Messages /\ s'.PendingTools = s.PendingTools
        /\ s'.ToolResults = Append(s.ToolResults, ToolResult(current))
    BY <1>1, <1>2, ResultTalk, ResultFields
  <1>5. ToolResult(current) \in Message
    BY <1>3 DEF ToolResult, Message
  <1> QED
    BY <1>2, <1>3, <1>4, <1>5

\* The LLM's answer is the last message, and its calls are what is pending.
LEMMA Thinking ==
    ASSUME TypeOK, thinkNode
    PROVE  \E a \in Message :
             /\ a.role = "assistant" /\ a.calls = s'.PendingTools
             /\ a.content = s'.CurrentOutput
             /\ s'.Messages = Append(s.Messages, a)
  <1>1. s \in AgentState
    BY DEF TypeOK
  <1>2. PICK content \in {"empty", "reply"}, usage \in Usage, n \in 0..MaxCalls :
          /\ s' = thought(s, content, [k \in 1..n |-> Len(calls) + k], usage)
          /\ [k \in 1..n |-> Len(calls) + k] \in CallIds
    <2>1. \A n \in 0..MaxCalls : \A requests \in [1..n -> Tools \cup {Invalid}] :
             [k \in 1..n |-> Len(calls) + k] \in CallIds
      <3>1. 0..MaxCalls \subseteq Nat
        BY BoundAssumption
      <3> QED
        BY <3>1, NewCallsType
    <2> QED
      BY <2>1 DEF thinkNode
  <1> DEFINE ids == [k \in 1..n |-> Len(calls) + k]
             a == AssistantMessage(content, ids)
  <1>3. a \in Message
    BY <1>2 DEF AssistantMessage, Message, Reply
  <1>4. a.role = "assistant" /\ a.calls = ids /\ a.content = content
    BY DEF AssistantMessage
  <1>5. s' = thought(s, content, ids, usage)
    BY <1>2
  <1> HIDE DEF ids
  <1>6. /\ s'.Messages = Append(s.Messages, a) /\ s'.CurrentOutput = content
        /\ s'.PendingTools = ids
    BY <1>1, <1>5, ThoughtTalk, ThoughtFields
  <1> HIDE DEF a
  <1> QED
    BY <1>3, <1>4, <1>6

\* Any other step replaces the transcript only by that of the saved state.
LEMMA NotTalking ==
    ASSUME TypeOK,
           \/ actPause \/ actEnd \/ actBegin \/ humanApprovalNode
           \/ responseNode \/ finish \/ abort \/ UNCHANGED vars
    PROVE  /\ s'.Messages = s.Messages
           /\ s'.ToolResults = s.ToolResults \/ s'.ToolResults = <<>>
           /\ s'.PendingTools = s.PendingTools \/ s'.PendingTools = <<>>
           /\ s'.ToolCallsCount = s.ToolCallsCount
           /\ checkpoint' \in {checkpoint, s, None}
           /\ resumes' = resumes /\ ran' = ran
  <1>1. s \in AgentState
    BY DEF TypeOK
  <1>2. CASE actPause
    BY <1>1, <1>2, PausedTalk, PausedFields DEF actPause, history
  <1>3. CASE actEnd \/ actBegin \/ responseNode
    BY <1>1, <1>3 DEF actEnd, actBegin, responseNode, AgentState, history
  <1>4. CASE humanApprovalNode \/ finish \/ abort \/ UNCHANGED vars
    BY <1>4 DEF humanApprovalNode, finish, abort, vars, history
  <1> QED
    BY <1>2, <1>3, <1>4

LEMMA Restoring ==
    ASSUME TypeOK, ResumeApproved \/ ResumeRejected
    PROVE  /\ checkpoint \in AgentState
           /\ s'.Messages = checkpoint.Messages
           /\ s'.ToolResults = checkpoint.ToolResults
           /\ s'.PendingTools = checkpoint.PendingTools
           /\ s'.ToolCallsCount = checkpoint.ToolCallsCount
           /\ checkpoint # None /\ checkpoint' \in {checkpoint, None} /\ ran' = ran
  <1>1. checkpoint \in AgentState /\ checkpoint # None
    BY DEF TypeOK, ResumeApproved, ResumeRejected
  <1>2. CASE ResumeApproved
    BY <1>1, <1>2 DEF ResumeApproved, restored, AgentState
  <1>3. CASE ResumeRejected
    BY <1>1, <1>3 DEF ResumeRejected, AgentState, history
  <1> QED
    BY <1>2, <1>3

-----------------------------------------------------------------------------
(* Whose calls are answered                                                *)

\* The inductive invariant of a state: what will be answered was called.
Rooted(st) ==
    /\ Traced(st.Messages)
    /\ \A k \in DOMAIN st.ToolResults :
          CalledBefore(st.Messages, Len(st.Messages) + 1, st.ToolResults[k].answers)
    /\ \A k \in DOMAIN st.PendingTools :
          CalledBefore(st.Messages, Len(st.Messages) + 1, st.PendingTools[k])

AllRooted == Rooted(s) /\ (checkpoint # None => Rooted(checkpoint))

LEMMA RootedNew ==
    ASSUME NEW messages \in Conversations PROVE Rooted(NewAgentState(messages))
  BY NewTalk DEF Rooted, Traced

LEMMA RootedThought ==
    ASSUME NEW st \in AgentState, Rooted(st), NEW new \in AgentState, NEW a \in Message,
           a.role = "assistant", a.calls = new.PendingTools,
           new.Messages = Append(st.Messages, a), new.ToolResults = st.ToolResults
    PROVE  Rooted(new)
  <1> DEFINE m == st.Messages
             n == new.Messages
  <1>1. m \in Transcript /\ n \in Transcript
    BY FieldValues
  <1>2. Continues(m, n) /\ Len(n) = Len(m) + 1 /\ n[Len(m) + 1] = a /\ Len(m) \in Nat
    BY <1>1, Appended, TranscriptDomain
  <1>3. Traced(n)
    <2>1. \A k \in (Len(m) + 1)..Len(n) : n[k] = a
      BY <1>2
    <2>2. Traced(m)
      BY DEF Rooted
    <2> HIDE DEF m, n
    <2> QED
      BY <1>1, <1>2, <2>1, <2>2, TracedLonger
  <1>4. ASSUME NEW id, CalledBefore(m, Len(m) + 1, id) PROVE CalledBefore(n, Len(n) + 1, id)
    <2> HIDE DEF m, n
    <2>1. CalledBefore(n, Len(m) + 1, id)
      BY <1>1, <1>2, <1>4, Continuing
    <2>2. 1..((Len(m) + 1) - 1) \subseteq 1..((Len(n) + 1) - 1)
      BY <1>2
    <2> QED
      BY <2>1, <2>2 DEF CalledBefore
  <1>5. ASSUME NEW k \in DOMAIN new.PendingTools
        PROVE  CalledBefore(n, Len(n) + 1, new.PendingTools[k])
    <2> HIDE DEF m, n
    <2>1. CalledAt(n, Len(m) + 1, new.PendingTools[k])
      BY <1>2, <1>5 DEF CalledAt
    <2>2. Len(m) + 1 \in 1..((Len(n) + 1) - 1)
      BY <1>2
    <2> QED
      BY <2>1, <2>2 DEF CalledBefore
  <1> QED
    BY <1>3, <1>4, <1>5 DEF Rooted

LEMMA RootedServed ==
    ASSUME NEW st \in AgentState, Rooted(st), NEW new \in AgentState,
           NEW k \in DOMAIN st.PendingTools, ToolResult(st.PendingTools[k]) \in Message,
           new.Messages = st.Messages, new.PendingTools = st.PendingTools,
           new.ToolResults = Append(st.ToolResults, ToolResult(st.PendingTools[k]))
    PROVE  Rooted(new)
  <1> DEFINE rs == st.ToolResults
             ns == new.ToolResults
             result == ToolResult(st.PendingTools[k])
  <1>1. rs \in Transcript /\ ns \in Transcript
    BY FieldValues
  <1>2. /\ Continues(rs, ns) /\ Len(ns) = Len(rs) + 1 /\ ns[Len(rs) + 1] = result
        /\ Len(rs) \in Nat /\ DOMAIN rs = 1..Len(rs) /\ DOMAIN ns = 1..Len(ns)
    BY <1>1, Appended, TranscriptDomain
  <1>3. result.answers = st.PendingTools[k]
    BY DEF ToolResult
  <1> HIDE DEF rs, ns, result
  <1>4. ASSUME NEW j \in DOMAIN ns
        PROVE  CalledBefore(st.Messages, Len(st.Messages) + 1, ns[j].answers)
    <2>1. CASE j <= Len(rs)
      <3>1. j \in DOMAIN rs /\ ns[j] = rs[j]
        BY <1>2, <1>4, <2>1 DEF Continues
      <3> QED
        BY <3>1 DEF Rooted, rs
    <2>2. CASE j = Len(rs) + 1
      BY <1>2, <1>3, <2>2 DEF Rooted
    <2> QED
      BY <1>2, <1>4, <2>1, <2>2
  <1> QED
    BY <1>4 DEF Rooted, ns

LEMMA RootedObserved ==
    ASSUME NEW st \in AgentState, Rooted(st), NEW new \in AgentState,
           new.Messages = st.Messages \o st.ToolResults, new.ToolResults = <<>>,
           new.PendingTools = st.PendingTools
    PROVE  Rooted(new)
  <1> DEFINE m == st.Messages
             rs == st.ToolResults
             n == new.Messages
  <1>1. m \in Transcript /\ rs \in Transcript /\ n \in Transcript
    BY FieldValues
  <1>2. /\ Continues(m, n) /\ Len(n) = Len(m) + Len(rs) /\ Len(m) \in Nat /\ Len(rs) \in Nat
        /\ DOMAIN rs = 1..Len(rs) /\ \A k \in 1..Len(rs) : n[Len(m) + k] = rs[k]
    <2>1. n = m \o rs
      OBVIOUS
    <2> HIDE DEF m, rs, n
    <2> QED
      BY <1>1, <2>1, Concatenated, TranscriptDomain
  <1>3. /\ Traced(m)
        /\ \A k \in DOMAIN rs : CalledBefore(m, Len(m) + 1, rs[k].answers)
        /\ \A k \in DOMAIN new.PendingTools :
              CalledBefore(m, Len(m) + 1, new.PendingTools[k])
    BY DEF Rooted
  <1> HIDE DEF m, rs, n
  <1>4. Traced(n)
    <2>1. ASSUME NEW k \in (Len(m) + 1)..Len(n)
          PROVE  CalledBefore(m, Len(m) + 1, n[k].answers)
      <3>1. k - Len(m) \in 1..Len(rs) /\ Len(m) + (k - Len(m)) = k
        BY <1>2, <2>1
      <3>2. n[k] = rs[k - Len(m)]
        BY <1>2, <3>1
      <3> QED
        BY <1>2, <1>3, <3>1, <3>2
    <2> QED
      BY <1>1, <1>2, <1>3, <2>1, TracedLonger
  <1>5. ASSUME NEW k \in DOMAIN new.PendingTools
        PROVE  CalledBefore(n, Len(n) + 1, new.PendingTools[k])
    <2>1. CalledBefore(n, Len(m) + 1, new.PendingTools[k])
      BY <1>1, <1>2, <1>3, <1>5, Continuing
    <2>2. 1..((Len(m) + 1) - 1) \subseteq 1..((Len(n) + 1) - 1)
      BY <1>2
    <2> QED
      BY <2>1, <2>2 DEF CalledBefore
  <1>6. \A k \in DOMAIN new.ToolResults : FALSE
    OBVIOUS
  <1> QED
    BY <1>4, <1>5, <1>6 DEF Rooted, n

LEMMA RootedStep == TypeOK /\ TypeOK' /\ AllRooted /\ [Next]_vars => AllRooted'
  <1> SUFFICES ASSUME TypeOK, TypeOK', AllRooted, [Next]_vars
               PROVE  AllRooted'
    OBVIOUS
  <1>1. s \in AgentState /\ s' \in AgentState /\ Rooted(s)
    BY DEF TypeOK, AllRooted
  <1>2. ASSUME Rooted(s'), checkpoint' \in {checkpoint, s, None} PROVE AllRooted'
    BY <1>1, <1>2 DEF AllRooted
  <1>3. CASE Run
    <2>1. PICK messages \in Conversations : s' = NewAgentState(messages)
      BY <1>3 DEF Run
    <2> QED
      BY <1>2, <1>3, <2>1, RootedNew DEF Run
  <1>4. CASE ResumeApproved \/ ResumeRejected
    <2>1. Rooted(checkpoint)
      BY <1>4, Restoring DEF AllRooted
    <2>2. Rooted(s')
      BY <1>4, <2>1, Restoring DEF Rooted
    <2> QED
      BY <1>2, <1>4, <2>2, Restoring
  <1>5. CASE thinkNode
    <2>1. s'.ToolResults = s.ToolResults /\ checkpoint' = checkpoint
      BY <1>5, ThinkStep
    <2> QED
      BY <1>1, <1>2, <1>5, <2>1, Thinking, RootedThought
  <1>6. CASE actRefuse \/ actExecute
    BY <1>1, <1>2, <1>6, Serving, RootedServed
  <1>7. CASE observeNode \/ resumeObserve
    BY <1>1, <1>2, <1>7, Observing, RootedObserved
  <1>8. CASE \/ actPause \/ actEnd \/ actBegin \/ humanApprovalNode
             \/ responseNode \/ finish \/ abort \/ UNCHANGED vars
    <2>1. /\ s'.Messages = s.Messages
          /\ s'.ToolResults = s.ToolResults \/ s'.ToolResults = <<>>
          /\ s'.PendingTools = s.PendingTools \/ s'.PendingTools = <<>>
          /\ checkpoint' \in {checkpoint, s, None}
      BY <1>8, NotTalking
    <2>2. Rooted(s')
      BY <1>1, <2>1 DEF Rooted
    <2> QED
      BY <1>2, <2>1, <2>2
  <1> QED
    BY <1>3, <1>4, <1>5, <1>6, <1>7, <1>8, StepCases

\* A tool message answers a call that an earlier message made, also after the
\* turn was resumed from a saved state, and resumed again after it failed.
THEOREM AnswersAreCalled == Spec => []NoForeignAnswer
  <1>1. Init => AllRooted
    BY DEF Init, AllRooted, Rooted, Traced, NewAgentState
  <1>2. TypeOK /\ AllRooted /\ [Next]_vars => AllRooted'
    BY RootedStep, TypeStep
  <1>3. AllRooted => NoForeignAnswer
    BY DEF AllRooted, Rooted, Traced, CalledBefore, CalledAt, NoForeignAnswer
  <1> QED
    BY <1>1, <1>2, <1>3, Typing, PTL DEF Spec

-----------------------------------------------------------------------------
(* What an LLM request answers                                             *)

Settled(m) == \A k \in DOMAIN m : answeredAt(m, k)

\* The last message asks for `asked`, and every call before it is answered.
Asked(m, asked) ==
    /\ m # <<>> /\ m[Len(m)].calls = asked
    /\ \A k \in 1..(Len(m) - 1) : answeredAt(m, k)

\* rs are the results of the first n calls of `asked`.
Results(rs, asked, n) ==
    /\ Len(rs) = n
    /\ \A j \in 1..n : rs[j].answers = asked[j] /\ rs[j].calls = <<>>

\* The inductive invariant: before any resume, every call is answered but those
\* being served, whose results are in order.
Answering ==
    /\ pc \in {"resume_act", "resume_observe"} => resumes > 0
    /\ resumes = 0 /\ pc = "think" => Settled(s.Messages)
    /\ resumes = 0 /\ pc = "act" =>
          /\ Asked(s.Messages, s.PendingTools)
          /\ at > 0 => Results(s.ToolResults, s.PendingTools, at - 1)
    /\ resumes = 0 /\ pc = "observe" /\ ~s.RequiresApproval =>
          \E asked \in CallIds : /\ Asked(s.Messages, asked)
                                 /\ Results(s.ToolResults, asked, Len(asked))

LEMMA NothingAsked ==
    ASSUME NEW m, NEW k, m[k].calls = <<>> PROVE answeredAt(m, k)
  <1>1. DOMAIN m[k].calls = {}
    OBVIOUS
  <1> QED
    BY <1>1 DEF answeredAt

LEMMA AskedLast ==
    ASSUME NEW m \in Transcript, Settled(m), NEW a \in Message
    PROVE  Asked(Append(m, a), a.calls)
  <1> DEFINE n == Append(m, a)
  <1>1. /\ n \in Transcript /\ Continues(m, n) /\ Len(n) = Len(m) + 1
        /\ n[Len(m) + 1] = a
    BY Appended
  <1>2. Len(m) \in Nat /\ DOMAIN m = 1..Len(m)
    BY TranscriptDomain
  <1> HIDE DEF n
  <1>3. n # <<>> /\ n[Len(n)].calls = a.calls
    BY <1>1, <1>2
  <1>4. ASSUME NEW k \in 1..(Len(n) - 1) PROVE answeredAt(n, k)
    <2>1. k \in 1..Len(m)
      BY <1>1, <1>2
    <2>2. answeredAt(m, k)
      BY <1>2, <2>1 DEF Settled
    <2> QED
      BY <1>1, <2>1, <2>2, Continuing
  <1> QED
    BY <1>3, <1>4 DEF Asked, n

LEMMA OneMoreResult ==
    ASSUME NEW rs \in Transcript, NEW asked \in CallIds, NEW k \in 1..Len(asked),
           Results(rs, asked, k - 1), ToolResult(asked[k]) \in Message
    PROVE  Results(Append(rs, ToolResult(asked[k])), asked, k)
  <1> DEFINE a == ToolResult(asked[k])
             ns == Append(rs, a)
  <1>1. Len(ns) = Len(rs) + 1 /\ ns[Len(rs) + 1] = a /\ Continues(rs, ns)
    BY Appended
  <1>2. a.answers = asked[k] /\ a.calls = <<>>
    BY DEF ToolResult
  <1>3. k \in Nat \ {0} /\ Len(rs) = k - 1
    <2>1. Len(asked) \in Nat
      BY LenProperties DEF CallIds
    <2> QED
      BY <2>1 DEF Results
  <1> HIDE DEF a, ns
  <1>4. ASSUME NEW j \in 1..k PROVE ns[j].answers = asked[j] /\ ns[j].calls = <<>>
    <2>1. CASE j = k
      BY <1>1, <1>2, <1>3, <2>1
    <2>2. CASE j # k
      <3>1. j \in 1..(k - 1) /\ j \in 1..Len(rs)
        BY <1>3, <2>2
      <3>2. ns[j] = rs[j]
        BY <1>1, <3>1 DEF Continues
      <3> QED
        BY <3>1, <3>2 DEF Results
    <2> QED
      BY <2>1, <2>2
  <1>5. Len(ns) = k
    BY <1>1, <1>3
  <1> QED
    BY <1>4, <1>5 DEF Results, ns, a

\* All results in order after the message that asked for them answer it.
LEMMA AllAnswered ==
    ASSUME NEW m \in Transcript, NEW rs \in Transcript, NEW asked \in CallIds,
           Asked(m, asked), Results(rs, asked, Len(asked))
    PROVE  Settled(m \o rs)
  <1> DEFINE n == m \o rs
  <1>1. /\ n \in Transcript /\ Continues(m, n) /\ Len(n) = Len(m) + Len(rs)
        /\ \A k \in 1..Len(rs) : n[Len(m) + k] = rs[k]
    BY Concatenated
  <1>2. /\ Len(m) \in Nat /\ Len(rs) \in Nat /\ DOMAIN m = 1..Len(m)
        /\ DOMAIN n = 1..Len(n) /\ Len(asked) \in Nat /\ DOMAIN asked = 1..Len(asked)
    BY <1>1, TranscriptDomain, LenProperties DEF CallIds
  <1>3. Len(m) > 0
    <2>1. m # <<>> /\ m \in Seq(Message)
      BY DEF Asked, Transcript
    <2> QED
      BY <1>2, <2>1, EmptySeq
  <1> HIDE DEF n
  <1>4. ASSUME NEW k \in 1..Len(n) PROVE answeredAt(n, k)
    <2>1. CASE k < Len(m)
      <3>1. k \in 1..(Len(m) - 1) /\ k \in 1..Len(m)
        BY <1>2, <1>4, <2>1
      <3>2. answeredAt(m, k)
        BY <3>1 DEF Asked
      <3> QED
        BY <1>1, <3>1, <3>2, Continuing
    <2>2. CASE k = Len(m)
      <3>1. n[k] = m[k] /\ m[k].calls = asked
        BY <1>2, <1>3, <1>1, <2>2 DEF Asked, Continues
      <3>2. ASSUME NEW j \in 1..Len(asked)
            PROVE  k + j <= Len(n) /\ n[k + j].answers = asked[j]
        <4>1. Len(rs) = Len(asked) /\ rs[j].answers = asked[j]
          BY <3>2 DEF Results
        <4>2. n[k + j] = rs[j]
          BY <1>1, <2>2, <3>2, <4>1
        <4>3. k + j <= Len(n)
          BY <1>1, <1>2, <2>2, <3>2, <4>1
        <4> QED
          BY <4>1, <4>2, <4>3
      <3> QED
        BY <1>2, <3>1, <3>2 DEF answeredAt
    <2>3. CASE k > Len(m)
      <3>1. /\ k - Len(m) \in 1..Len(rs) /\ Len(m) + (k - Len(m)) = k
        BY <1>1, <1>2, <1>4, <2>3
      <3>2. n[k] = rs[k - Len(m)]
        BY <1>1, <3>1
      <3>3. n[k].calls = <<>>
        BY <3>1, <3>2 DEF Results
      <3> QED
        BY <3>3, NothingAsked
    <2>4. k \in Int /\ Len(m) \in Int
      BY <1>2
    <2>5. k < Len(m) \/ k = Len(m) \/ k > Len(m)
      BY <2>4
    <2> QED
      BY <2>1, <2>2, <2>3, <2>5
  <1> QED
    BY <1>2, <1>4 DEF Settled, n

LEMMA AnsweringStep ==
    TypeOK /\ TypeOK' /\ PauseKept /\ Answering /\ [Next]_vars => Answering'
  <1> SUFFICES ASSUME TypeOK, TypeOK', PauseKept, Answering, [Next]_vars
               PROVE  Answering'
    OBVIOUS
  <1>1. /\ s \in AgentState /\ at \in Nat /\ resumes \in Nat
        /\ s.Messages \in Transcript /\ s.ToolResults \in Transcript
        /\ s.PendingTools \in CallIds
    BY FieldValues DEF TypeOK
  <1>2. CASE Run
    <2>1. PICK messages \in Conversations : s' = NewAgentState(messages)
      BY <1>2 DEF Run
    <2>2. Settled(s'.Messages)
      BY <2>1, NewTalk, NothingAsked DEF Settled
    <2> QED
      BY <1>2, <2>2 DEF Run, Answering
  <1>3. CASE ResumeApproved
    BY <1>1, <1>3 DEF ResumeApproved, Answering
  <1>4. CASE ResumeRejected
    BY <1>4 DEF ResumeRejected, Answering
  <1>5. CASE thinkNode
    <2>1. /\ pc = "think" /\ at' = 0 /\ pc' \in {"act", "human_approval", "response"}
          /\ resumes' = resumes
      BY <1>5, ThinkStep
    <2>2. resumes = 0 => Asked(s'.Messages, s'.PendingTools)
      <3>1. PICK a \in Message : /\ a.calls = s'.PendingTools
                                 /\ s'.Messages = Append(s.Messages, a)
        BY <1>5, Thinking
      <3> QED
        BY <1>1, <2>1, <3>1, AskedLast DEF Answering
    <2> QED
      BY <2>1, <2>2 DEF Answering
  <1>6. CASE actBegin
    <2>1. /\ s'.ToolResults = <<>> /\ s'.Messages = s.Messages
          /\ s'.PendingTools = s.PendingTools
          /\ pc \in {"act", "resume_act"} /\ pc' = pc /\ at' = 1 /\ resumes' = resumes
      BY <1>1, <1>6 DEF actBegin, inAct, AgentState, history
    <2>2. Results(s'.ToolResults, s'.PendingTools, at' - 1)
      BY <2>1 DEF Results
    <2> QED
      BY <2>1, <2>2 DEF Answering
  <1>7. CASE actRefuse \/ actExecute
    <2>1. /\ at \in 1..Len(s.PendingTools) /\ pc' = pc /\ pc \in {"act", "resume_act"}
          /\ s'.Messages = s.Messages /\ s'.PendingTools = s.PendingTools
          /\ s'.ToolResults = Append(s.ToolResults, ToolResult(s.PendingTools[at]))
          /\ ToolResult(s.PendingTools[at]) \in Message
          /\ at' = at + 1 /\ resumes' = resumes
      BY <1>7, Serving DEF inAct
    <2>2. at > 0 /\ at' - 1 = at
      BY <1>1, <2>1
    <2>3. resumes = 0 /\ pc = "act" => Results(s'.ToolResults, s.PendingTools, at)
      BY <1>1, <2>1, <2>2, OneMoreResult DEF Answering
    <2> QED
      BY <2>1, <2>2, <2>3 DEF Answering
  <1>8. CASE actPause
    <2>1. /\ s'.RequiresApproval
          /\ \/ pc = "act" /\ pc' = "observe"
             \/ pc = "resume_act" /\ pc' = "resume_observe"
          /\ resumes' = resumes
      BY <1>1, <1>8, PausedFields DEF actPause, atCall, inAct, afterAct, history
    <2> QED
      BY <2>1 DEF Answering
  <1>9. CASE actEnd
    <2>1. /\ s'.ToolResults = s.ToolResults /\ s'.Messages = s.Messages
          /\ at = Len(s.PendingTools) + 1 /\ resumes' = resumes
          /\ \/ pc = "act" /\ pc' = "observe"
             \/ pc = "resume_act" /\ pc' = "resume_observe"
      BY <1>1, <1>9 DEF actEnd, inAct, afterAct, AgentState, history
    <2>2. at > 0 /\ at - 1 = Len(s.PendingTools)
      BY <1>1, <2>1, PendingDomain
    <2>3. resumes = 0 /\ pc = "act" =>
             /\ Asked(s.Messages, s.PendingTools)
             /\ Results(s.ToolResults, s.PendingTools, Len(s.PendingTools))
      BY <2>2 DEF Answering
    <2> QED
      BY <1>1, <2>1, <2>3 DEF Answering
  <1>10. CASE observeNode
    <2>1. /\ s'.Messages = s.Messages \o s.ToolResults /\ resumes' = resumes
          /\ s'.RequiresApproval = s.RequiresApproval
      BY <1>1, <1>10, Observing, ObservedFields DEF observeNode, history
    <2>2. /\ pc = "observe" /\ pc' \in {"response", "human_approval", "think"}
          /\ pc' = "think" => ~s'.RequiresApproval
      BY <1>10 DEF observeNode, routeAfterObserve
    <2>3. resumes = 0 /\ pc' = "think" => Settled(s'.Messages)
      BY <1>1, <2>1, <2>2, AllAnswered DEF Answering
    <2> QED
      BY <2>1, <2>2, <2>3 DEF Answering
  <1>11. CASE resumeObserve
    BY <1>1, <1>11 DEF resumeObserve, Answering, history
  <1>12. CASE humanApprovalNode
    <2>1. pc' = "END"
      BY <1>12 DEF humanApprovalNode, routeAfterApproval, PauseKept
    <2> QED
      BY <2>1 DEF Answering
  <1>13. CASE responseNode
    BY <1>13 DEF responseNode, Answering
  <1>14. CASE finish
    BY <1>14 DEF finish, Answering
  <1>15. CASE abort
    BY <1>15 DEF abort, Answering
  <1>16. CASE UNCHANGED vars
    BY <1>16 DEF vars, history, Answering
  <1> QED
    BY <1>2, <1>3, <1>4, <1>5, <1>6, <1>7, <1>8, <1>9, <1>10, <1>11, <1>12,
       <1>13, <1>14, <1>15, <1>16, StepCases

\* The user's message, when buildMessages adds it, asks for nothing.
LEMMA BuiltSettled ==
    ASSUME NEW st \in AgentState, Settled(st.Messages)
    PROVE  Settled(buildMessages(st))
  <1> DEFINE m == st.Messages
             a == UserMessage("input")
             n == Append(m, a)
  <1>1. m \in Transcript /\ a \in Message /\ a.calls = <<>>
    BY FieldValues DEF UserMessage, Message
  <1>2. /\ n \in Transcript /\ Continues(m, n) /\ Len(n) = Len(m) + 1 /\ n[Len(m) + 1] = a
        /\ Len(m) \in Nat /\ DOMAIN m = 1..Len(m)
    BY <1>1, Appended, TranscriptDomain
  <1>3. DOMAIN n = 1..Len(n)
    BY <1>2, TranscriptDomain
  <1>4. Settled(m)
    OBVIOUS
  <1>5. buildMessages(st) \in {m, n}
    BY DEF buildMessages
  <1> HIDE DEF m, n, a
  <1>6. ASSUME NEW k \in 1..Len(n) PROVE answeredAt(n, k)
    <2>1. CASE k <= Len(m)
      BY <1>1, <1>2, <1>4, <1>6, <2>1, Continuing DEF Settled
    <2>2. CASE k = Len(m) + 1
      BY <1>1, <1>2, <2>2, NothingAsked
    <2> QED
      BY <1>2, <1>6, <2>1, <2>2
  <1> QED
    BY <1>3, <1>4, <1>5, <1>6 DEF Settled

\* Before any pause is resumed, each LLM request answers every earlier tool call
\* at once and in order.
THEOREM PromptsAnswer == Spec => []PromptAnswered
  <1>1. Init => Answering
    BY DEF Init, Answering
  <1>2. TypeOK /\ PauseKept /\ Answering /\ [Next]_vars => Answering'
    BY AnsweringStep, TypeStep
  <1>3. TypeOK /\ Answering => PromptAnswered
    BY BuiltSettled DEF TypeOK, Answering, Settled, PromptAnswered
  <1> QED
    BY <1>1, <1>2, <1>3, PauseKeptHolds, PTL DEF Spec

-----------------------------------------------------------------------------
(* What the user is told                                                   *)

Silent(m) == \A k \in DOMAIN m : m[k].role = "assistant" => m[k].content = "empty"

\* Among finitely many positions there is a last one.
LEMMA LastOne ==
    ASSUME NEW n \in Nat, NEW S \in SUBSET (1..n), S # {}
    PROVE  \E k \in S : \A j \in S : j <= k
  <1> DEFINE T == {n - k : k \in S}
  <1>1. T \subseteq Nat /\ T # {}
    <2>1. \A k \in S : n - k \in Nat
      OBVIOUS
    <2>2. PICK k \in S : TRUE
      OBVIOUS
    <2>3. n - k \in T
      OBVIOUS
    <2> QED
      BY <2>1, <2>3
  <1>2. PICK x \in T : \A y \in T : <<y, x>> \notin OpToRel(<, Nat)
    <2> HIDE DEF T
    <2> QED
      BY <1>1, NatLessThanWellFounded, WFMin
  <1>3. PICK k \in S : x = n - k
    OBVIOUS
  <1>4. ASSUME NEW j \in S PROVE j <= k
    <2>1. n - j \in T /\ n - j \in Nat /\ x \in Nat
      BY <1>1
    <2>2. ~(n - j < x)
      BY <1>2, <2>1 DEF OpToRel
    <2> QED
      BY <1>3, <2>1, <2>2
  <1> QED
    BY <1>4

\* If the last words are empty, the assistant said nothing.
LEMMA LastSaidSilent ==
    ASSUME NEW m \in Transcript, lastSaid(m) = "empty"
    PROVE  Silent(m)
  <1> DEFINE said(k) == m[k].role = "assistant" /\ m[k].content # "empty"
             last(k) == said(k) /\ \A j \in DOMAIN m : said(j) => j <= k
             S == {k \in DOMAIN m : said(k)}
  <1> SUFFICES S = {}
    BY DEF Silent
  <1> SUFFICES ASSUME S # {} PROVE FALSE
    OBVIOUS
  <1>1. \E k \in DOMAIN m : last(k)
    <2>1. Len(m) \in Nat /\ S \in SUBSET (1..Len(m))
      BY TranscriptDomain
    <2>2. PICK k \in S : \A j \in S : j <= k
      <3> HIDE DEF S
      <3> QED
        BY <2>1, LastOne
    <2> QED
      BY <2>2
  <1> DEFINE final == CHOOSE k \in DOMAIN m : last(k)
  <1>2. last(final)
    <2> HIDE DEF last
    <2> QED
      BY <1>1, Zenon
  <1>3. lastSaid(m) = m[final].content
    BY <1>1 DEF lastSaid
  <1> HIDE DEF final
  <1> QED
    BY <1>2, <1>3

\* The inductive invariant: what is about to be returned is empty only if
\* nothing was said, and while the graph runs nothing is returned.
Spoken ==
    /\ SpokenAnswerReturned
    /\ pc # "idle" => output.kind = "none"
    /\ pc = "human_approval" => s.RequiresApproval
    /\ pc = "END" /\ ~s.RequiresApproval /\ s.CurrentOutput = "empty" => Silent(s.Messages)

LEMMA SpokenStep == TypeOK /\ PauseKept /\ Spoken /\ [Next]_vars => Spoken'
  <1> SUFFICES ASSUME TypeOK, PauseKept, Spoken, [Next]_vars
               PROVE  Spoken'
    OBVIOUS
  <1>1. s \in AgentState
    BY DEF TypeOK
  <1>2. ASSUME output'.kind # "completed" PROVE SpokenAnswerReturned'
    BY <1>2 DEF SpokenAnswerReturned
  <1>3. CASE Run
    BY <1>2, <1>3 DEF Run, NoOutput, Spoken
  <1>4. CASE ResumeApproved
    BY <1>2, <1>4 DEF ResumeApproved, NoOutput, Spoken
  <1>5. CASE ResumeRejected
    <2>1. checkpoint \in AgentState
      BY <1>5 DEF ResumeRejected, TypeOK
    <2>2. s'.CurrentOutput # "empty"
      BY <1>5, <2>1 DEF ResumeRejected, AgentState
    <2>3. output'.Response # "empty"
      BY <1>5, <2>2 DEF ResumeRejected, Returned
    <2> QED
      BY <1>5, <2>3 DEF ResumeRejected, Spoken, SpokenAnswerReturned
  <1>6. CASE thinkNode
    <2>1. /\ pc = "think" /\ pc' = routeAfterThink(s') /\ output' = output
          /\ s'.RequiresApproval = s.RequiresApproval
          /\ pc' \in {"act", "human_approval", "response"}
      BY <1>6, ThinkStep
    <2>2. pc' # "human_approval"
      BY <2>1 DEF routeAfterThink, PauseKept
    <2> QED
      BY <1>2, <2>1, <2>2 DEF Spoken
  <1>7. CASE actNode
    <2>1. /\ pc \in {"act", "resume_act"} /\ output' = output
          /\ pc' \in {pc, "observe", "resume_observe"}
      BY <1>7 DEF actNode, actBegin, actRefuse, actPause, actExecute, actEnd, atCall,
                  inAct, afterAct, history
    <2> QED
      BY <1>2, <2>1 DEF Spoken
  <1>8. CASE observeNode
    <2>1. /\ pc = "observe" /\ output' = output
          /\ pc' \in {"response", "human_approval", "think"}
          /\ pc' = "human_approval" => s'.RequiresApproval
      BY <1>8 DEF observeNode, routeAfterObserve
    <2> QED
      BY <1>2, <2>1 DEF Spoken
  <1>9. CASE resumeObserve
    BY <1>2, <1>9 DEF resumeObserve, Spoken
  <1>10. CASE humanApprovalNode
    <2>1. pc' = "END" /\ s'.RequiresApproval /\ pc = "human_approval" /\ output' = output
      BY <1>10 DEF humanApprovalNode, routeAfterApproval, PauseKept, Spoken
    <2> QED
      BY <1>2, <2>1 DEF Spoken
  <1>11. CASE responseNode
    <2>1. /\ pc' = "END" /\ pc = "response" /\ output' = output
          /\ s'.Messages = s.Messages
          /\ s'.CurrentOutput = IF s.CurrentOutput = "empty" THEN lastSaid(s.Messages)
                                                             ELSE s.CurrentOutput
      BY <1>1, <1>11 DEF responseNode, AgentState
    <2>2. s'.CurrentOutput = "empty" => Silent(s'.Messages)
      BY <1>1, <2>1, FieldValues, LastSaidSilent
    <2> QED
      BY <1>2, <2>1, <2>2 DEF Spoken
  <1>12. CASE finish
    <2>1. /\ pc' = "idle" /\ pc = "END" /\ s' = s
          /\ output'.Response = s.CurrentOutput
          /\ output'.kind = "completed" => ~s.RequiresApproval
      BY <1>1, <1>12, FieldValues DEF finish, Returned
    <2>2. SpokenAnswerReturned'
      BY <2>1 DEF Spoken, Silent, SpokenAnswerReturned
    <2> QED
      BY <2>1, <2>2 DEF Spoken
  <1>13. CASE abort
    BY <1>2, <1>13 DEF abort, ErrorOutput, NoOutput, Spoken
  <1>14. CASE UNCHANGED vars
    BY <1>14 DEF vars, Spoken, SpokenAnswerReturned
  <1> QED
    BY <1>3, <1>4, <1>5, <1>6, <1>7, <1>8, <1>9, <1>10, <1>11, <1>12, <1>13, <1>14,
       StepCases DEF actNode

\* If the assistant said anything, the user is not given an empty answer.
THEOREM AnswersAreSpoken == Spec => []SpokenAnswerReturned
  <1>1. Init => Spoken
    BY DEF Init, NoOutput, Spoken, SpokenAnswerReturned
  <1>2. Spoken => SpokenAnswerReturned
    BY DEF Spoken
  <1> QED
    BY <1>1, <1>2, SpokenStep, PauseKeptHolds, PTL DEF Spec

-----------------------------------------------------------------------------
(* What is billed                                                          *)

\* The inductive invariant adds the saved state, which costs what had run when it
\* was saved, and says that a turn begins before anything ran.
Billed ==
    /\ BilledCallsRan
    /\ pc = "idle" /\ output = NoOutput /\ checkpoint = None => ran = 0
    /\ checkpoint # None =>
          /\ checkpoint.ToolCallsCount <= ran
          /\ resumes = 0 => pc = "idle" /\ checkpoint.ToolCallsCount = ran

\* An execution is billed, a refusal is not.
LEMMA ServingCosts ==
    ASSUME TypeOK, actRefuse \/ actExecute
    PROVE  s'.ToolCallsCount - s.ToolCallsCount = ran' - ran
  <1>1. s \in AgentState /\ ran \in Nat /\ s.ToolCallsCount \in Nat
    BY FieldValues DEF TypeOK
  <1>2. addToolResult(s, current).ToolCallsCount = s.ToolCallsCount
    BY <1>1 DEF addToolResult, AgentState
  <1>3. CASE actRefuse
    BY <1>1, <1>2, <1>3 DEF actRefuse, history
  <1>4. CASE actExecute
    <2> DEFINE mid == addToolResult(s, current)
    <2>1. mid = [s EXCEPT !.ToolResults = Append(@, ToolResult(current))]
      BY DEF addToolResult
    <2>2. s' = [mid EXCEPT !.ToolCallsCount = @ + 1] /\ ran' = ran + 1
      BY <1>4 DEF actExecute, executed
    <2> HIDE DEF mid
    <2>3. s'.ToolCallsCount = s.ToolCallsCount + 1
      BY <1>1, <2>1, <2>2 DEF AgentState
    <2> QED
      BY <1>1, <2>2, <2>3
  <1> QED
    BY <1>3, <1>4

LEMMA BilledStep == TypeOK /\ TypeOK' /\ Billed /\ [Next]_vars => Billed'
  <1> SUFFICES ASSUME TypeOK, TypeOK', Billed, [Next]_vars
               PROVE  Billed'
    OBVIOUS
  <1>1. /\ s \in AgentState /\ s' \in AgentState /\ ran \in Nat /\ ran' \in Nat
        /\ s.ToolCallsCount \in Nat /\ s'.ToolCallsCount \in Nat /\ resumes \in Nat
        /\ checkpoint # None => checkpoint.ToolCallsCount \in Nat
    BY FieldValues DEF TypeOK
  <1>2. NoOutput.ToolCallsCount = 0 /\ ErrorOutput.ToolCallsCount = 0 /\ ErrorOutput # NoOutput
    BY DEF NoOutput, ErrorOutput
  <1>3. CASE Run
    <2>1. s'.ToolCallsCount = 0 /\ ran' = ran /\ ran = 0
      BY <1>3, NewTalk DEF Run, Billed, history
    <2> QED
      BY <1>2, <1>3, <2>1 DEF Run, Billed, BilledCallsRan
  <1>4. CASE ResumeApproved
    <2>1. /\ s'.ToolCallsCount = checkpoint.ToolCallsCount /\ ran' = ran /\ checkpoint # None
      BY <1>4, Restoring
    <2>2. /\ checkpoint' = checkpoint /\ resumes' # 0 /\ pc' = "resume_act"
          /\ output' = NoOutput
      BY <1>1, <1>4 DEF ResumeApproved
    <2> QED
      BY <1>1, <1>2, <2>1, <2>2 DEF Billed, BilledCallsRan
  <1>5. CASE ResumeRejected
    <2>1. /\ s'.ToolCallsCount = checkpoint.ToolCallsCount /\ ran' = ran /\ checkpoint # None
      BY <1>5, Restoring
    <2>2. /\ checkpoint' = None /\ resumes' = resumes
          /\ output' = Returned("completed", s')
      BY <1>5 DEF ResumeRejected, history
    <2>3. output'.ToolCallsCount = s'.ToolCallsCount /\ output' # NoOutput
      BY <2>2 DEF Returned, NoOutput
    <2> QED
      BY <1>1, <2>1, <2>2, <2>3 DEF Billed, BilledCallsRan
  <1>6. CASE thinkNode
    <2>1. /\ s'.ToolCallsCount = s.ToolCallsCount /\ ran' = ran
          /\ UNCHANGED <<output, checkpoint, resumes>>
          /\ pc = "think" /\ pc' \in {"act", "human_approval", "response"}
      BY <1>6, ThinkStep DEF thinkNode
    <2> QED
      BY <2>1 DEF Billed, BilledCallsRan
  <1>7. CASE actRefuse \/ actExecute
    <2>1. /\ s'.ToolCallsCount - s.ToolCallsCount = ran' - ran
          /\ UNCHANGED <<output, checkpoint, resumes, pc>> /\ pc \in {"act", "resume_act"}
      BY <1>7, ServingCosts, Serving DEF inAct
    <2>2. ran' >= ran
      BY <1>1, <1>7 DEF actRefuse, actExecute, history
    <2>3. output.ToolCallsCount \in Nat
      BY DEF TypeOK, Output
    <2> QED
      BY <1>1, <2>1, <2>2, <2>3 DEF Billed, BilledCallsRan
  <1>8. CASE observeNode \/ resumeObserve
    <2>1. /\ s'.ToolCallsCount = s.ToolCallsCount /\ ran' = ran
          /\ UNCHANGED <<output, checkpoint, resumes>>
      BY <1>8, Observing DEF history
    <2>2. pc # "idle" /\ pc' # "idle"
      BY <1>8 DEF observeNode, resumeObserve, routeAfterObserve
    <2> QED
      BY <2>1, <2>2 DEF Billed, BilledCallsRan
  <1>9. CASE \/ actPause \/ actEnd \/ actBegin \/ humanApprovalNode \/ responseNode
             \/ UNCHANGED vars
    <2>1. s'.ToolCallsCount = s.ToolCallsCount /\ ran' = ran /\ resumes' = resumes
      BY <1>9, NotTalking
    <2>2. CASE humanApprovalNode
      <3>1. s.IsApproved \in {"nil", "true", "false"}
        BY <1>1, FieldValues
      <3> QED
        BY <2>1, <2>2, <3>1
           DEF humanApprovalNode, routeAfterApproval, Billed, BilledCallsRan
    <2>3. CASE ~humanApprovalNode
      <3>1. UNCHANGED <<output, checkpoint>> /\ (pc = "idle" <=> pc' = "idle")
        BY <1>9, <2>3 DEF actPause, actEnd, actBegin, responseNode, vars, history,
                              atCall, inAct, afterAct
      <3> QED
        BY <2>1, <3>1 DEF Billed, BilledCallsRan
    <2> QED
      BY <2>2, <2>3
  <1>10. CASE finish
    <2>1. s'.ToolCallsCount = s.ToolCallsCount /\ ran' = ran /\ resumes' = resumes
      BY <1>10, NotTalking
    <2>2. /\ output'.ToolCallsCount = s.ToolCallsCount /\ output' # NoOutput
          /\ pc' = "idle" /\ checkpoint' \in {s, None}
      BY <1>10 DEF finish, Returned, NoOutput
    <2> QED
      BY <1>1, <2>1, <2>2 DEF Billed, BilledCallsRan
  <1>11. CASE abort
    <2>1. s'.ToolCallsCount = s.ToolCallsCount /\ ran' = ran /\ resumes' = resumes
      BY <1>11, NotTalking
    <2>2. pc # "idle" /\ pc' = "idle" /\ output' = ErrorOutput /\ checkpoint' = checkpoint
      BY <1>11 DEF abort
    <2> QED
      BY <1>1, <1>2, <2>1, <2>2 DEF Billed, BilledCallsRan
  <1> QED
    BY <1>3, <1>4, <1>5, <1>6, <1>7, <1>8, <1>9, <1>10, <1>11, StepCases

\* The tool calls billed never exceed the tools run, and before a resume they are
\* exactly those.
THEOREM Billing == Spec => []BilledCallsRan
  <1>1. Init => Billed
    BY DEF Init, NewAgentState, NoOutput, Billed, BilledCallsRan
  <1>2. TypeOK /\ Billed /\ [Next]_vars => Billed'
    BY BilledStep, TypeStep
  <1>3. Billed => BilledCallsRan
    BY DEF Billed
  <1> QED
    BY <1>1, <1>2, <1>3, Typing, PTL DEF Spec
=============================================================================
