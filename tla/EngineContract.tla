--------------------------- MODULE EngineContract ---------------------------
(***************************************************************************)
(* The values that cross the port.WorkflowEngine interface of              *)
(* application/port/workflow_engine.go: what Run and Resume may return to  *)
(* the use cases.  The interface does not speak of costs; that those which *)
(* Resume returns (tokens, tool calls) include those of the saved state it *)
(* is given is what its only implementation does, and what the use cases   *)
(* are checked against.                                                    *)
(***************************************************************************)
EXTENDS Integers

CONSTANT
    Amount          \* the values a cost can take: Nat, or 0..k for TLC

Free == [tokens |-> 0, tools |-> 0]

\* What a call that starts from the costs `base` may return: it forgets no
\* cost already counted.  It need not add any: the LLM provider may report no
\* usage.
Outcomes(base) ==
    {o \in [kind : {"completed", "paused"}, tokens : Amount, tools : Amount] :
        o.tokens >= base.tokens /\ o.tools >= base.tools}

\* What rejecting the pending action returns: an answer at no further cost.
Refusal(base) ==
    [kind |-> "completed", tokens |-> base.tokens, tools |-> base.tools]

CostOf(o) == [tokens |-> o.tokens, tools |-> o.tools]
=============================================================================
