--------------------------- MODULE WorkflowEngine ---------------------------
(***************************************************************************)
(* What application/port/workflow_engine.go promises its callers, over one *)
(* user turn: Run and Resume end in an error, in an answer, or in a pause  *)
(* with a saved state from which a later Resume starts.                    *)
(***************************************************************************)
EXTENDS EngineContract

CONSTANT
    None            \* nil

VARIABLES
    op,             \* "none", "run" or "resume": the call being served
    result,         \* the WorkflowOutput, or error, of the last call
    checkpoint      \* the costs inside the saved state the caller holds

engineVars == <<op, result, checkpoint>>

Failure == [kind |-> "error", tokens |-> 0, tools |-> 0]
Nothing == [kind |-> "none", tokens |-> 0, tools |-> 0]

-----------------------------------------------------------------------------

Init ==
    /\ op = "none"
    /\ result = Nothing
    /\ checkpoint = None

Run ==
    /\ op = "none" /\ result = Nothing
    /\ op' = "run"
    /\ UNCHANGED <<result, checkpoint>>

Approve ==
    /\ op = "none" /\ checkpoint # None
    /\ op' = "resume"
    /\ result' = Nothing
    /\ UNCHANGED checkpoint

Reject ==
    /\ op = "none" /\ checkpoint # None
    /\ result' = Refusal(checkpoint)
    /\ checkpoint' = None
    /\ UNCHANGED op

Answer ==
    /\ op # "none"
    /\ result' \in Outcomes(IF op = "run" THEN Free ELSE checkpoint)
    /\ checkpoint' = IF result'.kind = "paused" THEN CostOf(result') ELSE None
    /\ op' = "none"

Fail ==
    /\ op # "none"
    /\ result' = Failure
    /\ op' = "none"
    /\ UNCHANGED checkpoint

Next == Run \/ Approve \/ Reject \/ Answer \/ Fail

\* An engine that was called returns.
Spec == Init /\ [][Next]_engineVars /\ WF_engineVars(Fail \/ Answer)
=============================================================================
