---------------------------- MODULE MCToolServer ----------------------------
(* What two requests may ask of the tool server: each operation, with no    *)
(* list of tools, with "*" and with one tool, and batches with every kind   *)
(* of refusal.                                                              *)
EXTENDS ToolServer

Of(op, allowed, names) == [op |-> op, allowed |-> allowed, calls |-> names]

All == {"*"}
One == {"calculator"}

SomeAsks ==
    {Of("ready", {}, <<>>),
     Of("list", {}, <<>>), Of("list", All, <<>>), Of("list", One, <<>>),
     Of("execute", All, <<"calculator">>), Of("execute", {}, <<"other">>),
     Of("batch", {}, <<>>), Of("batch", All, <<"calculator", "web_search">>),
     Of("batch", One, <<"web_search", "calculator">>)}
=============================================================================
