---------------------------- MODULE ToolRegistry ----------------------------
(***************************************************************************)
(* ToolRegistry (usecase/tool/tool_registry.go): a map of tools under a    *)
(* sync.RWMutex.  A writer that has called Lock waits for the readers that *)
(* are there and keeps new ones out, also a goroutine that reads already.  *)
(*                                                                         *)
(* What a goroutine does between RLock and RUnlock is part of RUnlock: no  *)
(* writer is in the map meanwhile.  A tool is its name.                    *)
(***************************************************************************)
EXTENDS Integers

CONSTANTS Goroutines, None

VARIABLES
    tools,      \* r.tools
    readers,    \* how often each goroutine holds the read lock
    writer      \* the goroutine that called Lock and has not unlocked, or None

RegistryInit ==
    /\ tools = {}
    /\ readers = [g \in Goroutines |-> 0]
    /\ writer = None

RegistryTypeOK(Names) ==
    /\ tools \subseteq Names
    /\ readers \in [Goroutines -> 0..2]
    /\ writer \in Goroutines \cup {None}

-----------------------------------------------------------------------------
(* The lock                                                                *)

Lock(g) == writer = None /\ writer' = g /\ UNCHANGED <<tools, readers>>

holdsLock(g) == writer = g /\ \A h \in Goroutines : readers[h] = 0

RLock(g) ==
    /\ writer = None
    /\ readers' = [readers EXCEPT ![g] = @ + 1]
    /\ UNCHANGED <<tools, writer>>

\* g returns from every function that holds the read lock for it.
RUnlock(g) ==
    /\ readers[g] > 0
    /\ readers' = [readers EXCEPT ![g] = 0]
    /\ UNCHANGED <<tools, writer>>

-----------------------------------------------------------------------------
(* Register after Lock, and what Get, List and ListForToken return         *)

Register(g, name) ==
    /\ holdsLock(g)
    /\ tools' = tools \cup {name}
    /\ writer' = None
    /\ UNCHANGED readers

Get(name) == name \in tools

List == tools

\* ListForToken calls List with the read lock in its hand.
listsAgain(allowed) == "*" \in allowed

ListForToken(allowed) ==
    IF allowed = {} \/ listsAgain(allowed) THEN List ELSE tools \cap allowed
=============================================================================
